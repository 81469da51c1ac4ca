--------------------------- MODULE MCRouteSelection ---------------------------
EXTENDS RouteSelection, TLC

CONSTANTS a, b, c, own, other

MCListed == <<a, b, c>>
MCPriority == [route \in AllRoutes |-> IF route = c THEN 2 ELSE 1]
MCOffers == {<<other, own>>, <<other>>, <<>>}
MCSession == [r \in Requests |-> "session"]

Symmetry == Permutations(Requests)

Plain == [random |-> FALSE, sensitive |-> FALSE, explicit |-> FALSE,
          aliases |-> [route \in AllRoutes |-> <<>>], supported |-> [route \in AllRoutes |-> {}]]

\* Explicit sessions, fingerprints of cached prompts, and routes that name
\* models: a by an alias, c by an alias and a manual list that holds less.
MCConfigs ==
    {[Plain EXCEPT !.explicit = TRUE, !.random = TRUE],
     [Plain EXCEPT !.sensitive = TRUE],
     [Plain EXCEPT !.aliases = [@ EXCEPT ![a] = <<other>>, ![c] = <<other, own>>],
                   !.supported = [@ EXCEPT ![c] = {own}]]}

\* One request is on a route while the other looks, ranks or rests.
OneOnRoute == \E r \in Requests : request[r].pc \notin {"choosing", "asking"}
===============================================================================
