------------------------------ MODULE RouteMemory ------------------------------
(***************************************************************************)
(* What the proxy remembers of the models of a route (server.py,           *)
(* model_route_cache), and the order in which a route's models are tried   *)
(* for a request (upstream/router.py).  A request asks for the model Own;  *)
(* its entry, and those of the models tried in its place, are records that *)
(* Remember maps to their next value.                                      *)
(***************************************************************************)
EXTENDS Integers, FiniteSets, SequencesExt

CONSTANTS
    Own,            \* the model that requests ask for
    Models,         \* Own and whatever may be tried in its place
    Similar,        \* models whose names match Own's well enough to stand in
    RememberFor,    \* MODEL_ROUTE_CACHE_TTL_SECONDS
    ModelCooldown,  \* MODEL_ROUTE_FAILURE_COOLDOWN_SECONDS
    FreshFor        \* the time over which a success counts as fresh

ASSUME MemoryAssumption ==
    /\ IsFiniteSet(Models) /\ Own \in Models /\ Similar \subseteq Models \ {Own}
    /\ RememberFor \in Nat /\ ModelCooldown \in Nat /\ FreshFor \in {1, 2, 4, 5}

\* Scores are counted in twentieths, doubled: a mean of two stays whole.
Unit == 40

\* expires = 0: there is no such entry.  The clock starts at 1.
NoEntry == [score |-> 0, successes |-> 0, failures |-> 0, succeededAt |-> 0,
            until |-> 0, expires |-> 0]

Entries == [score : Int, successes : Nat, failures : Nat, succeededAt : Nat,
            until : Nat, expires : Nat]

\* record_model_candidate_result: an entry that has expired is taken up again.
Remember(entry, success, now) ==
    IF success
    THEN [score |-> (IF entry.score > 0 THEN entry.score ELSE 0) + 4,
          successes |-> entry.successes + 1, failures |-> 0, succeededAt |-> now,
          until |-> 0, expires |-> now + RememberFor]
    ELSE [entry EXCEPT !.score = @ - 3, !.failures = @ + 1,
                       !.until = IF entry.failures + 1 >= 2 THEN now + ModelCooldown ELSE @,
                       !.expires = now + RememberFor]

Live(entry, now) == entry.expires > now

\* get_model_candidate_score
CandidateScore(entry, now) ==
    IF ~Live(entry, now) THEN 0 ELSE IF entry.until > now THEN -1000 ELSE entry.score

\* get_route_score: the mean over the models of the route, and a bonus that
\* falls while the last success ages.  Successes add up without a limit.
Worth(entry) ==
    Unit * entry.score + (4 * (Unit \div 5)) * entry.successes - (3 * (Unit \div 5)) * entry.failures

RouteScore(entries, now) ==
    LET live == {m \in Models : Live(entries[m], now)}
        total == FoldSet(LAMBDA m, sum : sum + Worth(entries[m]), 0, live)
        last == FoldSet(LAMBDA m, late : IF entries[m].succeededAt > late
                                         THEN entries[m].succeededAt ELSE late, 0, live)
        age == now - last
    IN IF live = {} THEN 0
       ELSE total \div Cardinality(live)
            + IF last = 0 \/ age >= FreshFor THEN 0 ELSE (Unit \div FreshFor) * (FreshFor - age)

(***************************************************************************)
(* Sequences                                                               *)
(***************************************************************************)
\* The elements of a sequence that are in a set, in their order
Among(seq, set) ==
    LET upTo[k \in 0 .. Len(seq)] ==
            IF k = 0 THEN <<>>
            ELSE IF seq[k] \in set THEN Append(upTo[k - 1], seq[k]) ELSE upTo[k - 1]
    IN upTo[Len(seq)]

\* The orders of a set in which nothing stands behind what it comes before
Sorted(set, before(_, _)) ==
    {s \in SetToSeqs(set) :
        \A j \in DOMAIN s : \A i \in 1 .. (j - 1) : ~before(s[j], s[i])}

(***************************************************************************)
(* The models of a route, in the order in which they are tried             *)
(***************************************************************************)
\* get_cached_route_model_candidates: models that were answered with success
\* and whose failures since do not outweigh it, ...
Good(entries, now) ==
    {m \in Models : /\ Live(entries[m], now) /\ entries[m].until <= now
                    /\ entries[m].successes > 0 /\ entries[m].score > 0}

\* ... and their order, the best first
Better(one, other) ==
    \/ one.score > other.score
    \/ one.score = other.score /\ one.succeededAt > other.succeededAt

\* The models of a route which its configuration names for the request
Locked(configured) == Own \notin Range(configured)

Found(offered, models) == Among(models, Range(offered))

Discovered(configured, offered) == Among(offered, Similar \ Range(configured))

\* With an alias nothing but its targets is tried; else, while upstream's list
\* has none of them, what is similar comes first.  A model counts where it
\* stands first.
Gathered(configured, offered) ==
    IF ~Locked(configured) /\ offered # <<>> /\ Found(offered, configured) = <<>>
    THEN Discovered(configured, offered) \o configured
    ELSE Found(offered, configured) \o configured
         \o (IF Locked(configured) THEN <<>> ELSE Discovered(configured, offered))

Place(models, m) ==
    CHOOSE k \in DOMAIN models : models[k] = m /\ \A j \in 1 .. (k - 1) : models[j] # m

TriedBefore(entries, offered, models, now, m, n) ==
    LET missing(x) == IF x \in Range(offered) THEN 0 ELSE 1
        score(x) == CandidateScore(entries[x], now)
    IN \/ score(m) > score(n)
       \/ /\ score(m) = score(n)
          /\ \/ missing(m) < missing(n)
             \/ missing(m) = missing(n) /\ Place(models, m) < Place(models, n)

SortByScore(entries, offered, models, now) ==
    Sorted(Range(models), LAMBDA m, n : TriedBefore(entries, offered, models, now, m, n))

Remembered(entries, configured, now) ==
    {m \in Good(entries, now) : Locked(configured) => m \in Range(configured)}

\* Remembered models come before the configured ones, cooling or not; these are
\* each configured once.
RememberedFirst(entries, configured, now) ==
    {s \o Among(configured, Models \ Remembered(entries, configured, now)) :
        s \in Sorted(Remembered(entries, configured, now),
                     LAMBDA m, n : Better(entries[m], entries[n]))}

\* A faulty variant for the check: a manual list of models is not obeyed.
CandidateOrdersUnlisted(entries, configured, manual, offered, now) ==
    IF Remembered(entries, configured, now) # {}
    THEN RememberedFirst(entries, configured, now)
    ELSE SortByScore(entries, offered, Gathered(configured, offered), now)

\* build_model_candidate_order_for_route, each order that it may give
CandidateOrders(entries, configured, manual, offered, now) ==
    IF manual # {} THEN {Among(configured, manual)}
    ELSE IF Remembered(entries, configured, now) # {}
    THEN RememberedFirst(entries, configured, now)
    ELSE SortByScore(entries, offered, Gathered(configured, offered), now)
===============================================================================
