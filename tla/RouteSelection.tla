---------------------------- MODULE RouteSelection ----------------------------
(***************************************************************************)
(* The choice of a route, and of a model on it, for each attempt of the    *)
(* requests (upstream/router.py and its wrappers in server.py): routes in  *)
(* cooldown are left out, the others are ranked by priority, memory and    *)
(* failures, a session returns to its route and equal routes take turns.   *)
(*                                                                         *)
(* A request looks at the cooldowns without the lock that protects the     *)
(* ranking: these are two steps.  The two reports of an outcome, to the    *)
(* health and to the memory of the route, are one; each takes a tick.      *)
(***************************************************************************)
EXTENDS RouteMemory

CONSTANTS
    AllRoutes,          \* the routes of the configuration
    Listed,          \* ... in its order: a sequence
    Priority,        \* Priority[route], 1 is the best
    Offers,          \* the lists of models an upstream may give; <<>> when it fails
    Requests,        \* threads, each serves one request after another
    Session,         \* Session[request]
    Configs,         \* what may be configured: [random, sensitive, explicit,
                     \* aliases, supported]
    NoRoute,
    Threshold,       \* UPSTREAM_ROUTE_FAILURE_THRESHOLD
    Cooldown,        \* route_cooldown_seconds, or the longer switch window
    CooldownMax,
    CooldownTimes,   \* route_cooldown_multiplier
    PriorityWeight,  \* ROUTE_PRIORITY_SCORE_MULTIPLIER
    ProbeFor,        \* MODEL_PROBE_TTL_SECONDS
    IdleAfter,       \* the time after which a rotation starts over
    MaxClock         \* bound: ticks, and so reports

\* The cooldowns that a run can come to are whole numbers of ticks.
ASSUME SelectionAssumption ==
    /\ IsFiniteSet(AllRoutes) /\ NoRoute \notin AllRoutes
    /\ Listed \in Seq(AllRoutes)
    /\ Range(Listed) = AllRoutes /\ Len(Listed) = Cardinality(AllRoutes)
    /\ Offers \subseteq Seq(Models)
    /\ \A c \in Configs : /\ c.aliases \in [AllRoutes -> Seq(Models)]
                          /\ c.supported \in [AllRoutes -> SUBSET Models]
    /\ Priority \in [AllRoutes -> Int] /\ PriorityWeight \in Nat
    /\ Threshold \in Nat \ {0} /\ ProbeFor \in Nat /\ MaxClock \in Nat
    /\ Cooldown \in Nat /\ CooldownMax \in Nat /\ Cooldown <= CooldownMax
    /\ CooldownTimes >= 1 /\ \A k \in 0 .. MaxClock : CooldownTimes ^ k \in Nat

VARIABLES
    now,
    config,    \* aliases[route] are the models an alias names for Own, or <<>>;
               \* supported[route] those of a manual list, or {}; sessions are
               \* explicit or fingerprints of the prompt
    health,    \* route_health: [failures, until, failedAt]
    memory,    \* model_route_cache["routes"]: entries of the models of a route
    lists,     \* model_route_cache["model_lists"]: [models, expires]
    cursor,    \* route_selection_state: the rotation of a group of routes
    home,      \* ... and the route of a session
    request,   \* [pc, blocked, active, cycle], and per route the order of its
               \* models, <<>> until it is asked, and the place of the one tried
    \* History, for the properties only:
    shaken,    \* sessions whose route failed, or was cooling when it was chosen
    looked,    \* requests whose session's route was chosen after they looked
    doubted    \* routes where Own has failed or was missing in a list

state == <<config, health, memory, lists, cursor, home>>
history == <<shaken, looked, doubted>>
routeVars == <<now, state, request, history>>

Sessions == {Session[r] : r \in Requests}

RouteTypeOK ==
    /\ now \in Nat \ {0} /\ config \in Configs
    /\ health \in [AllRoutes -> [failures : Nat, until : Nat, failedAt : Nat]]
    /\ memory \in [AllRoutes -> [Models -> Entries]]
    /\ lists \in [AllRoutes -> [models : Seq(Models), expires : Nat]]
    /\ \A g \in DOMAIN cursor : g \in Seq(AllRoutes) /\ cursor[g].at \in 0 .. (Len(g) - 1)
    /\ home \in [Sessions -> AllRoutes \cup {NoRoute}]
    /\ request \in [Requests ->
          [pc : {"idle", "looking", "ranking", "choosing", "asking"},
           blocked : SUBSET AllRoutes, active : Seq(AllRoutes), cycle : Seq(AllRoutes),
           order : [AllRoutes -> Seq(Models)], tried : [AllRoutes -> Nat]]]
    /\ \A r \in Requests :
          /\ request[r].pc = "ranking" => request[r].active # <<>>
          /\ request[r].pc \in {"choosing", "asking"} => request[r].cycle # <<>>
          /\ request[r].pc = "asking" =>
                LET route == Head(request[r].cycle)
                IN request[r].tried[route] \in 1 .. Len(request[r].order[route])
          /\ \A route \in AllRoutes :
                LET order == request[r].order[route]
                IN request[r].tried[route] \in 1 .. IF order = <<>> THEN 1 ELSE Len(order)
    /\ shaken \subseteq Sessions /\ looked \subseteq Requests /\ doubted \subseteq AllRoutes

Configured(route) == IF config.aliases[route] = <<>> THEN <<Own>> ELSE config.aliases[route]

(***************************************************************************)
(* filter_route_urls_for_payload_model: routes that name the model; when   *)
(* none does, the others, unless one names any model at all                *)
(***************************************************************************)
Names(route) ==
    \/ config.aliases[route] # <<>>
    \/ Own \in config.supported[route]

Candidates ==
    LET naming == Among(Listed, {route \in AllRoutes : Names(route)})
    IN IF naming # <<>> THEN naming
       ELSE IF \E route \in AllRoutes : config.supported[route] # {} THEN <<>> ELSE Listed

Idle == [pc |-> "idle", blocked |-> {}, active |-> <<>>, cycle |-> <<>>,
         order |-> [route \in AllRoutes |-> <<>>], tried |-> [route \in AllRoutes |-> 1]]

RouteInit ==
    /\ now = 1
    /\ config \in Configs
    /\ health = [route \in AllRoutes |-> [failures |-> 0, until |-> 0, failedAt |-> 0]]
    /\ memory = [route \in AllRoutes |-> [m \in Models |-> NoEntry]]
    /\ lists = [route \in AllRoutes |-> [models |-> <<>>, expires |-> 0]]
    /\ cursor = <<>>
    /\ home = [s \in Sessions |-> NoRoute]
    /\ request = [r \in Requests |-> Idle]
    /\ shaken = {} /\ looked = {} /\ doubted = {}

Cooling(route) == health[route].until > now

Remaining(r) == Among(Candidates, AllRoutes \ request[r].blocked)

(***************************************************************************)
(* build_attempt_url_cycle                                                 *)
(***************************************************************************)
\* The routes that do not cool, or all when every one does.  A single one is
\* taken as it is: no session is told of it.
Look(r) ==
    /\ request[r].pc \in {"idle", "looking"} /\ now < MaxClock
    /\ \E warm \in {Among(Remaining(r), {route \in AllRoutes : ~Cooling(route)})} :
       \E active \in {IF warm = <<>> THEN Remaining(r) ELSE warm} :
          request' = [request EXCEPT
              ![r].active = active, ![r].cycle = active,
              ![r].pc = IF active = <<>> THEN "idle"
                        ELSE IF Len(active) = 1 THEN "choosing" ELSE "ranking"]
    /\ looked' = looked \ {r}
    /\ UNCHANGED <<now, state, shaken, doubted>>

\* A faulty variant for the check: the priority is one more term of the score.
ScoreUnweighted(route) == RouteScore(memory[route], now) - Priority[route]

\* get_route_selection_score, failures, and the time of the last failure: the
\* route that failed last comes first among those that are otherwise equal.
Score(route) == RouteScore(memory[route], now) - PriorityWeight * Priority[route]
RankOf(route) == <<-Score(route), health[route].failures, -health[route].failedAt>>

Before(p, q) ==
    \E k \in 1 .. 3 : p[k] < q[k] /\ \A j \in 1 .. (k - 1) : p[j] = q[j]

\* The routes of one rank, in the order given, and the best rank first
Peers(active, rank, one) == Among(active, {route \in AllRoutes : rank[route] = rank[one]})

Groups(active, rank) ==
    Sorted({Peers(active, rank, one) : one \in Range(active)},
           LAMBDA g, h : Before(rank[Head(g)], rank[Head(h)]))

\* should_apply_session_route_affinity
Attached == config.explicit \/ config.sensitive \/ ~config.random

\* Without a session of its own a request of a prompt-cache sensitive route
\* prefers its route among the best only.
WithinTop == config.sensitive /\ ~config.explicit

Preferred(r, groups) ==
    LET route == home[Session[r]]
        among == IF WithinTop THEN Range(groups[1]) ELSE UNION {Range(g) : g \in Range(groups)}
    IN IF Attached /\ route \in among THEN <<route>> ELSE <<>>

WithoutRoutes(groups, taken) ==
    LET cut == [k \in DOMAIN groups |-> Among(groups[k], AllRoutes \ Range(taken))]
    IN Among(cut, Range(cut) \ {<<>>})

\* _rotate_route_group: from the cursor of the group on; at random the cursor
\* is moved by some jitter and all but the first are shuffled, or two swapped.
CursorOf(group) ==
    IF group \in DOMAIN cursor /\ now - cursor[group].used <= IdleAfter THEN cursor[group].at ELSE 0

From(group, k) == SubSeq(group, k + 1, Len(group)) \o SubSeq(group, 1, k)

Shuffled(turned) ==
    IF Len(turned) = 2 THEN {turned, <<turned[2], turned[1]>>}
    ELSE {p \in SetToSeqs(Range(turned)) : p[1] = turned[1]}

Turns(group) ==
    IF Len(group) = 1 THEN {[order |-> group, at |-> 0]}
    ELSE IF ~config.random
    THEN {[order |-> From(group, CursorOf(group)), at |-> (CursorOf(group) + 1) % Len(group)]}
    ELSE UNION {{[order |-> p, at |-> (k + 1) % Len(group)] : p \in Shuffled(From(group, k))} :
                   k \in 0 .. (Len(group) - 1)}

AllTurns(groups) ==
    {pick \in [DOMAIN groups -> UNION {Turns(g) : g \in Range(groups)}] :
        \A k \in DOMAIN groups : pick[k] \in Turns(groups[k])}

Joined(turns) ==
    LET upTo[k \in 0 .. Len(turns)] ==
            IF k = 0 THEN <<>> ELSE upTo[k - 1] \o turns[k].order
    IN upTo[Len(turns)]

\* A faulty variant for the check: the session's route is not returned to.
SettleAfresh(r, head, groups, turns) ==
    LET cycle == Joined(turns) \o head
    IN /\ request' = [request EXCEPT ![r].cycle = cycle, ![r].pc = "choosing"]
       /\ cursor' = cursor
       /\ home' = IF Attached THEN [home EXCEPT ![Session[r]] = cycle[1]] ELSE home

\* The cycle, the cursors of its groups and the session's route are stored.
Settle(r, head, groups, turns) ==
    LET cycle == head \o Joined(turns)
        rotated == {g \in Range(groups) : Len(g) > 1}
        at(g) == turns[CHOOSE k \in DOMAIN groups : groups[k] = g].at
    IN /\ request' = [request EXCEPT ![r].cycle = cycle, ![r].pc = "choosing"]
       /\ cursor' = [g \in rotated \cup DOMAIN cursor |->
                        IF g \in rotated THEN [at |-> at(g), used |-> now] ELSE cursor[g]]
       /\ home' = IF Attached THEN [home EXCEPT ![Session[r]] = cycle[1]] ELSE home

SessionMoves(r) ==
    IF home' = home THEN UNCHANGED <<shaken, looked>>
    ELSE /\ shaken' = IF Cooling(home'[Session[r]]) THEN shaken \cup {Session[r]}
                      ELSE shaken \ {Session[r]}
         /\ looked' = looked \cup
                {q \in Requests \ {r} : Session[q] = Session[r] /\ request[q].pc = "ranking"}

Rank(r) ==
    /\ request[r].pc = "ranking"
    /\ \E rank \in {[route \in AllRoutes |-> RankOf(route)]} :
       \E groups \in Groups(request[r].active, rank) :
       \E head \in {Preferred(r, groups)} :
       \E rest \in {WithoutRoutes(groups, head)} :
       \E turns \in AllTurns(rest) : Settle(r, head, rest, turns)
    /\ SessionMoves(r)
    /\ UNCHANGED <<now, config, health, memory, lists, doubted>>

(***************************************************************************)
(* The model                                                               *)
(***************************************************************************)
\* The route is given up: the routes are looked at again, while one is left.
Leave(r) ==
    LET blocked == request[r].blocked \cup {Head(request[r].cycle)}
    IN request' = [request EXCEPT ![r] =
           IF Range(Candidates) \subseteq blocked THEN Idle
           ELSE [@ EXCEPT !.pc = "looking", !.blocked = blocked, !.active = <<>>, !.cycle = <<>>]]

\* fetch_upstream_model_list: a list is kept for some time, an empty one of a
\* failed probe too; with a manual list or a remembered model none is asked for.
Probed(route) ==
    /\ config.supported[route] = {}
    /\ Remembered(memory[route], Configured(route), now) = {}

Probe(route, offered) ==
    IF ~Probed(route) THEN offered = <<>> /\ UNCHANGED lists
    ELSE IF lists[route].expires > now THEN offered = lists[route].models /\ UNCHANGED lists
    ELSE lists' = [lists EXCEPT ![route] = [models |-> offered, expires |-> now + ProbeFor]]

\* A route that the request comes back to keeps the order it was first given.
OrdersFor(r, route, offered) ==
    IF request[r].order[route] # <<>> THEN {request[r].order[route]}
    ELSE CandidateOrders(memory[route], Configured(route), config.supported[route], offered, now)

Choose(r, offered) ==
    LET route == Head(request[r].cycle)
    IN /\ request[r].pc = "choosing"
       /\ Probe(route, offered)
       /\ \E order \in OrdersFor(r, route, offered) :
             IF order = <<>> THEN Leave(r)
             ELSE request' = [request EXCEPT ![r].order[route] = order, ![r].pc = "asking"]
       /\ doubted' = IF offered # <<>> /\ Own \notin Range(offered) THEN doubted \cup {route}
                     ELSE doubted
       /\ UNCHANGED <<now, config, health, memory, cursor, home, shaken, looked>>

(***************************************************************************)
(* The outcome                                                             *)
(***************************************************************************)
Asked(r) == Head(request[r].cycle)
Model(r) == request[r].order[Asked(r)][request[r].tried[Asked(r)]]
Ticks == now < MaxClock /\ now' = now + 1

Tell(r, success) ==
    /\ memory' = [memory EXCEPT ![Asked(r)][Model(r)] = Remember(@, success, now)]
    /\ doubted' = IF ~success /\ Model(r) = Own THEN doubted \cup {Asked(r)} ELSE doubted

\* mark_route_success
Answers(r) ==
    /\ request[r].pc = "asking" /\ Ticks
    /\ health' = [health EXCEPT ![Asked(r)].failures = 0, ![Asked(r)].until = 0]
    /\ Tell(r, TRUE)
    /\ request' = [request EXCEPT ![r] = Idle]
    /\ UNCHANGED <<config, lists, cursor, home, shaken, looked>>

CooldownAfter(excess) ==
    LET grown == Cooldown * CooldownTimes ^ excess
    IN IF grown < CooldownMax THEN grown ELSE CooldownMax

\* mark_route_failure; a strict reason needs no second failure, but the length
\* of its cooldown counts all the failures before it.
Failed(entry, strict) ==
    LET failures == entry.failures + 1
        needed == IF strict THEN 1 ELSE Threshold
        until == now + CooldownAfter(failures - needed)
    IN [failures |-> failures, failedAt |-> now,
        until |-> IF failures >= needed /\ until > entry.until THEN until ELSE entry.until]

\* What a failure may be: an exception, which is told to the memory of the
\* model too; an answer that says the route or the model is of no use, or that
\* a key or a quota is spent, or that a retry may help: only that one leaves the
\* health of the route as it is.
Kinds == {"exception", "useless", "spent", "passing"}

Others(r) == Range(Candidates) \ (request[r].blocked \cup {Asked(r)})

\* The same route once more, with another key or fewer tokens, or when its
\* limit of requests has had a while: it is put in front of the cycle again.
Again(r) == request' = [request EXCEPT ![r].pc = "choosing"]

\* After a delay the next route of the cycle is taken, and when the cycle is
\* used up the routes that are not given up are looked at again.
Onward(r) ==
    LET rest == Tail(request[r].cycle)
    IN request' = [request EXCEPT ![r].cycle = rest,
                                  ![r].pc = IF rest = <<>> THEN "looking" ELSE "choosing"]

\* While another route is left an exception always leaves this one.
Afterwards(r, kind) ==
    \/ Others(r) # {} /\ Leave(r)
    \/ kind # "exception" /\ Again(r)
    \/ (kind # "exception" \/ Others(r) = {})
       /\ (Onward(r) \/ request' = [request EXCEPT ![r] = Idle])

Fail(r, kind) ==
    /\ request[r].pc = "asking" /\ Ticks
    /\ health' = IF kind = "passing" THEN health
                 ELSE [health EXCEPT ![Asked(r)] = Failed(@, kind # "spent")]
    /\ shaken' = IF kind = "passing" THEN shaken
                 ELSE shaken \cup {s \in Sessions : home[s] = Asked(r)}
    /\ IF kind = "exception" THEN Tell(r, FALSE) ELSE UNCHANGED <<memory, doubted>>
    /\ Afterwards(r, kind)
    /\ UNCHANGED <<config, lists, cursor, home, looked>>

\* The model is unavailable, and no other route is left: its next model.
AskNext(r) ==
    /\ request[r].pc = "asking" /\ Others(r) = {} /\ Ticks
    /\ request[r].tried[Asked(r)] < Len(request[r].order[Asked(r)])
    /\ health' = [health EXCEPT ![Asked(r)] = Failed(@, TRUE)]
    /\ shaken' = shaken \cup {s \in Sessions : home[s] = Asked(r)}
    /\ Tell(r, FALSE)
    /\ request' = [request EXCEPT ![r].tried[Asked(r)] = @ + 1, ![r].pc = "choosing"]
    /\ UNCHANGED <<config, lists, cursor, home, looked>>

Tick == Ticks /\ UNCHANGED <<state, request, history>>

RouteNext ==
    \/ \E r \in Requests :
          \/ Look(r) \/ Rank(r) \/ Answers(r) \/ AskNext(r)
          \/ \E offered \in Offers : Choose(r, offered)
          \/ \E kind \in Kinds : Fail(r, kind)
    \/ Tick

RouteSpec == RouteInit /\ [][RouteNext]_routeVars

(***************************************************************************)
(* Properties                                                              *)
(***************************************************************************)
Ranked(r) == request[r].pc = "ranking" /\ request'[r].pc = "choosing"

\* A ranking never puts a route before one of a better priority, whatever the
\* requests before it have remembered and failed, unless it is the route of an
\* explicit or unconditional session, or its memory of successes, which is not
\* limited, has outgrown the weight of the priorities.
PriorityHonoured ==
    [][\A r \in Requests : Ranked(r) =>
          \A j \in DOMAIN request'[r].cycle : \A i \in 1 .. (j - 1) :
             LET first == request'[r].cycle[i]
                 later == request'[r].cycle[j]
             IN \/ Priority[first] <= Priority[later]
                \/ i = 1 /\ first = home[Session[r]] /\ Attached /\ ~WithinTop
                \/ RouteScore(memory[first], now) - RouteScore(memory[later], now)
                      >= PriorityWeight]_routeVars

\* A session that is attached leaves its route only after that route failed
\* for someone, or was chosen while it cooled, or for a request that has given
\* it up itself or had looked at the cooldowns before it was chosen.
SessionStays ==
    [][\A r \in Requests : Ranked(r) /\ home[Session[r]] # NoRoute
          /\ home'[Session[r]] # home[Session[r]] =>
             \/ Session[r] \in shaken
             \/ home[Session[r]] \in request[r].blocked
             \/ r \in looked
             \/ WithinTop]_routeVars

\* A request is answered by another model than it asked for only where that
\* one has failed before or was missing in the route's list, or where the
\* route's alias says so; a manual list and an alias are never exceeded.
OwnModelFirst ==
    \A r \in Requests : request[r].pc = "asking" =>
        LET route == Asked(r)
        IN /\ Model(r) # Own => route \in doubted \/ config.aliases[route] # <<>>
           /\ Locked(Configured(route)) =>
                 Range(request[r].order[route]) \subseteq Range(Configured(route))
           /\ config.supported[route] # {} =>
                 Range(request[r].order[route]) \subseteq config.supported[route]
===============================================================================
