------------------------------ MODULE KeyPool ------------------------------
(***************************************************************************)
(* The API keys behind the upstream routes: ConnectionPoolState of         *)
(* runtime/pools.py and the wrappers of server.py around it.  Request      *)
(* threads choose a key round robin, use it, and report how it did; the    *)
(* operator replaces the pools; the process restarts.                      *)
(*                                                                         *)
(* Each lock-protected method is one step; between two of them any other   *)
(* thread may run.  (A save that overlaps a rebuild may write the tables   *)
(* the rebuild replaced; start-up overwrites what is stored in any case.)  *)
(***************************************************************************)
EXTENDS Naturals, Sequences, FiniteSets, Functions

CONSTANTS
    Routes,      \* route URLs
    Keys,        \* API keys
    NoKey,       \* the choice None
    Configs,     \* the pool configurations an operator may apply
    Users,       \* request threads
    Threshold,   \* key_failure_threshold
    Cooldown,    \* key_cooldown_seconds
    HasStorage,  \* a database or state file is configured
    MaxTime,     \* bound on the clock
    MaxFailures  \* bound on consecutive failures of a key

\* keys: url_key_map, <<>> for a route that is not configured or has no keys;
\* twin: the first configured route with the same base URL.
ASSUME KeyPoolAssumption ==
    /\ NoKey \notin Keys
    /\ Configs \subseteq [keys : [Routes -> Seq(Keys)], twin : [Routes -> Routes]]
    /\ Configs # {}
    /\ \A c \in Configs : \A u \in Routes : IsInjective(c.keys[u])
    /\ Threshold \in Nat \ {0} /\ Cooldown \in Nat \ {0}
    /\ HasStorage \in BOOLEAN /\ MaxTime \in Nat /\ MaxFailures \in Nat

VARIABLES
    now,         \* the clock
    config,      \* url_key_map as last rebuilt
    cursor,      \* round_robin
    failures,    \* key_states: consecutive_failures
    until,       \* key_states: cooldown_until
    pc,          \* "idle", "choose", "fallback", "holding", "save"
    route,       \* the route a thread asks for
    exclude,     \* the keys it excludes
    choice,      \* its key_choice
    stored,      \* what storage holds of the tables
    passed       \* history: how often in a row a key was free and passed over

tables == <<cursor, failures, until>>
thread == <<route, exclude, choice>>
vars   == <<now, config, tables, pc, thread, stored, passed>>

NoCursor == [u \in Routes |-> 0]
Zeros    == [u \in Routes |-> [k \in Keys |-> 0]]
Snapshot == [cursor |-> cursor, failures |-> failures, until |-> until]
Blank    == [cursor |-> NoCursor, failures |-> Zeros, until |-> Zeros]

Len1(u) == Len(config.keys[u])

\* save_pool_runtime_state_to_storage logs a failure and goes on.
Saves(snapshot) == stored' \in IF HasStorage THEN {snapshot, stored} ELSE {stored}

-----------------------------------------------------------------------------
Init ==
    /\ now = 0 /\ config \in Configs
    /\ cursor = NoCursor /\ failures = Zeros /\ until = Zeros
    /\ pc = [t \in Users |-> "idle"]
    /\ route \in [Users -> Routes]
    /\ exclude = [t \in Users |-> {}]
    /\ choice = [t \in Users |-> NoKey]
    /\ stored = Blank
    /\ passed = Zeros

\* A thread of the retry loop asks for a key of a route it holds, which may
\* have left the configuration meanwhile.
Ask(t) ==
    /\ pc[t] = "idle"
    /\ \E u \in Routes, x \in SUBSET Keys :
        /\ route' = [route EXCEPT ![t] = u]
        /\ exclude' = [exclude EXCEPT ![t] = x]
    /\ pc' = [pc EXCEPT ![t] = "choose"]
    /\ UNCHANGED <<now, config, tables, choice, stored, passed>>

\* The positions of u's list whose key may be chosen.
Free(u, x) ==
    {i \in 1 .. Len1(u) :
        config.keys[u][i] \notin x /\ until[u][config.keys[u][i]] <= now}

\* How far position i lies from the cursor, going round the list.
Offset(u, i) ==
    LET start == cursor[u] % Len1(u)
    IN  IF i - 1 >= start THEN i - 1 - start ELSE i - 1 + Len1(u) - start

\* Faulty variant: the cursor stays on the key that was taken.
StayOnTaken(u, i) == cursor' = [cursor EXCEPT ![u] = i - 1]

Advance(u, i) == cursor' = [cursor EXCEPT ![u] = i % Len1(u)]

\* Every free key but the chosen one was passed over once more.
Pass(u, x, i) ==
    passed' = [passed EXCEPT ![u] = [k \in Keys |->
        IF \E j \in Free(u, x) : j # i /\ config.keys[u][j] = k THEN @[k] + 1 ELSE 0]]

\* choose_key: the first free key from the cursor on.
Take(t, u) ==
    \E i \in Free(u, exclude[t]) :
        /\ \A j \in Free(u, exclude[t]) : Offset(u, i) <= Offset(u, j)
        /\ choice' = [choice EXCEPT ![t] = config.keys[u][i]]
        /\ Advance(u, i)
        /\ Pass(u, exclude[t], i)

\* (exclude is the argument of one call.)
Return(t) == exclude' = [exclude EXCEPT ![t] = {}]

Choose(t) ==
    /\ pc[t] = "choose"
    /\ IF Free(route[t], exclude[t]) # {}
       THEN /\ Take(t, route[t]) /\ Return(t)
            /\ pc' = [pc EXCEPT ![t] = "holding"]
       ELSE /\ pc' = [pc EXCEPT ![t] = "fallback"]
            /\ passed' = [passed EXCEPT ![route[t]] = [k \in Keys |-> 0]]
            /\ UNCHANGED <<choice, cursor, exclude>>
    /\ UNCHANGED <<now, config, failures, until, route, stored>>

\* choose_api_key_for_url asks once more with the bare base URL.
Fallback(t) ==
    /\ pc[t] = "fallback"
    /\ Return(t)
    /\ LET twin == config.twin[route[t]] IN
       IF Free(twin, exclude[t]) # {}
       THEN /\ Take(t, twin)
            /\ pc' = [pc EXCEPT ![t] = "holding"]
       ELSE /\ pc' = [pc EXCEPT ![t] = "idle"]
            /\ passed' = [passed EXCEPT ![twin] = [k \in Keys |-> 0]]
            /\ UNCHANGED <<choice, cursor>>
    /\ UNCHANGED <<now, config, failures, until, route, stored>>

Release(t) ==
    /\ choice' = [choice EXCEPT ![t] = NoKey]
    /\ UNCHANGED <<route, exclude>>

\* The attempt ends without a report: a look-ahead, a lost race, an answer that
\* says nothing about the key.
Drop(t) ==
    /\ pc[t] = "holding"
    /\ pc' = [pc EXCEPT ![t] = "idle"]
    /\ Release(t)
    /\ UNCHANGED <<now, config, tables, stored, passed>>

\* Faulty variant: a success clears the count but not the cooldown.
ClearCountOnly(u, k) ==
    /\ failures' = [failures EXCEPT ![u][k] = 0]
    /\ UNCHANGED until

Clear(u, k) ==
    /\ failures' = [failures EXCEPT ![u][k] = 0]
    /\ until' = [until EXCEPT ![u][k] = 0]

\* Reports go to the route that was asked for, also for a key of its twin.
ReportSuccess(t) ==
    /\ pc[t] = "holding"
    /\ Clear(route[t], choice[t])
    /\ pc' = [pc EXCEPT ![t] = "save"]
    /\ Release(t)
    /\ UNCHANGED <<now, config, cursor, stored, passed>>

Later(a, b) == IF a >= b THEN a ELSE b

ReportFailure(t, force) ==
    /\ pc[t] = "holding"
    /\ LET u == route[t]  k == choice[t] IN
        /\ failures[u][k] < MaxFailures
        /\ failures' = [failures EXCEPT ![u][k] = @ + 1]
        /\ until' = IF force \/ failures[u][k] + 1 >= Threshold
                    THEN [until EXCEPT ![u][k] = Later(@, now + Cooldown)]
                    ELSE until
    /\ pc' = [pc EXCEPT ![t] = "save"]
    /\ Release(t)
    /\ UNCHANGED <<now, config, cursor, stored, passed>>

Save(t) ==
    /\ pc[t] = "save"
    /\ Saves(Snapshot)
    /\ pc' = [pc EXCEPT ![t] = "idle"]
    /\ UNCHANGED <<now, config, tables, thread, passed>>

Listed(c, u) == {c.keys[u][i] : i \in DOMAIN c.keys[u]}

\* Faulty variant: a rebuild starts with fresh key states.
KeptNone(f, c) == Zeros

\* The states of the keys that a route keeps; others get the default on use.
Kept(f, c) ==
    [u \in Routes |-> [k \in Keys |-> IF k \in Listed(c, u) THEN f[u][k] ELSE 0]]

\* rebuild: the cursor is clamped to the new list.
Rebuild ==
    \E c \in Configs :
        /\ config' = c
        /\ failures' = Kept(failures, c)
        /\ until' = Kept(until, c)
        /\ cursor' = [u \in Routes |->
            IF Len(c.keys[u]) = 0 THEN 0
            ELSE IF cursor[u] < Len(c.keys[u]) THEN cursor[u] ELSE Len(c.keys[u]) - 1]
        /\ Saves(Snapshot')
        /\ passed' = Zeros
        /\ UNCHANGED <<now, pc, thread>>

\* A new process builds the pools, which saves the blank tables, and then loads
\* what is stored; each of the two may fail.
Restart ==
    /\ config' \in Configs
    /\ Saves(Blank)
    /\ \E s \in {Blank, stored'} :
        cursor' = s.cursor /\ failures' = s.failures /\ until' = s.until
    /\ pc' = [t \in Users |-> "idle"]
    /\ exclude' = [t \in Users |-> {}]
    /\ choice' = [t \in Users |-> NoKey]
    /\ passed' = Zeros
    /\ UNCHANGED <<now, route>>

Tick ==
    /\ now < MaxTime
    /\ now' = now + 1
    /\ UNCHANGED <<config, tables, pc, thread, stored, passed>>

Use(t) ==
    \/ Ask(t) \/ Choose(t) \/ Fallback(t) \/ Drop(t)
    \/ ReportSuccess(t) \/ Save(t)
    \/ \E force \in BOOLEAN : ReportFailure(t, force)

Next == (\E t \in Users : Use(t)) \/ Rebuild \/ Restart \/ Tick

Spec == Init /\ [][Next]_vars

-----------------------------------------------------------------------------
Table == [Routes -> [Keys -> Nat]]

\* The tables keep an entry for each route and key, whatever a rebuild or a load
\* puts into them.
TypeOK ==
    /\ now \in Nat /\ config \in Configs
    /\ cursor \in [Routes -> Nat] /\ failures \in Table /\ until \in Table
    /\ pc \in [Users -> {"idle", "choose", "fallback", "holding", "save"}]
    /\ route \in [Users -> Routes] /\ exclude \in [Users -> SUBSET Keys]
    /\ choice \in [Users -> Keys \cup {NoKey}]
    /\ \A t \in Users : pc[t] = "holding" => choice[t] \in Keys
    /\ stored \in [cursor : [Routes -> Nat], failures : Table, until : Table]
    /\ passed \in Table

\* Round robin is fair whatever the threads exclude and whichever keys cool: a
\* key that is free at every choice made from its list is passed over fewer
\* times in a row than the list has keys.
BoundedBypass ==
    \A u \in Routes : \A k \in Listed(config, u) : passed[u][k] < Len1(u)

\* A key cools only while its latest report is a failure: no order of reports,
\* rebuilds, saves and restarts leaves a key waiting after it has succeeded.
CoolingKeysHaveFailed ==
    \A u \in Routes, k \in Keys : until[u][k] > now => failures[u][k] > 0

\* While the process runs, only time and a success reported for this key on this
\* route end a cooldown of a key the route keeps: no other report and no
\* reconfiguration does.
Succeeded(u, k) ==
    \E t \in Users : pc[t] = "holding" /\ pc'[t] = "save" /\ route[t] = u /\ choice[t] = k

CooldownHonoured ==
    [][Restart \/ \A u \in Routes : \A k \in Listed(config', u) :
        until[u][k] > now => until'[u][k] >= until[u][k] \/ Succeeded(u, k)]_vars
=============================================================================
