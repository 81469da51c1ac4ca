---------------------------- MODULE RequestProofs ----------------------------
(***************************************************************************)
(* Theorems about the places where the threads of requests meet: the pool  *)
(* of keys, for any routes, keys and threads; the race of a route's        *)
(* models, for any number of candidates; and the coalescing of identical   *)
(* requests, for any number of requests and keys.                          *)
(***************************************************************************)
EXTENDS KeyPool, CandidateRace, Coalescing, TLAPS

\* A remainder is a position, counted from 0.
LEMMA ModBelow == ASSUME NEW a \in Nat, NEW b \in Nat \ {0} PROVE a % b \in 0 .. b - 1
OBVIOUS

LEMMA ModSmall ==
    ASSUME NEW b \in Nat \ {0}, NEW i \in 1 .. b
    PROVE  i % b = IF i = b THEN 0 ELSE i
OBVIOUS

\* The length of a configured key list, and the keys in it.
LEMMA KeyList ==
    ASSUME TypeOK, NEW u \in Routes
    PROVE  /\ config.keys[u] \in Seq(Keys) /\ Len1(u) \in Nat
           /\ DOMAIN config.keys[u] = 1 .. Len1(u)
           /\ \A i \in 1 .. Len1(u) : config.keys[u][i] \in Keys
           /\ \A i, j \in 1 .. Len1(u) : config.keys[u][i] = config.keys[u][j] => i = j
<1>1. config \in Configs BY DEF TypeOK
<1>2. config \in [keys : [Routes -> Seq(Keys)], twin : [Routes -> Routes]]
  BY <1>1, KeyPoolAssumption DEF KeyPoolAssumption
<1>3. config.keys[u] \in Seq(Keys) BY <1>2
<1>4. IsInjective(config.keys[u]) BY <1>1, KeyPoolAssumption DEF KeyPoolAssumption
<1>5. Len1(u) \in Nat /\ DOMAIN config.keys[u] = 1 .. Len1(u) BY <1>3 DEF Len1
<1>6. \A i \in 1 .. Len1(u) : config.keys[u][i] \in Keys BY <1>3, <1>5
<1> QED BY <1>3, <1>4, <1>5, <1>6 DEF IsInjective

\* Whatever the cursor, an offset is less than the length of the list.
LEMMA OffsetBound ==
    ASSUME NEW c \in Nat, NEW L \in Nat \ {0}, NEW i \in 1 .. L
    PROVE  (IF i - 1 >= c % L THEN i - 1 - (c % L) ELSE i - 1 + L - (c % L)) \in 0 .. L - 1
<1>1. c % L \in 0 .. L - 1 BY ModBelow
<1> QED BY <1>1

\* Taking position i, no farther than j, brings the cursor closer to j.
LEMMA OffsetShrinks ==
    ASSUME NEW c \in Nat, NEW L \in Nat \ {0}, NEW i \in 1 .. L, NEW j \in 1 .. L, i # j,
           (IF i - 1 >= c % L THEN i - 1 - (c % L) ELSE i - 1 + L - (c % L))
             <= (IF j - 1 >= c % L THEN j - 1 - (c % L) ELSE j - 1 + L - (c % L))
    PROVE  (IF j - 1 >= (i % L) % L THEN j - 1 - ((i % L) % L) ELSE j - 1 + L - ((i % L) % L))
             < (IF j - 1 >= c % L THEN j - 1 - (c % L) ELSE j - 1 + L - (c % L))
<1>1. c % L \in 0 .. L - 1 BY ModBelow
<1>2. i % L = IF i = L THEN 0 ELSE i BY ModSmall
<1>3. (i % L) % L = IF i = L THEN 0 ELSE i
  <2>1. CASE i = L
    <3>1. 0 % L = 0 OBVIOUS
    <3> QED BY <1>2, <2>1, <3>1
  <2>2. CASE i # L BY <1>2, <2>2
  <2> QED BY <2>1, <2>2
<1> QED BY <1>1, <1>3

-----------------------------------------------------------------------------
(* Type correctness, one step per action.                                   *)

LEMMA BlankType ==
    /\ NoCursor \in [Routes -> Nat] /\ Zeros \in Table
    /\ Blank \in [cursor : [Routes -> Nat], failures : Table, until : Table]
BY DEF NoCursor, Zeros, Table, Blank

LEMMA SavesType ==
    ASSUME TypeOK, NEW s \in [cursor : [Routes -> Nat], failures : Table, until : Table],
           Saves(s)
    PROVE  stored' \in [cursor : [Routes -> Nat], failures : Table, until : Table]
BY DEF TypeOK, Saves

\* What taking a key changes keeps its type.
LEMMA TakeType ==
    ASSUME TypeOK, NEW t \in Users, NEW u \in Routes, Take(t, u)
    PROVE  /\ cursor' \in [Routes -> Nat] /\ passed' \in Table
           /\ choice' \in [Users -> Keys \cup {NoKey}]
           /\ choice'[t] \in Keys
           /\ \A s \in Users : s # t => choice'[s] = choice[s]
<1>1. PICK i \in Free(u, exclude[t]) :
        /\ choice' = [choice EXCEPT ![t] = config.keys[u][i]]
        /\ Advance(u, i)
        /\ Pass(u, exclude[t], i)
  BY DEF Take
<1>2. i \in 1 .. Len1(u) /\ Len1(u) \in Nat \ {0} BY KeyList DEF Free
<1>3. config.keys[u][i] \in Keys BY <1>2, KeyList
<1>4. i % Len1(u) \in Nat BY <1>2, ModBelow
<1>5. cursor' \in [Routes -> Nat] BY <1>1, <1>4 DEF Advance, TypeOK
<1>6. passed' \in Table BY <1>1 DEF Pass, TypeOK, Table
<1>7. choice \in [Users -> Keys \cup {NoKey}] BY DEF TypeOK
<1>8. choice' \in [Users -> Keys \cup {NoKey}] /\ choice'[t] \in Keys
  BY <1>1, <1>3, <1>7
<1> QED BY <1>1, <1>5, <1>6, <1>7, <1>8

LEMMA TypeAsk == ASSUME TypeOK, NEW t \in Users, Ask(t) PROVE TypeOK'
BY DEF TypeOK, Ask, tables

LEMMA TypeChoose == ASSUME TypeOK, NEW t \in Users, Choose(t) PROVE TypeOK'
<1>1. route[t] \in Routes BY DEF TypeOK
<1>2. CASE Free(route[t], exclude[t]) # {}
  <2>1. Take(t, route[t]) /\ Return(t) /\ pc' = [pc EXCEPT ![t] = "holding"]
    BY <1>2 DEF Choose
  <2> QED BY <1>1, <2>1, TakeType DEF TypeOK, Choose, Return
<1>3. CASE Free(route[t], exclude[t]) = {}
  <2>1. /\ pc' = [pc EXCEPT ![t] = "fallback"]
        /\ passed' = [passed EXCEPT ![route[t]] = [k \in Keys |-> 0]]
        /\ UNCHANGED <<choice, cursor, exclude>>
    BY <1>3 DEF Choose
  <2>2. passed' \in Table BY <1>1, <2>1 DEF TypeOK, Table
  <2> QED BY <2>1, <2>2 DEF Choose, TypeOK
<1> QED BY <1>2, <1>3

LEMMA TwinType == ASSUME TypeOK, NEW u \in Routes PROVE config.twin[u] \in Routes
BY KeyPoolAssumption DEF TypeOK, KeyPoolAssumption

LEMMA TypeFallback == ASSUME TypeOK, NEW t \in Users, Fallback(t) PROVE TypeOK'
<1> DEFINE twin == config.twin[route[t]]
<1>1. twin \in Routes BY TwinType DEF TypeOK
<1>2. CASE Free(twin, exclude[t]) # {}
  <2>1. Take(t, twin) /\ pc' = [pc EXCEPT ![t] = "holding"]
    BY <1>2 DEF Fallback
  <2> QED BY <1>1, <2>1, TakeType DEF TypeOK, Fallback, Return
<1>3. CASE Free(twin, exclude[t]) = {}
  <2>1. /\ pc' = [pc EXCEPT ![t] = "idle"]
        /\ passed' = [passed EXCEPT ![twin] = [k \in Keys |-> 0]]
        /\ UNCHANGED <<choice, cursor>>
    BY <1>3 DEF Fallback
  <2>2. passed' \in Table BY <1>1, <2>1 DEF TypeOK, Table
  <2> QED BY <2>1, <2>2 DEF Fallback, Return, TypeOK
<1> QED BY <1>2, <1>3

LEMMA TypeReportSuccess ==
    ASSUME TypeOK, NEW t \in Users, ReportSuccess(t) PROVE TypeOK'
<1>1. route[t] \in Routes /\ choice[t] \in Keys BY DEF TypeOK, ReportSuccess
<1>2. failures' \in Table /\ until' \in Table
  BY <1>1 DEF ReportSuccess, Clear, TypeOK, Table
<1> QED BY <1>2 DEF ReportSuccess, Release, TypeOK

LEMMA TypeReportFailure ==
    ASSUME TypeOK, NEW t \in Users, NEW force \in BOOLEAN, ReportFailure(t, force)
    PROVE  TypeOK'
<1>1. route[t] \in Routes /\ choice[t] \in Keys BY DEF TypeOK, ReportFailure
<1>2. failures \in Table /\ until \in Table /\ now \in Nat /\ Cooldown \in Nat
  BY KeyPoolAssumption DEF TypeOK, KeyPoolAssumption
<1>3. Later(until[route[t]][choice[t]], now + Cooldown) \in Nat
  BY <1>1, <1>2 DEF Later, Table
<1>4. failures' \in Table BY <1>1, <1>2 DEF ReportFailure, Table
<1>5. until' \in Table BY <1>1, <1>2, <1>3 DEF ReportFailure, Table
<1> QED BY <1>4, <1>5 DEF ReportFailure, Release, TypeOK

LEMMA KeptType ==
    ASSUME NEW c, NEW f \in Table PROVE Kept(f, c) \in Table
BY DEF Kept, Table

LEMMA TypeRebuild == ASSUME TypeOK, Rebuild PROVE TypeOK'
<1>1. PICK c \in Configs :
        /\ config' = c
        /\ failures' = Kept(failures, c)
        /\ until' = Kept(until, c)
        /\ cursor' = [u \in Routes |->
            IF Len(c.keys[u]) = 0 THEN 0
            ELSE IF cursor[u] < Len(c.keys[u]) THEN cursor[u] ELSE Len(c.keys[u]) - 1]
        /\ Saves(Snapshot')
        /\ passed' = Zeros
        /\ UNCHANGED <<now, pc, thread>>
  BY DEF Rebuild
<1>2. failures' \in Table /\ until' \in Table BY <1>1, KeptType DEF TypeOK
<1>3. \A u \in Routes : Len(c.keys[u]) \in Nat
  BY KeyPoolAssumption DEF KeyPoolAssumption
<1>4. cursor' \in [Routes -> Nat] BY <1>1, <1>3 DEF TypeOK
<1>5. Snapshot' \in [cursor : [Routes -> Nat], failures : Table, until : Table]
  BY <1>2, <1>4 DEF Snapshot
<1>6. stored' \in [cursor : [Routes -> Nat], failures : Table, until : Table]
  BY <1>1, <1>5, SavesType
<1> QED BY <1>1, <1>2, <1>4, <1>6, BlankType DEF TypeOK, thread

LEMMA TypeRestart == ASSUME TypeOK, Restart PROVE TypeOK'
<1>1. stored' \in [cursor : [Routes -> Nat], failures : Table, until : Table]
  BY BlankType, SavesType DEF Restart
<1>2. PICK s \in {Blank, stored'} :
        cursor' = s.cursor /\ failures' = s.failures /\ until' = s.until
  BY DEF Restart
<1>3. s \in [cursor : [Routes -> Nat], failures : Table, until : Table]
  BY <1>1, <1>2, BlankType
<1>4. cursor' \in [Routes -> Nat] /\ failures' \in Table /\ until' \in Table
  BY <1>2, <1>3
<1> QED BY <1>1, <1>4, BlankType DEF Restart, TypeOK

LEMMA TypeSave == ASSUME TypeOK, NEW t \in Users, Save(t) PROVE TypeOK'
<1>1. Snapshot \in [cursor : [Routes -> Nat], failures : Table, until : Table]
  BY DEF TypeOK, Snapshot
<1> QED BY <1>1, SavesType DEF Save, TypeOK, tables, thread

LEMMA TypeNext == ASSUME TypeOK, [Next]_vars PROVE TypeOK'
<1>1. CASE UNCHANGED vars BY <1>1 DEF TypeOK, vars, tables, thread, Table
<1>2. CASE Rebuild BY <1>2, TypeRebuild
<1>3. CASE Restart BY <1>3, TypeRestart
<1>4. CASE Tick BY <1>4 DEF Tick, TypeOK, tables, thread
<1>5. ASSUME NEW t \in Users, Use(t) PROVE TypeOK'
  <2>1. CASE Drop(t) BY <2>1 DEF Drop, Release, TypeOK, tables
  <2>2. CASE \E force \in BOOLEAN : ReportFailure(t, force) BY <2>2, TypeReportFailure
  <2> QED BY <1>5, <2>1, <2>2, TypeAsk, TypeChoose, TypeFallback, TypeReportSuccess,
             TypeSave DEF Use
<1> QED BY <1>1, <1>2, <1>3, <1>4, <1>5 DEF Next

\* The state of the key pool stays well typed.
THEOREM PoolTypeCorrect == Spec => []TypeOK
<1>1. Init => TypeOK
  BY BlankType DEF Init, TypeOK
<1> QED BY <1>1, TypeNext, PTL DEF Spec

-----------------------------------------------------------------------------
(* Fairness of the round robin.  Every pass over a free key brings the      *)
(* cursor closer to it: passes and distance together stay below the length. *)

Round ==
    \A u \in Routes : \A i \in 1 .. Len1(u) :
        passed[u][config.keys[u][i]] + Offset(u, i) < Len1(u)

\* Without passes the bound is that of the offset.
LEMMA OffsetType ==
    ASSUME TypeOK, NEW u \in Routes, NEW i \in 1 .. Len1(u)
    PROVE  Offset(u, i) \in Nat /\ Offset(u, i) < Len1(u)
<1>1. Len1(u) \in Nat \ {0} /\ cursor[u] \in Nat BY KeyList DEF TypeOK
<1>2. Offset(u, i) \in 0 .. Len1(u) - 1 BY <1>1, OffsetBound DEF Offset
<1> QED BY <1>1, <1>2

LEMMA FreshRound ==
    ASSUME TypeOK, passed = Zeros PROVE Round
<1> SUFFICES ASSUME NEW u \in Routes, NEW i \in 1 .. Len1(u)
             PROVE  passed[u][config.keys[u][i]] + Offset(u, i) < Len1(u)
  BY DEF Round
<1>1. passed[u][config.keys[u][i]] = 0 BY KeyList DEF Zeros
<1> QED BY <1>1, OffsetType

LEMMA FreshRoundNext ==
    ASSUME TypeOK', passed' = Zeros PROVE Round'
<1>1. (TypeOK /\ passed = Zeros => Round)' BY FreshRound, PTL
<1> QED BY <1>1 DEF Zeros

LEMMA TakeRound ==
    ASSUME TypeOK, TypeOK', Round, NEW t \in Users, NEW u \in Routes, Take(t, u),
           UNCHANGED config
    PROVE  Round'
<1> DEFINE x == exclude[t]
           L == Len1(u)
           free == Free(u, x)
<1>1. PICK i \in free :
        /\ \A j \in free : Offset(u, i) <= Offset(u, j)
        /\ Advance(u, i)
        /\ Pass(u, x, i)
  BY DEF Take
<1>2. i \in 1 .. L /\ L \in Nat \ {0} /\ cursor[u] \in Nat /\ L = Len1(u)'
  <2>1. i \in 1 .. L /\ L \in Nat BY KeyList DEF Free
  <2>2. cursor[u] \in Nat BY DEF TypeOK
  <2>3. L = Len1(u)' BY DEF Len1
  <2> QED BY <2>1, <2>2, <2>3
<1>3. cursor' = [cursor EXCEPT ![u] = i % L] BY <1>1 DEF Advance
<1>4. cursor'[u] = i % L /\ \A v \in Routes \ {u} : cursor'[v] = cursor[v]
  BY <1>3 DEF TypeOK
<1>5. \A v \in Routes \ {u} : passed'[v] = passed[v]
  BY <1>1 DEF Pass, TypeOK, Table
<1>6. \A k \in Keys : passed'[u][k] =
        IF \E j \in free : j # i /\ config.keys[u][j] = k THEN passed[u][k] + 1 ELSE 0
  BY <1>1 DEF Pass, TypeOK, Table
<1>7. ASSUME NEW v \in Routes \ {u}, NEW j \in 1 .. Len1(v)'
      PROVE  passed'[v][config'.keys[v][j]] + Offset(v, j)' < Len1(v)'
  <2>1. Len1(v)' = Len1(v) /\ Offset(v, j)' = Offset(v, j) BY <1>4 DEF Len1, Offset
  <2> QED BY <1>5, <2>1 DEF Round
<1>8. ASSUME NEW j \in 1 .. Len1(u)'
      PROVE  passed'[u][config'.keys[u][j]] + Offset(u, j)' < Len1(u)'
  <2> DEFINE k == config.keys[u][j]
  <2>1. j \in 1 .. L /\ k \in Keys /\ passed[u][k] \in Nat
    <3>1. j \in 1 .. L /\ k \in Keys BY <1>2, KeyList
    <3> QED BY <3>1 DEF TypeOK, Table
  <2>2. Offset(u, j)' = IF j - 1 >= (i % L) % L THEN j - 1 - ((i % L) % L)
                        ELSE j - 1 + L - ((i % L) % L)
    BY <1>2, <1>4 DEF Offset
  <2>3. CASE j \in free /\ j # i
    <3>1. passed'[u][k] = passed[u][k] + 1 BY <1>6, <2>1, <2>3
    <3>2. Offset(u, i) <= Offset(u, j) BY <1>1, <2>3
    <3>3. Offset(u, j)' < Offset(u, j)
      BY <1>2, <2>1, <2>2, <2>3, <3>2, OffsetShrinks DEF Offset
    <3>4. Offset(u, j) \in Nat BY <2>1, OffsetType
    <3>5. i % L \in Nat BY <1>2, ModBelow
    <3>6. Offset(u, j)' \in 0 .. L - 1 BY <1>2, <2>1, <2>2, <3>5, OffsetBound
    <3>7. passed[u][k] + Offset(u, j) < L BY <2>1 DEF Round
    <3> QED BY <1>2, <2>1, <3>1, <3>3, <3>4, <3>6, <3>7
  <2>4. CASE ~(j \in free /\ j # i)
    <3>1. \A m \in free : config.keys[u][m] = k => m = j
      BY <2>1, KeyList DEF Free
    <3>2. passed'[u][k] = 0 BY <1>6, <2>1, <2>4, <3>1
    <3>3. i % L \in Nat BY <1>2, ModBelow
    <3>4. Offset(u, j)' \in 0 .. L - 1 BY <1>2, <2>1, <2>2, <3>3, OffsetBound
    <3> QED BY <1>2, <3>2, <3>4
  <2> QED BY <2>3, <2>4
<1> QED BY <1>7, <1>8 DEF Round

\* A choice that finds no free key leaves the cursor where it is.
LEMMA MissRound ==
    ASSUME TypeOK, TypeOK', Round, NEW u \in Routes,
           passed' = [passed EXCEPT ![u] = [k \in Keys |-> 0]],
           UNCHANGED <<config, cursor>>
    PROVE  Round'
<1> SUFFICES ASSUME NEW v \in Routes, NEW j \in 1 .. Len1(v)'
             PROVE  passed'[v][config'.keys[v][j]] + Offset(v, j)' < Len1(v)'
  BY DEF Round
<1>1. Len1(v)' = Len1(v) /\ Offset(v, j)' = Offset(v, j) BY DEF Len1, Offset
<1>2. j \in 1 .. Len1(v) /\ config'.keys[v][j] \in Keys BY <1>1, KeyList
<1>3. CASE v = u
  <2>1. passed'[v][config'.keys[v][j]] = 0 BY <1>2, <1>3 DEF TypeOK, Table
  <2> QED BY <1>1, <1>2, <2>1, OffsetType
<1>4. CASE v # u
  <2>1. passed'[v] = passed[v] BY <1>4 DEF TypeOK, Table
  <2> QED BY <1>1, <1>2, <2>1 DEF Round
<1> QED BY <1>3, <1>4

LEMMA RoundNext == ASSUME TypeOK, TypeOK', Round, [Next]_vars PROVE Round'
<1>1. ASSUME UNCHANGED <<config, cursor, passed>> PROVE Round'
  BY <1>1 DEF Round, Offset, Len1
<1>2. CASE UNCHANGED vars BY <1>1, <1>2 DEF vars, tables
<1>3. CASE Rebuild BY <1>3, FreshRoundNext DEF Rebuild
<1>4. CASE Restart BY <1>4, FreshRoundNext DEF Restart
<1>5. CASE Tick BY <1>1, <1>5 DEF Tick, tables
<1>6. ASSUME NEW t \in Users, Use(t) PROVE Round'
  <2>1. CASE Choose(t)
    <3>1. route[t] \in Routes BY DEF TypeOK
    <3>2. CASE Free(route[t], exclude[t]) # {}
      BY <2>1, <3>1, <3>2, TakeRound DEF Choose
    <3>3. CASE Free(route[t], exclude[t]) = {}
      BY <2>1, <3>1, <3>3, MissRound DEF Choose
    <3> QED BY <3>2, <3>3
  <2>2. CASE Fallback(t)
    <3> DEFINE twin == config.twin[route[t]]
    <3>1. twin \in Routes BY TwinType DEF TypeOK
    <3>2. CASE Free(twin, exclude[t]) # {}
      BY <2>2, <3>1, <3>2, TakeRound DEF Fallback
    <3>3. CASE Free(twin, exclude[t]) = {}
      BY <2>2, <3>1, <3>3, MissRound DEF Fallback
    <3> QED BY <3>2, <3>3
  <2>3. CASE Ask(t) BY <1>1, <2>3 DEF Ask, tables
  <2>4. CASE Drop(t) BY <1>1, <2>4 DEF Drop, tables
  <2>5. CASE ReportSuccess(t) BY <1>1, <2>5 DEF ReportSuccess
  <2>6. CASE Save(t) BY <1>1, <2>6 DEF Save, tables
  <2>7. CASE \E force \in BOOLEAN : ReportFailure(t, force)
    BY <1>1, <2>7 DEF ReportFailure
  <2> QED BY <1>6, <2>1, <2>2, <2>3, <2>4, <2>5, <2>6, <2>7 DEF Use
<1> QED BY <1>2, <1>3, <1>4, <1>5, <1>6 DEF Next

\* A key that is free at every choice made from its list is taken before it has
\* been passed over as often as the list is long.
THEOREM BypassBounded == Spec => []BoundedBypass
<1>1. Init => TypeOK
  BY BlankType DEF Init, TypeOK
<1>2. Init => Round BY <1>1, FreshRound DEF Init
<1>3. TypeOK /\ Round => BoundedBypass
  <2> SUFFICES ASSUME TypeOK, Round, NEW u \in Routes, NEW k \in Listed(config, u)
               PROVE  passed[u][k] < Len1(u)
    BY DEF BoundedBypass
  <2>1. PICK i \in 1 .. Len1(u) : k = config.keys[u][i] BY KeyList DEF Listed
  <2>2. k \in Keys BY <2>1, KeyList
  <2>3. passed[u][k] \in Nat /\ Len1(u) \in Nat BY <2>2, KeyList DEF TypeOK, Table
  <2>4. passed[u][k] + Offset(u, i) < Len1(u) BY <2>1 DEF Round
  <2> QED BY <2>3, <2>4, OffsetType
<1> QED BY <1>1, <1>2, <1>3, TypeNext, RoundNext, PTL DEF Spec

-----------------------------------------------------------------------------
(* Cooldowns.  In the tables, and in what storage holds of them, a key with *)
(* a cooldown has failed since its last success.                            *)

Deserved(f, w) == \A u \in Routes, k \in Keys : w[u][k] > 0 => f[u][k] > 0

Health == Deserved(failures, until) /\ Deserved(stored.failures, stored.until)

LEMMA BlankHealth == Deserved(Zeros, Zeros)
BY DEF Deserved, Zeros

LEMMA HealthReport ==
    ASSUME TypeOK, Health, NEW t \in Users, NEW force \in BOOLEAN,
           ReportSuccess(t) \/ ReportFailure(t, force)
    PROVE  Health'
<1> DEFINE u == route[t]
           k == choice[t]
<1>1. u \in Routes /\ k \in Keys BY DEF TypeOK, ReportSuccess, ReportFailure
<1>2. failures \in Table /\ until \in Table BY DEF TypeOK
<1>3. stored' = stored BY DEF ReportSuccess, ReportFailure
<1>4. SUFFICES ASSUME NEW v \in Routes, NEW l \in Keys, until'[v][l] > 0
               PROVE  failures'[v][l] > 0
  BY <1>3 DEF Health, Deserved
<1>5. CASE ReportSuccess(t)
  <2>1. failures' = [failures EXCEPT ![u][k] = 0] /\ until' = [until EXCEPT ![u][k] = 0]
    BY <1>5 DEF ReportSuccess, Clear
  <2>2. ~(v = u /\ l = k) BY <1>1, <1>2, <1>4, <2>1 DEF Table
  <2>3. until'[v][l] = until[v][l] /\ failures'[v][l] = failures[v][l]
    BY <1>1, <1>2, <2>1, <2>2 DEF Table
  <2> QED BY <1>4, <2>3 DEF Health, Deserved
<1>6. CASE ReportFailure(t, force)
  <2>1. /\ failures' = [failures EXCEPT ![u][k] = @ + 1]
        /\ until' = IF force \/ failures[u][k] + 1 >= Threshold
                    THEN [until EXCEPT ![u][k] = Later(@, now + Cooldown)]
                    ELSE until
    BY <1>6 DEF ReportFailure
  <2>2. CASE v = u /\ l = k BY <1>1, <1>2, <2>1, <2>2 DEF Table
  <2>3. CASE ~(v = u /\ l = k)
    <3>1. until'[v][l] = until[v][l] /\ failures'[v][l] = failures[v][l]
      BY <1>1, <1>2, <2>1, <2>3 DEF Table
    <3> QED BY <1>4, <3>1 DEF Health, Deserved
  <2> QED BY <2>2, <2>3
<1> QED BY <1>5, <1>6

LEMMA HealthNext == ASSUME TypeOK, Health, [Next]_vars PROVE Health'
<1>1. ASSUME UNCHANGED <<failures, until, stored>> PROVE Health'
  BY <1>1 DEF Health, Deserved
<1>2. Deserved(Snapshot.failures, Snapshot.until) BY DEF Health, Snapshot
<1>3. CASE UNCHANGED vars BY <1>1, <1>3 DEF vars, tables
<1>4. CASE Rebuild
  <2>1. PICK c \in Configs :
          failures' = Kept(failures, c) /\ until' = Kept(until, c) /\ Saves(Snapshot')
    BY <1>4 DEF Rebuild
  <2>2. Deserved(failures', until')
    BY <2>1 DEF Health, Deserved, Kept
  <2>3. Deserved(Snapshot'.failures, Snapshot'.until) BY <2>2 DEF Snapshot
  <2>4. stored' = Snapshot' \/ stored' = stored BY <2>1 DEF Saves
  <2> QED BY <2>2, <2>3, <2>4 DEF Health
<1>5. CASE Restart
  <2>1. Deserved(Blank.failures, Blank.until) BY BlankHealth DEF Blank
  <2>2. stored' = Blank \/ stored' = stored BY <1>5 DEF Restart, Saves
  <2>3. PICK s \in {Blank, stored'} : failures' = s.failures /\ until' = s.until
    BY <1>5 DEF Restart
  <2>4. Deserved(stored'.failures, stored'.until) BY <2>1, <2>2 DEF Health
  <2>5. Deserved(failures', until') BY <2>1, <2>3, <2>4
  <2> QED BY <2>4, <2>5 DEF Health
<1>6. CASE Tick BY <1>1, <1>6 DEF Tick, tables
<1>7. ASSUME NEW t \in Users, Use(t) PROVE Health'
  <2>1. CASE Ask(t) BY <1>1, <2>1 DEF Ask, tables
  <2>2. CASE Choose(t) BY <1>1, <2>2 DEF Choose
  <2>3. CASE Fallback(t) BY <1>1, <2>3 DEF Fallback
  <2>4. CASE Drop(t) BY <1>1, <2>4 DEF Drop, tables
  <2>5. CASE ReportSuccess(t) BY <2>5, HealthReport
  <2>6. CASE \E force \in BOOLEAN : ReportFailure(t, force) BY <2>6, HealthReport
  <2>7. CASE Save(t)
    <3>1. stored' = Snapshot \/ stored' = stored BY <2>7 DEF Save, Saves
    <3>2. UNCHANGED <<failures, until>> BY <2>7 DEF Save, tables
    <3>3. Deserved(stored'.failures, stored'.until) BY <1>2, <3>1 DEF Health
    <3>4. Deserved(failures', until') BY <3>2 DEF Health
    <3> QED BY <3>3, <3>4 DEF Health
  <2> QED BY <1>7, <2>1, <2>2, <2>3, <2>4, <2>5, <2>6, <2>7 DEF Use
<1> QED BY <1>3, <1>4, <1>5, <1>6, <1>7 DEF Next

\* Only a key whose latest report is a failure cools, after any sequence of
\* reports, rebuilds, saves and restarts.
THEOREM CoolingDeserved == Spec => []CoolingKeysHaveFailed
<1>1. Init => TypeOK
  BY BlankType DEF Init, TypeOK
<1>2. Init => Health BY BlankHealth DEF Init, Health, Blank
<1>3. TypeOK /\ Health => CoolingKeysHaveFailed
  BY DEF TypeOK, Table, Health, Deserved, CoolingKeysHaveFailed
<1> QED BY <1>1, <1>2, <1>3, TypeNext, HealthNext, PTL DEF Spec

LEMMA ListedKeys == TypeOK => \A v \in Routes : Listed(config, v) \subseteq Keys
BY KeyList DEF Listed

\* While the process runs nothing but time and the key's own success ends a
\* cooldown.
THEOREM CooldownsHonoured == Spec => CooldownHonoured
<1> DEFINE Honoured ==
        Restart \/ \A u \in Routes : \A k \in Listed(config', u) :
            until[u][k] > now => until'[u][k] >= until[u][k] \/ Succeeded(u, k)
<1>1. Init => TypeOK
  BY BlankType DEF Init, TypeOK
<1>2. ASSUME TypeOK, TypeOK', [Next]_vars PROVE [Honoured]_vars
  <2> SUFFICES ASSUME Next, ~Restart,
                      NEW u \in Routes, NEW k \in Listed(config', u)
               PROVE  until'[u][k] >= until[u][k] \/ Succeeded(u, k)
    BY <1>2
  <2>1. k \in Keys
    <3>1. (\A v \in Routes : Listed(config, v) \subseteq Keys)'
      BY <1>2, ListedKeys, PTL
    <3> QED BY <3>1 DEF Listed
  <2>2. until \in Table /\ until[u][k] \in Nat BY <1>2, <2>1 DEF TypeOK, Table
  <2>3. CASE until' = until BY <2>2, <2>3
  <2>4. CASE Rebuild
    <3>1. PICK c \in Configs : config' = c /\ until' = Kept(until, c)
      BY <2>4 DEF Rebuild
    <3>2. until'[u][k] = until[u][k] BY <2>1, <3>1 DEF Kept
    <3> QED BY <2>2, <3>2
  <2>5. ASSUME NEW t \in Users, ReportSuccess(t)
        PROVE  until'[u][k] >= until[u][k] \/ Succeeded(u, k)
    <3>1. CASE route[t] = u /\ choice[t] = k
      BY <1>2, <2>5, <3>1 DEF ReportSuccess, Succeeded, TypeOK
    <3>2. CASE ~(route[t] = u /\ choice[t] = k)
      <4>1. until'[u][k] = until[u][k]
        BY <2>1, <2>2, <2>5, <3>2 DEF ReportSuccess, Clear, Table
      <4> QED BY <2>2, <4>1
    <3> QED BY <3>1, <3>2
  <2>6. ASSUME NEW t \in Users, NEW force \in BOOLEAN, ReportFailure(t, force)
        PROVE  until'[u][k] >= until[u][k]
    <3> DEFINE v == route[t]
               l == choice[t]
    <3>1. v \in Routes /\ l \in Keys BY <1>2, <2>6 DEF TypeOK, ReportFailure
    <3>2. now \in Nat /\ Cooldown \in Nat
      BY <1>2, KeyPoolAssumption DEF TypeOK, KeyPoolAssumption
    <3>3. \/ until' = until
          \/ until' = [until EXCEPT ![v][l] = Later(@, now + Cooldown)]
      BY <2>6 DEF ReportFailure
    <3>4. CASE until' = until BY <2>2, <3>4
    <3>5. CASE until' = [until EXCEPT ![v][l] = Later(@, now + Cooldown)]
      <4>1. CASE v = u /\ l = k
        BY <2>1, <2>2, <3>1, <3>2, <3>5, <4>1 DEF Later, Table
      <4>2. CASE ~(v = u /\ l = k)
        <5>1. until'[u][k] = until[u][k] BY <2>1, <2>2, <3>1, <3>5, <4>2 DEF Table
        <5> QED BY <2>2, <5>1
      <4> QED BY <4>1, <4>2
    <3> QED BY <3>3, <3>4, <3>5
  <2>7. \/ until' = until \/ Rebuild
        \/ \E t \in Users : ReportSuccess(t) \/ \E force \in BOOLEAN : ReportFailure(t, force)
    BY DEF Next, Use, Ask, Choose, Fallback, Drop, Save, Tick, tables
  <2> QED BY <2>3, <2>4, <2>5, <2>6, <2>7
<1>3. TypeOK /\ TypeOK' /\ [Next]_vars => [Honoured]_vars BY <1>2
<1> QED BY <1>1, <1>3, TypeNext, PTL DEF Spec, CooldownHonoured

-----------------------------------------------------------------------------
(* The race *)

Racing == stage \in {"collect", "read"}

\* A response exists from its arrival on.
Arrived ==
    \A c \in Candidates :
        conn[c] # "none" \/ c \in accepted =>
            worker[c] \in {"received", "returning", "done"}

\* Until the decision nobody closes a response the loop has not looked at.
Undecided ==
    /\ Racing => ~stop /\ winner = None
    /\ Racing => \A c \in Candidates \ yielded :
        worker[c] \in {"received", "returning", "done"} => conn[c] = "open"
    /\ \A c \in yielded : worker[c] \in Ended
    /\ stage = "read" => worker[reading] = "done" /\ conn[reading] = "open"

\* What the loop has looked at and not taken is closed.
Looked ==
    \A c \in yielded :
        conn[c] = "open" => (stage = "read" /\ c = reading) \/ c = winner

Tardy == \A c \in tardy : stop /\ (worker[c] = "received" \/ conn[c] = "closed")

Won == winner # None =>
    stop /\ winner \in yielded /\ worker[winner] = "done" /\ conn[winner] = "open"

\* Every accepted candidate the loop has looked at ended the race.
Seen ==
    /\ Racing => \A c \in yielded \cap accepted : stage = "read" /\ c = reading
    /\ ~Racing /\ winner = None /\ ~timedOut => yielded = Candidates /\ accepted = {}

RaceInv == RaceTypeOK /\ Arrived /\ Undecided /\ Looked /\ Tardy /\ Won /\ Seen

LEMMA RaceStart == RaceInit => RaceInv
BY CandidateRaceAssumption
   DEF RaceInit, RaceInv, RaceTypeOK, Arrived, Undecided, Looked, Tardy, Won, Seen, Racing

LEMMA RaceWork == ASSUME RaceInv, NEW c \in Candidates, Work(c) PROVE RaceInv'
<1> USE CandidateRaceAssumption
    DEF RaceInv, RaceTypeOK, Arrived, Undecided, Looked, Tardy, Won, Seen, Racing, Ended,
        caller, loop, result
<1>1. CASE Begin(c)
  <2>1. /\ worker' = [worker EXCEPT ![c] = IF stop THEN "skipped" ELSE "sending"]
        /\ worker[c] = "queued"
        /\ UNCHANGED <<accepted, conn, tardy, caller>>
    BY <1>1 DEF Begin
  <2>2. conn[c] = "none" /\ c \notin yielded /\ c # winner /\ c \notin tardy BY <2>1
  <2> QED BY <2>1, <2>2
<1>2. CASE Receive(c)
  <2>1. worker[c] = "sending" /\ UNCHANGED caller BY <1>2 DEF Receive
  <2>2. conn[c] = "none" /\ c \notin yielded /\ c # winner /\ c \notin tardy BY <2>1
  <2>3. CASE worker' = [worker EXCEPT ![c] = "raised"] /\ UNCHANGED <<accepted, conn,
         tardy>>
    BY <2>1, <2>2, <2>3
  <2>4. CASE /\ worker' = [worker EXCEPT ![c] = "received"]
             /\ conn' = [conn EXCEPT ![c] = "open"]
             /\ accepted' \in {accepted, accepted \cup {c}}
             /\ tardy' = IF stop THEN tardy \cup {c} ELSE tardy
    BY <2>1, <2>2, <2>4
  <2> QED BY <1>2, <2>3, <2>4 DEF Receive
<1>3. CASE CheckStop(c)
  <2>1. /\ worker[c] = "received"
        /\ worker' = [worker EXCEPT ![c] = "returning"]
        /\ conn' = IF stop THEN [conn EXCEPT ![c] = "closed"] ELSE conn
        /\ UNCHANGED <<accepted, tardy, caller>>
    BY <1>3 DEF CheckStop
  <2>2. c \notin yielded /\ c # winner BY <2>1
  <2> QED BY <2>1, <2>2
<1>4. CASE HandBack(c)
  <2>1. /\ worker[c] = "returning"
        /\ worker' = [worker EXCEPT ![c] = "done"]
        /\ UNCHANGED <<accepted, conn, tardy, caller>>
    BY <1>4 DEF HandBack
  <2>2. c \notin yielded /\ c # winner BY <2>1
  <2> QED BY <2>1, <2>2
<1> QED BY <1>1, <1>2, <1>3, <1>4 DEF Work

LEMMA RaceCaller == ASSUME RaceInv, Caller PROVE RaceInv'
<1> USE CandidateRaceAssumption
    DEF RaceInv, RaceTypeOK, Arrived, Undecided, Looked, Tardy, Won, Seen, Racing, Ended,
        workers, loop, result
<1>1. ASSUME NEW c \in Candidates, CollectNothing(c) PROVE RaceInv'
  <2>1. conn[c] = "none" /\ c \notin accepted BY <1>1 DEF CollectNothing, Yields
  <2> QED BY <1>1, <2>1 DEF CollectNothing, Yields
<1>2. ASSUME NEW c \in Candidates, Classify(c) PROVE RaceInv'
  BY <1>2 DEF Classify, Yields
<1>3. CASE Decide
  <2>1. CASE reading \in accepted BY <1>3, <2>1 DEF Decide, Leave
  <2>2. CASE reading \notin accepted BY <1>3, <2>2 DEF Decide
  <2> QED BY <2>1, <2>2
<1>4. CASE AllCollected BY <1>4 DEF AllCollected, Leave
<1>5. CASE Timeout BY <1>5 DEF Timeout, Leave
<1>6. ASSUME NEW c \in Candidates, Visit(c) PROVE RaceInv'
  BY <1>6 DEF Visit, ClosedInCleanup
<1>7. CASE Shutdown BY <1>7 DEF Shutdown
<1> QED BY <1>1, <1>2, <1>3, <1>4, <1>5, <1>6, <1>7 DEF Caller, Collect

\* The inductive invariant of the race.
THEOREM RaceInvariant == RaceSpec => []RaceInv
<1>1. ASSUME RaceInv, UNCHANGED raceVars PROVE RaceInv'
  BY <1>1 DEF raceVars, workers, caller, loop, result, RaceInv, RaceTypeOK, Arrived, Undecided,
              Looked, Tardy, Won, Seen, Racing, Ended
<1>2. RaceInv /\ [RaceNext]_raceVars => RaceInv' BY <1>1, RaceWork, RaceCaller DEF RaceNext
<1> QED BY <1>2, RaceStart, PTL DEF RaceSpec

\* The race stays well typed.
THEOREM RaceTypeCorrect == RaceSpec => []RaceTypeOK
BY RaceInvariant, PTL DEF RaceInv

\* The response of the winner is open when the caller gets it.
THEOREM WinnerOpen == RaceSpec => []WinnerStaysOpen
<1>1. RaceInv => WinnerStaysOpen BY DEF RaceInv, Won, WinnerStaysOpen
<1> QED BY <1>1, RaceInvariant, PTL

\* Every response that came too late or was looked at and not taken is closed.
THEOREM LosersAreClosed == RaceSpec => []LosersClosed
<1>1. RaceInv => LosersClosed BY DEF RaceInv, RaceTypeOK, Looked, Tardy, LosersClosed
<1> QED BY <1>1, RaceInvariant, PTL

\* A race without a winner has timed out or found no accepted candidate.
THEOREM WinnerFound == RaceSpec => []WinnerIfAccepted
<1>1. RaceInv => WinnerIfAccepted BY DEF RaceInv, Seen, Racing, WinnerIfAccepted
<1> QED BY <1>1, RaceInvariant, PTL

-----------------------------------------------------------------------------
(* Coalescing *)

Completing(s) == at[s] \in {"copy", "signal"}

\* An entry is one of a request that has begun; it is in the table under its own
\* key, or being completed by one request, never both.
Entries ==
    /\ \A r \in Requests : at[r] \in {"waiting", "copy", "signal"} =>
        at[entry[r]] # "new" /\ KeyOf[entry[r]] = KeyOf[r]
    /\ \A k \in Payloads, s \in Requests :
        Completing(s) => inflight[k] # entry[s]

CoalescingInv ==
    CoTypeOK /\ EntriesHaveOwners /\ CompletedOnce /\ NobodyForgotten /\ Entries

LEMMA CoalescingInit == CoInit => CoalescingInv
BY CoalescingAssumption
   DEF CoInit, CoalescingInv, CoTypeOK, EntriesHaveOwners, CompletedOnce, NobodyForgotten,
       Entries, Completing

LEMMA CoalescingStep ==
  ASSUME CoalescingInv, NEW r \in Requests, Run(r)
  PROVE  CoalescingInv'
<1> USE CoalescingAssumption
    DEF CoalescingInv, CoTypeOK, EntriesHaveOwners, CompletedOnce, NobodyForgotten,
        Entries, Completing, Over, state, Goto
<1>1. CASE BeginOwner(r) BY <1>1 DEF BeginOwner
<1>2. CASE BeginWaiter(r) BY <1>2 DEF BeginWaiter
<1>3. CASE Wake(r)
  <2>1. at[r] = "waiting" /\ UNCHANGED <<inflight, event, outcome, stranded, entry>>
    BY <1>3 DEF Wake
  <2>2. CASE outcome[entry[r]] = "result"
    <3>1. at' = [at EXCEPT ![r] = "returned"] /\ resp' = [resp EXCEPT ![r] = "read"]
      BY <1>3, <2>2 DEF Wake
    <3> QED BY <2>1, <3>1
  <2>3. CASE outcome[entry[r]] # "result"
    <3>1. at' = [at EXCEPT ![r] = "upstream"] /\ UNCHANGED resp BY <1>3, <2>3 DEF Wake
    <3> QED BY <2>1, <3>1
  <2> QED BY <2>2, <2>3
<1>4. CASE Upstream(r) BY <1>4 DEF Upstream
<1>5. CASE PopResult(r) \/ PopError(r)
  <2> DEFINE k == KeyOf[r]
             e == inflight[k]
  <2>1. /\ at[r] \in {"popResult", "popError"} /\ k \in Payloads
        /\ entry' = [entry EXCEPT ![r] = e]
        /\ inflight' = [inflight EXCEPT ![k] = NoEntry]
        /\ UNCHANGED <<event, outcome, stranded, resp>>
    BY <1>5 DEF PopResult, PopError, Pop
  <2>2. CASE e = NoEntry
    <3>1. \E over \in Over : at' = [at EXCEPT ![r] = over]
      BY <1>5, <2>2 DEF PopResult, PopError, Pop
    <3>2. PICK over \in Over : at' = [at EXCEPT ![r] = over] BY <3>1
    <3>3. inflight' = inflight BY <2>1, <2>2
    <3>4. \A s \in Requests : s # r => at'[s] = at[s] /\ entry'[s] = entry[s]
      BY <2>1, <3>2
    <3>6. \A l \in Payloads : inflight[l] # r BY <2>1, <2>2
    <3>7. CoTypeOK' BY <2>1, <2>2, <3>2
    <3>8. EntriesHaveOwners' BY <2>1, <3>2, <3>3, <3>4, <3>6
    <3>9. CompletedOnce' BY <2>1, <3>2, <3>4
    <3>10. NobodyForgotten' BY <2>1, <3>2, <3>3, <3>4
    <3>11. Entries' BY <2>1, <3>2, <3>3, <3>4
    <3> QED BY <3>7, <3>8, <3>9, <3>10, <3>11
  <2>3. CASE e # NoEntry
    <3>1. PICK next \in {"copy", "signal"} : at' = [at EXCEPT ![r] = next]
      BY <1>5, <2>3 DEF PopResult, PopError, Pop
    <3>2. e \in Requests /\ KeyOf[e] = k /\ at[e] # "new" BY <2>1, <2>3
    <3>3. \A s \in Requests : s # r => at'[s] = at[s] /\ entry'[s] = entry[s]
      BY <2>1, <3>1
    <3>4. at'[r] = next /\ entry'[r] = e BY <2>1, <3>1
    <3>5. \A l \in Payloads : l # k => inflight'[l] = inflight[l] /\ inflight[l] # e
      BY <2>1, <3>2
    <3>6. inflight'[k] = NoEntry BY <2>1
    <3>7. \A s \in Requests : Completing(s) => entry[s] # e BY <2>1
    <3>8. \A s \in Requests : at'[s] = "waiting" => at[s] = "waiting" /\ s # r
      BY <3>1, <3>3, <3>4
    <3>9. CoTypeOK' BY <2>1, <3>1, <3>2
    <3>10. EntriesHaveOwners'
      <4> SUFFICES ASSUME NEW l \in Payloads, inflight'[l] # NoEntry
                   PROVE  KeyOf[inflight'[l]] = l /\ at'[inflight'[l]] \in
                                {"upstream", "popResult", "popError"}
        OBVIOUS
      <4>1. l # k /\ inflight'[l] = inflight[l] BY <3>5, <3>6
      <4>2. inflight[l] # r BY <4>1
      <4> QED BY <3>3, <4>1, <4>2
    <3>11. CompletedOnce' BY <3>3, <3>4, <3>7
    <3>12. NobodyForgotten'
      <4> SUFFICES ASSUME NEW s \in Requests, at'[s] = "waiting"
                   PROVE  \/ entry'[s] \in event' \cup stranded'
                          \/ inflight'[KeyOf[s]] = entry'[s]
                          \/ \E t \in Requests :
                                at'[t] \in {"copy", "signal"} /\ entry'[t] = entry'[s]
        OBVIOUS
      <4>1. at[s] = "waiting" /\ s # r /\ entry'[s] = entry[s] BY <3>3, <3>8
      <4>2. CASE entry[s] \in event \cup stranded BY <2>1, <4>1, <4>2
      <4>3. CASE inflight[KeyOf[s]] = entry[s]
        <5>1. CASE KeyOf[s] = k BY <3>1, <3>4, <4>1, <4>3, <5>1
        <5>2. CASE KeyOf[s] # k BY <3>5, <4>1, <4>3, <5>2
        <5> QED BY <5>1, <5>2
      <4>4. CASE \E t \in Requests : Completing(t) /\ entry[t] = entry[s]
        <5>1. PICK t \in Requests : Completing(t) /\ entry[t] = entry[s] BY <4>4
        <5>2. t # r BY <2>1, <5>1
        <5> QED BY <3>3, <4>1, <5>1, <5>2
      <4> QED BY <4>1, <4>2, <4>3, <4>4
    <3>13. Entries'
      <4>1. \A s \in Requests : at'[s] \in {"waiting", "copy", "signal"} =>
              at'[entry'[s]] # "new" /\ KeyOf[entry'[s]] = KeyOf[s]
        <5> SUFFICES ASSUME NEW s \in Requests,
                            at'[s] \in {"waiting", "copy", "signal"}
                     PROVE  at'[entry'[s]] # "new" /\ KeyOf[entry'[s]] = KeyOf[s]
          OBVIOUS
        <5>1. CASE s = r
          <6>1. at'[e] # "new" BY <3>1, <3>2, <3>3, <3>4
          <6> QED BY <3>2, <3>4, <5>1, <6>1
        <5>2. CASE s # r
          <6>1. at[s] \in {"waiting", "copy", "signal"} /\ entry'[s] = entry[s]
            BY <3>3, <5>2
          <6>2. entry[s] \in Requests /\ at[entry[s]] # "new" BY <6>1
          <6>3. at'[entry[s]] # "new" BY <3>1, <3>3, <3>4, <6>2
          <6> QED BY <6>1, <6>3
        <5> QED BY <5>1, <5>2
      <4>2. \A l \in Payloads, s \in Requests : Completing(s)' => inflight'[l] # entry'[s]
        <5> SUFFICES ASSUME NEW l \in Payloads, NEW s \in Requests,
                            at'[s] \in {"copy", "signal"}
                     PROVE  inflight'[l] # entry'[s]
          OBVIOUS
        <5>1. entry'[s] \in Requests BY <3>9
        <5>2. CASE l = k BY <3>6, <5>1, <5>2
        <5>3. CASE l # k /\ s = r BY <3>4, <3>5, <5>3
        <5>4. CASE l # k /\ s # r BY <3>3, <3>5, <5>4
        <5> QED BY <5>2, <5>3, <5>4
      <4> QED BY <4>1, <4>2
    <3> QED BY <3>9, <3>10, <3>11, <3>12, <3>13
  <2> QED BY <2>2, <2>3
<1>6. CASE Copy(r) BY <1>6 DEF Copy
<1>7. CASE CopyFails(r) BY <1>7 DEF CopyFails
<1>8. CASE Signal(r) BY <1>8 DEF Signal
<1> QED BY <1>1, <1>2, <1>3, <1>4, <1>5, <1>6, <1>7, <1>8 DEF Run, Complete

\* The inductive invariant of coalescing.
THEOREM CoalescingInvariant == CoSpec => []CoalescingInv
<1>1. ASSUME CoalescingInv, UNCHANGED coVars PROVE CoalescingInv'
  BY <1>1 DEF coVars, state, CoalescingInv, CoTypeOK, EntriesHaveOwners,
              CompletedOnce, NobodyForgotten, Entries, Completing
<1>2. CoalescingInv /\ [CoNext]_coVars => CoalescingInv'
  BY <1>1, CoalescingStep DEF CoNext
<1> QED BY <1>2, CoalescingInit, PTL DEF CoSpec

\* The table and the threads stay well typed.
THEOREM CoalescingTypeCorrect == CoSpec => []CoTypeOK
BY CoalescingInvariant, PTL DEF CoalescingInv

\* No entry is left in the table by a request that will not complete its key.
THEOREM EntriesOwned == CoSpec => []EntriesHaveOwners
BY CoalescingInvariant, PTL DEF CoalescingInv

\* No entry is completed twice.
THEOREM CompletedAtMostOnce == CoSpec => []CompletedOnce
BY CoalescingInvariant, PTL DEF CoalescingInv

\* Only a failed copy of the result leaves a waiter behind.
THEOREM NoneForgotten == CoSpec => []NobodyForgotten
BY CoalescingInvariant, PTL DEF CoalescingInv
=============================================================================
