---------------------------- MODULE UpstreamProofs ----------------------------
(***************************************************************************)
(* Theorems about the way upstream: first the retry loop of one request,   *)
(* for every set of routes and keys, every budget and any interference of  *)
(* other requests; then the choice of routes and models by all requests,   *)
(* for every configuration of routes, priorities, aliases and lists.       *)
(***************************************************************************)
EXTENDS UpstreamRetry, RouteSelection, FiniteSetTheorems, WellFoundedInduction, TLAPS

-----------------------------------------------------------------------------
(* The retry loop (UpstreamRetry)                                           *)

\* A rebuilt route cycle is a sequence of unblocked routes.
LEMMA CycleElements ==
    ASSUME NEW U \in SUBSET Routes, NEW C, NEW s \in Cycles(U, C)
    PROVE  /\ s \in Seq(Routes)
           /\ \A i \in DOMAIN s : s[i] \in U
<1> DEFINE A == Active(U, C)
<1>1. A \subseteq U BY DEF Active
<1>2. IsFiniteSet(A) BY <1>1, FS_Subset, ConstantsAssumption DEF ConstantsAssumption
<1>3. Cardinality(A) \in Nat BY <1>2, FS_CardinalityType
<1>4. s \in [1 .. Cardinality(A) -> A] BY DEF Cycles
<1> QED BY <1>1, <1>3, <1>4

\* Prefixing a sequence with one element.
LEMMA Prefixed ==
    ASSUME NEW S, NEW x \in S, NEW s \in Seq(S)
    PROVE  /\ <<x>> \o s \in Seq(S)
           /\ \A i \in DOMAIN (<<x>> \o s) :
                (<<x>> \o s)[i] = x \/ \E j \in DOMAIN s : (<<x>> \o s)[i] = s[j]
<1>1. <<x>> \in Seq(S) /\ Len(<<x>>) = 1 /\ <<x>>[1] = x OBVIOUS
<1>2. <<x>> \o s \in Seq(S) BY <1>1
<1>3. Len(<<x>> \o s) = 1 + Len(s) BY <1>1
<1>4. ASSUME NEW i \in DOMAIN (<<x>> \o s)
      PROVE  (<<x>> \o s)[i] = x \/ \E j \in DOMAIN s : (<<x>> \o s)[i] = s[j]
  <2>1. i \in 1 .. (1 + Len(s)) BY <1>2, <1>3
  <2>2. CASE i = 1 BY <1>1, <2>2
  <2>3. CASE i # 1
    <3>1. i - 1 \in DOMAIN s BY <2>1, <2>3
    <3>2. (<<x>> \o s)[i] = s[i - 1] BY <1>1, <2>1, <2>3
    <3> QED BY <3>1, <3>2
  <2> QED BY <2>2, <2>3
<1> QED BY <1>2, <1>4

\* The head and the tail of a non-empty sequence.
LEMMA HeadTail ==
    ASSUME NEW S, NEW s \in Seq(S), s # <<>>
    PROVE  /\ Head(s) \in S /\ Tail(s) \in Seq(S)
           /\ 1 \in DOMAIN s /\ Head(s) = s[1]
           /\ \A i \in DOMAIN Tail(s) : i + 1 \in DOMAIN s /\ Tail(s)[i] = s[i + 1]
<1>1. Len(s) \in Nat /\ Len(s) # 0 OBVIOUS
<1>2. DOMAIN s = 1 .. Len(s) OBVIOUS
<1>3. Tail(s) \in Seq(S) /\ Len(Tail(s)) = Len(s) - 1 BY <1>1
<1>4. DOMAIN Tail(s) = 1 .. (Len(s) - 1) BY <1>3
<1> QED BY <1>1, <1>2, <1>3, <1>4

-----------------------------------------------------------------------------
(* Type correctness, one step per action.                                   *)

LEMMA TypeStart == TypeOK /\ Start => TypeOK'
<1> SUFFICES ASSUME TypeOK, Start PROVE TypeOK' OBVIOUS
<1> USE DEF TypeOK, Start, budget, reply, shared
<1>1. cands' \in SUBSET Routes /\ blocked' \in SUBSET Routes OBVIOUS
<1>2. cycle' \in Seq(Routes)
  <2>1. PICK c \in SUBSET Routes, B \in SUBSET Routes : cycle' \in Cycles(c \ B, coolingRoutes)
    BY <1>1
  <2> QED BY <2>1, CycleElements
<1> QED BY <1>1, <1>2

LEMMA TypeIterate == TypeOK /\ Iterate => TypeOK'
<1> SUFFICES ASSUME TypeOK, Iterate PROVE TypeOK' OBVIOUS
<1> USE DEF TypeOK, input, budget, routing, shared
<1>1. CASE NextAttempt
  <2>1. PICK c \in IF cycle = <<>> THEN Cycles(Unblocked, coolingRoutes) ELSE {cycle} :
            c # <<>> /\ at' = Head(c) /\ cycle' = Tail(c)
    BY <1>1 DEF NextAttempt
  <2>2. c \in Seq(Routes) BY CycleElements DEF Unblocked
  <2>3. at' \in Routes /\ cycle' \in Seq(Routes) BY <2>1, <2>2, HeadTail
  <2>4. /\ n' \in Nat /\ lateStarts' \in Nat /\ key' = NoKey /\ pc' = "route"
        /\ followup' \in {"none", "available", "consumed"}
    BY <1>1 DEF NextAttempt
  <2> QED BY <1>1, <2>3, <2>4 DEF NextAttempt, reply
<1>2. CASE GiveUp BY <1>2 DEF GiveUp, Finish
<1> QED BY <1>1, <1>2 DEF Iterate

LEMMA TypeAttempt == TypeOK /\ Attempt => TypeOK'
<1> SUFFICES ASSUME TypeOK, Attempt PROVE TypeOK' OBVIOUS
<1> USE DEF TypeOK, input, budget, shared
<1>1. ASSUME SkipRoute PROVE TypeOK'
  <2>1. blocked' \in SUBSET Routes /\ att' \in Nat BY <1>1 DEF SkipRoute
  <2>2. cycle' \in Seq(Routes) BY <1>1, <2>1, CycleElements DEF SkipRoute
  <2>3. pc' \in {"top", "done"} /\ outcome' \in {"none", "response", "exception", "nothing"}
    BY <1>1 DEF SkipRoute, Finish
  <2> QED BY <1>1, <2>1, <2>2, <2>3 DEF SkipRoute
<1>2. CASE SkipUnsupported BY <1>1, <1>2 DEF SkipUnsupported
<1>3. CASE SkipCooling BY <1>1, <1>3 DEF SkipCooling
<1>4. CASE RaceWon
  <2>1. att' \in Nat BY <1>4, ConstantsAssumption DEF RaceWon, ConstantsAssumption
  <2>2. coolingRoutes' \in SUBSET Routes /\ coolingKeys' \in SUBSET (Routes \X Keys)
    BY <1>4 DEF RaceWon, Success
  <2>3. raced' \in SUBSET Routes BY <1>4 DEF RaceWon
  <2>4. openResp' \in Nat BY <1>4 DEF RaceWon
  <2> QED BY <1>4, <2>1, <2>2, <2>3, <2>4 DEF RaceWon
<1>5. CASE RaceLost
  <2>1. att' \in Nat BY <1>5, ConstantsAssumption DEF RaceLost, ConstantsAssumption
  <2>2. PICK m \in 0 .. ModelCount[at] : modelAt' = [modelAt EXCEPT ![at] = Max2(modelAt[at], m)]
    BY <1>5 DEF RaceLost
  <2>3. m \in Nat BY ConstantsAssumption DEF ConstantsAssumption
  <2>4. modelAt' \in [Routes -> Nat] BY <2>2, <2>3 DEF Max2
  <2> QED BY <1>5, <2>1, <2>4 DEF RaceLost
<1>6. CASE Send
  <2>1. PICK k \in IF PoolKeys(at) = {} THEN {NoKey}
                   ELSE UsableKeys(at, failedKeys[at], coolingKeys) :
            key' = k /\ sent' = IF retryAllowed THEN sent ELSE sent \cup {<<at, k>>}
    BY <1>6 DEF Send
  <2>2. k \in Keys \cup {NoKey}
    BY ConstantsAssumption DEF UsableKeys, FreeKeys, ConstantsAssumption
  <2> QED BY <1>6, <2>1, <2>2 DEF Send
<1> QED BY <1>2, <1>3, <1>4, <1>5, <1>6 DEF Attempt

\* A branch that fails over leaves a well-formed cycle.
LEMMA TypeSwitchRoute ==
    TypeOK /\ SwitchRoute /\ UNCHANGED cands
        => blocked' \in SUBSET Routes /\ cycle' \in Seq(Routes)
BY CycleElements DEF TypeOK, SwitchRoute

LEMMA TypeConclude == TypeOK /\ Conclude => TypeOK'
<1> SUFFICES ASSUME TypeOK, Conclude PROVE TypeOK' OBVIOUS
<1> USE DEF TypeOK, input, budget, shared
<1>1. CASE Succeed
  BY <1>1 DEF Succeed, Success, routing
<1>2. CASE Raise
  <2>1. CASE HasAlternate
    <3>1. blocked' \in SUBSET Routes /\ cycle' \in Seq(Routes)
      BY <1>2, <2>1, TypeSwitchRoute DEF Raise
    <3> QED BY <1>2, <2>1, <3>1 DEF Raise, OfferFollowup
  <2>2. CASE ~HasAlternate
    BY <1>2, <2>2 DEF Raise, Finish
  <2> QED BY <2>1, <2>2
<1>3. ASSUME NEW r \in ErrorReply, Answer(r) PROVE TypeOK'
  <2> USE <1>3
  <2>1. /\ att' \in Nat /\ coolingRoutes' \in SUBSET Routes
        /\ coolingKeys' \in SUBSET (Routes \X Keys)
        /\ cause' \in {"return", "retry", "switch", "rateLimited"}
        /\ UNCHANGED <<cands, method, n, late, lateStarts, at, key, raced, raised, sent>>
    BY DEF Answer, Record, ErrorReply
  <2>2. failedKeys' \in [Routes -> SUBSET Keys]
    <3>1. FailedWith(r) \in SUBSET Keys BY DEF FailedWith, FailsKey
    <3>2. \/ UNCHANGED failedKeys
          \/ failedKeys' = [failedKeys EXCEPT ![at] = FailedWith(r)]
      <4>1. CASE RetryRateLimited(r) \/ ReturnRateLimited(r)
        BY <4>1 DEF RetryRateLimited, ReturnRateLimited
      <4>2. CASE SwitchKey(r) BY <4>2 DEF SwitchKey
      <4>3. CASE Failover(r) \/ SwitchModel(r) \/ ReturnError(r) \/ BackOff(r)
        BY <4>3 DEF Failover, SwitchModel, ReturnError, BackOff, Decides
      <4> QED BY <4>1, <4>2, <4>3 DEF Answer
    <3>3. [failedKeys EXCEPT ![at] = FailedWith(r)] \in [Routes -> SUBSET Keys]
      BY <3>1
    <3>4. CASE UNCHANGED failedKeys BY <3>4
    <3>5. CASE failedKeys' = [failedKeys EXCEPT ![at] = FailedWith(r)] BY <3>3, <3>5
    <3> QED BY <3>2, <3>4, <3>5
  <2>3. /\ modelAt' \in [Routes -> Nat] /\ rateUsed' \in [Routes -> Nat]
    <3>1. CASE RetryRateLimited(r) BY <3>1 DEF RetryRateLimited
    <3>2. CASE SwitchModel(r) BY <3>2 DEF SwitchModel, Decides
    <3>3. CASE ReturnRateLimited(r) \/ SwitchKey(r)
      BY <3>3 DEF ReturnRateLimited, SwitchKey
    <3>4. CASE Failover(r) \/ ReturnError(r) \/ BackOff(r)
      BY <3>4 DEF Failover, ReturnError, BackOff, Decides
    <3> QED BY <3>1, <3>2, <3>3, <3>4 DEF Answer
  <2>4. blocked' \in SUBSET Routes /\ cycle' \in Seq(Routes)
    <3>1. CASE RetryRateLimited(r) \/ SwitchKey(r) \/ SwitchModel(r)
      <4>1. UNCHANGED blocked /\ cycle' = <<at>> \o cycle
        BY <3>1 DEF RetryRateLimited, SwitchKey, SwitchModel
      <4> QED BY <4>1, Prefixed
    <3>2. CASE ReturnRateLimited(r) \/ ReturnError(r) \/ BackOff(r)
      BY <3>2 DEF ReturnRateLimited, ReturnError, BackOff
    <3>3. CASE Failover(r) BY <3>3, <2>1, TypeSwitchRoute DEF Failover
    <3> QED BY <3>1, <3>2, <3>3 DEF Answer
  <2>5. /\ pc' \in {"top", "done"} /\ last' \in {"open", "closed"}
        /\ openResp' \in Nat /\ followup' \in {"none", "available", "consumed"}
        /\ outcome' \in {"none", "response", "exception", "nothing"}
    BY DEF Answer, RetryRateLimited, ReturnRateLimited, SwitchKey, Failover, SwitchModel,
           ReturnError, BackOff, CloseAndContinue, OfferFollowup
  <2> QED BY <2>1, <2>2, <2>3, <2>4, <2>5
<1> QED BY <1>1, <1>2, <1>3 DEF Conclude

\* Every reachable state is well typed.
THEOREM TypeCorrect == Spec => []TypeOK
<1>1. Init => TypeOK
  <2> SUFFICES ASSUME Init PROVE TypeOK OBVIOUS
  <2>1. cycle \in Seq(Routes) /\ modelAt \in [Routes -> Nat] /\ rateUsed \in [Routes -> Nat]
    BY DEF Init
  <2>2. failedKeys \in [Routes -> SUBSET Keys] BY DEF Init
  <2> QED BY <2>1, <2>2 DEF Init, TypeOK
<1>2. TypeOK /\ [Next]_vars => TypeOK'
  <2> SUFFICES ASSUME TypeOK, [Next]_vars PROVE TypeOK' OBVIOUS
  <2>1. CASE Start BY <2>1, TypeStart
  <2>2. CASE Iterate BY <2>2, TypeIterate
  <2>3. CASE Attempt BY <2>3, TypeAttempt
  <2>4. CASE Conclude BY <2>4, TypeConclude
  <2>5. CASE WindowElapses
    BY <2>5 DEF WindowElapses, TypeOK, input, routing, reply, shared
  <2>6. CASE Interfere
    <3>1. coolingRoutes' \in SUBSET Routes BY <2>6 DEF Interfere, TypeOK
    <3>2. coolingKeys' \in SUBSET (Routes \X Keys)
      BY <2>6, ConstantsAssumption DEF Interfere, TypeOK, ConstantsAssumption
    <3> QED BY <2>6, <3>1, <3>2 DEF Interfere, TypeOK, input, budget, routing, reply
  <2>7. CASE UNCHANGED vars
    BY <2>7 DEF vars, TypeOK, input, budget, routing, reply, shared
  <2> QED BY <2>1, <2>2, <2>3, <2>4, <2>5, <2>6, <2>7 DEF Next, Step
<1> QED BY <1>1, <1>2, PTL DEF Spec

-----------------------------------------------------------------------------
(* No step sends to, or queues, a route that is blocked.                    *)

\* Switching leaves only unblocked routes in the cycle.
LEMMA SwitchedCycle ==
    TypeOK /\ SwitchRoute /\ UNCHANGED cands
        => \A i \in DOMAIN cycle' : cycle'[i] \in Unblocked'
<1> SUFFICES ASSUME TypeOK, SwitchRoute, UNCHANGED cands
             PROVE  \A i \in DOMAIN cycle' : cycle'[i] \in Unblocked'
  OBVIOUS
<1>1. cands \ blocked' \in SUBSET Routes BY DEF TypeOK
<1>2. cycle' \in Cycles(cands \ blocked', coolingRoutes') BY DEF SwitchRoute
<1> QED BY <1>1, <1>2, CycleElements DEF Unblocked

\* Trying the current route again keeps the cycle free of blocked routes.
LEMMA RetriedCycle ==
    TypeOK /\ BlockedStaysBlocked /\ pc = "wait"
           /\ cycle' = <<at>> \o cycle /\ UNCHANGED <<cands, blocked>>
        => \A i \in DOMAIN cycle' : cycle'[i] \in Unblocked'
<1> SUFFICES ASSUME TypeOK, BlockedStaysBlocked, pc = "wait",
                    cycle' = <<at>> \o cycle, UNCHANGED <<cands, blocked>>
             PROVE  \A i \in DOMAIN cycle' : cycle'[i] \in Unblocked'
  OBVIOUS
<1>1. at \in Routes /\ cycle \in Seq(Routes) BY DEF TypeOK
<1>2. at \in Unblocked /\ \A i \in DOMAIN cycle : cycle[i] \in Unblocked
  BY DEF BlockedStaysBlocked
<1>3. Unblocked' = Unblocked BY DEF Unblocked
<1> QED BY <1>1, <1>2, <1>3, Prefixed

LEMMA BlockedStep == TypeOK /\ BlockedStaysBlocked /\ [Next]_vars => BlockedStaysBlocked'
<1> SUFFICES ASSUME TypeOK, BlockedStaysBlocked, [Next]_vars PROVE BlockedStaysBlocked'
  OBVIOUS
<1> USE DEF BlockedStaysBlocked
<1>1. CASE Start
  <2>1. PICK c \in SUBSET Routes : /\ cycle' \in Cycles(c \ blocked', coolingRoutes)
                                   /\ pc' = "top" /\ cands' = c
    BY <1>1 DEF Start
  <2>2. \A i \in DOMAIN cycle' : cycle'[i] \in c \ blocked' BY <2>1, CycleElements
  <2> QED BY <2>1, <2>2 DEF Unblocked
<1>2. CASE NextAttempt
  <2>1. PICK c \in IF cycle = <<>> THEN Cycles(Unblocked, coolingRoutes) ELSE {cycle} :
            c # <<>> /\ at' = Head(c) /\ cycle' = Tail(c)
    BY <1>2 DEF NextAttempt
  <2>2. c \in Seq(Routes) /\ \A i \in DOMAIN c : c[i] \in Unblocked
    <3>1. CASE cycle = <<>>
      <4>1. Unblocked \in SUBSET Routes BY DEF TypeOK, Unblocked
      <4> QED BY <2>1, <3>1, <4>1, CycleElements
    <3>2. CASE cycle # <<>> BY <1>2, <2>1, <3>2 DEF NextAttempt, TypeOK
    <3> QED BY <3>1, <3>2
  <2>3. at' \in Unblocked /\ \A i \in DOMAIN cycle' : cycle'[i] \in Unblocked
    BY <2>1, <2>2, HeadTail
  <2>4. Unblocked' = Unblocked BY <1>2 DEF NextAttempt, input, Unblocked
  <2> QED BY <1>2, <2>3, <2>4 DEF NextAttempt
<1>3. CASE GiveUp BY <1>3 DEF GiveUp, Finish
<1>4. ASSUME SkipRoute PROVE BlockedStaysBlocked'
  <2>1. CASE cands \subseteq blocked' BY <1>4, <2>1 DEF SkipRoute, Finish
  <2>2. CASE ~(cands \subseteq blocked')
    <3>1. cands' = cands /\ cands \in SUBSET Routes BY <1>4 DEF SkipRoute, input, TypeOK
    <3>2. cycle' \in Cycles(cands \ blocked', coolingRoutes) /\ pc' = "top"
      BY <1>4, <2>2 DEF SkipRoute
    <3>3. \A i \in DOMAIN cycle' : cycle'[i] \in cands \ blocked'
      <4>1. cands \ blocked' \in SUBSET Routes BY <3>1
      <4> QED BY <3>2, <4>1, CycleElements
    <3> QED BY <3>1, <3>2, <3>3 DEF Unblocked
  <2> QED BY <2>1, <2>2
<1>5. CASE SkipUnsupported \/ SkipCooling BY <1>4, <1>5 DEF SkipUnsupported, SkipCooling
<1>6. CASE RaceWon BY <1>6 DEF RaceWon
<1>7. CASE RaceLost \/ Send BY <1>7 DEF RaceLost, Send, Unblocked, input
<1>8. CASE Succeed BY <1>8 DEF Succeed
<1>9. CASE Raise
  <2>1. CASE HasAlternate
    <3>1. SwitchRoute /\ UNCHANGED cands /\ pc' = "top"
      BY <1>9, <2>1 DEF Raise, input
    <3> QED BY <3>1, SwitchedCycle
  <2>2. CASE ~HasAlternate BY <1>9, <2>2 DEF Raise, Finish, Unblocked, input
  <2> QED BY <2>1, <2>2
<1>10. ASSUME NEW r \in ErrorReply, Answer(r) PROVE BlockedStaysBlocked'
  <2>1. pc = "wait" /\ UNCHANGED cands BY <1>10 DEF Answer, Record, input
  <2>2. CASE RetryRateLimited(r) \/ SwitchKey(r) \/ SwitchModel(r)
    <3>1. cycle' = <<at>> \o cycle /\ UNCHANGED blocked /\ pc' = "top"
      BY <2>2 DEF RetryRateLimited, SwitchKey, SwitchModel, CloseAndContinue
    <3> QED BY <2>1, <3>1, RetriedCycle
  <2>3. CASE Failover(r)
    <3>1. SwitchRoute /\ pc' = "top" BY <2>3 DEF Failover, CloseAndContinue
    <3> QED BY <2>1, <3>1, SwitchedCycle
  <2>4. CASE ReturnRateLimited(r) \/ ReturnError(r)
    BY <2>4 DEF ReturnRateLimited, ReturnError
  <2>5. CASE BackOff(r) BY <2>1, <2>5 DEF BackOff, Unblocked
  <2> QED BY <1>10, <2>2, <2>3, <2>4, <2>5 DEF Answer
<1>11. CASE WindowElapses BY <1>11 DEF WindowElapses, routing, input, Unblocked
<1>12. CASE Interfere BY <1>12 DEF Interfere, routing, input, Unblocked
<1>13. CASE UNCHANGED vars BY <1>13 DEF vars, routing, input, Unblocked
<1> QED
  BY <1>1, <1>2, <1>3, <1>5, <1>6, <1>7, <1>8, <1>9, <1>10, <1>11, <1>12, <1>13
  DEF Next, Step, Iterate, Attempt, Conclude

\* A route the request has given up is never sent to again.
THEOREM BlockedCorrect == Spec => []BlockedStaysBlocked
<1>1. Init => BlockedStaysBlocked BY DEF Init, BlockedStaysBlocked
<1> QED BY <1>1, TypeCorrect, BlockedStep, PTL DEF Spec

-----------------------------------------------------------------------------
(* No upstream response is left open.                                       *)

\* While the loop runs the latest response is closed: this is what makes the
\* count of open responses inductive.
OpenInv ==
    /\ OnlyReturnedResponseOpen
    /\ pc # "done" => last # "open"

LEMMA OpenStep == OpenInv /\ [Next]_vars => OpenInv'
<1> SUFFICES ASSUME OpenInv, [Next]_vars PROVE OpenInv' OBVIOUS
<1> USE DEF OpenInv, OnlyReturnedResponseOpen
<1>1. CASE Start BY <1>1 DEF Start, reply
<1>2. CASE NextAttempt BY <1>2 DEF NextAttempt, reply
<1>3. CASE GiveUp BY <1>3 DEF GiveUp, Finish
<1>4. CASE SkipUnsupported \/ SkipCooling
  BY <1>4 DEF SkipUnsupported, SkipCooling, SkipRoute, Finish
<1>5. CASE RaceWon BY <1>5 DEF RaceWon
<1>6. CASE RaceLost \/ Send BY <1>6 DEF RaceLost, Send
<1>7. CASE Succeed BY <1>7 DEF Succeed
<1>8. CASE Raise
  <2>1. pc = "wait" /\ pc' \in {"top", "done"} /\ UNCHANGED <<openResp, last>>
    BY <1>8 DEF Raise, Finish
  <2> QED BY <2>1
<1>9. ASSUME NEW r \in ErrorReply, Answer(r) PROVE OpenInv'
  <2>1. pc = "wait" BY <1>9 DEF Answer
  <2>2. CASE RetryRateLimited(r) \/ SwitchKey(r) \/ Failover(r) \/ SwitchModel(r)
    BY <2>1, <2>2 DEF RetryRateLimited, SwitchKey, Failover, SwitchModel, CloseAndContinue
  <2>3. CASE ReturnRateLimited(r) BY <2>1, <2>3 DEF ReturnRateLimited
  <2>4. CASE ReturnError(r) BY <2>1, <2>4 DEF ReturnError
  <2>5. CASE BackOff(r)
    <3>1. last' = "closed" /\ UNCHANGED openResp BY <2>5 DEF BackOff
    <3> QED BY <2>1, <3>1
  <2> QED BY <1>9, <2>2, <2>3, <2>4, <2>5 DEF Answer
<1>10. CASE WindowElapses BY <1>10 DEF WindowElapses, reply
<1>11. CASE Interfere BY <1>11 DEF Interfere, reply
<1>12. CASE UNCHANGED vars BY <1>12 DEF vars, reply
<1> QED
  BY <1>1, <1>2, <1>3, <1>4, <1>5, <1>6, <1>7, <1>8, <1>9, <1>10, <1>11, <1>12
  DEF Next, Step, Iterate, Attempt, Conclude

\* Only the response handed to the caller stays open.
THEOREM ResponsesClosed == Spec => []OnlyReturnedResponseOpen
<1>1. Init => OpenInv BY DEF Init, OpenInv, OnlyReturnedResponseOpen
<1>2. OpenInv => OnlyReturnedResponseOpen BY DEF OpenInv
<1> QED BY <1>1, <1>2, OpenStep, PTL DEF Spec

-----------------------------------------------------------------------------
(* One late iteration.                                                      *)

\* The follow-up is spent by exactly the iteration that started late.
LateInv == lateStarts = IF followup = "consumed" THEN 1 ELSE 0

LEMMA OfferKeepsLate == LateInv /\ OfferFollowup /\ UNCHANGED lateStarts => LateInv'
BY DEF LateInv, OfferFollowup

LEMMA LateStep == LateInv /\ [Next]_vars => LateInv'
<1> SUFFICES ASSUME LateInv, [Next]_vars PROVE LateInv' OBVIOUS
<1>1. CASE UNCHANGED <<followup, lateStarts>> BY <1>1 DEF LateInv
<1>2. CASE Start \/ GiveUp \/ Attempt \/ Succeed \/ WindowElapses \/ Interfere \/ UNCHANGED vars
  BY <1>1, <1>2 DEF Start, GiveUp, Attempt, SkipUnsupported, SkipCooling, SkipRoute,
     RaceWon, RaceLost, Send, Succeed, WindowElapses, Interfere, vars, budget
<1>3. CASE NextAttempt BY <1>3 DEF NextAttempt, LateInv
<1>4. CASE Raise
  <2>1. UNCHANGED lateStarts /\ (OfferFollowup \/ UNCHANGED followup)
    BY <1>4 DEF Raise
  <2> QED BY <1>1, <2>1, OfferKeepsLate
<1>5. ASSUME NEW r \in ErrorReply, Answer(r) PROVE LateInv'
  <2>1. UNCHANGED lateStarts BY <1>5 DEF Answer, Record
  <2>2. CASE RetryRateLimited(r) \/ SwitchKey(r) \/ Failover(r) \/ SwitchModel(r)
    BY <2>1, <2>2, OfferKeepsLate
    DEF RetryRateLimited, SwitchKey, Failover, SwitchModel, CloseAndContinue
  <2>3. CASE ReturnRateLimited(r) \/ ReturnError(r) \/ BackOff(r)
    BY <1>1, <2>1, <2>3 DEF ReturnRateLimited, ReturnError, BackOff
  <2> QED BY <1>5, <2>2, <2>3 DEF Answer
<1> QED BY <1>2, <1>3, <1>4, <1>5 DEF Next, Step, Iterate, Conclude

\* After the route switch window at most one more iteration starts.
THEOREM LateStartOnce == Spec => []SingleLateStart
<1>1. Init => LateInv BY DEF Init, LateInv
<1>2. LateInv => SingleLateStart BY DEF LateInv, SingleLateStart
<1> QED BY <1>1, <1>2, LateStep, PTL DEF Spec

-----------------------------------------------------------------------------
(* Keys that failed, and requests that must not be repeated.                *)

LEMMA FailedKeyStep == TypeOK /\ FailedKeyNotReused /\ [Next]_vars => FailedKeyNotReused'
<1> SUFFICES ASSUME TypeOK, FailedKeyNotReused, [Next]_vars, pc' = "wait"
             PROVE  key' \notin failedKeys'[at']
  BY DEF FailedKeyNotReused
<1>1. CASE Send
  <2>1. UNCHANGED <<at, failedKeys>> BY <1>1 DEF Send
  <2>2. key' \in IF PoolKeys(at) = {} THEN {NoKey}
                 ELSE UsableKeys(at, failedKeys[at], coolingKeys)
    BY <1>1 DEF Send
  <2>3. NoKey \notin failedKeys[at]
    BY ConstantsAssumption DEF ConstantsAssumption, TypeOK
  <2> QED BY <2>1, <2>2, <2>3 DEF UsableKeys, FreeKeys
<1>2. CASE WindowElapses \/ Interfere \/ UNCHANGED vars
  BY <1>2 DEF WindowElapses, Interfere, vars, routing, FailedKeyNotReused
<1>3. CASE Start \/ Iterate
  BY <1>3 DEF Start, Iterate, NextAttempt, GiveUp, Finish
<1>4. CASE Attempt /\ ~Send
  BY <1>4 DEF Attempt, SkipUnsupported, SkipCooling, SkipRoute, Finish, RaceWon, RaceLost
<1>5. CASE Succeed \/ Raise BY <1>5 DEF Succeed, Raise, Finish
<1>6. ASSUME NEW r \in ErrorReply, Answer(r) PROVE FALSE
  BY <1>6 DEF Answer, RetryRateLimited, ReturnRateLimited, SwitchKey, Failover,
     SwitchModel, ReturnError, BackOff, CloseAndContinue
<1> QED BY <1>1, <1>2, <1>3, <1>4, <1>5, <1>6 DEF Next, Step, Conclude

\* A key that failed on a route is not chosen for it again by the request.
THEOREM FailedKeyCorrect == Spec => []FailedKeyNotReused
<1>1. Init => FailedKeyNotReused BY DEF Init, FailedKeyNotReused
<1> QED BY <1>1, TypeCorrect, FailedKeyStep, PTL DEF Spec

\* A request that must not be repeated has blocked every route it was sent to,
\* or failed the key it used there; only the pair in flight is neither.
Burnt(p) == p[1] \in blocked \/ p[2] \in failedKeys[p[1]]

RepeatInv ==
    /\ pc = "idle" => sent = {}
    /\ pc \in {"top", "route", "wait"} /\ ~retryAllowed =>
        \A p \in sent : Burnt(p) \/ (pc = "wait" /\ p = <<at, key>>)

\* A step that only adds to the burnt pairs keeps them burnt.
LEMMA BurntStays ==
    ASSUME TypeOK, blocked \subseteq blocked',
           \A u \in Routes : failedKeys[u] \subseteq failedKeys'[u],
           NEW p \in sent, Burnt(p)
    PROVE  Burnt(p)'
<1>1. p[1] \in Routes BY DEF TypeOK
<1> QED BY <1>1 DEF Burnt

LEMMA RepeatStep == TypeOK /\ RepeatInv /\ [Next]_vars => RepeatInv'
<1> SUFFICES ASSUME TypeOK, RepeatInv, [Next]_vars PROVE RepeatInv' OBVIOUS
<1>1. CASE Start
  BY <1>1 DEF Start, RepeatInv, reply
<1>2. CASE NextAttempt
  BY <1>2 DEF NextAttempt, RepeatInv, reply, input, retryAllowed, Burnt
<1>3. ASSUME pc' = "done" PROVE RepeatInv' BY <1>3 DEF RepeatInv
<1>4. CASE GiveUp \/ RaceWon \/ Succeed
  BY <1>3, <1>4 DEF GiveUp, Finish, RaceWon, Succeed
<1>5. ASSUME SkipRoute, pc = "route" PROVE RepeatInv'
  <2>1. blocked \subseteq blocked' /\ UNCHANGED <<failedKeys, sent, method>>
    BY <1>5 DEF SkipRoute, input
  <2>2. pc' \in {"top", "done"} BY <1>5 DEF SkipRoute, Finish
  <2> QED BY <1>5, <2>1, <2>2, BurntStays DEF RepeatInv, retryAllowed
<1>6. CASE SkipUnsupported \/ SkipCooling BY <1>5, <1>6 DEF SkipUnsupported, SkipCooling
<1>7. CASE RaceLost
  BY <1>7 DEF RaceLost, RepeatInv, input, retryAllowed, Burnt
<1>8. CASE Send
  <2>1. pc = "route" /\ pc' = "wait" /\ UNCHANGED <<method, at, failedKeys, blocked>>
    BY <1>8 DEF Send, input
  <2>2. ~retryAllowed => sent' = sent \cup {<<at', key'>>} BY <1>8 DEF Send
  <2> QED BY <2>1, <2>2 DEF RepeatInv, retryAllowed, Burnt
<1>9. CASE Raise
  <2>1. pc = "wait" /\ UNCHANGED <<method, sent, failedKeys, at, key>> BY <1>9 DEF Raise, input
  <2>2. CASE HasAlternate
    <3>1. blocked' = blocked \cup {at} /\ pc' = "top"
      BY <1>9, <2>2 DEF Raise, SwitchRoute
    <3>2. \A p \in sent : Burnt(p) => Burnt(p)' BY <2>1, <3>1, BurntStays
    <3>3. \A p \in sent : p = <<at, key>> => Burnt(p)' BY <3>1 DEF Burnt
    <3> QED BY <2>1, <3>1, <3>2, <3>3 DEF RepeatInv, retryAllowed
  <2>3. CASE ~HasAlternate
    <3>1. pc' = "done" \/ (pc' = "top" /\ retryAllowed)
      BY <1>9, <2>3 DEF Raise, BacksOff, Finish
    <3> QED BY <1>3, <2>1, <3>1 DEF RepeatInv, retryAllowed
  <2> QED BY <2>2, <2>3
<1>10. ASSUME NEW r \in ErrorReply, Answer(r) PROVE RepeatInv'
  <2>1. pc = "wait" /\ UNCHANGED <<method, sent, at, key>> BY <1>10 DEF Answer, Record, input
  <2>2. at \in Routes /\ failedKeys \in [Routes -> SUBSET Keys] BY DEF TypeOK
  <2>3. CASE ReturnRateLimited(r) \/ ReturnError(r)
    BY <1>3, <2>3 DEF ReturnRateLimited, ReturnError
  <2>4. CASE retryAllowed BY <2>1, <2>4, <1>10 DEF RepeatInv, retryAllowed, Answer,
     RetryRateLimited, ReturnRateLimited, SwitchKey, Failover, SwitchModel,
     ReturnError, BackOff, CloseAndContinue
  <2>5. CASE SwitchKey(r)
    <3>1. /\ failedKeys' = [failedKeys EXCEPT ![at] = failedKeys[at] \cup {key}]
          /\ UNCHANGED blocked /\ pc' = "top"
      BY <2>5 DEF SwitchKey, SwitchesKey, FailedWith, CloseAndContinue
    <3>2. \A u \in Routes : failedKeys[u] \subseteq failedKeys'[u] BY <2>2, <3>1
    <3>3. \A p \in sent : Burnt(p) => Burnt(p)' BY <3>1, <3>2, BurntStays
    <3>4. key \in failedKeys'[at] BY <2>2, <3>1
    <3>5. \A p \in sent : p = <<at, key>> => Burnt(p)' BY <3>4 DEF Burnt
    <3> QED BY <2>1, <3>1, <3>3, <3>5 DEF RepeatInv, retryAllowed
  <2>6. CASE Failover(r)
    <3>1. failedKeys' = [failedKeys EXCEPT ![at] = FailedWith(r)] BY <2>6 DEF Failover, Decides
    <3>2. failedKeys[at] \subseteq FailedWith(r) BY DEF FailedWith
    <3>3. \A u \in Routes : failedKeys[u] \subseteq failedKeys'[u] BY <2>2, <3>1, <3>2
    <3>4. blocked' = blocked \cup {at} /\ pc' = "top"
      BY <2>6 DEF Failover, SwitchRoute, CloseAndContinue
    <3>5. \A p \in sent : Burnt(p) => Burnt(p)' BY <3>3, <3>4, BurntStays
    <3>6. \A p \in sent : p = <<at, key>> => Burnt(p)' BY <3>4 DEF Burnt
    <3> QED BY <2>1, <3>4, <3>5, <3>6 DEF RepeatInv, retryAllowed
  <2>7. CASE RetryRateLimited(r) \/ SwitchModel(r) \/ BackOff(r)
    BY <2>4, <2>7 DEF RetryRateLimited, RateLimited, SwitchModel, BackOff, Final
  <2> QED BY <1>10, <2>3, <2>5, <2>6, <2>7 DEF Answer
<1>11. CASE WindowElapses \/ Interfere \/ UNCHANGED vars
  BY <1>11 DEF WindowElapses, Interfere, vars, routing, reply, input, RepeatInv,
     retryAllowed, Burnt
<1> QED
  BY <1>1, <1>2, <1>4, <1>6, <1>7, <1>8, <1>9, <1>10, <1>11
  DEF Next, Step, Iterate, Attempt, Conclude

\* A request that must not be repeated never goes twice to the same route with
\* the same key.
THEOREM NeverRepeatedCorrect == Spec => NeverRepeated
<1> DEFINE Repeats == pc = "route" /\ pc' = "wait" /\ ~retryAllowed => <<at, key'>> \notin sent
<1>1. Init => RepeatInv BY DEF Init, RepeatInv
<1>2. TypeOK /\ BlockedStaysBlocked /\ FailedKeyNotReused' /\ RepeatInv /\ [Next]_vars
        => [Repeats]_vars
  <2> SUFFICES ASSUME TypeOK, BlockedStaysBlocked, FailedKeyNotReused', RepeatInv, [Next]_vars,
                      pc = "route", pc' = "wait", ~retryAllowed, <<at, key'>> \in sent
               PROVE  FALSE
    OBVIOUS
  <2>1. CASE Send
    <3>1. UNCHANGED <<at, failedKeys>> BY <2>1 DEF Send
    <3>2. Burnt(<<at, key'>>) BY DEF RepeatInv
    <3>3. at \notin blocked BY DEF BlockedStaysBlocked, Unblocked
    <3>4. key' \notin failedKeys[at] BY <3>1 DEF FailedKeyNotReused
    <3> QED BY <3>2, <3>3, <3>4 DEF Burnt
  <2>2. CASE UNCHANGED pc BY <2>2
  <2>3. CASE ~Send /\ ~UNCHANGED pc
    BY <2>3 DEF Next, Step, Start, Iterate, NextAttempt, GiveUp, Finish, Attempt,
       SkipUnsupported, SkipCooling, SkipRoute, RaceWon, RaceLost, Conclude, Succeed, Raise,
       Answer, WindowElapses, Interfere, vars
  <2> QED BY <2>1, <2>2, <2>3
<1> QED
  BY <1>1, <1>2, TypeCorrect, BlockedCorrect, FailedKeyCorrect, RepeatStep, PTL
  DEF Spec, NeverRepeated

-----------------------------------------------------------------------------
(* A failure reaches the caller only when there is no way on.               *)

\* An unblocked route is left whenever the loop runs.
Alive == pc \in {"top", "route", "wait"} => cands \ blocked # {}

LEMMA SwitchLeavesRoute ==
    TypeOK /\ HasAlternate /\ blocked' = blocked \cup {at} /\ UNCHANGED cands
        => cands' \ blocked' # {}
<1> SUFFICES ASSUME TypeOK, HasAlternate, blocked' = blocked \cup {at}, UNCHANGED cands,
                    cands' \ blocked' = {}
             PROVE  FALSE
  OBVIOUS
<1>1. Unblocked \subseteq {at} BY DEF Unblocked
<1>2. IsFiniteSet({at}) /\ Cardinality({at}) = 1 BY FS_Singleton
<1>3. IsFiniteSet(Unblocked) /\ Cardinality(Unblocked) <= Cardinality({at})
  BY <1>1, <1>2, FS_Subset
<1>4. Cardinality(Unblocked) \in Nat BY <1>3, FS_CardinalityType
<1> QED BY <1>2, <1>3, <1>4 DEF HasAlternate

LEMMA AliveStep == TypeOK /\ Alive /\ [Next]_vars => Alive'
<1> SUFFICES ASSUME TypeOK, Alive, [Next]_vars PROVE Alive' OBVIOUS
<1> USE DEF Alive
<1>1. CASE Start
  <2>1. PICK c \in (SUBSET Routes) \ {{}}, initial \in SUBSET Routes :
            cands' = c /\ blocked' = IF c \subseteq initial THEN {} ELSE initial \cap c
    BY <1>1 DEF Start
  <2>2. CASE c \subseteq initial
    <3>1. cands' = c /\ blocked' = {} /\ c # {} BY <2>1, <2>2
    <3> QED BY <3>1
  <2>3. CASE ~(c \subseteq initial)
    <3>1. PICK u \in c : u \notin initial BY <2>3
    <3>2. u \in cands' /\ u \notin blocked' BY <2>1, <2>3, <3>1
    <3> QED BY <3>2
  <2> QED BY <2>2, <2>3
<1>2. CASE NextAttempt BY <1>2 DEF NextAttempt, input
<1>3. CASE pc' = "done" BY <1>3
<1>4. CASE GiveUp \/ RaceWon \/ Succeed
  BY <1>3, <1>4 DEF GiveUp, Finish, RaceWon, Succeed
<1>5. ASSUME SkipRoute PROVE Alive'
  BY <1>5 DEF SkipRoute, Finish, input
<1>6. CASE SkipUnsupported \/ SkipCooling BY <1>5, <1>6 DEF SkipUnsupported, SkipCooling
<1>7. CASE RaceLost \/ Send BY <1>7 DEF RaceLost, Send, input
<1>8. CASE Raise
  <2>1. pc = "wait" /\ UNCHANGED cands BY <1>8 DEF Raise, input
  <2>2. CASE HasAlternate
    <3>1. blocked' = blocked \cup {at} BY <1>8, <2>2 DEF Raise, SwitchRoute
    <3> QED BY <2>1, <2>2, <3>1, SwitchLeavesRoute
  <2>3. CASE ~HasAlternate BY <1>8, <2>1, <2>3 DEF Raise
  <2> QED BY <2>2, <2>3
<1>9. ASSUME NEW r \in ErrorReply, Answer(r) PROVE Alive'
  <2>1. pc = "wait" /\ UNCHANGED cands BY <1>9 DEF Answer, Record, input
  <2>2. CASE UNCHANGED blocked BY <2>1, <2>2
  <2>3. CASE RetryRateLimited(r) \/ SwitchKey(r) \/ SwitchModel(r) \/ BackOff(r)
    BY <2>2, <2>3 DEF RetryRateLimited, SwitchKey, SwitchModel, BackOff
  <2>4. CASE ReturnRateLimited(r) \/ ReturnError(r)
    BY <1>3, <2>4 DEF ReturnRateLimited, ReturnError
  <2>5. CASE Failover(r)
    <3>1. HasAlternate /\ blocked' = blocked \cup {at}
      BY <2>5 DEF Failover, FailsOver, SwitchRoute
    <3> QED BY <2>1, <3>1, SwitchLeavesRoute
  <2> QED BY <1>9, <2>3, <2>4, <2>5 DEF Answer
<1>10. CASE WindowElapses \/ Interfere \/ UNCHANGED vars
  BY <1>10 DEF WindowElapses, Interfere, vars, routing, input
<1> QED
  BY <1>1, <1>2, <1>4, <1>6, <1>7, <1>8, <1>9, <1>10
  DEF Next, Step, Iterate, Attempt, Conclude

\* What an ended request satisfies when it ended with a failure.
Exhausted ==
    \/ n >= MaxAttempts \/ att >= MaxAttempts
    \/ Enforced /\ late
    \/ Unblocked \subseteq {at} /\ (cause = "exception" => NoBackoff)

\* Without an alternative the route being tried is the only one left.
LEMMA OnlyRouteLeft ==
    TypeOK /\ at \in Unblocked /\ ~HasAlternate => Unblocked \subseteq {at}
<1> SUFFICES ASSUME TypeOK, at \in Unblocked, ~HasAlternate, NEW u \in Unblocked, u # at
             PROVE  FALSE
  OBVIOUS
<1>1. Unblocked \subseteq Routes BY DEF Unblocked, TypeOK
<1>2. IsFiniteSet(Unblocked) /\ Cardinality(Unblocked) \in Nat
  BY <1>1, FS_Subset, FS_CardinalityType, ConstantsAssumption DEF ConstantsAssumption
<1>3. {u, at} \subseteq Unblocked OBVIOUS
<1>4. Cardinality({u, at}) = 2
  <2>1. IsFiniteSet({at}) /\ Cardinality({at}) = 1 BY FS_Singleton
  <2>2. Cardinality({at} \cup {u}) = Cardinality({at}) + 1 BY <2>1, FS_AddElement
  <2>3. {u, at} = {at} \cup {u} OBVIOUS
  <2> QED BY <2>1, <2>2, <2>3
<1>5. Cardinality({u, at}) <= Cardinality(Unblocked) BY <1>2, <1>3, FS_Subset
<1> QED BY <1>2, <1>4, <1>5 DEF HasAlternate

LEMMA ExhaustedStep ==
    TypeOK /\ BlockedStaysBlocked /\ Alive /\ FailureMeansExhausted /\ [Next]_vars
        => FailureMeansExhausted'
<1> SUFFICES ASSUME TypeOK, BlockedStaysBlocked, Alive, FailureMeansExhausted, [Next]_vars,
                    pc' = "done", cause' \in {"switch", "exception", "skip"}, retryAllowed'
             PROVE  Exhausted'
  BY DEF FailureMeansExhausted, Exhausted
<1>1. MaxAttempts \in Nat
  BY ConstantsAssumption DEF ConstantsAssumption, MaxAttempts
<1>2. CASE GiveUp
  <2>1. /\ UNCHANGED <<cands, method, n, att, late, blocked, cause>>
        /\ n = MaxAttempts \/ WindowSpent \/ Unblocked = {}
    BY <1>2 DEF GiveUp, input, budget, routing
  <2>2. Unblocked # {}
    BY <1>2 DEF GiveUp, Alive, Unblocked
  <2> QED BY <1>1, <2>1, <2>2
    DEF Exhausted, MaxAttempts, retryAllowed, WindowSpent, Enforced, TypeOK
<1>3. ASSUME SkipRoute PROVE Exhausted'
  <2>1. cands' = cands /\ cands \subseteq blocked' /\ cause' = "skip"
    BY <1>3 DEF SkipRoute, input
  <2>2. Unblocked' = {} BY <2>1 DEF Unblocked
  <2> QED BY <2>1, <2>2 DEF Exhausted
<1>4. CASE SkipUnsupported \/ SkipCooling BY <1>3, <1>4 DEF SkipUnsupported, SkipCooling
<1>5. CASE RaceWon \/ Succeed BY <1>5 DEF RaceWon, Succeed
<1>6. CASE Raise
  <2>1. ~HasAlternate BY <1>6 DEF Raise
  <2>2. ~BacksOff /\ pc = "wait" /\ UNCHANGED <<cands, method, n, late, blocked, at>>
    BY <1>6, <2>1 DEF Raise, input
  <2>3. Unblocked' = Unblocked /\ Unblocked \subseteq {at}
    <3>1. at \in Unblocked BY <2>2 DEF BlockedStaysBlocked
    <3> QED BY <2>1, <2>2, <3>1, OnlyRouteLeft DEF Unblocked
  <2>4. n >= MaxAttempts \/ (Enforced /\ late) \/ NoBackoff
    BY <1>1, <2>2 DEF BacksOff, retryAllowed, TypeOK
  <2> QED BY <2>2, <2>3, <2>4 DEF Exhausted, MaxAttempts, retryAllowed, Enforced
<1>7. ASSUME NEW r \in ErrorReply, Answer(r) PROVE Exhausted'
  <2>1. /\ pc = "wait" /\ UNCHANGED <<cands, method, at>> /\ att' = att + 1
        /\ cause' = IF RateLimited(r) THEN "rateLimited" ELSE r.act
    BY <1>7 DEF Answer, Record, input
  <2>2. r.act = "switch" /\ cause' = "switch" BY <2>1 DEF ErrorReply
  <2>3. ReturnError(r)
    BY <1>7, <2>1, <2>2 DEF Answer, RetryRateLimited, ReturnRateLimited, SwitchKey, Failover,
       SwitchModel, BackOff, CloseAndContinue
  <2>4. retryAllowed BY <2>1 DEF retryAllowed
  <2>5. ~HasAlternate BY <2>2, <2>3, <2>4 DEF ReturnError, FailsOver
  <2>6. CASE Final(r)
    <3>1. ~AttemptsLeft BY <2>2, <2>4, <2>6 DEF Final
    <3> QED BY <1>1, <2>1, <3>1 DEF Exhausted, AttemptsLeft, MaxAttempts, retryAllowed, TypeOK
  <2>7. CASE ~Final(r)
    <3>1. blocked' = blocked \cup {at} BY <2>3, <2>7 DEF ReturnError
    <3>2. Unblocked' \subseteq Unblocked BY <2>1, <3>1 DEF Unblocked
    <3>3. at \in Unblocked BY <2>1 DEF BlockedStaysBlocked
    <3> QED BY <2>1, <2>2, <2>5, <3>2, <3>3, OnlyRouteLeft DEF Exhausted
  <2> QED BY <2>6, <2>7
<1>8. CASE UNCHANGED vars
  BY <1>8 DEF vars, input, budget, routing, reply, FailureMeansExhausted, Exhausted,
     retryAllowed, MaxAttempts, Enforced, Unblocked
<1>9. CASE Start \/ NextAttempt \/ RaceLost \/ Send \/ WindowElapses \/ Interfere
  BY <1>9 DEF Start, NextAttempt, RaceLost, Send, WindowElapses, Interfere
<1> QED
  BY <1>2, <1>4, <1>5, <1>6, <1>7, <1>8, <1>9
  DEF Next, Step, Iterate, Attempt, Conclude

\* A retryable request ends in failure only when its budget, its window or its
\* routes are spent.
THEOREM FailureMeansExhaustedCorrect == Spec => []FailureMeansExhausted
<1>1. Init => Alive /\ FailureMeansExhausted BY DEF Init, Alive, FailureMeansExhausted
<1> QED BY <1>1, TypeCorrect, BlockedCorrect, AliveStep, ExhaustedStep, PTL DEF Spec

-----------------------------------------------------------------------------
(* The choice of routes and models (RouteSelection).  First sequences: what *)
(* Among, Joined and Sorted return.  Recursive functions exist because a    *)
(* least number for which they did not would have a predecessor for which   *)
(* they do.                                                                 *)

LEMMA LeastNat ==
  ASSUME NEW T, T \subseteq Nat, T # {}
  PROVE  \E x \in T : \A y \in T : x <= y
<1> DEFINE R == OpToRel(<, Nat)
<1>1. IsWellFoundedOn(R, Nat) BY NatLessThanWellFounded
<1>2. \A x, y \in Nat : y < x => <<y, x>> \in R BY DEF OpToRel
<1> HIDE DEF R
<1>3. PICK x \in T : \A y \in T : ~(<<y, x>> \in R) BY <1>1, WFMin
<1>4. ASSUME NEW y \in T PROVE x <= y
  <2>1. x \in Nat /\ y \in Nat /\ <<y, x>> \notin R BY <1>3
  <2>2. ~(y < x) BY <1>2, <2>1
  <2> QED BY <2>1, <2>2
<1> QED BY <1>4

\* Induction: a set of numbers that has 0 and what follows each of its members
LEMMA Climb ==
  ASSUME NEW size \in Nat, NEW T, 0 \in T, \A k \in 1 .. size : k - 1 \in T => k \in T
  PROVE  \A k \in 0 .. size : k \in T
<1> SUFFICES ASSUME NEW j \in 0 .. size, j \notin T PROVE FALSE OBVIOUS
<1> DEFINE Miss == {k \in 0 .. size : k \notin T}
<1>1. Miss \subseteq Nat /\ Miss # {} OBVIOUS
<1>2. PICK x \in Miss : \A y \in Miss : x <= y BY <1>1, LeastNat
<1>3. x \in 1 .. size /\ x \notin T BY <1>2
<1>4. x - 1 \in 0 .. size /\ x - 1 \notin Miss BY <1>2, <1>3
<1>5. x - 1 \in T BY <1>4
<1> QED BY <1>3, <1>5

\* A function that is defined step by step exists.
Steps(f, size, base, G) == f[0] = base /\ \A k \in 1 .. size : f[k] = G[k][f[k - 1]]

LEMMA Stepwise ==
  \A size, A, base, G : size \in Nat /\ base \in A /\ G \in [1 .. size -> [A -> A]] =>
     \E f \in [0 .. size -> A] : Steps(f, size, base, G)
<1> SUFFICES ASSUME NEW size \in Nat, NEW A, NEW base \in A, NEW G \in [1 .. size -> [A -> A]]
             PROVE  \E f \in [0 .. size -> A] : Steps(f, size, base, G)
  OBVIOUS
<1> USE DEF Steps
<1> DEFINE Upto(m) == \E f \in [0 .. m -> A] :
                        f[0] = base /\ \A k \in 1 .. m : f[k] = G[k][f[k - 1]]
           T == {m \in 0 .. size : Upto(m)}
<1>1. Upto(0)
  <2> DEFINE f == [i \in 0 .. 0 |-> base]
  <2>1. f \in [0 .. 0 -> A] /\ f[0] = base OBVIOUS
  <2>2. 1 .. 0 = {} OBVIOUS
  <2> HIDE DEF f
  <2> QED BY <2>1, <2>2
<1>2. ASSUME NEW m \in 1 .. size, Upto(m - 1) PROVE Upto(m)
  <2>1. PICK f \in [0 .. (m - 1) -> A] :
           f[0] = base /\ \A k \in 1 .. (m - 1) : f[k] = G[k][f[k - 1]]
    BY <1>2
  <2> DEFINE g == [i \in 0 .. m |-> IF i = m THEN G[m][f[m - 1]] ELSE f[i]]
  <2>2. f[m - 1] \in A BY <2>1
  <2>3. G[m] \in [A -> A] OBVIOUS
  <2>4. G[m][f[m - 1]] \in A BY <2>2, <2>3
  <2>5. \A i \in 0 .. m : i # m => i \in 0 .. (m - 1) OBVIOUS
  <2>6. g \in [0 .. m -> A] BY <2>1, <2>4, <2>5
  <2>7. g[0] = base BY <2>1
  <2>8. ASSUME NEW k \in 1 .. m PROVE g[k] = G[k][g[k - 1]]
    <3>1. k - 1 \in 0 .. m /\ k - 1 # m /\ k \in 0 .. m OBVIOUS
    <3>2. g[k - 1] = f[k - 1] BY <3>1
    <3>3. CASE k = m BY <3>2, <3>3
    <3>4. CASE k # m
      <4>1. k \in 1 .. (m - 1) BY <3>4
      <4>2. g[k] = f[k] BY <3>1, <3>4
      <4> QED BY <4>1, <4>2, <2>1, <3>2
    <3> QED BY <3>3, <3>4
  <2> QED BY <2>6, <2>7, <2>8
<1> HIDE DEF Upto
<1>3. 0 \in T /\ \A k \in 1 .. size : k - 1 \in T => k \in T BY <1>1, <1>2
<1>4. \A k \in 0 .. size : k \in T BY <1>3, Climb
<1>5. Upto(size) BY <1>4
<1> QED BY <1>5 DEF Upto

Gathering(f, seq, set) ==
  /\ f[0] = <<>>
  /\ \A k \in 1 .. Len(seq) :
        f[k] = IF seq[k] \in set THEN Append(f[k - 1], seq[k]) ELSE f[k - 1]
  /\ Among(seq, set) = f[Len(seq)]

LEMMA AmongSteps ==
  \A S, set : \A seq \in Seq(S) : \E f \in [0 .. Len(seq) -> Seq(S)] : Gathering(f, seq, set)
<1> SUFFICES ASSUME NEW S, NEW seq \in Seq(S), NEW set
             PROVE  \E f \in [0 .. Len(seq) -> Seq(S)] : Gathering(f, seq, set)
  OBVIOUS
<1> DEFINE size == Len(seq)
           Is(f) == f = [k \in 0 .. size |->
                           IF k = 0 THEN <<>>
                           ELSE IF seq[k] \in set THEN Append(f[k - 1], seq[k]) ELSE f[k - 1]]
           G == [k \in 1 .. size |-> [a \in Seq(S) |->
                           IF seq[k] \in set THEN Append(a, seq[k]) ELSE a]]
           upTo == CHOOSE f : Is(f)
<1>1. size \in Nat /\ <<>> \in Seq(S) /\ \A k \in 1 .. size : seq[k] \in S OBVIOUS
<1>2. G \in [1 .. size -> [Seq(S) -> Seq(S)]] BY <1>1
<1>3. \A k \in 1 .. size : \A a \in Seq(S) :
         G[k][a] = IF seq[k] \in set THEN Append(a, seq[k]) ELSE a
  OBVIOUS
<1> HIDE DEF G
<1>4. PICK f \in [0 .. size -> Seq(S)] : f[0] = <<>> /\ \A k \in 1 .. size : f[k] = G[k][f[k - 1]]
  <2> DEFINE A == Seq(S)
             base == <<>>
  <2>1. size \in Nat /\ base \in A /\ G \in [1 .. size -> [A -> A]] BY <1>1, <1>2
  <2> HIDE DEF size, A, base
  <2>2. \E f \in [0 .. size -> A] : Steps(f, size, base, G)
    BY <2>1, Stepwise
  <2> QED BY <2>2 DEF A, base, Steps
<1>5. \A k \in 1 .. size : f[k] = IF seq[k] \in set THEN Append(f[k - 1], seq[k]) ELSE f[k - 1]
  <2> TAKE k \in 1 .. size
  <2>1. k - 1 \in 0 .. size BY <1>1
  <2>2. f[k - 1] \in Seq(S) BY <2>1
  <2>3. f[k] = G[k][f[k - 1]] BY <1>4
  <2> QED BY <2>2, <2>3, <1>3
<1>6. Is(f)
  <2> HIDE DEF size
  <2> DEFINE g == [k \in 0 .. size |-> IF k = 0 THEN <<>>
                     ELSE IF seq[k] \in set THEN Append(f[k - 1], seq[k]) ELSE f[k - 1]]
  <2>1. \A k \in 0 .. size : k = 0 \/ k \in 1 .. size BY <1>1
  <2>2. \A k \in 0 .. size : f[k] = g[k] BY <2>1, <1>4, <1>5
  <2>3. f = g BY <2>2
  <2> QED BY <2>3
<1>7. Is(upTo) BY <1>6
<1>8. Among(seq, set) = upTo[size] BY DEF Among
<1> HIDE DEF upTo, Is
<1>9. upTo = [k \in 0 .. size |-> IF k = 0 THEN <<>>
                ELSE IF seq[k] \in set THEN Append(upTo[k - 1], seq[k]) ELSE upTo[k - 1]]
  BY <1>7 DEF Is
<1>10. upTo[0] = <<>> /\ \A k \in 1 .. size :
          upTo[k] = IF seq[k] \in set THEN Append(upTo[k - 1], seq[k]) ELSE upTo[k - 1]
  <2> HIDE DEF size
  <2>1. 0 \in 0 .. size /\ \A k \in 1 .. size : k \in 0 .. size /\ k # 0 BY <1>1
  <2> QED BY <2>1, <1>9
<1> DEFINE T == {k \in 0 .. size : upTo[k] \in Seq(S)}
<1>11. 0 \in T
  <2>1. 0 \in 0 .. size BY <1>1
  <2>2. upTo[0] \in Seq(S) BY <1>10
  <2> QED BY <2>1, <2>2
<1>12. ASSUME NEW k \in 1 .. size, k - 1 \in T PROVE k \in T
  <2>1. k \in 0 .. size /\ upTo[k - 1] \in Seq(S) /\ seq[k] \in S BY <1>1, <1>12
  <2>2. upTo[k] = IF seq[k] \in set THEN Append(upTo[k - 1], seq[k]) ELSE upTo[k - 1]
    BY <1>10
  <2>3. upTo[k] \in Seq(S) BY <2>1, <2>2
  <2> QED BY <2>1, <2>3
<1>13. \A k \in 0 .. size : k \in T
  <2> HIDE DEF size, T
  <2> QED BY <1>1, <1>11, <1>12, Climb
<1>14. upTo \in [0 .. size -> Seq(S)] BY <1>9, <1>13
<1> HIDE DEF size
<1>15. \E g \in [0 .. size -> Seq(S)] :
          /\ g[0] = <<>>
          /\ \A k \in 1 .. size : g[k] = IF seq[k] \in set THEN Append(g[k - 1], seq[k]) ELSE g[k - 1]
          /\ Among(seq, set) = g[size]
  BY <1>14, <1>10, <1>8
<1> QED BY <1>15 DEF size, Gathering

\* What Among keeps is what is in the set, in the order it had.
LEMMA AmongKeeps ==
  ASSUME NEW S, NEW seq \in Seq(S), NEW set
  PROVE  /\ Among(seq, set) \in Seq(S)
         /\ \A i \in DOMAIN Among(seq, set) : \E p \in DOMAIN seq :
               Among(seq, set)[i] = seq[p] /\ seq[p] \in set
         /\ \A p \in DOMAIN seq : seq[p] \in set =>
               \E i \in DOMAIN Among(seq, set) : Among(seq, set)[i] = seq[p]
         /\ \A j \in DOMAIN Among(seq, set) : \A i \in 1 .. (j - 1) :
               \E q \in DOMAIN seq : \E p \in 1 .. (q - 1) :
                  Among(seq, set)[i] = seq[p] /\ Among(seq, set)[j] = seq[q]
<1>0. PICK f \in [0 .. Len(seq) -> Seq(S)] : Gathering(f, seq, set) BY AmongSteps
<1> DEFINE size == Len(seq)
<1>1. /\ f \in [0 .. size -> Seq(S)] /\ f[0] = <<>> /\ Among(seq, set) = f[size]
      /\ \A k \in 1 .. size : f[k] = IF seq[k] \in set THEN Append(f[k - 1], seq[k]) ELSE f[k - 1]
  BY <1>0 DEF Gathering
<1>2. size \in Nat /\ DOMAIN seq = 1 .. size /\ \A k \in 1 .. size : seq[k] \in S OBVIOUS
<1> DEFINE Members(k) == \A i \in DOMAIN f[k] : \E p \in 1 .. k : f[k][i] = seq[p] /\ seq[p] \in set
           Whole(k) == \A p \in 1 .. k : seq[p] \in set => \E i \in DOMAIN f[k] : f[k][i] = seq[p]
           InOrder(k) == \A j \in DOMAIN f[k] : \A i \in 1 .. (j - 1) :
                            \E q \in 1 .. k : \E p \in 1 .. (q - 1) : f[k][i] = seq[p] /\ f[k][j] = seq[q]
           T == {k \in 0 .. size : Members(k) /\ Whole(k) /\ InOrder(k)}
<1> HIDE DEF size
<1>3. 0 \in T
  <2>1. 0 \in 0 .. size /\ DOMAIN f[0] = {} /\ 1 .. 0 = {} BY <1>1, <1>2
  <2> QED BY <2>1
<1>4. ASSUME NEW k \in 1 .. size, k - 1 \in T PROVE k \in T
  <2>1. k \in 0 .. size /\ k - 1 \in 0 .. size /\ seq[k] \in S /\ f[k - 1] \in Seq(S) BY <1>2
  <2>2. Members(k - 1) /\ Whole(k - 1) /\ InOrder(k - 1) BY <1>4
  <2>3. \A p \in 1 .. k : p \in 1 .. (k - 1) \/ p = k OBVIOUS
  <2>4. k \in 1 .. k /\ \A p \in 1 .. (k - 1) : p \in 1 .. k BY <1>2
  <2>5. CASE seq[k] \notin set
    <3>1. f[k] = f[k - 1] BY <1>1, <2>5
    <3>2. Members(k) BY <2>2, <2>4, <3>1
    <3>3. Whole(k) BY <2>2, <2>3, <2>5, <3>1
    <3>4. InOrder(k) BY <2>2, <2>4, <3>1
    <3> QED BY <2>1, <3>2, <3>3, <3>4
  <2>6. CASE seq[k] \in set
    <3> DEFINE m == Len(f[k - 1])
    <3>1. f[k] = Append(f[k - 1], seq[k]) BY <1>1, <2>6
    <3>2. /\ m \in Nat /\ DOMAIN f[k - 1] = 1 .. m /\ DOMAIN f[k] = 1 .. (m + 1)
          /\ f[k][m + 1] = seq[k] /\ \A i \in 1 .. m : f[k][i] = f[k - 1][i]
      BY <2>1, <3>1
    <3> HIDE DEF m
    <3>3. \A i \in DOMAIN f[k] : i \in 1 .. m \/ i = m + 1 BY <3>2
    <3>4. \A i \in 1 .. m : i \in DOMAIN f[k] BY <3>2
    <3>5. Members(k)
      <4> SUFFICES ASSUME NEW i \in DOMAIN f[k]
                   PROVE \E p \in 1 .. k : f[k][i] = seq[p] /\ seq[p] \in set
        OBVIOUS
      <4>1. CASE i = m + 1 BY <2>4, <2>6, <3>2, <4>1
      <4>2. CASE i \in 1 .. m
        <5>1. PICK p \in 1 .. (k - 1) : f[k - 1][i] = seq[p] /\ seq[p] \in set BY <2>2, <3>2, <4>2
        <5> QED BY <5>1, <2>4, <3>2, <4>2
      <4> QED BY <3>3, <4>1, <4>2
    <3>6. Whole(k)
      <4> SUFFICES ASSUME NEW p \in 1 .. k, seq[p] \in set
                   PROVE \E i \in DOMAIN f[k] : f[k][i] = seq[p]
        OBVIOUS
      <4>1. CASE p = k
        <5>1. m + 1 \in DOMAIN f[k] BY <3>2
        <5> QED BY <5>1, <4>1, <3>2
      <4>2. CASE p \in 1 .. (k - 1)
        <5>1. PICK i \in DOMAIN f[k - 1] : f[k - 1][i] = seq[p] BY <2>2, <4>2
        <5> QED BY <5>1, <3>2, <3>4
      <4> QED BY <2>3, <4>1, <4>2
    <3>7. InOrder(k)
      <4> SUFFICES ASSUME NEW j \in DOMAIN f[k], NEW i \in 1 .. (j - 1)
                   PROVE \E q \in 1 .. k : \E p \in 1 .. (q - 1) :
                            f[k][i] = seq[p] /\ f[k][j] = seq[q]
        OBVIOUS
      <4>0. i \in 1 .. m BY <3>2, <3>3
      <4>1. CASE j = m + 1
        <5>1. PICK p \in 1 .. (k - 1) : f[k - 1][i] = seq[p] BY <2>2, <3>2, <4>0
        <5>2. f[k][i] = seq[p] /\ f[k][j] = seq[k] BY <5>1, <3>2, <4>0, <4>1
        <5> QED BY <5>2, <2>4
      <4>2. CASE j \in 1 .. m
        <5>1. PICK q \in 1 .. (k - 1) : \E p \in 1 .. (q - 1) : f[k - 1][i] = seq[p] /\ f[k - 1][j] = seq[q]
          BY <2>2, <3>2, <4>2
        <5>2. PICK p \in 1 .. (q - 1) : f[k - 1][i] = seq[p] /\ f[k - 1][j] = seq[q] BY <5>1
        <5>3. f[k][i] = seq[p] /\ f[k][j] = seq[q] BY <5>2, <3>2, <4>0, <4>2
        <5> QED BY <5>3, <2>4
      <4> QED BY <3>3, <4>1, <4>2
    <3> QED BY <2>1, <3>5, <3>6, <3>7
  <2> QED BY <2>5, <2>6
<1>5. \A k \in 0 .. size : k \in T
  <2> HIDE DEF T
  <2> QED BY <1>2, <1>3, <1>4, Climb
<1>6. size \in T
  <2> HIDE DEF T, size
  <2> QED BY <1>2, <1>5
<1> HIDE DEF size
<1>7. f[size] \in Seq(S) /\ Members(size) /\ Whole(size) /\ InOrder(size) BY <1>2, <1>6
<1> DEFINE kept == Among(seq, set)
<1>8. kept = f[size] BY <1>1
<1> HIDE DEF kept
<1>9. kept \in Seq(S) BY <1>7, <1>8
<1>10. \A i \in DOMAIN kept : \E p \in DOMAIN seq : kept[i] = seq[p] /\ seq[p] \in set
  BY <1>2, <1>7, <1>8
<1>11. \A p \in DOMAIN seq : seq[p] \in set => \E i \in DOMAIN kept : kept[i] = seq[p]
  BY <1>2, <1>7, <1>8
<1>12. \A j \in DOMAIN kept : \A i \in 1 .. (j - 1) : \E q \in DOMAIN seq : \E p \in 1 .. (q - 1) :
          kept[i] = seq[p] /\ kept[j] = seq[q]
  <2> SUFFICES ASSUME NEW j \in DOMAIN kept, NEW i \in 1 .. (j - 1)
               PROVE  \E q \in DOMAIN seq : \E p \in 1 .. (q - 1) : kept[i] = seq[p] /\ kept[j] = seq[q]
    OBVIOUS
  <2>1. j \in DOMAIN f[size] BY <1>8
  <2>2. PICK q \in 1 .. size : \E p \in 1 .. (q - 1) : f[size][i] = seq[p] /\ f[size][j] = seq[q]
    BY <1>7, <2>1
  <2>3. q \in DOMAIN seq BY <1>2
  <2> QED BY <2>2, <2>3, <1>8
<1> QED BY <1>9, <1>10, <1>11, <1>12 DEF kept

\* ... and so the elements of both
LEMMA AmongRange ==
  ASSUME NEW S, NEW seq \in Seq(S), NEW set
  PROVE  Among(seq, set) \in Seq(S) /\ Range(Among(seq, set)) = Range(seq) \cap set
BY AmongKeeps DEF Range

LEMMA SeqElement == \A R : \A s \in Seq(R) : \A k \in 1 .. Len(s) : s[k] \in R
OBVIOUS

LEMMA Concatenated ==
  \A S : \A s, t \in Seq(S) :
     /\ s \o t \in Seq(S) /\ Len(s) \in Nat /\ Len(t) \in Nat
     /\ Len(s \o t) = Len(s) + Len(t)
     /\ DOMAIN s = 1 .. Len(s) /\ DOMAIN t = 1 .. Len(t)
     /\ DOMAIN (s \o t) = 1 .. (Len(s) + Len(t))
     /\ \A i \in 1 .. Len(s) : (s \o t)[i] = s[i]
     /\ \A i \in (Len(s) + 1) .. (Len(s) + Len(t)) : (s \o t)[i] = t[i - Len(s)]
OBVIOUS

LEMMA JoinedSteps ==
  \A S, turns : turns \in Seq([order : Seq(S), at : Nat]) =>
     \E f \in [0 .. Len(turns) -> Seq(S)] :
        /\ f[0] = <<>>
        /\ \A k \in 1 .. Len(turns) : f[k] = f[k - 1] \o turns[k].order
        /\ Joined(turns) = f[Len(turns)]
<1> SUFFICES ASSUME NEW S, NEW turns \in Seq([order : Seq(S), at : Nat])
             PROVE  \E f \in [0 .. Len(turns) -> Seq(S)] :
                       /\ f[0] = <<>>
                       /\ \A k \in 1 .. Len(turns) : f[k] = f[k - 1] \o turns[k].order
                       /\ Joined(turns) = f[Len(turns)]
  OBVIOUS
<1> DEFINE size == Len(turns)
           Is(f) == f = [k \in 0 .. size |-> IF k = 0 THEN <<>> ELSE f[k - 1] \o turns[k].order]
           G == [k \in 1 .. size |-> [a \in Seq(S) |-> a \o turns[k].order]]
           upTo == CHOOSE f : Is(f)
<1>0. \A k \in 1 .. size : turns[k] \in [order : Seq(S), at : Nat] BY SeqElement
<1>1. size \in Nat /\ <<>> \in Seq(S) /\ \A k \in 1 .. size : turns[k].order \in Seq(S) BY <1>0
<1>2. G \in [1 .. size -> [Seq(S) -> Seq(S)]] BY <1>1
<1>3. \A k \in 1 .. size : \A a \in Seq(S) : G[k][a] = a \o turns[k].order
  OBVIOUS
<1> HIDE DEF G
<1>4. PICK f \in [0 .. size -> Seq(S)] : f[0] = <<>> /\ \A k \in 1 .. size : f[k] = G[k][f[k - 1]]
  <2> DEFINE A == Seq(S)
             base == <<>>
  <2>1. size \in Nat /\ base \in A /\ G \in [1 .. size -> [A -> A]] BY <1>1, <1>2
  <2> HIDE DEF size, A, base
  <2>2. \E f \in [0 .. size -> A] : Steps(f, size, base, G)
    BY <2>1, Stepwise
  <2> QED BY <2>2 DEF A, base, Steps
<1>5. \A k \in 1 .. size : f[k] = f[k - 1] \o turns[k].order
  <2> TAKE k \in 1 .. size
  <2>1. k - 1 \in 0 .. size BY <1>1
  <2>2. f[k - 1] \in Seq(S) BY <2>1
  <2>3. f[k] = G[k][f[k - 1]] BY <1>4
  <2> QED BY <2>2, <2>3, <1>3
<1>6. Is(f)
  <2> HIDE DEF size
  <2> DEFINE g == [k \in 0 .. size |-> IF k = 0 THEN <<>> ELSE f[k - 1] \o turns[k].order]
  <2>1. \A k \in 0 .. size : k = 0 \/ k \in 1 .. size BY <1>1
  <2>2. \A k \in 0 .. size : f[k] = g[k] BY <2>1, <1>4, <1>5
  <2>3. f = g BY <2>2
  <2> QED BY <2>3
<1>7. Is(upTo) BY <1>6
<1>8. Joined(turns) = upTo[size] BY DEF Joined
<1> HIDE DEF upTo, Is
<1>9. upTo = [k \in 0 .. size |-> IF k = 0 THEN <<>> ELSE upTo[k - 1] \o turns[k].order]
  BY <1>7 DEF Is
<1>10. upTo[0] = <<>> /\ \A k \in 1 .. size : upTo[k] = upTo[k - 1] \o turns[k].order
  <2> HIDE DEF size
  <2>1. 0 \in 0 .. size /\ \A k \in 1 .. size : k \in 0 .. size /\ k # 0 BY <1>1
  <2> QED BY <2>1, <1>9
<1> DEFINE T == {k \in 0 .. size : upTo[k] \in Seq(S)}
<1>11. 0 \in T
  <2>1. 0 \in 0 .. size BY <1>1
  <2>2. upTo[0] \in Seq(S) BY <1>10
  <2> QED BY <2>1, <2>2
<1>12. ASSUME NEW k \in 1 .. size, k - 1 \in T PROVE k \in T
  <2>1. k \in 0 .. size /\ upTo[k - 1] \in Seq(S) /\ turns[k].order \in Seq(S) BY <1>1, <1>12
  <2>2. upTo[k] = upTo[k - 1] \o turns[k].order BY <1>10
  <2>3. upTo[k] \in Seq(S) BY <2>1, <2>2
  <2> QED BY <2>1, <2>3
<1>13. \A k \in 0 .. size : k \in T
  <2> HIDE DEF size, T
  <2> QED BY <1>1, <1>11, <1>12, Climb
<1>14. upTo \in [0 .. size -> Seq(S)] BY <1>9, <1>13
<1> HIDE DEF size
<1>15. \E g \in [0 .. size -> Seq(S)] :
          /\ g[0] = <<>>
          /\ \A k \in 1 .. size : g[k] = g[k - 1] \o turns[k].order
          /\ Joined(turns) = g[size]
  BY <1>14, <1>10, <1>8
<1> QED BY <1>15 DEF size

\* What is joined is a sequence of what the turns have, each turn's before
\* the next one's, and is empty only where every turn is.
LEMMA JoinedKeeps ==
  ASSUME NEW S, NEW turns \in Seq([order : Seq(S), at : Nat])
  PROVE  /\ Joined(turns) \in Seq(S)
         /\ \A j \in DOMAIN Joined(turns) : \E q \in DOMAIN turns :
               Joined(turns)[j] \in Range(turns[q].order)
         /\ \A j \in DOMAIN Joined(turns) : \A i \in 1 .. (j - 1) :
               \E q \in DOMAIN turns : \E p \in 1 .. q :
                  /\ Joined(turns)[i] \in Range(turns[p].order)
                  /\ Joined(turns)[j] \in Range(turns[q].order)
         /\ turns # <<>> /\ (\A k \in DOMAIN turns : turns[k].order # <<>>) => Joined(turns) # <<>>
<1>0. PICK f \in [0 .. Len(turns) -> Seq(S)] :
         /\ f[0] = <<>>
         /\ \A k \in 1 .. Len(turns) : f[k] = f[k - 1] \o turns[k].order
         /\ Joined(turns) = f[Len(turns)]
  BY JoinedSteps
<1> DEFINE size == Len(turns)
<1>1. /\ f \in [0 .. size -> Seq(S)] /\ f[0] = <<>> /\ Joined(turns) = f[size]
      /\ \A k \in 1 .. size : f[k] = f[k - 1] \o turns[k].order
  BY <1>0
<1>19. \A k \in 1 .. size : turns[k] \in [order : Seq(S), at : Nat] BY SeqElement
<1>2. size \in Nat /\ DOMAIN turns = 1 .. size /\ \A k \in 1 .. size : turns[k].order \in Seq(S) BY <1>19
<1>20. turns # <<>> => size \in 1 .. size OBVIOUS
<1> DEFINE Members(k) == \A j \in DOMAIN f[k] : \E q \in 1 .. k : f[k][j] \in Range(turns[q].order)
           InOrder(k) == \A j \in DOMAIN f[k] : \A i \in 1 .. (j - 1) :
                            \E q \in 1 .. k : \E p \in 1 .. q :
                               f[k][i] \in Range(turns[p].order) /\ f[k][j] \in Range(turns[q].order)
           T == {k \in 0 .. size : Members(k) /\ InOrder(k)}
<1> HIDE DEF size
<1>3. 0 \in T
  <2>1. 0 \in 0 .. size /\ DOMAIN f[0] = {} BY <1>1, <1>2
  <2> QED BY <2>1
<1>4. ASSUME NEW k \in 1 .. size, k - 1 \in T PROVE k \in T
  <2>0. k \in 0 .. size /\ k - 1 \in 0 .. size BY <1>2
  <2>1. k \in 0 .. size /\ k - 1 \in 0 .. size /\ turns[k].order \in Seq(S) /\ f[k - 1] \in Seq(S)
    BY <1>1, <1>2, <2>0
  <2>2. Members(k - 1) /\ InOrder(k - 1) BY <1>4
  <2>4. k \in 1 .. k /\ \A p \in 1 .. (k - 1) : p \in 1 .. k BY <1>2
  <2> DEFINE m == Len(f[k - 1])
             l == Len(turns[k].order)
  <2>5. f[k] = f[k - 1] \o turns[k].order BY <1>1
  <2>6. /\ m \in Nat /\ l \in Nat /\ DOMAIN f[k - 1] = 1 .. m /\ DOMAIN f[k] = 1 .. (m + l)
        /\ DOMAIN turns[k].order = 1 .. l
        /\ \A i \in 1 .. m : f[k][i] = f[k - 1][i]
        /\ \A i \in (m + 1) .. (m + l) : f[k][i] = turns[k].order[i - m]
    <3> DEFINE s == f[k - 1]
               t == turns[k].order
    <3>1. s \in Seq(S) /\ t \in Seq(S) /\ f[k] = s \o t BY <2>1, <2>5
    <3> HIDE DEF s, t
    <3>2. /\ Len(s) \in Nat /\ Len(t) \in Nat /\ DOMAIN s = 1 .. Len(s)
          /\ DOMAIN f[k] = 1 .. (Len(s) + Len(t)) /\ DOMAIN t = 1 .. Len(t)
          /\ \A i \in 1 .. Len(s) : f[k][i] = s[i]
          /\ \A i \in (Len(s) + 1) .. (Len(s) + Len(t)) : f[k][i] = t[i - Len(s)]
      BY <3>1, Concatenated
    <3> QED BY <3>2 DEF s, t
  <2> HIDE DEF m, l
  <2>7. \A i \in (m + 1) .. (m + l) : f[k][i] \in Range(turns[k].order)
    <3> TAKE i \in (m + 1) .. (m + l)
    <3>1. i - m \in 1 .. l BY <2>6
    <3> QED BY <3>1, <2>6 DEF Range
  <2>8. \A i \in DOMAIN f[k] : i \in 1 .. m \/ i \in (m + 1) .. (m + l) BY <2>6
  <2>9. Members(k)
    <3> SUFFICES ASSUME NEW j \in DOMAIN f[k]
                 PROVE \E q \in 1 .. k : f[k][j] \in Range(turns[q].order)
      OBVIOUS
    <3>1. CASE j \in 1 .. m
      <4>1. PICK q \in 1 .. (k - 1) : f[k - 1][j] \in Range(turns[q].order) BY <2>2, <2>6, <3>1
      <4> QED BY <4>1, <2>4, <2>6, <3>1
    <3>2. CASE j \in (m + 1) .. (m + l) BY <2>4, <2>7, <3>2
    <3> QED BY <2>8, <3>1, <3>2
  <2>10. InOrder(k)
    <3> SUFFICES ASSUME NEW j \in DOMAIN f[k], NEW i \in 1 .. (j - 1)
                 PROVE \E q \in 1 .. k : \E p \in 1 .. q :
                          f[k][i] \in Range(turns[p].order) /\ f[k][j] \in Range(turns[q].order)
      OBVIOUS
    <3>1. CASE j \in 1 .. m
      <4>0. i \in 1 .. m BY <2>6, <3>1
      <4>1. PICK q \in 1 .. (k - 1) : \E p \in 1 .. q :
               f[k - 1][i] \in Range(turns[p].order) /\ f[k - 1][j] \in Range(turns[q].order)
        BY <2>2, <2>6, <3>1
      <4> QED BY <4>0, <4>1, <2>4, <2>6, <3>1
    <3>2. CASE j \in (m + 1) .. (m + l)
      <4>1. f[k][j] \in Range(turns[k].order) BY <2>7, <3>2
      <4>2. i \in DOMAIN f[k] BY <2>6, <3>2
      <4>3. PICK p \in 1 .. k : f[k][i] \in Range(turns[p].order) BY <2>9, <4>2
      <4> QED BY <4>1, <4>3, <2>4
    <3> QED BY <2>8, <3>1, <3>2
  <2> QED BY <2>1, <2>9, <2>10
<1>5. \A k \in 0 .. size : k \in T
  <2> HIDE DEF T
  <2> QED BY <1>2, <1>3, <1>4, Climb
<1>6. size \in T
  <2> HIDE DEF T
  <2> QED BY <1>2, <1>5
<1>7. f[size] \in Seq(S) /\ Members(size) /\ InOrder(size) BY <1>1, <1>2, <1>6
<1> DEFINE all == Joined(turns)
<1>8. all = f[size] BY <1>1
<1> HIDE DEF all
<1>9. all \in Seq(S) BY <1>7, <1>8
<1>10. \A j \in DOMAIN all : \E q \in DOMAIN turns : all[j] \in Range(turns[q].order)
  BY <1>2, <1>7, <1>8
<1>11. \A j \in DOMAIN all : \A i \in 1 .. (j - 1) : \E q \in DOMAIN turns : \E p \in 1 .. q :
          all[i] \in Range(turns[p].order) /\ all[j] \in Range(turns[q].order)
  BY <1>2, <1>7, <1>8
<1>12. ASSUME turns # <<>>, \A k \in DOMAIN turns : turns[k].order # <<>> PROVE all # <<>>
  <2>1. size \in 1 .. size BY <1>12, <1>20
  <2>4. size - 1 \in 0 .. size BY <1>2, <2>1
  <2>2. f[size - 1] \in Seq(S) /\ turns[size].order \in Seq(S) /\ turns[size].order # <<>>
    BY <1>1, <1>2, <1>12, <2>1, <2>4
  <2>3. f[size] = f[size - 1] \o turns[size].order BY <1>1, <2>1
  <2> QED BY <2>2, <2>3, <1>8
<1> QED BY <1>9, <1>10, <1>11, <1>12 DEF all

\* An arrangement of a set has all of it and nothing else.
LEMMA Arrangement ==
  ASSUME NEW S, IsFiniteSet(S), NEW s \in SetToSeqs(S)
  PROVE  s \in Seq(S) /\ Range(s) = S
<1> DEFINE D == 1 .. Cardinality(S)
<1>1. Cardinality(S) \in Nat BY FS_CardinalityType
<1>2. IsFiniteSet(D) /\ Cardinality(D) = Cardinality(S)
  <2>1. 1 \in Int /\ Cardinality(S) \in Int BY <1>1
  <2>2. IsFiniteSet(D) /\ Cardinality(D) = IF 1 > Cardinality(S) THEN 0 ELSE Cardinality(S) - 1 + 1
    BY <2>1, FS_Interval
  <2> QED BY <1>1, <2>2
<1>3. s \in [D -> S] /\ \A i, j \in D : i # j => s[i] # s[j] BY DEF SetToSeqs
<1> HIDE DEF D
<1>4. s \in Injection(D, S) BY <1>3 DEF Injection, IsInjective
<1>5. s \in Surjection(D, S) BY <1>2, <1>4, FS_Injection
<1>6. \A x \in S : \E i \in D : s[i] = x BY <1>5 DEF Surjection
<1>7. Range(s) = S BY <1>3, <1>6 DEF Range
<1>8. s \in Seq(S) BY <1>1, <1>3 DEF D
<1> QED BY <1>7, <1>8

LEMMA RangeFinite ==
  ASSUME NEW S, NEW seq \in Seq(S)
  PROVE  IsFiniteSet(Range(seq))
<1>1. Len(seq) \in Nat /\ DOMAIN seq = 1 .. Len(seq) OBVIOUS
<1>2. 1 \in Int /\ Len(seq) \in Int BY <1>1
<1>3. IsFiniteSet(1 .. Len(seq)) BY <1>2, FS_Interval
<1>4. IsFiniteSet(DOMAIN seq) BY <1>1, <1>3
<1>5. seq \in Surjection(DOMAIN seq, Range(seq)) BY DEF Surjection, Range
<1> QED BY <1>4, <1>5, FS_Surjection

-----------------------------------------------------------------------------
(* The groups of a ranking                                                  *)

NonEmpty == Seq(AllRoutes) \ {<<>>}

\* x does not rank after y.
NotAfter(rank, x, y) == rank[x] = rank[y] \/ ~Before(rank[y], rank[x])

\* No route of a later group ranks before one of this group.
InRanks(groups, rank) ==
  \A q \in DOMAIN groups : \A p \in 1 .. q :
     \A x \in Range(groups[p]) : \A y \in Range(groups[q]) : NotAfter(rank, x, y)

LEMMA PeersKeep ==
  ASSUME NEW active \in Seq(AllRoutes), NEW rank, NEW one \in Range(active)
  PROVE  /\ Peers(active, rank, one) \in NonEmpty
         /\ one \in Range(Peers(active, rank, one))
         /\ Range(Peers(active, rank, one)) \subseteq Range(active)
         /\ \A x \in Range(Peers(active, rank, one)) : rank[x] = rank[one]
         /\ rank[Head(Peers(active, rank, one))] = rank[one]
<1> DEFINE set == {route \in AllRoutes : rank[route] = rank[one]}
           peers == Among(active, set)
<1>1. peers \in Seq(AllRoutes) /\ Range(peers) = Range(active) \cap set
  <2> HIDE DEF set
  <2> QED BY AmongRange
<1>2. one \in AllRoutes BY DEF Range
<1>3. one \in Range(peers) BY <1>1, <1>2
<1>4. peers # <<>> BY <1>3 DEF Range
<1>5. Peers(active, rank, one) = peers BY DEF Peers
<1> HIDE DEF peers
<1>6. Head(peers) \in Range(peers)
  <2>1. 1 \in DOMAIN peers /\ Head(peers) = peers[1] BY <1>1, <1>4
  <2> QED BY <2>1 DEF Range
<1>7. \A x \in Range(peers) : rank[x] = rank[one] BY <1>1
<1> QED BY <1>1, <1>3, <1>4, <1>5, <1>6, <1>7 DEF NonEmpty

LEMMA GroupsKeep ==
  ASSUME NEW active \in Seq(AllRoutes), NEW rank, NEW groups \in Groups(active, rank)
  PROVE  /\ groups \in Seq(NonEmpty)
         /\ UNION {Range(g) : g \in Range(groups)} = Range(active)
         /\ InRanks(groups, rank)
<1> DEFINE Set == {Peers(active, rank, one) : one \in Range(active)}
<1>1. groups \in SetToSeqs(Set) BY DEF Groups, Sorted
<1>2. \A j \in DOMAIN groups : \A i \in 1 .. (j - 1) :
         ~Before(rank[Head(groups[j])], rank[Head(groups[i])])
  BY DEF Groups, Sorted
<1>3. IsFiniteSet(Set)
  <2>1. IsFiniteSet(Range(active)) BY RangeFinite
  <2> DEFINE f == [one \in Range(active) |-> Peers(active, rank, one)]
  <2>2. f \in Surjection(Range(active), Set) BY DEF Surjection
  <2> HIDE DEF f, Set
  <2> QED BY <2>1, <2>2, FS_Surjection
<1>4. groups \in Seq(Set) /\ Range(groups) = Set
  <2> HIDE DEF Set
  <2> QED BY <1>1, <1>3, Arrangement
<1>5. \A g \in Set : /\ g \in NonEmpty /\ Range(g) \subseteq Range(active)
                     /\ \A x \in Range(g) : rank[x] = rank[Head(g)] /\ x \in AllRoutes
  <2> TAKE g \in Set
  <2>1. PICK one \in Range(active) : g = Peers(active, rank, one) OBVIOUS
  <2>2. \A x \in Range(active) : x \in AllRoutes BY DEF Range
  <2> QED BY <2>1, <2>2, PeersKeep
<1>6. \A x \in Range(active) : \E g \in Set : x \in Range(g)
  <2> TAKE x \in Range(active)
  <2>1. x \in Range(Peers(active, rank, x)) BY PeersKeep
  <2> QED BY <2>1
<1> HIDE DEF Set
<1>7. UNION {Range(g) : g \in Range(groups)} = Range(active) BY <1>4, <1>5, <1>6
<1>8. \A k \in DOMAIN groups : groups[k] \in Set BY <1>4 DEF Range
<1>9. InRanks(groups, rank)
  <2> SUFFICES ASSUME NEW q \in DOMAIN groups, NEW p \in 1 .. q,
                      NEW x \in Range(groups[p]), NEW y \in Range(groups[q])
               PROVE  NotAfter(rank, x, y)
    BY DEF InRanks
  <2>1. DOMAIN groups = 1 .. Len(groups) /\ Len(groups) \in Nat BY <1>4
  <2>2. p \in DOMAIN groups BY <2>1
  <2>3. rank[x] = rank[Head(groups[p])] /\ rank[y] = rank[Head(groups[q])] /\ x \in AllRoutes
    BY <1>5, <1>8, <2>2
  <2>4. CASE p = q BY <2>3, <2>4 DEF NotAfter
  <2>5. CASE p # q
    <3>1. p \in 1 .. (q - 1) BY <2>1, <2>5
    <3> QED BY <3>1, <1>2, <2>3 DEF NotAfter
  <2> QED BY <2>4, <2>5
<1>10. groups \in Seq(NonEmpty)
  <2>1. Set \subseteq NonEmpty BY <1>5
  <2>2. \A k \in DOMAIN groups : groups[k] \in NonEmpty BY <2>1, <1>8
  <2> HIDE DEF NonEmpty
  <2> QED BY <1>4, <2>2
<1> QED BY <1>7, <1>9, <1>10

\* Without some routes the groups that are left keep their order.
LEMMA WithoutKeeps ==
  ASSUME NEW groups \in Seq(NonEmpty), NEW taken \in Seq(AllRoutes)
  PROVE  /\ WithoutRoutes(groups, taken) \in Seq(NonEmpty)
         /\ UNION {Range(g) : g \in Range(WithoutRoutes(groups, taken))}
              = (UNION {Range(g) : g \in Range(groups)}) \ Range(taken)
         /\ \A rank : InRanks(groups, rank) => InRanks(WithoutRoutes(groups, taken), rank)
<1> DEFINE left == AllRoutes \ Range(taken)
           cut == [k \in DOMAIN groups |-> Among(groups[k], left)]
           set == Range(cut) \ {<<>>}
           rest == Among(cut, set)
<1>1. WithoutRoutes(groups, taken) = rest BY DEF WithoutRoutes
<1>2. \A k \in DOMAIN groups : groups[k] \in Seq(AllRoutes) BY DEF NonEmpty
<1>3. \A k \in DOMAIN groups : /\ Among(groups[k], left) \in Seq(AllRoutes)
                               /\ Range(Among(groups[k], left)) = Range(groups[k]) \cap left
  <2> HIDE DEF left
  <2> QED BY <1>2, AmongRange
<1>4. \A k \in DOMAIN groups : Range(groups[k]) \subseteq AllRoutes BY <1>2 DEF Range
<1>5. DOMAIN cut = DOMAIN groups /\ \A k \in DOMAIN groups : 
         cut[k] \in Seq(AllRoutes) /\ Range(cut[k]) = Range(groups[k]) \ Range(taken)
  BY <1>3, <1>4
<1>6. cut \in Seq(Seq(AllRoutes))
  <2>1. DOMAIN groups = 1 .. Len(groups) /\ Len(groups) \in Nat OBVIOUS
  <2>2. cut \in [1 .. Len(groups) -> Seq(AllRoutes)] BY <1>5, <2>1
  <2> HIDE DEF cut
  <2> QED BY <2>1, <2>2
<1> HIDE DEF cut, left
<1>7. /\ rest \in Seq(Seq(AllRoutes))
      /\ \A i \in DOMAIN rest : \E p \in DOMAIN cut : rest[i] = cut[p] /\ cut[p] \in set
      /\ \A p \in DOMAIN cut : cut[p] \in set => \E i \in DOMAIN rest : rest[i] = cut[p]
      /\ \A j \in DOMAIN rest : \A i \in 1 .. (j - 1) : \E q \in DOMAIN cut : \E p \in 1 .. (q - 1) :
            rest[i] = cut[p] /\ rest[j] = cut[q]
  <2> DEFINE SS == Seq(AllRoutes)
  <2> HIDE DEF set, SS
  <2>1. cut \in Seq(SS) BY <1>6 DEF SS
  <2>2. /\ rest \in Seq(SS)
        /\ \A i \in DOMAIN rest : \E p \in DOMAIN cut : rest[i] = cut[p] /\ cut[p] \in set
        /\ \A p \in DOMAIN cut : cut[p] \in set => \E i \in DOMAIN rest : rest[i] = cut[p]
        /\ \A j \in DOMAIN rest : \A i \in 1 .. (j - 1) : \E q \in DOMAIN cut : \E p \in 1 .. (q - 1) :
              rest[i] = cut[p] /\ rest[j] = cut[q]
    BY <2>1, AmongKeeps
  <2> QED BY <2>2 DEF SS
<1> HIDE DEF rest
<1>8. \A i \in DOMAIN rest : rest[i] \in NonEmpty BY <1>5, <1>7 DEF NonEmpty
<1>9. rest \in Seq(NonEmpty)
  <2> HIDE DEF NonEmpty
  <2> QED BY <1>7, <1>8
<1>10. ASSUME NEW x
       PROVE x \in UNION {Range(g) : g \in Range(rest)}
              <=> x \in (UNION {Range(g) : g \in Range(groups)}) \ Range(taken)
  <2>1. ASSUME x \in UNION {Range(g) : g \in Range(rest)}
        PROVE  x \in (UNION {Range(g) : g \in Range(groups)}) \ Range(taken)
    <3>1. PICK i \in DOMAIN rest : x \in Range(rest[i]) BY <2>1 DEF Range
    <3>2. PICK p \in DOMAIN groups : rest[i] = cut[p] BY <1>5, <1>7
    <3>3. x \in Range(groups[p]) \ Range(taken) BY <1>5, <3>1, <3>2
    <3>4. groups[p] \in Range(groups) BY DEF Range
    <3>5. x \in UNION {Range(g) : g \in Range(groups)} BY <3>3, <3>4
    <3> QED BY <3>3, <3>5
  <2>2. ASSUME x \in (UNION {Range(g) : g \in Range(groups)}) \ Range(taken)
        PROVE  x \in UNION {Range(g) : g \in Range(rest)}
    <3>1. PICK p \in DOMAIN groups : x \in Range(groups[p]) BY <2>2 DEF Range
    <3>0. x \notin Range(taken) BY <2>2
    <3>2. x \in Range(cut[p]) BY <1>5, <3>0, <3>1
    <3>3. cut[p] # <<>> BY <3>2 DEF Range
    <3>4. cut[p] \in set BY <1>5, <3>3 DEF Range
    <3>5. PICK i \in DOMAIN rest : rest[i] = cut[p] BY <1>5, <1>7, <3>4
    <3>6. rest[i] \in Range(rest) BY DEF Range
    <3> QED BY <3>2, <3>5, <3>6
  <2> QED BY <2>1, <2>2
<1>11. ASSUME NEW rank, InRanks(groups, rank) PROVE InRanks(rest, rank)
  <2> SUFFICES ASSUME NEW j \in DOMAIN rest, NEW i \in 1 .. j,
                      NEW x \in Range(rest[i]), NEW y \in Range(rest[j])
               PROVE  NotAfter(rank, x, y)
    BY DEF InRanks
  <2>1. DOMAIN rest = 1 .. Len(rest) /\ Len(rest) \in Nat BY <1>7
  <2>2. PICK q \in DOMAIN groups : \E p \in 1 .. q : rest[i] = cut[p] /\ rest[j] = cut[q]
    <3>1. CASE i = j
      <4>1. PICK q \in DOMAIN groups : rest[i] = cut[q] BY <1>5, <1>7, <3>1
      <4>2. q \in 1 .. q BY DEF NonEmpty
      <4> QED BY <3>1, <4>1, <4>2
    <3>2. CASE i # j
      <4>1. i \in 1 .. (j - 1) BY <2>1, <3>2
      <4>2. PICK q \in DOMAIN groups : \E p \in 1 .. (q - 1) : rest[i] = cut[p] /\ rest[j] = cut[q]
        BY <1>5, <1>7, <4>1
      <4>3. \A p \in 1 .. (q - 1) : p \in 1 .. q BY DEF NonEmpty
      <4> QED BY <4>2, <4>3
    <3> QED BY <3>1, <3>2
  <2>3. PICK p \in 1 .. q : rest[i] = cut[p] /\ rest[j] = cut[q] BY <2>2
  <2>4. p \in DOMAIN groups BY DEF NonEmpty
  <2>5. x \in Range(groups[p]) /\ y \in Range(groups[q]) BY <1>5, <2>3, <2>4
  <2> QED BY <1>11, <2>5 DEF InRanks
<1> QED BY <1>1, <1>9, <1>10, <1>11

-----------------------------------------------------------------------------
(* The rotation of a group                                                  *)

CursorsOK == \A g \in DOMAIN cursor : g \in Seq(AllRoutes) /\ cursor[g].at \in 0 .. (Len(g) - 1)

LEMMA Remainder == ASSUME NEW a \in Nat, NEW b \in Nat \ {0} PROVE a % b \in 0 .. (b - 1)
OBVIOUS

LEMMA FromKeeps ==
  ASSUME NEW group \in NonEmpty, NEW k \in 0 .. (Len(group) - 1)
  PROVE  /\ From(group, k) \in Seq(AllRoutes) /\ From(group, k) # <<>>
         /\ Range(From(group, k)) \subseteq Range(group)
<1> DEFINE s == SubSeq(group, k + 1, Len(group))
           t == SubSeq(group, 1, k)
<1>1. group \in Seq(AllRoutes) /\ Len(group) \in Nat \ {0} BY DEF NonEmpty
<1>2. /\ s \in Seq(AllRoutes) /\ Len(s) = Len(group) - k
      /\ \A i \in 1 .. (Len(group) - k) : s[i] = group[k + i]
  BY <1>1
<1>3. t \in Seq(AllRoutes) /\ Len(t) = k /\ \A i \in 1 .. k : t[i] = group[i] BY <1>1
<1>4. Range(s) \subseteq Range(group)
  <2>1. \A i \in 1 .. (Len(group) - k) : k + i \in 1 .. Len(group) BY <1>1
  <2>2. DOMAIN s = 1 .. (Len(group) - k) /\ DOMAIN group = 1 .. Len(group) BY <1>1, <1>2
  <2> HIDE DEF s
  <2> QED BY <1>2, <2>1, <2>2 DEF Range
<1>5. Range(t) \subseteq Range(group)
  <2>1. \A i \in 1 .. k : i \in 1 .. Len(group) BY <1>1
  <2>2. DOMAIN t = 1 .. k /\ DOMAIN group = 1 .. Len(group) BY <1>1, <1>3
  <2> HIDE DEF t
  <2> QED BY <1>3, <2>1, <2>2 DEF Range
<1>6. From(group, k) = s \o t BY DEF From
<1> HIDE DEF s, t
<1>7. s \o t \in Seq(AllRoutes) /\ Len(s \o t) = Len(group)
  <2>1. s \in Seq(AllRoutes) /\ t \in Seq(AllRoutes) BY <1>2, <1>3
  <2>2. s \o t \in Seq(AllRoutes) /\ Len(s \o t) = Len(s) + Len(t) BY <2>1, Concatenated
  <2> QED BY <1>1, <1>2, <1>3, <2>2
<1>8. Range(s \o t) \subseteq Range(s) \cup Range(t)
  <2> SUFFICES ASSUME NEW i \in DOMAIN (s \o t)
               PROVE  (s \o t)[i] \in Range(s) \cup Range(t)
    BY DEF Range
  <2>1. /\ Len(s) \in Nat /\ Len(t) \in Nat /\ DOMAIN s = 1 .. Len(s) /\ DOMAIN t = 1 .. Len(t)
        /\ DOMAIN (s \o t) = 1 .. (Len(s) + Len(t))
        /\ \A j \in 1 .. Len(s) : (s \o t)[j] = s[j]
        /\ \A j \in (Len(s) + 1) .. (Len(s) + Len(t)) : (s \o t)[j] = t[j - Len(s)]
    <3>1. s \in Seq(AllRoutes) /\ t \in Seq(AllRoutes) BY <1>2, <1>3
    <3> QED BY <3>1, Concatenated
  <2>2. CASE i \in 1 .. Len(s) BY <2>1, <2>2 DEF Range
  <2>3. CASE i \in (Len(s) + 1) .. (Len(s) + Len(t))
    <3>1. i - Len(s) \in 1 .. Len(t) BY <2>1, <2>3
    <3> QED BY <3>1, <2>1, <2>3 DEF Range
  <2> QED BY <2>1, <2>2, <2>3
<1> QED BY <1>1, <1>4, <1>5, <1>6, <1>7, <1>8

LEMMA ShuffledKeeps ==
  ASSUME NEW turned \in Seq(AllRoutes), turned # <<>>, NEW p \in Shuffled(turned)
  PROVE  p \in Seq(AllRoutes) /\ p # <<>> /\ Range(p) = Range(turned)
<1>1. Len(turned) \in Nat /\ DOMAIN turned = 1 .. Len(turned) OBVIOUS
<1>2. CASE Len(turned) = 2
  <2>1. p = turned \/ p = <<turned[2], turned[1]>> BY <1>2 DEF Shuffled
  <2>2. turned[1] \in AllRoutes /\ turned[2] \in AllRoutes
    <3>1. 1 \in 1 .. Len(turned) /\ 2 \in 1 .. Len(turned) BY <1>2
    <3> QED BY <3>1, SeqElement
  <2>3. Range(<<turned[2], turned[1]>>) = {turned[1], turned[2]} BY DEF Range
  <2>4. Range(turned) = {turned[1], turned[2]}
    <3>1. DOMAIN turned = {1, 2} BY <1>1, <1>2
    <3> QED BY <3>1 DEF Range
  <2>5. <<turned[2], turned[1]>> \in Seq(AllRoutes) BY <2>2
  <2>6. <<turned[2], turned[1]>> # <<>> OBVIOUS
  <2>7. CASE p = turned BY <2>7
  <2>8. CASE p = <<turned[2], turned[1]>>
    <3> HIDE <1>2
    <3> QED BY <2>8, <2>3, <2>4, <2>5, <2>6
  <2> QED BY <2>1, <2>7, <2>8
<1>3. CASE Len(turned) # 2
  <2>1. p \in SetToSeqs(Range(turned)) BY <1>3 DEF Shuffled
  <2>2. IsFiniteSet(Range(turned)) BY RangeFinite
  <2>3. p \in Seq(Range(turned)) /\ Range(p) = Range(turned) BY <2>1, <2>2, Arrangement
  <2>4. 1 \in DOMAIN turned BY <1>1
  <2>5. turned[1] \in Range(p) BY <2>3, <2>4 DEF Range
  <2>6. p # <<>> BY <2>5 DEF Range
  <2>7. \A x \in Range(turned) : x \in AllRoutes BY DEF Range
  <2>8. p \in Seq(AllRoutes) BY <2>3, <2>7
  <2> QED BY <2>3, <2>6, <2>8
<1> QED BY <1>2, <1>3

LEMMA TurnsKeep ==
  ASSUME CursorsOK, NEW group \in NonEmpty, NEW turn \in Turns(group)
  PROVE  /\ turn \in [order : Seq(AllRoutes), at : Nat]
         /\ turn.order # <<>> /\ Range(turn.order) \subseteq Range(group)
         /\ turn.at \in 0 .. (Len(group) - 1)
<1>1. group \in Seq(AllRoutes) /\ group # <<>> /\ Len(group) \in Nat \ {0} BY DEF NonEmpty
<1>2. CursorOf(group) \in 0 .. (Len(group) - 1) BY <1>1 DEF CursorOf, CursorsOK
<1>3. \A k \in 0 .. (Len(group) - 1) : (k + 1) % Len(group) \in 0 .. (Len(group) - 1)
  <2> TAKE k \in 0 .. (Len(group) - 1)
  <2>1. k + 1 \in Nat OBVIOUS
  <2> QED BY <2>1, <1>1, Remainder
<1>4. CASE Len(group) = 1
  <2>1. turn = [order |-> group, at |-> 0] BY <1>4 DEF Turns
  <2> QED BY <1>1, <2>1
<1>5. CASE Len(group) # 1 /\ ~config.random
  <2>1. turn = [order |-> From(group, CursorOf(group)), at |-> (CursorOf(group) + 1) % Len(group)]
    BY <1>5 DEF Turns
  <2>2. /\ From(group, CursorOf(group)) \in Seq(AllRoutes) /\ From(group, CursorOf(group)) # <<>>
        /\ Range(From(group, CursorOf(group))) \subseteq Range(group)
    BY <1>2, FromKeeps
  <2>3. (CursorOf(group) + 1) % Len(group) \in 0 .. (Len(group) - 1) BY <1>2, <1>3
  <2> QED BY <1>1, <2>1, <2>2, <2>3
<1>6. CASE Len(group) # 1 /\ config.random
  <2>1. PICK k \in 0 .. (Len(group) - 1) : \E p \in Shuffled(From(group, k)) :
           turn = [order |-> p, at |-> (k + 1) % Len(group)]
    BY <1>6 DEF Turns
  <2>2. PICK p \in Shuffled(From(group, k)) : turn = [order |-> p, at |-> (k + 1) % Len(group)]
    BY <2>1
  <2>3. /\ From(group, k) \in Seq(AllRoutes) /\ From(group, k) # <<>>
        /\ Range(From(group, k)) \subseteq Range(group)
    BY FromKeeps
  <2>4. p \in Seq(AllRoutes) /\ p # <<>> /\ Range(p) \subseteq Range(group)
    BY <2>3, ShuffledKeeps
  <2>5. (k + 1) % Len(group) \in 0 .. (Len(group) - 1) BY <1>3
  <2> QED BY <1>1, <2>2, <2>4, <2>5
<1> QED BY <1>4, <1>5, <1>6

LEMMA AllTurnsKeep ==
  ASSUME CursorsOK, NEW groups \in Seq(NonEmpty), NEW turns \in AllTurns(groups)
  PROVE  /\ turns \in Seq([order : Seq(AllRoutes), at : Nat])
         /\ DOMAIN turns = DOMAIN groups
         /\ \A k \in DOMAIN groups : /\ turns[k].order # <<>>
                                     /\ Range(turns[k].order) \subseteq Range(groups[k])
                                     /\ turns[k].at \in 0 .. (Len(groups[k]) - 1)
<1> DEFINE R == [order : Seq(AllRoutes), at : Nat]
<1>1. DOMAIN groups = 1 .. Len(groups) /\ Len(groups) \in Nat OBVIOUS
<1>2. turns = [k \in DOMAIN groups |-> turns[k]] /\ \A k \in DOMAIN groups : turns[k] \in Turns(groups[k])
  BY DEF AllTurns
<1>3. \A k \in DOMAIN groups : groups[k] \in NonEmpty
  <2> HIDE DEF NonEmpty
  <2> QED BY <1>1, SeqElement
<1>4. \A k \in DOMAIN groups : /\ turns[k] \in R /\ turns[k].order # <<>>
                               /\ Range(turns[k].order) \subseteq Range(groups[k])
                               /\ turns[k].at \in 0 .. (Len(groups[k]) - 1)
  <2> HIDE DEF NonEmpty
  <2> QED BY <1>2, <1>3, TurnsKeep
<1>5. turns \in Seq(R)
  <2> HIDE DEF R
  <2>1. turns \in [1 .. Len(groups) -> R] BY <1>1, <1>2, <1>4
  <2> QED BY <1>1, <2>1
<1> QED BY <1>2, <1>4, <1>5

\* The cycle is made of the routes that are active, one not after a route it
\* ranks before, but for the route that was put first.
LEMMA CycleKeeps ==
  ASSUME CursorsOK, NEW active \in NonEmpty, NEW rank,
         NEW groups \in Groups(active, rank),
         NEW head \in Seq(AllRoutes), Len(head) <= 1, Range(head) \subseteq Range(active),
         NEW turns \in AllTurns(WithoutRoutes(groups, head))
  PROVE  /\ head \o Joined(turns) \in NonEmpty
         /\ Range(head \o Joined(turns)) \subseteq Range(active)
         /\ \A j \in DOMAIN (head \o Joined(turns)) : \A i \in 1 .. (j - 1) :
               \/ i = 1 /\ head # <<>>
               \/ NotAfter(rank, (head \o Joined(turns))[i], (head \o Joined(turns))[j])
<1> DEFINE rest == WithoutRoutes(groups, head)
           tail == Joined(turns)
           ring == head \o tail
<1>1. active \in Seq(AllRoutes) /\ active # <<>> BY DEF NonEmpty
<1>2. /\ groups \in Seq(NonEmpty) /\ UNION {Range(g) : g \in Range(groups)} = Range(active)
      /\ InRanks(groups, rank)
  BY <1>1, GroupsKeep
<1>3. /\ rest \in Seq(NonEmpty)
      /\ UNION {Range(g) : g \in Range(rest)} = Range(active) \ Range(head)
      /\ InRanks(rest, rank)
  BY <1>2, WithoutKeeps
<1>4. /\ turns \in Seq([order : Seq(AllRoutes), at : Nat]) /\ DOMAIN turns = DOMAIN rest
      /\ \A k \in DOMAIN rest : turns[k].order # <<>> /\ Range(turns[k].order) \subseteq Range(rest[k])
  BY <1>3, AllTurnsKeep
<1> HIDE DEF rest
<1>5. /\ tail \in Seq(AllRoutes)
      /\ \A j \in DOMAIN tail : \E q \in DOMAIN turns : tail[j] \in Range(turns[q].order)
      /\ \A j \in DOMAIN tail : \A i \in 1 .. (j - 1) : \E q \in DOMAIN turns : \E p \in 1 .. q :
            tail[i] \in Range(turns[p].order) /\ tail[j] \in Range(turns[q].order)
      /\ turns # <<>> /\ (\A k \in DOMAIN turns : turns[k].order # <<>>) => tail # <<>>
  BY <1>4, JoinedKeeps
<1> HIDE DEF tail
<1>6. \A k \in DOMAIN rest : Range(rest[k]) \subseteq Range(active)
  <2> TAKE k \in DOMAIN rest
  <2>1. rest[k] \in Range(rest) BY DEF Range
  <2>2. Range(rest[k]) \subseteq UNION {Range(g) : g \in Range(rest)} BY <2>1
  <2> QED BY <1>3, <2>2
<1>7. /\ ring \in Seq(AllRoutes) /\ Len(head) \in Nat /\ Len(tail) \in Nat
      /\ Len(ring) = Len(head) + Len(tail)
      /\ DOMAIN head = 1 .. Len(head) /\ DOMAIN tail = 1 .. Len(tail)
      /\ DOMAIN ring = 1 .. (Len(head) + Len(tail))
      /\ \A i \in 1 .. Len(head) : ring[i] = head[i]
      /\ \A i \in (Len(head) + 1) .. (Len(head) + Len(tail)) : ring[i] = tail[i - Len(head)]
  BY <1>5, Concatenated
<1> HIDE DEF ring
<1>8. ring # <<>>
  <2>1. CASE head # <<>> BY <1>7, <2>1
  <2>2. CASE head = <<>>
    <3>1. 1 \in DOMAIN active BY <1>1
    <3>2. active[1] \in Range(active) /\ active[1] \notin Range(head) BY <2>2, <3>1 DEF Range
    <3>3. PICK g \in Range(rest) : active[1] \in Range(g) BY <1>3, <3>2
    <3>4. rest # <<>> BY <3>3 DEF Range
    <3>5. 1 \in DOMAIN rest BY <1>3, <3>4
    <3>6. turns # <<>> BY <1>4, <3>5
    <3>7. tail # <<>> BY <1>4, <1>5, <3>6
    <3> QED BY <1>5, <1>7, <3>7
  <2> QED BY <2>1, <2>2
<1>9. ASSUME NEW i \in DOMAIN ring PROVE ring[i] \in Range(active)
  <2>1. CASE i \in 1 .. Len(head)
    <3>1. head[i] \in Range(head) BY <1>7, <2>1 DEF Range
    <3> QED BY <1>7, <2>1, <3>1
  <2>2. CASE i \in (Len(head) + 1) .. (Len(head) + Len(tail))
    <3>1. i - Len(head) \in DOMAIN tail BY <1>7, <2>2
    <3>2. PICK q \in DOMAIN turns : tail[i - Len(head)] \in Range(turns[q].order) BY <1>5, <3>1
    <3> QED BY <1>4, <1>6, <1>7, <2>2, <3>2
  <2> QED BY <1>7, <2>1, <2>2
<1>10. ASSUME NEW j \in DOMAIN ring, NEW i \in 1 .. (j - 1), ~(i = 1 /\ head # <<>>)
       PROVE  NotAfter(rank, ring[i], ring[j])
  <2>1. i \in (Len(head) + 1) .. (Len(head) + Len(tail)) /\ j \in (Len(head) + 1) .. (Len(head) + Len(tail))
    <3>1. CASE head = <<>> BY <1>7, <3>1
    <3>2. CASE head # <<>> BY <1>7, <1>10, <3>2
    <3> QED BY <3>1, <3>2
  <2>2. j - Len(head) \in DOMAIN tail /\ i - Len(head) \in 1 .. ((j - Len(head)) - 1) BY <1>7, <2>1
  <2>3. PICK q \in DOMAIN turns : \E p \in 1 .. q :
           tail[i - Len(head)] \in Range(turns[p].order) /\ tail[j - Len(head)] \in Range(turns[q].order)
    BY <1>5, <2>2
  <2>4. PICK p \in 1 .. q :
           tail[i - Len(head)] \in Range(turns[p].order) /\ tail[j - Len(head)] \in Range(turns[q].order)
    BY <2>3
  <2>5. p \in DOMAIN rest /\ q \in DOMAIN rest BY <1>3, <1>4
  <2>6. ring[i] \in Range(rest[p]) /\ ring[j] \in Range(rest[q]) BY <1>4, <1>7, <2>1, <2>4, <2>5
  <2> QED BY <1>3, <2>5, <2>6 DEF InRanks
<1>11. Range(ring) \subseteq Range(active) BY <1>9 DEF Range
<1>12. ring \in NonEmpty BY <1>7, <1>8 DEF NonEmpty
<1> QED BY <1>10, <1>11, <1>12 DEF ring, tail

-----------------------------------------------------------------------------
(* The orders of a route's models                                           *)

LEMMA ConcatRange ==
  ASSUME NEW S, NEW s \in Seq(S), NEW t \in Seq(S)
  PROVE  s \o t \in Seq(S) /\ Range(s \o t) = Range(s) \cup Range(t)
<1>1. /\ s \o t \in Seq(S) /\ Len(s) \in Nat /\ Len(t) \in Nat
      /\ DOMAIN s = 1 .. Len(s) /\ DOMAIN t = 1 .. Len(t)
      /\ DOMAIN (s \o t) = 1 .. (Len(s) + Len(t))
      /\ \A i \in 1 .. Len(s) : (s \o t)[i] = s[i]
      /\ \A i \in (Len(s) + 1) .. (Len(s) + Len(t)) : (s \o t)[i] = t[i - Len(s)]
  BY Concatenated
<1> DEFINE c == s \o t
<1> HIDE DEF c
<1>2. \A i \in DOMAIN c : c[i] \in Range(s) \cup Range(t)
  <2> TAKE i \in DOMAIN c
  <2>1. CASE i \in 1 .. Len(s) BY <1>1, <2>1 DEF c, Range
  <2>2. CASE i \in (Len(s) + 1) .. (Len(s) + Len(t))
    <3>1. i - Len(s) \in DOMAIN t BY <1>1, <2>2
    <3> QED BY <3>1, <1>1, <2>2 DEF c, Range
  <2> QED BY <1>1, <2>1, <2>2 DEF c
<1>3. \A i \in DOMAIN s : s[i] \in Range(c)
  <2> TAKE i \in DOMAIN s
  <2>1. i \in DOMAIN c /\ c[i] = s[i] BY <1>1 DEF c
  <2> QED BY <2>1 DEF Range
<1>4. \A i \in DOMAIN t : t[i] \in Range(c)
  <2> TAKE i \in DOMAIN t
  <2>1. i + Len(s) \in (Len(s) + 1) .. (Len(s) + Len(t)) /\ (i + Len(s)) - Len(s) = i BY <1>1
  <2>2. i + Len(s) \in DOMAIN c /\ c[i + Len(s)] = t[i] BY <1>1, <2>1 DEF c
  <2> QED BY <2>2 DEF Range
<1>5. Range(c) = Range(s) \cup Range(t) BY <1>2, <1>3, <1>4 DEF Range
<1> QED BY <1>1, <1>5 DEF c

LEMMA GatheredKeeps ==
  ASSUME NEW configured \in Seq(Models), NEW offered \in Seq(Models)
  PROVE  /\ Gathered(configured, offered) \in Seq(Models)
         /\ Range(configured) \subseteq Range(Gathered(configured, offered))
         /\ Locked(configured) => Range(Gathered(configured, offered)) \subseteq Range(configured)
<1> DEFINE found == Found(offered, configured)
           more == Discovered(configured, offered)
<1>1. found \in Seq(Models) /\ Range(found) \subseteq Range(configured)
  <2> DEFINE set == Range(offered)
  <2> HIDE DEF set
  <2>1. Among(configured, set) \in Seq(Models) /\ Range(Among(configured, set)) = Range(configured) \cap set
    BY AmongRange
  <2> QED BY <2>1 DEF Found, set
<1>2. more \in Seq(Models)
  <2> DEFINE set == Similar \ Range(configured)
  <2> HIDE DEF set
  <2>1. Among(offered, set) \in Seq(Models) BY AmongRange
  <2> QED BY <2>1 DEF Discovered, set
<1> DEFINE recent == IF Locked(configured) THEN <<>> ELSE more
<1>3. recent \in Seq(Models) /\ (Locked(configured) => Range(recent) = {}) BY <1>2 DEF Range
<1> HIDE DEF found, more, recent
<1>4. more \o configured \in Seq(Models) /\ Range(more \o configured) = Range(more) \cup Range(configured)
  BY <1>2, ConcatRange
<1>5. found \o configured \in Seq(Models) /\ Range(found \o configured) = Range(found) \cup Range(configured)
  BY <1>1, ConcatRange
<1>6. /\ (found \o configured) \o recent \in Seq(Models)
      /\ Range((found \o configured) \o recent) = Range(found \o configured) \cup Range(recent)
  <2> DEFINE s == found \o configured
  <2>1. s \in Seq(Models) /\ recent \in Seq(Models) BY <1>3, <1>5
  <2> HIDE DEF s
  <2>2. s \o recent \in Seq(Models) /\ Range(s \o recent) = Range(s) \cup Range(recent) BY <2>1, ConcatRange
  <2> QED BY <2>2 DEF s
<1>7. \/ /\ ~Locked(configured) /\ Gathered(configured, offered) = more \o configured
      \/ Gathered(configured, offered) = (found \o configured) \o recent
  BY DEF Gathered, found, more, recent
<1> QED BY <1>1, <1>3, <1>4, <1>5, <1>6, <1>7

LEMMA RememberedSet ==
  ASSUME NEW entries, NEW configured, NEW t
  PROVE  /\ Remembered(entries, configured, t) \subseteq Models
         /\ IsFiniteSet(Remembered(entries, configured, t))
         /\ \A m \in Remembered(entries, configured, t) :
               entries[m].successes > 0 /\ (Locked(configured) => m \in Range(configured))
<1>1. Remembered(entries, configured, t) \subseteq Models BY DEF Remembered, Good
<1>2. IsFiniteSet(Models) BY MemoryAssumption
<1>3. IsFiniteSet(Remembered(entries, configured, t)) BY <1>1, <1>2, FS_Subset
<1> QED BY <1>1, <1>3 DEF Remembered, Good

\* A list of configured models and an alias are never exceeded.
LEMMA OrdersKeep ==
  ASSUME NEW entries, NEW configured \in Seq(Models), NEW manual \in SUBSET Models,
         NEW offered \in Seq(Models), NEW t,
         NEW order \in CandidateOrders(entries, configured, manual, offered, t)
  PROVE  /\ order \in Seq(Models)
         /\ Locked(configured) => Range(order) \subseteq Range(configured)
         /\ manual # {} => Range(order) \subseteq manual
<1>1. CASE manual # {}
  <2>1. order = Among(configured, manual) BY <1>1 DEF CandidateOrders
  <2>2. order \in Seq(Models) /\ Range(order) = Range(configured) \cap manual BY <2>1, AmongRange
  <2> QED BY <2>2
<1>2. CASE manual = {} /\ Remembered(entries, configured, t) # {}
  <2> DEFINE set == Remembered(entries, configured, t)
             others == Models \ set
  <2>1. PICK s \in SetToSeqs(set) : order = s \o Among(configured, others)
    BY <1>2 DEF CandidateOrders, RememberedFirst, Sorted
  <2>2. set \subseteq Models /\ IsFiniteSet(set) /\ \A m \in set : Locked(configured) => m \in Range(configured)
    BY RememberedSet
  <2> HIDE DEF set, others
  <2>3. s \in Seq(set) /\ Range(s) = set BY <2>1, <2>2, Arrangement
  <2>4. s \in Seq(Models) BY <2>2, <2>3
  <2>5. Among(configured, others) \in Seq(Models) /\ Range(Among(configured, others)) \subseteq Range(configured)
    BY AmongRange
  <2>6. order \in Seq(Models) /\ Range(order) = Range(s) \cup Range(Among(configured, others))
    BY <2>1, <2>4, <2>5, ConcatRange
  <2> QED BY <1>2, <2>2, <2>3, <2>5, <2>6
<1>3. CASE manual = {} /\ Remembered(entries, configured, t) = {}
  <2> DEFINE models == Gathered(configured, offered)
  <2>1. order \in SetToSeqs(Range(models)) BY <1>3 DEF CandidateOrders, SortByScore, Sorted
  <2>2. models \in Seq(Models) /\ (Locked(configured) => Range(models) \subseteq Range(configured))
    BY GatheredKeeps
  <2> HIDE DEF models
  <2>3. IsFiniteSet(Range(models)) BY <2>2, RangeFinite
  <2>4. order \in Seq(Range(models)) /\ Range(order) = Range(models) BY <2>1, <2>3, Arrangement
  <2>5. Range(models) \subseteq Models BY <2>2 DEF Range
  <2>6. order \in Seq(Models) BY <2>4, <2>5
  <2> QED BY <1>3, <2>2, <2>4, <2>6
<1> QED BY <1>1, <1>2, <1>3

LEMMA PlaceFound ==
  ASSUME NEW models \in Seq(Models), NEW m \in Range(models)
  PROVE  Place(models, m) \in DOMAIN models /\ models[Place(models, m)] = m
<1> DEFINE At == {k \in DOMAIN models : models[k] = m}
<1>1. At # {} /\ At \subseteq Nat BY DEF Range
<1>2. PICK k \in At : \A j \in At : k <= j
  <2> HIDE DEF At
  <2> QED BY <1>1, LeastNat
<1>3. \A j \in 1 .. (k - 1) : j \in DOMAIN models /\ ~(k <= j) OBVIOUS
<1>4. \E l \in DOMAIN models : models[l] = m /\ \A j \in 1 .. (l - 1) : models[j] # m
  BY <1>2, <1>3
<1> QED BY <1>4 DEF Place

\* Without an alias the model asked for comes first in what is gathered, unless
\* it is missing in the list.
LEMMA OwnGathered ==
  ASSUME NEW offered \in Seq(Models), offered # <<>> => Own \in Range(offered)
  PROVE  Gathered(<<Own>>, offered)[1] = Own
<1> DEFINE found == Found(offered, <<Own>>)
           more == Discovered(<<Own>>, offered)
           one == <<Own>>
<1>0. Own \in Models BY MemoryAssumption
<1>1. one \in Seq(Models) /\ Range(one) = {Own} /\ Len(one) = 1 /\ one[1] = Own BY <1>0 DEF Range
<1>2. ~Locked(one) BY <1>1 DEF Locked
<1> DEFINE set == Range(offered)
<1> HIDE DEF set, one
<1>3. Among(one, set) \in Seq(Models) /\ Range(Among(one, set)) = Range(one) \cap set BY <1>1, AmongRange
<1> DEFINE kept == Among(one, set)
<1>4. found = kept BY DEF Found, set, one
<1> HIDE DEF kept
<1>5. kept \in Seq(Models) /\ Range(kept) \subseteq {Own} /\ (Own \in set => kept # <<>>)
  BY <1>1, <1>3, <1>4 DEF kept, Range
<1>6. more \in Seq(Models)
  <2> DEFINE others == Similar \ Range(one)
  <2> HIDE DEF others
  <2>1. Among(offered, others) \in Seq(Models) BY AmongRange
  <2> QED BY <2>1 DEF Discovered, others, one
<1> HIDE DEF more, found
<1>7. Gathered(one, offered) = (found \o one) \o more
  <2>1. ~(offered # <<>> /\ found = <<>>) BY <1>4, <1>5 DEF set
  <2>2. ~(~Locked(one) /\ offered # <<>> /\ Found(offered, one) = <<>>) BY <2>1 DEF found, one
  <2> QED BY <2>2, <1>2 DEF Gathered, found, more, one
<1>8. (found \o one)[1] = Own /\ found \o one \in Seq(Models) /\ Len(found \o one) \in Nat \ {0}
  <2>1. CASE found = <<>> BY <1>1, <2>1
  <2>2. CASE found # <<>>
    <3>1. 1 \in DOMAIN found BY <1>4, <1>5, <2>2
    <3>2. found[1] = Own BY <3>1, <1>4, <1>5 DEF Range
    <3> QED BY <3>1, <3>2, <1>1, <1>4, <1>5
  <2> QED BY <2>1, <2>2
<1>9. ((found \o one) \o more)[1] = Own BY <1>6, <1>8
<1> QED BY <1>7, <1>9 DEF one

\* Another model comes first only where one has been answered with before, or
\* where the model asked for has failed or is missing in the list.
LEMMA OwnFirst ==
  ASSUME NEW entries \in [Models -> Entries], NEW manual \in SUBSET Models,
         NEW offered \in Seq(Models), NEW t \in Nat,
         NEW order \in CandidateOrders(entries, <<Own>>, manual, offered, t),
         order # <<>>, order[1] # Own,
         \A m \in Models : entries[m].score > 0 => entries[m].successes > 0
  PROVE  \/ \E m \in Models \ {Own} : entries[m].successes > 0
         \/ entries[Own].score < 0 \/ entries[Own].until > 0
         \/ offered # <<>> /\ Own \notin Range(offered)
<1> DEFINE one == <<Own>>
           first == order[1]
<1>0. Own \in Models BY MemoryAssumption
<1>1. one \in Seq(Models) /\ Range(one) = {Own} BY <1>0 DEF Range
<1>2. order \in Seq(Models) BY <1>1, OrdersKeep
<1>3. 1 \in DOMAIN order /\ first \in Models /\ first # Own BY <1>2
<1>4. first \in Range(order) BY <1>3 DEF Range
<1> HIDE DEF first
<1>5. CASE manual # {}
  <2>1. order = Among(one, manual) BY <1>5 DEF CandidateOrders
  <2> HIDE DEF one
  <2>2. Range(order) = Range(one) \cap manual BY <1>1, <2>1, AmongRange
  <2> QED BY <1>1, <1>3, <1>4, <2>2
<1>6. CASE manual = {} /\ Remembered(entries, one, t) # {}
  <2> DEFINE set == Remembered(entries, one, t)
             rest == Among(one, Models \ set)
  <2>1. PICK s \in SetToSeqs(set) : order = s \o rest
    BY <1>6 DEF CandidateOrders, RememberedFirst, Sorted
  <2>2. set \subseteq Models /\ IsFiniteSet(set) /\ \A m \in set : entries[m].successes > 0
    BY RememberedSet
  <2>3. rest \in Seq(Models)
    <3> DEFINE others == Models \ set
    <3> HIDE DEF others, one
    <3>1. Among(one, others) \in Seq(Models) BY <1>1, AmongRange
    <3> QED BY <3>1 DEF others
  <2>4. set # {} BY <1>6
  <2> HIDE DEF set, rest
  <2>5. s \in Seq(set) /\ Range(s) = set BY <2>1, <2>2, Arrangement
  <2>6. s # <<>> /\ s \in Seq(Models) BY <2>2, <2>4, <2>5 DEF Range
  <2>7. (s \o rest)[1] = s[1] /\ 1 \in DOMAIN s BY <2>3, <2>6
  <2>8. first \in set BY <2>1, <2>5, <2>7 DEF Range, first
  <2> QED BY <1>3, <2>2, <2>8
<1>7. CASE manual = {} /\ Remembered(entries, one, t) = {}
  <2> SUFFICES ASSUME entries[Own].score >= 0, entries[Own].until = 0,
                      offered # <<>> => Own \in Range(offered),
                      \A m \in Models \ {Own} : ~(entries[m].successes > 0)
               PROVE  FALSE
    BY <1>0 DEF Entries
  <2> DEFINE models == Gathered(one, offered)
             Earlier(m, size) == TriedBefore(entries, offered, models, t, m, size)
  <2>1. order \in SetToSeqs(Range(models)) BY <1>7 DEF CandidateOrders, SortByScore, Sorted
  <2>2. \A j \in DOMAIN order : \A i \in 1 .. (j - 1) : ~Earlier(order[j], order[i])
    BY <1>7 DEF CandidateOrders, SortByScore, Sorted
  <2>3. models \in Seq(Models) /\ Own \in Range(models)
    <3> HIDE DEF one
    <3> QED BY <1>1, GatheredKeeps
  <2>4. models[1] = Own BY OwnGathered
  <2> HIDE DEF models, Earlier
  <2>5. IsFiniteSet(Range(models)) BY <2>3, RangeFinite
  <2>6. order \in Seq(Range(models)) /\ Range(order) = Range(models) BY <2>1, <2>5, Arrangement
  <2>7. PICK j \in DOMAIN order : order[j] = Own BY <2>3, <2>6 DEF Range
  <2>8. 1 \in 1 .. (j - 1)
    <3>1. DOMAIN order = 1 .. Len(order) /\ Len(order) \in Nat BY <1>2
    <3> QED BY <1>3, <2>7, <3>1 DEF first
  <2>9. ~Earlier(Own, first) BY <2>2, <2>7, <2>8 DEF first
  <2>10. first \in Range(models) BY <1>4, <2>6
  <2>11. Place(models, first) \in DOMAIN models /\ models[Place(models, first)] = first
    BY <2>3, <2>10, PlaceFound
  <2>12. Place(models, Own) = 1
    <3>1. /\ Place(models, Own) \in DOMAIN models /\ models[Place(models, Own)] = Own
          /\ \A k \in 1 .. (Place(models, Own) - 1) : models[k] # Own
      <4>1. 1 \in DOMAIN models /\ \A k \in 1 .. (1 - 1) : models[k] # Own
        <5>1. models # <<>> BY <2>3 DEF Range
        <5> QED BY <2>3, <5>1
      <4>2. \E l \in DOMAIN models : models[l] = Own /\ \A k \in 1 .. (l - 1) : models[k] # Own
        BY <4>1, <2>4
      <4> QED BY <4>2 DEF Place
    <3> QED BY <3>1, <2>3, <2>4
  <2>13. Place(models, Own) < Place(models, first)
    <3>1. Place(models, first) \in Nat \ {0} BY <2>3, <2>11
    <3> QED BY <3>1, <1>3, <2>4, <2>11, <2>12
  <2> DEFINE score(m) == CandidateScore(entries[m], t)
             missing(m) == IF m \in Range(offered) THEN 0 ELSE 1
  <2>14. entries[Own] \in Entries /\ entries[first] \in Entries BY <1>0, <1>3
  <2>15. score(Own) \in Int /\ score(Own) >= 0
    <3>1. entries[Own].score \in Int /\ entries[Own].until \in Nat BY <2>14 DEF Entries
    <3> QED BY <3>1 DEF CandidateScore
  <2>16. score(first) \in Int /\ score(first) <= 0
    <3>1. entries[first].score \in Int /\ ~(entries[first].score > 0) BY <1>3, <2>14 DEF Entries
    <3> QED BY <3>1 DEF CandidateScore
  <2>17. missing(Own) <= missing(first) /\ missing(Own) \in Nat /\ missing(first) \in Nat
    <3>1. CASE offered = <<>>
      <4>1. Range(offered) = {} BY <3>1 DEF Range
      <4> QED BY <4>1
    <3>2. CASE offered # <<>> BY <3>2
    <3> QED BY <3>1, <3>2
  <2>18. /\ ~(score(Own) > score(first))
         /\ score(Own) = score(first) => 
               /\ ~(missing(Own) < missing(first))
               /\ missing(Own) = missing(first) => ~(Place(models, Own) < Place(models, first))
    BY <2>9 DEF Earlier, TriedBefore
  <2> HIDE DEF score, missing
  <2>19. score(Own) = score(first) BY <2>15, <2>16, <2>18
  <2>20. missing(Own) = missing(first) BY <2>17, <2>18, <2>19
  <2> QED BY <2>13, <2>18, <2>19, <2>20
<1> QED BY <1>5, <1>6, <1>7

-----------------------------------------------------------------------------
(* Type correctness, one step per action                                    *)

HealthEntries == [failures : Nat, until : Nat, failedAt : Nat]

RequestStates ==
  [pc : {"idle", "looking", "ranking", "choosing", "asking"},
   blocked : SUBSET AllRoutes, active : Seq(AllRoutes), cycle : Seq(AllRoutes),
   order : [AllRoutes -> Seq(Models)], tried : [AllRoutes -> Nat]]

\* The place on each route is one of its order.
Placed(state_) ==
  \A route \in AllRoutes :
     LET order == state_.order[route]
     IN state_.tried[route] \in 1 .. IF order = <<>> THEN 1 ELSE Len(order)

Sound(state_) ==
  /\ state_.pc = "ranking" => state_.active # <<>>
  /\ state_.pc \in {"choosing", "asking"} => state_.cycle # <<>>
  /\ state_.pc = "asking" => LET route == Head(state_.cycle)
                             IN state_.tried[route] \in 1 .. Len(state_.order[route])
  /\ Placed(state_)

RequestsOK == /\ request \in [Requests -> RequestStates]
              /\ \A r \in Requests : Sound(request[r])

RequestsOKNext == /\ request' \in [Requests -> RequestStates]
                  /\ \A r \in Requests : Sound(request'[r])

\* Each failure has taken a tick.
FewFailures == \A route \in AllRoutes : health[route].failures < now

RouteInv == RouteTypeOK /\ FewFailures

LEMMA TypeParts ==
  ASSUME RouteTypeOK
  PROVE  RequestsOK /\ CursorsOK /\ health \in [AllRoutes -> HealthEntries]
BY DEF RouteTypeOK, RequestsOK, CursorsOK, HealthEntries, RequestStates, Sound, Placed

LEMMA OneRequest ==
  ASSUME RequestsOK, NEW r \in Requests, NEW v \in RequestStates, Sound(v),
         request' = [request EXCEPT ![r] = v]
  PROVE  RequestsOKNext
<1>1. request' \in [Requests -> RequestStates] BY DEF RequestsOK
<1>2. ASSUME NEW q \in Requests PROVE Sound(request'[q])
  <2>1. CASE q = r
    <3>1. request'[q] = v BY <2>1 DEF RequestsOK
    <3> QED BY <3>1
  <2>2. CASE q # r
    <3>1. request'[q] = request[q] BY <2>2 DEF RequestsOK
    <3> QED BY <3>1 DEF RequestsOK
  <2> QED BY <2>1, <2>2
<1> QED BY <1>1, <1>2 DEF RequestsOKNext

LEMMA SameRequests ==
  ASSUME RequestsOK, UNCHANGED request PROVE RequestsOKNext
BY DEF RequestsOK, RequestsOKNext

LEMMA IdleOK == Idle \in RequestStates /\ Sound(Idle)
BY DEF Idle, RequestStates, Sound, Placed

\* A change that leaves the orders and the places as they are
LEMMA PlacedStill ==
  ASSUME NEW one, NEW other, Placed(one), other.order = one.order, other.tried = one.tried
  PROVE  Placed(other)
BY DEF Placed

LEMMA CandidatesOK == Candidates \in Seq(AllRoutes)
<1> DEFINE set == {route \in AllRoutes : Names(route)}
<1> HIDE DEF set
<1>1. Listed \in Seq(AllRoutes) BY SelectionAssumption
<1>2. Among(Listed, set) \in Seq(AllRoutes) BY <1>1, AmongRange
<1> QED BY <1>1, <1>2 DEF Candidates, set

LEMMA RemainingOK ==
  ASSUME NEW r \in Requests
  PROVE  /\ Remaining(r) \in Seq(AllRoutes)
         /\ Range(Remaining(r)) = Range(Candidates) \ request[r].blocked
<1> DEFINE set == AllRoutes \ request[r].blocked
<1>1. \A x \in Range(Candidates) : x \in AllRoutes BY CandidatesOK DEF Range
<1> HIDE DEF set
<1>2. Among(Candidates, set) \in Seq(AllRoutes) /\ Range(Among(Candidates, set)) = Range(Candidates) \cap set
  BY CandidatesOK, AmongRange
<1>3. Range(Candidates) \cap set = Range(Candidates) \ request[r].blocked BY <1>1 DEF set
<1> QED BY <1>2, <1>3 DEF Remaining, set

LEMMA LookOK ==
  ASSUME RequestsOK, NEW r \in Requests, Look(r)
  PROVE  RequestsOKNext
<1> DEFINE set == {route \in AllRoutes : ~Cooling(route)}
           warm == Among(Remaining(r), set)
           active == IF warm = <<>> THEN Remaining(r) ELSE warm
           phase == IF active = <<>> THEN "idle" ELSE IF Len(active) = 1 THEN "choosing" ELSE "ranking"
           v == [request[r] EXCEPT !.active = active, !.cycle = active, !.pc = phase]
<1>1. Remaining(r) \in Seq(AllRoutes) BY RemainingOK
<1>2. warm \in Seq(AllRoutes)
  <2> HIDE DEF set
  <2> QED BY <1>1, AmongRange
<1>3. request' = [request EXCEPT ![r].active = active, ![r].cycle = active, ![r].pc = phase]
  BY DEF Look
<1> HIDE DEF warm
<1>4. active \in Seq(AllRoutes) BY <1>1, <1>2
<1>5. /\ phase \in {"idle", "choosing", "ranking"} /\ (phase # "idle" => active # <<>>) OBVIOUS
<1> HIDE DEF active, phase
<1>6. request[r] \in RequestStates BY DEF RequestsOK
<1>7. v \in RequestStates BY <1>4, <1>5, <1>6 DEF RequestStates
<1>8. Sound(v)
  <2>1. /\ v.pc = phase /\ v.active = active /\ v.cycle = active
        /\ v.order = request[r].order /\ v.tried = request[r].tried
    BY <1>6 DEF RequestStates
  <2>2. Placed(request[r]) BY DEF RequestsOK, Sound
  <2> HIDE DEF v
  <2>3. Placed(v) BY <2>1, <2>2, PlacedStill
  <2> QED BY <1>5, <2>1, <2>3 DEF Sound
<1>9. request' = [request EXCEPT ![r] = v] BY <1>3, <1>6 DEF RequestsOK, RequestStates
<1> QED BY <1>7, <1>8, <1>9, OneRequest

LEMMA TurnCursors ==
  ASSUME CursorsOK, NEW groups \in Seq(NonEmpty), NEW turns \in AllTurns(groups),
         NEW rotated, rotated \subseteq Range(groups),
         cursor' = [g \in rotated \cup DOMAIN cursor |->
            IF g \in rotated
            THEN [at |-> turns[CHOOSE k \in DOMAIN groups : groups[k] = g].at, used |-> now]
            ELSE cursor[g]]
  PROVE  CursorsOK'
<1>1. \A k \in DOMAIN groups : turns[k].at \in 0 .. (Len(groups[k]) - 1) BY AllTurnsKeep
<1>2. \A k \in DOMAIN groups : groups[k] \in NonEmpty
  <2> HIDE DEF NonEmpty
  <2>1. DOMAIN groups = 1 .. Len(groups) OBVIOUS
  <2> QED BY <2>1, SeqElement
<1>3. ASSUME NEW g \in rotated PROVE g \in Seq(AllRoutes) /\ cursor'[g].at \in 0 .. (Len(g) - 1)
  <2>1. \E k \in DOMAIN groups : groups[k] = g BY DEF Range
  <2> DEFINE k == CHOOSE k \in DOMAIN groups : groups[k] = g
  <2>2. k \in DOMAIN groups /\ groups[k] = g BY <2>1
  <2>3. cursor'[g].at = turns[k].at OBVIOUS
  <2> HIDE DEF k
  <2> QED BY <2>2, <2>3, <1>1, <1>2 DEF NonEmpty
<1>4. ASSUME NEW g \in DOMAIN cursor, g \notin rotated
      PROVE  g \in Seq(AllRoutes) /\ cursor'[g].at \in 0 .. (Len(g) - 1)
  BY <1>4 DEF CursorsOK
<1> QED BY <1>3, <1>4 DEF CursorsOK

\* The ranking of the routes that are active, in the words of its outcome
Ranking(r, rank, ring) ==
  LET route == home[Session[r]]
      active == request[r].active
  IN /\ ring \in NonEmpty /\ Range(ring) \subseteq Range(active)
     /\ request' = [request EXCEPT ![r].cycle = ring, ![r].pc = "choosing"]
     /\ home' = IF Attached THEN [home EXCEPT ![Session[r]] = ring[1]] ELSE home
     /\ Attached /\ ~WithinTop /\ route \in Range(active) => ring[1] = route
     /\ \A j \in DOMAIN ring : \A i \in 1 .. (j - 1) :
           \/ i = 1 /\ ring[1] = route /\ Attached /\ ~WithinTop
           \/ NotAfter(rank, ring[i], ring[j])

Rankings == [route \in AllRoutes |-> RankOf(route)]

LEMMA RankOutcome ==
  ASSUME CursorsOK, RequestsOK, home \in [Sessions -> AllRoutes \cup {NoRoute}],
         NEW r \in Requests, Rank(r)
  PROVE  CursorsOK' /\ \E ring : Ranking(r, Rankings, ring)
<1> DEFINE rank == Rankings
           active == request[r].active
           route == home[Session[r]]
<1>1. active \in NonEmpty BY DEF Rank, RequestsOK, RequestStates, Sound, NonEmpty
<1>2. PICK groups \in Groups(active, rank) :
         \E turns \in AllTurns(WithoutRoutes(groups, Preferred(r, groups))) :
            Settle(r, Preferred(r, groups), WithoutRoutes(groups, Preferred(r, groups)), turns)
  BY DEF Rank, Rankings
<1> DEFINE head == Preferred(r, groups)
           rest == WithoutRoutes(groups, head)
<1>3. PICK turns \in AllTurns(rest) : Settle(r, head, rest, turns) BY <1>2
<1> DEFINE ring == head \o Joined(turns)
<1>4. /\ groups \in Seq(NonEmpty) /\ UNION {Range(g) : g \in Range(groups)} = Range(active)
      /\ InRanks(groups, rank)
  <2> HIDE DEF rank, active
  <2>1. active \in Seq(AllRoutes) BY <1>1 DEF NonEmpty
  <2> QED BY <2>1, GroupsKeep
<1>5. Range(groups[1]) \subseteq Range(active)
  <2>1. 1 \in DOMAIN active BY <1>1 DEF NonEmpty
  <2>2. active[1] \in Range(active) BY <2>1 DEF Range
  <2>3. PICK g \in Range(groups) : active[1] \in Range(g) BY <1>4, <2>2
  <2>4. 1 \in DOMAIN groups
    <3>1. groups # <<>> BY <2>3 DEF Range
    <3> HIDE DEF NonEmpty
    <3> QED BY <1>4, <3>1
  <2>5. groups[1] \in Range(groups) BY <2>4 DEF Range
  <2>6. Range(groups[1]) \subseteq UNION {Range(h) : h \in Range(groups)} BY <2>5
  <2> QED BY <1>4, <2>6
<1>6. \/ head = <<>> /\ ~(Attached /\ ~WithinTop /\ route \in Range(active))
      \/ /\ head = <<route>> /\ route \in Range(active) /\ Attached
         /\ WithinTop => route \in Range(groups[1])
  BY <1>4, <1>5 DEF Preferred
<1>7. \A x \in Range(active) : x \in AllRoutes BY <1>1 DEF NonEmpty, Range
<1>8. head \in Seq(AllRoutes) /\ Len(head) <= 1 /\ Range(head) \subseteq Range(active)
  <2>1. CASE head = <<>>
    <3>1. Range(head) = {} BY <2>1 DEF Range
    <3> QED BY <2>1, <3>1
  <2>2. CASE head = <<route>> /\ route \in Range(active)
    <3>1. Range(<<route>>) = {route} BY DEF Range
    <3>2. route \in AllRoutes BY <1>7, <2>2
    <3>3. <<route>> \in Seq(AllRoutes) /\ Len(<<route>>) = 1 BY <3>2
    <3> HIDE DEF head, route
    <3> QED BY <2>2, <3>1, <3>3
  <2> QED BY <1>6, <2>1, <2>2
<1> HIDE DEF head
<1>9. /\ ring \in NonEmpty /\ Range(ring) \subseteq Range(active)
      /\ \A j \in DOMAIN ring : \A i \in 1 .. (j - 1) :
            (i = 1 /\ head # <<>>) \/ NotAfter(rank, ring[i], ring[j])
  <2> HIDE DEF rank, active
  <2> QED BY <1>1, <1>3, <1>8, CycleKeeps
<1>10. head # <<>> => ring[1] = route
  <2> SUFFICES ASSUME head # <<>> PROVE ring[1] = route OBVIOUS
  <2>1. head = <<route>> BY <1>6
  <2>2. Joined(turns) \in Seq(AllRoutes)
    <3>1. rest \in Seq(NonEmpty) BY <1>4, <1>8, WithoutKeeps
    <3> HIDE DEF rest
    <3>2. turns \in Seq([order : Seq(AllRoutes), at : Nat]) BY <1>3, <3>1, AllTurnsKeep
    <3> QED BY <3>2, JoinedKeeps
  <2>3. (head \o Joined(turns))[1] = head[1] BY <1>8, <2>1, <2>2
  <2> QED BY <2>1, <2>3
<1>11. /\ request' = [request EXCEPT ![r].cycle = ring, ![r].pc = "choosing"]
       /\ home' = IF Attached THEN [home EXCEPT ![Session[r]] = ring[1]] ELSE home
  BY <1>3 DEF Settle
<1> HIDE DEF ring
<1>12. ASSUME NEW j \in DOMAIN ring, NEW i \in 1 .. (j - 1)
       PROVE  \/ i = 1 /\ ring[1] = route /\ Attached /\ ~WithinTop
              \/ NotAfter(rank, ring[i], ring[j])
  <2>1. CASE ~(i = 1 /\ head # <<>>) BY <1>9, <2>1
  <2>2. CASE i = 1 /\ head # <<>> /\ ~WithinTop BY <1>6, <1>10, <2>2
  <2>3. CASE i = 1 /\ head # <<>> /\ WithinTop
    <3>1. route \in Range(groups[1]) /\ ring[i] = route BY <1>6, <1>10, <2>3
    <3>2. ring[j] \in Range(active) BY <1>9 DEF Range
    <3>3. PICK g \in Range(groups) : ring[j] \in Range(g) BY <1>4, <3>2
    <3>4. PICK q \in DOMAIN groups : g = groups[q] BY DEF Range
    <3>5. 1 \in 1 .. q
      <4> HIDE DEF NonEmpty
      <4> QED BY <1>4, <3>4
    <3> QED BY <1>4, <3>1, <3>3, <3>4, <3>5 DEF InRanks
  <2> QED BY <2>1, <2>2, <2>3
<1>13. Ranking(r, rank, ring)
  <2> HIDE DEF NonEmpty
  <2>1. Attached /\ ~WithinTop /\ route \in Range(active) => ring[1] = route
    <3>1. head = <<route>> => head # <<>> OBVIOUS
    <3> HIDE DEF route, active
    <3> QED BY <1>6, <1>10, <3>1
  <2> QED BY <1>9, <1>11, <1>12, <2>1 DEF Ranking
<1>14. CursorsOK'
  <2> DEFINE rotated == {g \in Range(rest) : Len(g) > 1}
  <2>1. cursor' = [g \in rotated \cup DOMAIN cursor |->
            IF g \in rotated
            THEN [at |-> turns[CHOOSE k \in DOMAIN rest : rest[k] = g].at, used |-> now]
            ELSE cursor[g]]
    BY <1>3 DEF Settle
  <2>2. rest \in Seq(NonEmpty) BY <1>4, <1>8, WithoutKeeps
  <2>3. rotated \subseteq Range(rest) OBVIOUS
  <2> HIDE DEF rotated, rest, CursorsOK
  <2> QED BY <1>3, <2>1, <2>2, <2>3, TurnCursors
<1> QED BY <1>13, <1>14

LEMMA RankOK ==
  ASSUME RouteTypeOK, NEW r \in Requests, Rank(r)
  PROVE  /\ RequestsOKNext /\ CursorsOK'
         /\ home' \in [Sessions -> AllRoutes \cup {NoRoute}]
         /\ shaken' \subseteq Sessions /\ looked' \subseteq Requests
<1>1. RequestsOK /\ CursorsOK /\ home \in [Sessions -> AllRoutes \cup {NoRoute}]
  BY TypeParts DEF RouteTypeOK
<1>2. CursorsOK' /\ \E ring : Ranking(r, Rankings, ring) BY <1>1, RankOutcome
<1>3. PICK ring : Ranking(r, Rankings, ring) BY <1>2
<1> DEFINE v == [request[r] EXCEPT !.cycle = ring, !.pc = "choosing"]
<1>4. request[r] \in RequestStates BY <1>1 DEF RequestsOK
<1>5. ring \in Seq(AllRoutes) /\ ring # <<>> BY <1>3 DEF Ranking, NonEmpty
<1>6. v \in RequestStates BY <1>4, <1>5 DEF RequestStates
<1>7. Sound(v)
  <2>1. /\ v.pc = "choosing" /\ v.cycle = ring
        /\ v.order = request[r].order /\ v.tried = request[r].tried
    BY <1>4 DEF RequestStates
  <2>2. Placed(request[r]) BY <1>1 DEF RequestsOK, Sound
  <2> HIDE DEF v
  <2>3. Placed(v) BY <2>1, <2>2, PlacedStill
  <2> QED BY <1>5, <2>1, <2>3 DEF Sound
<1>8. request' = [request EXCEPT ![r] = v]
  BY <1>1, <1>3, <1>4 DEF Ranking, RequestsOK, RequestStates
<1>9. RequestsOKNext
  <2> HIDE DEF v
  <2> QED BY <1>1, <1>6, <1>7, <1>8, OneRequest
<1>10. ring[1] \in AllRoutes
  <2>1. 1 \in 1 .. Len(ring) BY <1>5
  <2> QED BY <1>5, <2>1, SeqElement
<1>11. Session[r] \in Sessions BY DEF Sessions
<1>12. home' \in [Sessions -> AllRoutes \cup {NoRoute}]
  BY <1>1, <1>3, <1>10, <1>11 DEF Ranking
<1>13. shaken' \subseteq Sessions /\ looked' \subseteq Requests
  <2>1. SessionMoves(r) BY DEF Rank
  <2>2. shaken \subseteq Sessions /\ looked \subseteq Requests BY DEF RouteTypeOK
  <2> QED BY <1>11, <2>1, <2>2 DEF SessionMoves
<1> QED BY <1>2, <1>9, <1>12, <1>13

LEMMA LeaveOK ==
  ASSUME RequestsOK, NEW r \in Requests, request[r].cycle # <<>>, Leave(r)
  PROVE  RequestsOKNext
<1> DEFINE given == request[r].blocked \cup {Head(request[r].cycle)}
           gone == [request[r] EXCEPT !.pc = "looking", !.blocked = given,
                                      !.active = <<>>, !.cycle = <<>>]
<1>1. request[r] \in RequestStates /\ Placed(request[r]) BY DEF RequestsOK, Sound
<1>2. Head(request[r].cycle) \in AllRoutes BY <1>1 DEF RequestStates
<1>3. gone \in RequestStates /\ Sound(gone)
  <2>1. given \in SUBSET AllRoutes BY <1>1, <1>2 DEF RequestStates
  <2> HIDE DEF given
  <2>2. gone \in RequestStates
    <3>1. \A none \in Seq(AllRoutes) :
             [request[r] EXCEPT !.pc = "looking", !.blocked = given,
                                !.active = none, !.cycle = none] \in RequestStates
      BY <1>1, <2>1 DEF RequestStates
    <3>2. <<>> \in Seq(AllRoutes) OBVIOUS
    <3> QED BY <3>1, <3>2
  <2>3. gone.pc = "looking" /\ gone.order = request[r].order /\ gone.tried = request[r].tried
    BY <1>1 DEF RequestStates
  <2> HIDE DEF gone
  <2>4. Placed(gone) BY <1>1, <2>3, PlacedStill
  <2> QED BY <2>2, <2>3, <2>4 DEF Sound
<1>4. request' = [request EXCEPT ![r] = IF Range(Candidates) \subseteq given THEN Idle ELSE gone]
  BY DEF Leave, RequestsOK
<1> HIDE DEF gone, given
<1>5. CASE Range(Candidates) \subseteq given
  <2>1. request' = [request EXCEPT ![r] = Idle] BY <1>4, <1>5
  <2> QED BY <2>1, IdleOK, OneRequest
<1>6. CASE ~(Range(Candidates) \subseteq given)
  <2>1. request' = [request EXCEPT ![r] = gone] BY <1>4, <1>6
  <2> QED BY <2>1, <1>3, OneRequest
<1> QED BY <1>5, <1>6

LEMMA ConfiguredOK ==
  ASSUME config \in Configs, NEW route \in AllRoutes
  PROVE  Configured(route) \in Seq(Models) /\ config.supported[route] \in SUBSET Models
<1>1. config.aliases \in [AllRoutes -> Seq(Models)] /\ config.supported \in [AllRoutes -> SUBSET Models]
  BY SelectionAssumption
<1>2. <<Own>> \in Seq(Models) BY MemoryAssumption
<1> QED BY <1>1, <1>2 DEF Configured

LEMMA AskedOK ==
  ASSUME RequestsOK, NEW r \in Requests, request[r].pc \in {"choosing", "asking"}
  PROVE  /\ Asked(r) \in AllRoutes /\ request[r].cycle # <<>>
         /\ request[r].order[Asked(r)] \in Seq(Models) /\ request[r].tried[Asked(r)] \in Nat
         /\ request[r].pc = "asking" =>
               /\ Model(r) \in Models
               /\ request[r].tried[Asked(r)] \in 1 .. Len(request[r].order[Asked(r)])
<1> DEFINE route == Asked(r)
           order == request[r].order[route]
           tried == request[r].tried[route]
<1>1. request[r] \in RequestStates /\ Sound(request[r]) BY DEF RequestsOK
<1>2. request[r].cycle \in Seq(AllRoutes) /\ request[r].cycle # <<>> BY <1>1 DEF RequestStates, Sound
<1>3. route \in AllRoutes BY <1>2 DEF Asked
<1>4. order \in Seq(Models) /\ tried \in Nat BY <1>1, <1>3 DEF RequestStates
<1>5. ASSUME request[r].pc = "asking" PROVE Model(r) \in Models /\ tried \in 1 .. Len(order)
  <2>1. tried \in 1 .. Len(order) BY <1>1, <1>5 DEF Sound, Asked
  <2>2. Model(r) = order[tried] BY DEF Model
  <2> HIDE DEF order, tried
  <2> QED BY <1>4, <2>1, <2>2, SeqElement
<1> QED BY <1>2, <1>3, <1>4, <1>5

LEMMA ProbeOK ==
  ASSUME lists \in [AllRoutes -> [models : Seq(Models), expires : Nat]], now \in Nat,
         NEW route \in AllRoutes, NEW offered, offered \in Offers, Probe(route, offered)
  PROVE  offered \in Seq(Models) /\ lists' \in [AllRoutes -> [models : Seq(Models), expires : Nat]]
<1>1. offered \in Seq(Models) BY SelectionAssumption
<1>2. [models |-> offered, expires |-> now + ProbeFor] \in [models : Seq(Models), expires : Nat]
  BY <1>1, SelectionAssumption
<1> QED BY <1>1, <1>2 DEF Probe

LEMMA ChooseOK ==
  ASSUME RouteTypeOK, NEW r \in Requests, NEW offered \in Offers, Choose(r, offered)
  PROVE  /\ RequestsOKNext /\ doubted' \subseteq AllRoutes
         /\ lists' \in [AllRoutes -> [models : Seq(Models), expires : Nat]]
<1>1. RequestsOK BY TypeParts
<1> DEFINE route == Asked(r)
<1>2. request[r].pc = "choosing" BY DEF Choose
<1>3. route \in AllRoutes /\ request[r].cycle # <<>> BY <1>1, <1>2, AskedOK
<1>4. Probe(route, offered) BY DEF Choose, Asked
<1>5. offered \in Seq(Models) /\ lists' \in [AllRoutes -> [models : Seq(Models), expires : Nat]]
  BY <1>3, <1>4, ProbeOK DEF RouteTypeOK
<1>6. doubted' \subseteq AllRoutes BY <1>3 DEF Choose, RouteTypeOK, Asked
<1>7. PICK order \in OrdersFor(r, route, offered) :
         IF order = <<>> THEN Leave(r)
         ELSE request' = [request EXCEPT ![r].order[route] = order, ![r].pc = "asking"]
  BY DEF Choose, Asked
<1>8. Configured(route) \in Seq(Models) /\ config.supported[route] \in SUBSET Models
  BY <1>3, ConfiguredOK DEF RouteTypeOK
<1>9. order \in Seq(Models) /\ request[r].tried[route] \in 1 .. IF order = <<>> THEN 1 ELSE Len(order)
  <2>0. request[r].order[route] \in Seq(Models) BY <1>1, <1>2, AskedOK
  <2>1. CASE request[r].order[route] # <<>>
    <3>1. order = request[r].order[route] BY <1>7, <2>1 DEF OrdersFor
    <3>2. Placed(request[r]) BY <1>1 DEF RequestsOK, Sound
    <3> QED BY <1>3, <2>0, <3>1, <3>2 DEF Placed
  <2>2. CASE request[r].order[route] = <<>>
    <3> DEFINE entries == memory[route]
               configured == Configured(route)
               manual == config.supported[route]
    <3>1. /\ order \in CandidateOrders(entries, configured, manual, offered, now)
          /\ configured \in Seq(Models) /\ manual \in SUBSET Models
      BY <1>7, <1>8, <2>2 DEF OrdersFor
    <3>2. request[r].tried[route] \in 1 .. 1
      <4>1. Placed(request[r]) BY <1>1 DEF RequestsOK, Sound
      <4> QED BY <1>3, <2>2, <4>1 DEF Placed
    <3> HIDE DEF route, entries, configured, manual
    <3>3. order \in Seq(Models) BY <1>5, <3>1, OrdersKeep
    <3> QED BY <3>2, <3>3
  <2> QED BY <2>1, <2>2
<1>10. ASSUME order = <<>> PROVE RequestsOKNext
  <2>1. Leave(r) BY <1>7, <1>10
  <2> QED BY <1>1, <1>3, <2>1, LeaveOK
<1>11. ASSUME order # <<>> PROVE RequestsOKNext
  <2> DEFINE v == [request[r] EXCEPT !.order = [@ EXCEPT ![route] = order], !.pc = "asking"]
  <2>1. request[r] \in RequestStates /\ Placed(request[r]) BY <1>1 DEF RequestsOK, Sound
  <2>2. v \in RequestStates BY <1>9, <2>1 DEF RequestStates
  <2>3. /\ v.pc = "asking" /\ v.cycle = request[r].cycle /\ v.tried = request[r].tried
        /\ v.order[route] = order
        /\ \A one \in AllRoutes : one # route => v.order[one] = request[r].order[one]
    BY <1>3, <2>1 DEF RequestStates
  <2>4. request' = [request EXCEPT ![r] = v] BY <1>1, <1>7, <1>11, <2>1 DEF RequestsOK, RequestStates
  <2> HIDE DEF v
  <2>5. Placed(v) BY <1>9, <2>1, <2>3 DEF Placed
  <2>6. v.tried[Head(v.cycle)] \in 1 .. Len(v.order[Head(v.cycle)])
    BY <1>9, <1>11, <2>3 DEF Asked
  <2>7. Sound(v) BY <1>3, <2>3, <2>5, <2>6 DEF Sound
  <2> QED BY <1>1, <2>2, <2>4, <2>7, OneRequest
<1> QED BY <1>5, <1>6, <1>10, <1>11

LEMMA RememberOK ==
  ASSUME NEW entry \in Entries, NEW success \in BOOLEAN, NEW t \in Nat
  PROVE  Remember(entry, success, t) \in Entries
<1>1. t + RememberFor \in Nat /\ t + ModelCooldown \in Nat BY MemoryAssumption
<1>2. CASE success BY <1>1, <1>2 DEF Remember, Entries
<1>3. CASE ~success
  <2> DEFINE until == IF entry.failures + 1 >= 2 THEN t + ModelCooldown ELSE entry.until
  <2>1. /\ entry.score \in Int /\ entry.successes \in Nat /\ entry.failures \in Nat
        /\ entry.succeededAt \in Nat /\ entry.until \in Nat
    BY DEF Entries
  <2>2. until \in Nat /\ entry.score - 3 \in Int /\ entry.failures + 1 \in Nat BY <1>1, <2>1
  <2>3. Remember(entry, success, t) =
          [score |-> entry.score - 3, successes |-> entry.successes, failures |-> entry.failures + 1,
           succeededAt |-> entry.succeededAt, until |-> until, expires |-> t + RememberFor]
    BY <1>3 DEF Remember, Entries
  <2> HIDE DEF until
  <2> QED BY <1>1, <2>1, <2>2, <2>3 DEF Entries
<1> QED BY <1>2, <1>3

LEMMA TellOK ==
  ASSUME RouteTypeOK, NEW r \in Requests, request[r].pc = "asking", NEW success \in BOOLEAN,
         Tell(r, success)
  PROVE  memory' \in [AllRoutes -> [Models -> Entries]] /\ doubted' \subseteq AllRoutes
<1>1. RequestsOK BY TypeParts
<1>2. Asked(r) \in AllRoutes /\ Model(r) \in Models BY <1>1, AskedOK
<1>3. memory[Asked(r)][Model(r)] \in Entries BY <1>2 DEF RouteTypeOK
<1>4. now \in Nat BY DEF RouteTypeOK
<1>5. Remember(memory[Asked(r)][Model(r)], success, now) \in Entries BY <1>3, <1>4, RememberOK
<1>6. memory' = [memory EXCEPT ![Asked(r)][Model(r)] = Remember(@, success, now)] BY DEF Tell
<1>7. memory' \in [AllRoutes -> [Models -> Entries]]
  BY <1>2, <1>5, <1>6 DEF RouteTypeOK
<1>8. doubted' \subseteq AllRoutes BY <1>2 DEF Tell, RouteTypeOK
<1> QED BY <1>7, <1>8

LEMMA CooldownOK ==
  ASSUME NEW k \in 0 .. MaxClock
  PROVE  CooldownAfter(k) \in Nat
<1>1. CooldownTimes ^ k \in Nat /\ Cooldown \in Nat /\ CooldownMax \in Nat BY SelectionAssumption
<1>2. Cooldown * CooldownTimes ^ k \in Nat BY <1>1
<1> QED BY <1>1, <1>2 DEF CooldownAfter

LEMMA FailedOK ==
  ASSUME NEW entry \in HealthEntries, now \in Nat, now < MaxClock, entry.failures < now,
         NEW strict \in BOOLEAN
  PROVE  Failed(entry, strict) \in HealthEntries /\ Failed(entry, strict).failures <= now
<1> DEFINE failures == entry.failures + 1
           needed == IF strict THEN 1 ELSE Threshold
           until == now + CooldownAfter(failures - needed)
<1>1. failures \in Nat /\ failures <= now BY DEF HealthEntries
<1>2. needed \in Nat \ {0} /\ MaxClock \in Nat BY SelectionAssumption
<1>3. ASSUME failures >= needed PROVE until \in Nat
  <2>1. failures - needed \in 0 .. MaxClock
    <3> HIDE DEF failures, needed
    <3> QED BY <1>1, <1>2, <1>3
  <2>2. CooldownAfter(failures - needed) \in Nat BY <2>1, CooldownOK
  <2> QED BY <2>2
<1>4. Failed(entry, strict) = [failures |-> failures, failedAt |-> now,
         until |-> IF failures >= needed /\ until > entry.until THEN until ELSE entry.until]
  BY DEF Failed
<1>5. entry.until \in Nat BY DEF HealthEntries
<1> HIDE DEF failures, needed, until
<1> QED BY <1>1, <1>3, <1>4, <1>5 DEF HealthEntries

\* The report of a failure to the health of the route
LEMMA FailureCounted ==
  ASSUME RouteInv, NEW route \in AllRoutes, NEW strict \in BOOLEAN, now < MaxClock, now' = now + 1,
         health' = [health EXCEPT ![route] = Failed(@, strict)]
  PROVE  health' \in [AllRoutes -> HealthEntries] /\ FewFailures'
<1>1. now \in Nat \ {0} /\ health \in [AllRoutes -> HealthEntries] /\ FewFailures
  BY TypeParts DEF RouteInv, RouteTypeOK
<1>2. health[route] \in HealthEntries /\ health[route].failures < now BY <1>1 DEF FewFailures
<1>3. Failed(health[route], strict) \in HealthEntries /\ Failed(health[route], strict).failures <= now
  BY <1>1, <1>2, FailedOK
<1>4. health' \in [AllRoutes -> HealthEntries] BY <1>1, <1>3
<1>5. ASSUME NEW one \in AllRoutes PROVE health'[one].failures < now'
  <2>1. CASE one = route
    <3>1. health'[one] = Failed(health[route], strict) BY <1>1, <2>1
    <3>2. health'[one].failures \in Nat BY <1>4 DEF HealthEntries
    <3> QED BY <3>1, <3>2, <1>1, <1>3
  <2>2. CASE one # route
    <3>1. health'[one] = health[one] BY <1>1, <2>2
    <3>2. health[one].failures \in Nat /\ health[one].failures < now BY <1>1 DEF HealthEntries, FewFailures
    <3> QED BY <3>1, <3>2, <1>1
  <2> QED BY <2>1, <2>2
<1> QED BY <1>4, <1>5 DEF FewFailures

\* Time passes without a failure.
LEMMA FewStay ==
  ASSUME RouteInv, now' \in Nat, now' >= now,
         \/ UNCHANGED health
         \/ \E route \in AllRoutes : health' = [health EXCEPT ![route].failures = 0, ![route].until = 0]
  PROVE  health' \in [AllRoutes -> HealthEntries] /\ FewFailures'
<1>1. now \in Nat \ {0} /\ health \in [AllRoutes -> HealthEntries] /\ FewFailures
  BY TypeParts DEF RouteInv, RouteTypeOK
<1>2. CASE UNCHANGED health
  <2> SUFFICES ASSUME NEW one \in AllRoutes PROVE health'[one].failures < now'
    BY <1>1, <1>2 DEF FewFailures
  <2>1. health[one].failures \in Nat /\ health[one].failures < now BY <1>1 DEF HealthEntries, FewFailures
  <2> QED BY <1>1, <1>2, <2>1
<1>3. ASSUME NEW route \in AllRoutes, health' = [health EXCEPT ![route].failures = 0, ![route].until = 0]
      PROVE health' \in [AllRoutes -> HealthEntries] /\ FewFailures'
  <2>0. health[route] \in HealthEntries BY <1>1
  <2>1. health' = [health EXCEPT ![route] = [health[route] EXCEPT !.failures = 0, !.until = 0]]
    BY <1>1, <1>3, <2>0 DEF HealthEntries
  <2>2. [health[route] EXCEPT !.failures = 0, !.until = 0] \in HealthEntries BY <2>0 DEF HealthEntries
  <2>3. health' \in [AllRoutes -> HealthEntries] BY <1>1, <2>1, <2>2
  <2> SUFFICES ASSUME NEW one \in AllRoutes PROVE health'[one].failures < now'
    BY <2>3 DEF FewFailures
  <2>4. CASE one = route
    <3>1. health'[one].failures = 0 BY <1>1, <2>0, <2>1, <2>4 DEF HealthEntries
    <3> QED BY <1>1, <3>1
  <2>5. CASE one # route
    <3>1. health'[one] = health[one] BY <1>1, <2>1, <2>5
    <3>2. health[one].failures \in Nat /\ health[one].failures < now BY <1>1 DEF HealthEntries, FewFailures
    <3> QED BY <1>1, <3>1, <3>2
  <2> QED BY <2>4, <2>5
<1> QED BY <1>2, <1>3

\* The same route once more, or the next one of the cycle
LEMMA GoesOn ==
  ASSUME RequestsOK, NEW r \in Requests, request[r].pc = "asking", Again(r) \/ Onward(r)
  PROVE  \E v \in RequestStates :
            /\ Sound(v) /\ request' = [request EXCEPT ![r] = v]
            /\ v.pc \in {"choosing", "looking"} /\ v.active = request[r].active
            /\ v.order = request[r].order /\ v.tried = request[r].tried
<1> DEFINE rest == Tail(request[r].cycle)
<1>1. request[r] \in RequestStates /\ Placed(request[r]) /\ request[r].cycle # <<>>
  BY AskedOK DEF RequestsOK, Sound
<1>2. PICK ring \in Seq(AllRoutes), phase \in {"choosing", "looking"} :
         /\ phase = "choosing" => ring # <<>>
         /\ request' = [request EXCEPT ![r].cycle = ring, ![r].pc = phase]
  <2>1. CASE Again(r)
    <3>1. request' = [request EXCEPT ![r].cycle = request[r].cycle, ![r].pc = "choosing"]
      BY <1>1, <2>1 DEF Again, RequestsOK, RequestStates
    <3>2. request[r].cycle \in Seq(AllRoutes) BY <1>1 DEF RequestStates
    <3> QED BY <1>1, <3>1, <3>2
  <2>2. CASE Onward(r)
    <3>1. rest \in Seq(AllRoutes) BY <1>1 DEF RequestStates
    <3>2. request' = [request EXCEPT ![r].cycle = rest,
                                     ![r].pc = IF rest = <<>> THEN "looking" ELSE "choosing"]
      BY <2>2 DEF Onward
    <3> HIDE DEF rest
    <3> QED BY <3>1, <3>2
  <2> QED BY <2>1, <2>2
<1> DEFINE v == [request[r] EXCEPT !.cycle = ring, !.pc = phase]
<1>3. request' = [request EXCEPT ![r] = v] BY <1>1, <1>2 DEF RequestsOK, RequestStates
<1>4. v \in RequestStates BY <1>1, <1>2 DEF RequestStates
<1>5. /\ v.pc = phase /\ v.cycle = ring /\ v.active = request[r].active
      /\ v.order = request[r].order /\ v.tried = request[r].tried
  BY <1>1 DEF RequestStates
<1> HIDE DEF v
<1>6. Placed(v) BY <1>1, <1>5, PlacedStill
<1>7. Sound(v) BY <1>2, <1>5, <1>6 DEF Sound
<1> QED BY <1>2, <1>3, <1>4, <1>5, <1>7

\* A request that gives a route up keeps the orders of its models, or is done.
LeavesAs(r, v) ==
  /\ request' = [request EXCEPT ![r] = v]
  /\ v = Idle \/ (/\ v.pc = "looking" /\ v.active = <<>>
                  /\ v.order = request[r].order /\ v.tried = request[r].tried)

LEMMA Left ==
  ASSUME RequestsOK, NEW r \in Requests, Leave(r)
  PROVE  \E v : LeavesAs(r, v)
<1> DEFINE given == request[r].blocked \cup {Head(request[r].cycle)}
           gone == [request[r] EXCEPT !.pc = "looking", !.blocked = given,
                                      !.active = <<>>, !.cycle = <<>>]
<1>1. request[r] \in RequestStates BY DEF RequestsOK
<1>2. /\ gone.pc = "looking" /\ gone.active = <<>>
      /\ gone.order = request[r].order /\ gone.tried = request[r].tried
  BY <1>1 DEF RequestStates
<1>3. request' = [request EXCEPT ![r] = IF Range(Candidates) \subseteq given THEN Idle ELSE gone]
  BY DEF Leave, RequestsOK
<1> HIDE DEF gone, given
<1>4. CASE Range(Candidates) \subseteq given
  <2>1. LeavesAs(r, Idle) BY <1>3, <1>4 DEF LeavesAs
  <2> QED BY <2>1
<1>5. CASE ~(Range(Candidates) \subseteq given)
  <2>1. LeavesAs(r, gone) BY <1>2, <1>3, <1>5 DEF LeavesAs
  <2> QED BY <2>1
<1> QED BY <1>4, <1>5

LEMMA AfterwardsOK ==
  ASSUME RequestsOK, NEW r \in Requests, request[r].pc = "asking", NEW kind, Afterwards(r, kind)
  PROVE  RequestsOKNext
<1>1. request[r].cycle # <<>> BY AskedOK
<1>2. CASE Leave(r) BY <1>1, <1>2, LeaveOK
<1>3. CASE Again(r) \/ Onward(r) BY <1>3, GoesOn, OneRequest
<1>4. CASE request' = [request EXCEPT ![r] = Idle] BY <1>4, IdleOK, OneRequest
<1> QED BY <1>2, <1>3, <1>4 DEF Afterwards

\* The place on the route moves on, and the route is taken once more.
LEMMA NextTried ==
  ASSUME RequestsOK, NEW r \in Requests, AskNext(r)
  PROVE  \E v \in RequestStates :
            /\ Sound(v) /\ request' = [request EXCEPT ![r] = v] /\ v.pc = "choosing"
            /\ v.order = request[r].order /\ v.active = request[r].active
            /\ v.tried = [request[r].tried EXCEPT ![Asked(r)] = request[r].tried[Asked(r)] + 1]
<1> DEFINE route == Asked(r)
           place == request[r].tried[route]
           v == [request[r] EXCEPT !.tried = [@ EXCEPT ![route] = place + 1], !.pc = "choosing"]
<1>1. /\ request[r].pc = "asking" /\ place < Len(request[r].order[route])
      /\ request' = [request EXCEPT ![r].tried[route] = @ + 1, ![r].pc = "choosing"]
  BY DEF AskNext
<1>2. request[r] \in RequestStates /\ Placed(request[r]) BY DEF RequestsOK, Sound
<1>3. /\ route \in AllRoutes /\ request[r].cycle # <<>> /\ place \in Nat
      /\ request[r].order[route] \in Seq(Models)
  BY <1>1, AskedOK
<1>4. v \in RequestStates
  <2> DEFINE places == [request[r].tried EXCEPT ![route] = place + 1]
  <2>1. places \in [AllRoutes -> Nat]
    <3> HIDE DEF place, route
    <3> QED BY <1>2, <1>3 DEF RequestStates
  <2>2. v = [request[r] EXCEPT !.tried = places, !.pc = "choosing"] BY <1>2 DEF RequestStates
  <2> HIDE DEF v, places
  <2> QED BY <1>2, <2>1, <2>2 DEF RequestStates
<1>5. request' = [request EXCEPT ![r] = v] BY <1>1, <1>2 DEF RequestsOK, RequestStates
<1>6. /\ v.pc = "choosing" /\ v.cycle = request[r].cycle /\ v.order = request[r].order
      /\ v.active = request[r].active
      /\ v.tried = [request[r].tried EXCEPT ![route] = place + 1]
  BY <1>2 DEF RequestStates
<1> HIDE DEF v
<1>7. Placed(v)
  <2> SUFFICES ASSUME NEW one \in AllRoutes
               PROVE  v.tried[one] \in 1 .. IF v.order[one] = <<>> THEN 1 ELSE Len(v.order[one])
    BY DEF Placed
  <2>0. request[r].tried \in [AllRoutes -> Nat] BY <1>2 DEF RequestStates
  <2>1. CASE one = route
    <3>1. v.tried[one] = place + 1 /\ v.order[one] = request[r].order[route] BY <1>3, <1>6, <2>0, <2>1
    <3> HIDE DEF place, route
    <3> QED BY <1>1, <1>3, <3>1
  <2>2. CASE one # route
    <3>1. v.tried[one] = request[r].tried[one] /\ v.order[one] = request[r].order[one]
      BY <1>3, <1>6, <2>0, <2>2
    <3> QED BY <1>2, <3>1 DEF Placed
  <2> QED BY <2>1, <2>2
<1>8. Sound(v) BY <1>3, <1>6, <1>7 DEF Sound
<1> QED BY <1>4, <1>5, <1>6, <1>8

LEMMA AskNextOK ==
  ASSUME RequestsOK, NEW r \in Requests, AskNext(r)
  PROVE  RequestsOKNext
BY NextTried, OneRequest

LEMMA TypeFrom ==
  ASSUME RequestsOKNext, CursorsOK', health' \in [AllRoutes -> HealthEntries],
         now' \in Nat \ {0}, config' \in Configs, memory' \in [AllRoutes -> [Models -> Entries]],
         lists' \in [AllRoutes -> [models : Seq(Models), expires : Nat]],
         home' \in [Sessions -> AllRoutes \cup {NoRoute}],
         shaken' \subseteq Sessions, looked' \subseteq Requests, doubted' \subseteq AllRoutes
  PROVE  RouteTypeOK'
BY DEF RouteTypeOK, RequestsOKNext, CursorsOK, HealthEntries, RequestStates, Sound, Placed

LEMMA RouteInitially ==
  ASSUME RouteInit
  PROVE  RouteInv
<1>1. <<>> \in Seq(AllRoutes) /\ <<>> \in Seq(Models) OBVIOUS
<1>2. NoEntry \in Entries BY DEF NoEntry, Entries
<1>3. memory \in [AllRoutes -> [Models -> Entries]] BY <1>2 DEF RouteInit
<1>4. request \in [Requests -> RequestStates] /\ \A r \in Requests : Sound(request[r])
  BY IdleOK DEF RouteInit
<1>5. /\ health \in [AllRoutes -> HealthEntries] /\ now = 1 /\ config \in Configs
      /\ \A route \in AllRoutes : health[route].failures = 0
  BY DEF RouteInit, HealthEntries
<1>6. lists \in [AllRoutes -> [models : Seq(Models), expires : Nat]] BY <1>1 DEF RouteInit
<1>7. home \in [Sessions -> AllRoutes \cup {NoRoute}] /\ DOMAIN cursor = {} BY DEF RouteInit
<1>8. shaken = {} /\ looked = {} /\ doubted = {} BY DEF RouteInit
<1>9. RouteTypeOK
  BY <1>3, <1>4, <1>5, <1>6, <1>7, <1>8 DEF RouteTypeOK, HealthEntries, RequestStates, Sound, Placed
<1>10. FewFailures BY <1>5 DEF FewFailures
<1> QED BY <1>9, <1>10 DEF RouteInv

LEMMA RouteStep ==
  ASSUME RouteInv, [RouteNext]_routeVars
  PROVE  RouteInv'
<1>1. RouteTypeOK /\ FewFailures /\ RequestsOK /\ CursorsOK /\ now \in Nat \ {0} /\ config \in Configs
  BY TypeParts DEF RouteInv, RouteTypeOK
<1>2. /\ health \in [AllRoutes -> HealthEntries] /\ memory \in [AllRoutes -> [Models -> Entries]]
      /\ lists \in [AllRoutes -> [models : Seq(Models), expires : Nat]]
      /\ home \in [Sessions -> AllRoutes \cup {NoRoute}]
      /\ shaken \subseteq Sessions /\ looked \subseteq Requests /\ doubted \subseteq AllRoutes
  BY TypeParts DEF RouteInv, RouteTypeOK
<1>3. UNCHANGED cursor => CursorsOK' BY <1>1 DEF CursorsOK
<1>4. UNCHANGED health /\ UNCHANGED now => FewFailures' BY <1>1 DEF FewFailures
<1>5. ASSUME NEW r \in Requests, Look(r) PROVE RouteInv'
  <2>1. RequestsOKNext BY <1>1, <1>5, LookOK
  <2>2. UNCHANGED <<now, config, health, memory, lists, cursor, home, shaken, doubted>> /\ looked' = looked \ {r}
    BY <1>5 DEF Look, state
  <2>3. CursorsOK' BY <1>3, <2>2
  <2>4. RouteTypeOK' BY <1>1, <1>2, <2>1, <2>2, <2>3, TypeFrom
  <2> QED BY <1>4, <2>2, <2>4 DEF RouteInv
<1>6. ASSUME NEW r \in Requests, Rank(r) PROVE RouteInv'
  <2>1. /\ RequestsOKNext /\ CursorsOK' /\ home' \in [Sessions -> AllRoutes \cup {NoRoute}]
        /\ shaken' \subseteq Sessions /\ looked' \subseteq Requests
    BY <1>1, <1>6, RankOK
  <2>2. UNCHANGED <<now, config, health, memory, lists, doubted>> BY <1>6 DEF Rank
  <2>3. RouteTypeOK' BY <1>1, <1>2, <2>1, <2>2, TypeFrom
  <2> QED BY <1>4, <2>2, <2>3 DEF RouteInv
<1>7. ASSUME NEW r \in Requests, Answers(r) PROVE RouteInv'
  <2>1. /\ request[r].pc = "asking" /\ now' = now + 1 /\ Tell(r, TRUE)
        /\ health' = [health EXCEPT ![Asked(r)].failures = 0, ![Asked(r)].until = 0]
        /\ request' = [request EXCEPT ![r] = Idle]
        /\ UNCHANGED <<config, lists, cursor, home, shaken, looked>>
    BY <1>7 DEF Answers, Ticks
  <2>2. RequestsOKNext BY <1>1, <2>1, IdleOK, OneRequest
  <2>3. memory' \in [AllRoutes -> [Models -> Entries]] /\ doubted' \subseteq AllRoutes
    BY <1>1, <2>1, TellOK
  <2>4. Asked(r) \in AllRoutes BY <1>1, <2>1, AskedOK
  <2>5. health' \in [AllRoutes -> HealthEntries] /\ FewFailures'
    <3> DEFINE route == Asked(r)
    <3>1. route \in AllRoutes /\ health' = [health EXCEPT ![route].failures = 0, ![route].until = 0]
      BY <2>1, <2>4
    <3> HIDE DEF route
    <3>2. now' \in Nat /\ now' >= now BY <1>1, <2>1
    <3> QED BY <3>1, <3>2, FewStay
  <2>6. now' \in Nat \ {0} BY <1>1, <2>1
  <2>7. CursorsOK' BY <1>3, <2>1
  <2>8. RouteTypeOK' BY <1>1, <1>2, <2>1, <2>2, <2>3, <2>5, <2>6, <2>7, TypeFrom
  <2> QED BY <2>5, <2>8 DEF RouteInv
<1>8. ASSUME NEW r \in Requests, AskNext(r) PROVE RouteInv'
  <2>1. /\ request[r].pc = "asking" /\ now < MaxClock /\ now' = now + 1 /\ Tell(r, FALSE)
        /\ health' = [health EXCEPT ![Asked(r)] = Failed(@, TRUE)]
        /\ shaken' = shaken \cup {s \in Sessions : home[s] = Asked(r)}
        /\ UNCHANGED <<config, lists, cursor, home, looked>>
    BY <1>8 DEF AskNext, Ticks
  <2>2. RequestsOKNext BY <1>1, <1>8, AskNextOK
  <2>3. memory' \in [AllRoutes -> [Models -> Entries]] /\ doubted' \subseteq AllRoutes
    BY <1>1, <2>1, TellOK
  <2>4. Asked(r) \in AllRoutes BY <1>1, <2>1, AskedOK
  <2>5. health' \in [AllRoutes -> HealthEntries] /\ FewFailures'
    <3> DEFINE route == Asked(r)
    <3>1. route \in AllRoutes /\ health' = [health EXCEPT ![route] = Failed(@, TRUE)] BY <2>1, <2>4
    <3> HIDE DEF route
    <3> QED BY <3>1, <2>1, FailureCounted
  <2>6. now' \in Nat \ {0} BY <1>1, <2>1
  <2>7. CursorsOK' BY <1>3, <2>1
  <2>8. shaken' \subseteq Sessions BY <1>2, <2>1
  <2>9. RouteTypeOK' BY <1>1, <1>2, <2>1, <2>2, <2>3, <2>5, <2>6, <2>7, <2>8, TypeFrom
  <2> QED BY <2>5, <2>9 DEF RouteInv
<1>9. ASSUME NEW r \in Requests, NEW offered \in Offers, Choose(r, offered) PROVE RouteInv'
  <2>1. /\ RequestsOKNext /\ doubted' \subseteq AllRoutes
        /\ lists' \in [AllRoutes -> [models : Seq(Models), expires : Nat]]
    BY <1>1, <1>9, ChooseOK
  <2>2. UNCHANGED <<now, config, health, memory, cursor, home, shaken, looked>> BY <1>9 DEF Choose
  <2>3. CursorsOK' BY <1>3, <2>2
  <2>4. RouteTypeOK' BY <1>1, <1>2, <2>1, <2>2, <2>3, TypeFrom
  <2> QED BY <1>4, <2>2, <2>4 DEF RouteInv
<1>10. ASSUME NEW r \in Requests, NEW kind \in Kinds, Fail(r, kind) PROVE RouteInv'
  <2>1. /\ request[r].pc = "asking" /\ now < MaxClock /\ now' = now + 1 /\ Afterwards(r, kind)
        /\ health' = IF kind = "passing" THEN health
                     ELSE [health EXCEPT ![Asked(r)] = Failed(@, kind # "spent")]
        /\ shaken' \subseteq Sessions
        /\ IF kind = "exception" THEN Tell(r, FALSE) ELSE UNCHANGED <<memory, doubted>>
        /\ UNCHANGED <<config, lists, cursor, home, looked>>
    BY <1>2, <1>10 DEF Fail, Ticks
  <2>2. RequestsOKNext BY <1>1, <2>1, AfterwardsOK
  <2>3. memory' \in [AllRoutes -> [Models -> Entries]] /\ doubted' \subseteq AllRoutes
    <3>1. CASE kind = "exception" BY <1>1, <2>1, <3>1, TellOK
    <3>2. CASE kind # "exception" BY <1>2, <2>1, <3>2
    <3> QED BY <3>1, <3>2
  <2>4. Asked(r) \in AllRoutes BY <1>1, <2>1, AskedOK
  <2>5. health' \in [AllRoutes -> HealthEntries] /\ FewFailures'
    <3>1. CASE kind = "passing"
      <4>1. UNCHANGED health /\ now' \in Nat /\ now' >= now BY <1>1, <2>1, <3>1
      <4> QED BY <4>1, FewStay
    <3>2. CASE kind # "passing"
      <4> DEFINE route == Asked(r)
                 strict == kind # "spent"
      <4>1. /\ route \in AllRoutes /\ strict \in BOOLEAN
            /\ health' = [health EXCEPT ![route] = Failed(@, strict)]
        BY <2>1, <2>4, <3>2
      <4> HIDE DEF route, strict
      <4> QED BY <4>1, <2>1, FailureCounted
    <3> QED BY <3>1, <3>2
  <2>6. now' \in Nat \ {0} BY <1>1, <2>1
  <2>7. CursorsOK' BY <1>3, <2>1
  <2>8. RouteTypeOK' BY <1>1, <1>2, <2>1, <2>2, <2>3, <2>5, <2>6, <2>7, TypeFrom
  <2> QED BY <2>5, <2>8 DEF RouteInv
<1>11. ASSUME UNCHANGED <<state, request, history>>, now' \in Nat \ {0}, now' >= now PROVE RouteInv'
  <2>1. UNCHANGED <<config, health, memory, lists, cursor, home, request, shaken, looked, doubted>>
    BY <1>11 DEF state, history
  <2>2. RequestsOKNext BY <1>1, <2>1, SameRequests
  <2>3. FewFailures' /\ health' \in [AllRoutes -> HealthEntries] BY <1>11, <2>1, FewStay
  <2>4. CursorsOK' BY <1>3, <2>1
  <2>5. RouteTypeOK' BY <1>1, <1>2, <1>11, <2>1, <2>2, <2>3, <2>4, TypeFrom
  <2> QED BY <2>3, <2>5 DEF RouteInv
<1>12. CASE Tick
  <2>1. now' \in Nat \ {0} /\ now' >= now BY <1>1, <1>12 DEF Tick, Ticks
  <2> QED BY <1>11, <1>12, <2>1 DEF Tick
<1>13. CASE UNCHANGED routeVars
  <2>1. now' \in Nat \ {0} /\ now' >= now BY <1>1, <1>13 DEF routeVars
  <2> QED BY <1>11, <1>13, <2>1 DEF routeVars
<1> QED BY <1>5, <1>6, <1>7, <1>8, <1>9, <1>10, <1>12, <1>13 DEF RouteNext

THEOREM RouteInvariant == RouteSpec => []RouteInv
<1>1. RouteInit => RouteInv BY RouteInitially
<1>2. RouteInv /\ [RouteNext]_routeVars => RouteInv' BY RouteStep
<1> QED BY <1>1, <1>2, PTL DEF RouteSpec

\* The state of the selection of routes has its type.
THEOREM RouteTypeCorrect == RouteSpec => []RouteTypeOK
<1>1. RouteInv => RouteTypeOK BY DEF RouteInv
<1> QED BY <1>1, RouteInvariant, PTL

-----------------------------------------------------------------------------
(* A session stays on its route.                                            *)

\* The route of a session is a candidate, and is not cooling unless the
\* session has been shaken.
HomeOK(s) ==
  home[s] # NoRoute => /\ home[s] \in Range(Candidates)
                       /\ s \notin shaken => ~Cooling(home[s])

\* A request that is about to rank the routes has that route among them.
SeesHome(r) ==
  /\ Range(request[r].active) \subseteq Range(Candidates)
  /\ /\ request[r].pc = "ranking"
     /\ home[Session[r]] # NoRoute /\ Session[r] \notin shaken /\ r \notin looked
     /\ home[Session[r]] \notin request[r].blocked
     => home[Session[r]] \in Range(request[r].active)

SessionInv == (\A s \in Sessions : HomeOK(s)) /\ (\A r \in Requests : SeesHome(r))

LEMMA CandidatesStay == ASSUME UNCHANGED config PROVE Candidates' = Candidates
BY DEF Candidates, Names

\* A step that leaves the sessions' routes alone and shakes those whose route
\* may cool from now on
LEMMA HomesStay ==
  ASSUME RouteInv, RouteInv', \A s \in Sessions : HomeOK(s), UNCHANGED <<config, home>>,
         shaken \subseteq shaken', now' >= now,
         \A s \in Sessions : home[s] # NoRoute /\ s \notin shaken' =>
            health'[home[s]].until = health[home[s]].until \/ health'[home[s]].until = 0
  PROVE  \A s \in Sessions : HomeOK(s)'
<1> SUFFICES ASSUME NEW s \in Sessions, home[s] # NoRoute
             PROVE  home[s] \in Range(Candidates)' /\ (s \notin shaken' => ~Cooling(home[s])')
  BY DEF HomeOK
<1>1. home[s] \in Range(Candidates) BY DEF HomeOK
<1>2. home[s] \in Range(Candidates)' BY <1>1, CandidatesStay
<1>3. ASSUME s \notin shaken' PROVE ~(health'[home[s]].until > now')
  <2>1. ~(health[home[s]].until > now) BY <1>3 DEF HomeOK, Cooling
  <2>2. home[s] \in AllRoutes BY DEF RouteInv, RouteTypeOK
  <2>3. /\ health[home[s]] \in HealthEntries /\ health'[home[s]] \in HealthEntries
        /\ now \in Nat \ {0} /\ now' \in Nat \ {0}
    BY <2>2 DEF RouteInv, RouteTypeOK, HealthEntries
  <2>4. health[home[s]].until \in Nat BY <2>3 DEF HealthEntries
  <2>5. health'[home[s]].until = health[home[s]].until \/ health'[home[s]].until = 0 BY <1>3
  <2> QED BY <2>1, <2>3, <2>4, <2>5
<1> QED BY <1>2, <1>3 DEF Cooling

\* A request that goes on elsewhere than to a ranking
LEMMA SightStays ==
  ASSUME \A r \in Requests : SeesHome(r), UNCHANGED <<config, home, looked>>,
         shaken \subseteq shaken', RequestsOK, NEW q \in Requests, NEW v,
         request' = [request EXCEPT ![q] = v], v.pc # "ranking",
         Range(v.active) \subseteq Range(Candidates)
  PROVE  \A r \in Requests : SeesHome(r)'
<1> SUFFICES ASSUME NEW r \in Requests PROVE SeesHome(r)' OBVIOUS
<1>0. Candidates' = Candidates BY CandidatesStay
<1>1. CASE r = q
  <2>1. request'[r] = v BY <1>1 DEF RequestsOK
  <2> QED BY <1>0, <2>1 DEF SeesHome
<1>2. CASE r # q
  <2>1. request'[r] = request[r] BY <1>2 DEF RequestsOK
  <2>2. SeesHome(r) OBVIOUS
  <2> QED BY <1>0, <2>1, <2>2 DEF SeesHome
<1> QED BY <1>1, <1>2

LEMMA SightSame ==
  ASSUME \A r \in Requests : SeesHome(r), UNCHANGED <<config, home, looked, request>>,
         shaken \subseteq shaken'
  PROVE  \A r \in Requests : SeesHome(r)'
<1> SUFFICES ASSUME NEW r \in Requests PROVE SeesHome(r)' OBVIOUS
<1>0. Candidates' = Candidates BY CandidatesStay
<1>1. SeesHome(r) OBVIOUS
<1> QED BY <1>0, <1>1 DEF SeesHome

LEMMA IdleSight == Idle.pc # "ranking" /\ Range(Idle.active) \subseteq Range(Candidates)
BY DEF Idle, Range

LEMMA SightLeaving ==
  ASSUME \A r \in Requests : SeesHome(r), UNCHANGED <<config, home, looked>>,
         shaken \subseteq shaken', RequestsOK, NEW q \in Requests, Leave(q)
  PROVE  \A r \in Requests : SeesHome(r)'
<1>1. PICK v : LeavesAs(q, v) BY Left
<1>2. v.pc # "ranking" /\ Range(v.active) \subseteq Range(Candidates)
  BY <1>1, IdleSight, SMTT(20) DEF LeavesAs, Range
<1> QED BY <1>1, <1>2, SightStays DEF LeavesAs

LEMMA SightAfterwards ==
  ASSUME \A r \in Requests : SeesHome(r), UNCHANGED <<config, home, looked>>,
         shaken \subseteq shaken', RequestsOK, NEW q \in Requests, request[q].pc = "asking",
         NEW kind, Afterwards(q, kind)
  PROVE  \A r \in Requests : SeesHome(r)'
<1>1. CASE Leave(q) BY <1>1, SightLeaving
<1>2. CASE Again(q) \/ Onward(q)
  <2>1. PICK v : /\ request' = [request EXCEPT ![q] = v] /\ v.pc \in {"choosing", "looking"}
                 /\ v.active = request[q].active
    BY <1>2, GoesOn
  <2>2. Range(v.active) \subseteq Range(Candidates) BY <2>1 DEF SeesHome
  <2> QED BY <2>1, <2>2, SightStays
<1>3. CASE request' = [request EXCEPT ![q] = Idle] BY <1>3, IdleSight, SightStays
<1> QED BY <1>1, <1>2, <1>3 DEF Afterwards

\* A request that looks at the routes sees the route of its session, unless it
\* is cooling or has been given up.
LEMMA SightLooking ==
  ASSUME RouteInv, SessionInv, NEW q \in Requests, Look(q)
  PROVE  SessionInv'
<1>0. RequestsOK /\ UNCHANGED <<now, config, health, home, shaken>> /\ looked' = looked \ {q}
  BY TypeParts DEF Look, state, RouteInv
<1>1. Candidates' = Candidates BY <1>0, CandidatesStay
<1>2. \A s \in Sessions : HomeOK(s)' BY <1>0, <1>1 DEF SessionInv, HomeOK, Cooling
<1> DEFINE set == {route \in AllRoutes : ~Cooling(route)}
           left == Remaining(q)
           warm == Among(left, set)
           active == IF warm = <<>> THEN left ELSE warm
<1>3. left \in Seq(AllRoutes) /\ Range(left) = Range(Candidates) \ request[q].blocked BY RemainingOK
<1>4. warm \in Seq(AllRoutes) /\ Range(warm) = Range(left) \cap set
  <2> HIDE DEF set, left
  <2> QED BY <1>3, AmongRange
<1>5. request'[q].active = active /\ request'[q].blocked = request[q].blocked
  BY <1>0 DEF Look, RequestsOK, RequestStates
<1>6. \A r \in Requests : r # q => request'[r] = request[r] BY <1>0 DEF Look, RequestsOK
<1> HIDE DEF left, warm
<1>7. Range(active) \subseteq Range(Candidates) BY <1>3, <1>4
<1>8. SeesHome(q)'
  <2> DEFINE route == home[Session[q]]
  <2>1. Session[q] \in Sessions BY DEF Sessions
  <2>2. ASSUME route # NoRoute, Session[q] \notin shaken, route \notin request[q].blocked
        PROVE  route \in Range(active)
    <3>1. route \in Range(Candidates) /\ ~Cooling(route) BY <2>1, <2>2 DEF SessionInv, HomeOK
    <3>2. route \in AllRoutes BY <3>1, CandidatesOK DEF Range
    <3>3. route \in Range(warm) BY <1>3, <1>4, <2>2, <3>1, <3>2
    <3>4. warm # <<>> BY <3>3 DEF Range
    <3> QED BY <3>3, <3>4
  <2> HIDE DEF active
  <2> QED BY <1>0, <1>1, <1>5, <1>7, <2>2 DEF SeesHome
<1>9. \A r \in Requests : SeesHome(r)'
  <2> SUFFICES ASSUME NEW r \in Requests, r # q PROVE SeesHome(r)' BY <1>8
  <2>1. SeesHome(r) /\ request'[r] = request[r] BY <1>6 DEF SessionInv
  <2>2. r \in looked' <=> r \in looked BY <1>0
  <2> QED BY <1>0, <1>1, <2>1, <2>2 DEF SeesHome
<1> QED BY <1>2, <1>9 DEF SessionInv

\* A ranking that moves a session tells the requests that rank at the time.
LEMMA SightRanking ==
  ASSUME RouteInv, SessionInv, NEW q \in Requests, Rank(q)
  PROVE  SessionInv'
<1>0. /\ RequestsOK /\ CursorsOK /\ home \in [Sessions -> AllRoutes \cup {NoRoute}]
      /\ UNCHANGED <<now, config, health>> /\ SessionMoves(q)
  BY TypeParts DEF Rank, RouteInv, RouteTypeOK
<1>1. Candidates' = Candidates BY <1>0, CandidatesStay
<1>2. PICK ring : Ranking(q, Rankings, ring) BY <1>0, RankOutcome
<1> DEFINE active == request[q].active
<1>3. Range(ring) \subseteq Range(Candidates) /\ ring[1] \in Range(ring)
  <2>1. Range(active) \subseteq Range(Candidates) BY DEF SessionInv, SeesHome
  <2>2. ring \in Seq(AllRoutes) /\ ring # <<>> BY <1>2 DEF Ranking, NonEmpty
  <2>3. 1 \in DOMAIN ring BY <2>2
  <2> QED BY <1>2, <2>1, <2>3 DEF Ranking, Range
<1>4. Session[q] \in Sessions BY DEF Sessions
<1>5. home' = IF Attached THEN [home EXCEPT ![Session[q]] = ring[1]] ELSE home BY <1>2 DEF Ranking
<1>6. \A s \in Sessions : s # Session[q] => home'[s] = home[s] BY <1>0, <1>5
<1>7. home'[Session[q]] = home[Session[q]] \/ home'[Session[q]] = ring[1] BY <1>0, <1>4, <1>5
<1>8. \A s \in Sessions : HomeOK(s)'
  <2> SUFFICES ASSUME NEW s \in Sessions PROVE HomeOK(s)' OBVIOUS
  <2>1. HomeOK(s) BY DEF SessionInv
  <2>2. CASE home' = home
    <3>1. shaken' = shaken BY <1>0, <2>2 DEF SessionMoves
    <3> QED BY <1>0, <1>1, <2>1, <2>2, <3>1 DEF HomeOK, Cooling
  <2>3. CASE home' # home
    <3>1. shaken' = IF Cooling(home'[Session[q]]) THEN shaken \cup {Session[q]} ELSE shaken \ {Session[q]}
      BY <1>0, <2>3 DEF SessionMoves
    <3>2. CASE s # Session[q]
      <4>1. home'[s] = home[s] /\ (s \in shaken' <=> s \in shaken) BY <1>6, <3>1, <3>2
      <4> QED BY <1>0, <1>1, <2>1, <4>1 DEF HomeOK, Cooling
    <3>3. CASE s = Session[q]
      <4>1. home'[s] = ring[1] BY <1>0, <1>4, <1>5, <2>3, <3>3
      <4>2. home'[s] \in Range(Candidates)' BY <1>1, <1>3, <4>1
      <4>3. s \notin shaken' => ~(health[home'[s]].until > now) BY <3>1, <3>3 DEF Cooling
      <4> QED BY <1>0, <4>2, <4>3 DEF HomeOK, Cooling
    <3> QED BY <3>2, <3>3
  <2> QED BY <2>2, <2>3
<1>9. \A r \in Requests : SeesHome(r)'
  <2> SUFFICES ASSUME NEW r \in Requests PROVE SeesHome(r)' OBVIOUS
  <2>0. SeesHome(r) BY DEF SessionInv
  <2>1. CASE r = q
    <3>1. request'[r].pc = "choosing" /\ request'[r].active = request[r].active
      BY <1>0, <1>2, <2>1 DEF Ranking, RequestsOK, RequestStates
    <3> QED BY <1>1, <2>0, <3>1 DEF SeesHome
  <2>2. CASE r # q
    <3>1. request'[r] = request[r] BY <1>0, <1>2, <2>2 DEF Ranking, RequestsOK
    <3>2. CASE home' = home
      <4>1. shaken' = shaken /\ looked' = looked BY <1>0, <3>2 DEF SessionMoves
      <4> QED BY <1>1, <2>0, <3>1, <3>2, <4>1 DEF SeesHome
    <3>3. CASE home' # home
      <4>1. /\ shaken \ {Session[q]} \subseteq shaken'
            /\ looked \subseteq looked'
            /\ Session[r] = Session[q] /\ request[r].pc = "ranking" => r \in looked'
        BY <1>0, <2>2, <3>3 DEF SessionMoves
      <4>2. CASE Session[r] = Session[q] BY <1>1, <2>0, <3>1, <4>1, <4>2 DEF SeesHome
      <4>3. CASE Session[r] # Session[q]
        <5>1. Session[r] \in Sessions BY DEF Sessions
        <5>2. home'[Session[r]] = home[Session[r]] BY <1>6, <4>3, <5>1
        <5>3. (Session[r] \notin shaken' => Session[r] \notin shaken) /\ (r \notin looked' => r \notin looked)
          BY <4>1, <4>3
        <5> QED BY <1>1, <2>0, <3>1, <5>2, <5>3 DEF SeesHome
      <4> QED BY <4>2, <4>3
    <3> QED BY <3>2, <3>3
  <2> QED BY <2>1, <2>2
<1> QED BY <1>8, <1>9 DEF SessionInv

LEMMA SessionInitially == ASSUME RouteInit PROVE SessionInv
<1>1. \A s \in Sessions : home[s] = NoRoute BY DEF RouteInit
<1>2. \A r \in Requests : request[r] = Idle BY DEF RouteInit
<1>3. \A r \in Requests : SeesHome(r) BY <1>2, IdleSight DEF SeesHome
<1> QED BY <1>1, <1>3 DEF SessionInv, HomeOK

\* A failure of a route shakes the sessions whose route it is.
LEMMA HomesShaken ==
  ASSUME RouteInv, RouteInv', SessionInv, UNCHANGED <<config, home>>, now' >= now,
         NEW route \in AllRoutes, NEW entry, health' = [health EXCEPT ![route] = entry],
         shaken' = shaken \cup {s \in Sessions : home[s] = route}
  PROVE  \A s \in Sessions : HomeOK(s)'
<1>1. ASSUME NEW s \in Sessions, home[s] # NoRoute, s \notin shaken'
      PROVE  health'[home[s]].until = health[home[s]].until
  <2>1. home[s] \in AllRoutes /\ home[s] # route BY <1>1 DEF RouteInv, RouteTypeOK
  <2>2. health'[home[s]] = health[home[s]] BY <2>1 DEF RouteInv, RouteTypeOK
  <2> QED BY <2>2
<1>2. \A s \in Sessions : home[s] # NoRoute /\ s \notin shaken' =>
         health'[home[s]].until = health[home[s]].until \/ health'[home[s]].until = 0
  BY <1>1
<1> QED BY <1>2, HomesStay DEF SessionInv

LEMMA SessionStep ==
  ASSUME RouteInv, RouteInv', SessionInv, [RouteNext]_routeVars
  PROVE  SessionInv'
<1>1. /\ RequestsOK /\ now \in Nat \ {0} /\ health \in [AllRoutes -> HealthEntries]
      /\ \A s \in Sessions : HomeOK(s)
      /\ \A r \in Requests : SeesHome(r)
      /\ \A s \in Sessions : home[s] # NoRoute => home[s] \in AllRoutes
  BY TypeParts DEF RouteInv, RouteTypeOK, SessionInv
<1>2. ASSUME UNCHANGED <<config, health, home>>, now' >= now, shaken \subseteq shaken'
      PROVE  \A s \in Sessions : HomeOK(s)'
  BY <1>1, <1>2, HomesStay
<1>3. ASSUME NEW r \in Requests, Answers(r) PROVE SessionInv'
  <2>1. /\ request[r].pc = "asking" /\ now' = now + 1
        /\ health' = [health EXCEPT ![Asked(r)].failures = 0, ![Asked(r)].until = 0]
        /\ request' = [request EXCEPT ![r] = Idle]
        /\ UNCHANGED <<config, home, shaken, looked>>
    BY <1>3 DEF Answers, Ticks
  <2>2. \A route \in AllRoutes : \/ health'[route].until = health[route].until
                                 \/ health'[route].until = 0
    <3> TAKE route \in AllRoutes
    <3>1. health[route] \in HealthEntries BY <1>1
    <3>2. CASE route = Asked(r) BY <1>1, <2>1, <3>1, <3>2 DEF HealthEntries
    <3>3. CASE route # Asked(r) BY <1>1, <2>1, <3>3
    <3> QED BY <3>2, <3>3
  <2>3. now' >= now BY <1>1, <2>1
  <2>4. \A s \in Sessions : HomeOK(s)' BY <1>1, <2>1, <2>2, <2>3, HomesStay
  <2>5. \A q \in Requests : SeesHome(q)' BY <1>1, <2>1, IdleSight, SightStays
  <2> QED BY <2>4, <2>5 DEF SessionInv
<1>4. ASSUME NEW r \in Requests, AskNext(r) PROVE SessionInv'
  <2> DEFINE route == Asked(r)
  <2>1. /\ request[r].pc = "asking" /\ now' = now + 1
        /\ health' = [health EXCEPT ![route] = Failed(@, TRUE)]
        /\ shaken' = shaken \cup {s \in Sessions : home[s] = route}
        /\ UNCHANGED <<config, home, looked>>
    BY <1>4 DEF AskNext, Ticks
  <2>2. route \in AllRoutes BY <1>1, <2>1, AskedOK
  <2>3. now' >= now BY <1>1, <2>1
  <2>4. PICK v : /\ request' = [request EXCEPT ![r] = v] /\ v.pc = "choosing"
                 /\ v.active = request[r].active
    BY <1>1, <1>4, NextTried
  <2>5. v.pc # "ranking" /\ Range(v.active) \subseteq Range(Candidates)
    BY <1>1, <2>4 DEF SeesHome
  <2> HIDE DEF route
  <2>6. \A s \in Sessions : HomeOK(s)' BY <2>1, <2>2, <2>3, HomesShaken
  <2>7. shaken \subseteq shaken' BY <2>1
  <2>8. \A q \in Requests : SeesHome(q)' BY <1>1, <2>1, <2>4, <2>5, <2>7, SightStays
  <2> QED BY <2>6, <2>8 DEF SessionInv
<1>5. ASSUME NEW r \in Requests, NEW offered \in Offers, Choose(r, offered) PROVE SessionInv'
  <2>1. UNCHANGED <<now, config, health, home, shaken, looked>> BY <1>5 DEF Choose
  <2>2. \A s \in Sessions : HomeOK(s)' BY <1>1, <1>2, <2>1
  <2>3. PICK order : IF order = <<>> THEN Leave(r)
                     ELSE request' = [request EXCEPT ![r].order[Asked(r)] = order, ![r].pc = "asking"]
    BY <1>5 DEF Choose, Asked
  <2>4. ASSUME order = <<>> PROVE \A q \in Requests : SeesHome(q)'
    BY <1>1, <2>1, <2>3, <2>4, SightLeaving
  <2>5. ASSUME order # <<>> PROVE \A q \in Requests : SeesHome(q)'
    <3> DEFINE v == [request[r] EXCEPT !.order = [@ EXCEPT ![Asked(r)] = order], !.pc = "asking"]
    <3>1. request' = [request EXCEPT ![r] = v] BY <1>1, <2>3, <2>5 DEF RequestsOK, RequestStates
    <3>2. v.pc # "ranking" /\ Range(v.active) \subseteq Range(Candidates)
      <4>1. request[r] \in RequestStates /\ Range(request[r].active) \subseteq Range(Candidates)
        BY <1>1 DEF RequestsOK, SeesHome
      <4> QED BY <4>1 DEF RequestStates
    <3> HIDE DEF v
    <3> QED BY <1>1, <2>1, <3>1, <3>2, SightStays
  <2> QED BY <2>2, <2>4, <2>5 DEF SessionInv
<1>6. ASSUME NEW r \in Requests, NEW kind \in Kinds, Fail(r, kind) PROVE SessionInv'
  <2> DEFINE route == Asked(r)
  <2>1. /\ request[r].pc = "asking" /\ now' = now + 1 /\ Afterwards(r, kind)
        /\ health' = IF kind = "passing" THEN health
                     ELSE [health EXCEPT ![route] = Failed(@, kind # "spent")]
        /\ shaken' = IF kind = "passing" THEN shaken
                     ELSE shaken \cup {s \in Sessions : home[s] = route}
        /\ UNCHANGED <<config, home, looked>>
    BY <1>6 DEF Fail, Ticks
  <2>2. route \in AllRoutes BY <1>1, <2>1, AskedOK
  <2>3. now' >= now /\ shaken \subseteq shaken' BY <1>1, <2>1
  <2> HIDE DEF route
  <2>4. \A s \in Sessions : HomeOK(s)'
    <3>1. CASE kind = "passing" BY <1>2, <2>1, <2>3, <3>1
    <3>2. CASE kind # "passing" BY <2>1, <2>2, <2>3, <3>2, HomesShaken
    <3> QED BY <3>1, <3>2
  <2>5. \A q \in Requests : SeesHome(q)' BY <1>1, <2>1, <2>3, SightAfterwards
  <2> QED BY <2>4, <2>5 DEF SessionInv
<1>7. ASSUME UNCHANGED <<state, request, history>>, now' >= now PROVE SessionInv'
  <2>1. UNCHANGED <<config, health, home, request, shaken, looked>> BY <1>7 DEF state, history
  <2>2. \A s \in Sessions : HomeOK(s)' BY <1>2, <1>7, <2>1
  <2>3. \A q \in Requests : SeesHome(q)' BY <1>1, <2>1, SightSame
  <2> QED BY <2>2, <2>3 DEF SessionInv
<1>8. CASE Tick
  <2>1. now' >= now BY <1>1, <1>8 DEF Tick, Ticks
  <2> QED BY <1>7, <1>8, <2>1 DEF Tick
<1>9. CASE UNCHANGED routeVars
  <2>1. now' >= now BY <1>1, <1>9 DEF routeVars
  <2> QED BY <1>7, <1>9, <2>1 DEF routeVars
<1> QED BY <1>3, <1>4, <1>5, <1>6, <1>8, <1>9, SightLooking, SightRanking DEF RouteNext

LEMMA NotRanked ==
  ASSUME RequestsOK, NEW r \in Requests, Ranked(r), NEW q \in Requests, request[q].pc # "ranking",
         UNCHANGED request \/ \E v : request' = [request EXCEPT ![q] = v]
  PROVE  FALSE
<1>1. CASE UNCHANGED request BY <1>1 DEF Ranked
<1>2. ASSUME NEW v, request' = [request EXCEPT ![q] = v] PROVE FALSE
  <2>1. r # q BY DEF Ranked
  <2>2. request'[r] = request[r] BY <1>2, <2>1 DEF RequestsOK
  <2> QED BY <2>2 DEF Ranked
<1> QED BY <1>1, <1>2

\* A request comes from its ranking to the choice of a model only as it ranks.
LEMMA RankedOnly ==
  ASSUME RequestsOK, [RouteNext]_routeVars, NEW r \in Requests, Ranked(r)
  PROVE  Rank(r)
<1>1. ASSUME NEW q \in Requests, Look(q) PROVE FALSE
  <2>1. request[q].pc # "ranking" BY <1>1 DEF Look
  <2>2. \E v : request' = [request EXCEPT ![q] = v] BY <1>1, ZenonT(40) DEF Look, RequestsOK
  <2> QED BY <2>1, <2>2, NotRanked
<1>2. ASSUME NEW q \in Requests, Rank(q) PROVE q = r
  <2>1. \E v : request' = [request EXCEPT ![q] = v] BY <1>2, ZenonT(40) DEF Rank, Settle, RequestsOK
  <2>2. ASSUME q # r PROVE FALSE
    <3>1. request'[r] = request[r] BY <2>1, <2>2 DEF RequestsOK
    <3> QED BY <3>1 DEF Ranked
  <2> QED BY <2>2
<1>3. ASSUME NEW q \in Requests, Answers(q) PROVE FALSE
  <2>1. request[q].pc # "ranking" /\ \E v : request' = [request EXCEPT ![q] = v]
    BY <1>3 DEF Answers
  <2> QED BY <2>1, NotRanked
<1>4. ASSUME NEW q \in Requests, AskNext(q) PROVE FALSE
  <2>1. request[q].pc # "ranking" BY <1>4 DEF AskNext
  <2>2. \E v : request' = [request EXCEPT ![q] = v] BY <1>4, NextTried
  <2> QED BY <2>1, <2>2, NotRanked
<1>5. ASSUME NEW q \in Requests, NEW offered \in Offers, Choose(q, offered) PROVE FALSE
  <2>1. request[q].pc # "ranking" BY <1>5 DEF Choose
  <2>2. PICK order : IF order = <<>> THEN Leave(q)
                     ELSE request' = [request EXCEPT ![q].order[Asked(q)] = order, ![q].pc = "asking"]
    BY <1>5 DEF Choose, Asked
  <2>3. \E v : request' = [request EXCEPT ![q] = v]
    <3>1. CASE order = <<>> BY <2>2, <3>1, Left DEF LeavesAs
    <3>2. CASE order # <<>> BY <2>2, <3>2 DEF RequestsOK
    <3> QED BY <3>1, <3>2
  <2> QED BY <2>1, <2>3, NotRanked
<1>6. ASSUME NEW q \in Requests, NEW kind \in Kinds, Fail(q, kind) PROVE FALSE
  <2>1. request[q].pc = "asking" /\ Afterwards(q, kind) BY <1>6 DEF Fail
  <2>2. \E v : request' = [request EXCEPT ![q] = v]
    BY <2>1, Left, GoesOn DEF Afterwards, LeavesAs
  <2> QED BY <2>1, <2>2, NotRanked
<1>7. CASE UNCHANGED request BY <1>7 DEF Ranked
<1> QED BY <1>1, <1>2, <1>3, <1>4, <1>5, <1>6, <1>7 DEF RouteNext, Tick, routeVars

LEMMA SessionMovesRightly ==
  ASSUME RouteInv, SessionInv, NEW r \in Requests, Rank(r), home[Session[r]] # NoRoute,
         home'[Session[r]] # home[Session[r]], Session[r] \notin shaken,
         home[Session[r]] \notin request[r].blocked, r \notin looked
  PROVE  WithinTop
<1>1. CursorsOK /\ RequestsOK /\ home \in [Sessions -> AllRoutes \cup {NoRoute}]
  BY TypeParts DEF RouteInv, RouteTypeOK
<1>2. PICK ring : Ranking(r, Rankings, ring) BY <1>1, RankOutcome
<1>3. home[Session[r]] \in Range(request[r].active) BY DEF SessionInv, SeesHome, Rank
<1>4. Session[r] \in Sessions BY DEF Sessions
<1>5. Attached /\ home'[Session[r]] = ring[1] BY <1>1, <1>2, <1>4 DEF Ranking
<1> QED BY <1>2, <1>3, <1>5 DEF Ranking

\* A session that is attached to its route stays there, in whatever way the
\* threads' looks at the cooldowns, rankings and reports interleave, until the
\* route fails, cools, or is given up by the request (SessionStays).
THEOREM SessionKept == RouteSpec => SessionStays
<1>1. RouteInit => SessionInv BY SessionInitially
<1>2. RouteInv /\ RouteInv' /\ SessionInv /\ [RouteNext]_routeVars => SessionInv' BY SessionStep
<1>3. RouteSpec => []SessionInv BY <1>1, <1>2, RouteInvariant, PTL DEF RouteSpec
<1> DEFINE Stays == \A r \in Requests : Ranked(r) /\ home[Session[r]] # NoRoute
                       /\ home'[Session[r]] # home[Session[r]] =>
                          \/ Session[r] \in shaken
                          \/ home[Session[r]] \in request[r].blocked
                          \/ r \in looked
                          \/ WithinTop
<1>4. RouteInv /\ SessionInv /\ [RouteNext]_routeVars => Stays
  <2> SUFFICES ASSUME RouteInv, SessionInv, [RouteNext]_routeVars, NEW r \in Requests, Ranked(r),
                      home[Session[r]] # NoRoute, home'[Session[r]] # home[Session[r]],
                      Session[r] \notin shaken, home[Session[r]] \notin request[r].blocked, r \notin looked
               PROVE  WithinTop
    OBVIOUS
  <2>1. RequestsOK BY TypeParts DEF RouteInv
  <2>2. Rank(r) BY <2>1, RankedOnly
  <2> QED BY <2>2, SessionMovesRightly
<1>5. RouteInv /\ SessionInv /\ [RouteNext]_routeVars => [Stays]_routeVars BY <1>4
<1> HIDE DEF Stays
<1>6. RouteSpec => [][Stays]_routeVars BY <1>3, <1>5, RouteInvariant, PTL DEF RouteSpec
<1>7. [][Stays]_routeVars => SessionStays BY PTL DEF SessionStays, Stays
<1> QED BY <1>6, <1>7

-----------------------------------------------------------------------------
(* The model asked for comes first.                                         *)

Excused(route) == route \in doubted \/ config.aliases[route] # <<>>

\* What a route remembers of its models
MemoryOK(route) ==
  /\ \A m \in Models : memory[route][m].score > 0 => memory[route][m].successes > 0
  /\ \A m \in Models \ {Own} : memory[route][m].successes > 0 => Excused(route)
  /\ memory[route][Own].score < 0 \/ memory[route][Own].until > 0 => route \in doubted

\* What a request has tried of the models of each route that it was on
OrderOK(r) ==
  \A route \in AllRoutes :
     LET order == request[r].order[route]
     IN order # <<>> =>
           /\ (\E k \in 1 .. request[r].tried[route] : order[k] # Own) => Excused(route)
           /\ Locked(Configured(route)) => Range(order) \subseteq Range(Configured(route))
           /\ config.supported[route] # {} => Range(order) \subseteq config.supported[route]

ModelInv == (\A route \in AllRoutes : MemoryOK(route)) /\ (\A r \in Requests : OrderOK(r))

LEMMA ModelInitially == ASSUME RouteInit PROVE ModelInv
<1>1. \A r \in Requests : \A route \in AllRoutes : request[r].order[route] = <<>>
  BY DEF RouteInit, Idle
<1>2. Own \in Models BY MemoryAssumption
<1>3. \A route \in AllRoutes : \A m \in Models : memory[route][m] = NoEntry BY DEF RouteInit
<1>4. \A route \in AllRoutes : MemoryOK(route) BY <1>2, <1>3 DEF MemoryOK, NoEntry
<1>5. \A r \in Requests : OrderOK(r) BY <1>1 DEF OrderOK
<1> QED BY <1>4, <1>5 DEF ModelInv

LEMMA MemoryStays ==
  ASSUME \A route \in AllRoutes : MemoryOK(route), UNCHANGED <<config, memory>>, doubted \subseteq doubted'
  PROVE  \A route \in AllRoutes : MemoryOK(route)'
<1> SUFFICES ASSUME NEW route \in AllRoutes PROVE MemoryOK(route)' OBVIOUS
<1>1. MemoryOK(route) OBVIOUS
<1> QED BY <1>1 DEF MemoryOK, Excused

\* A report of an outcome keeps what the memory tells of the models.
LEMMA MemoryTold ==
  ASSUME RouteTypeOK, ModelInv, NEW r \in Requests, request[r].pc = "asking",
         NEW success \in BOOLEAN, Tell(r, success), UNCHANGED config
  PROVE  (\A route \in AllRoutes : MemoryOK(route)') /\ doubted \subseteq doubted'
<1> DEFINE asked == Asked(r)
           model == Model(r)
           old == memory[asked][model]
           new == Remember(old, success, now)
<1>1. RequestsOK BY TypeParts
<1>2. /\ asked \in AllRoutes /\ model \in Models
      /\ request[r].order[asked] \in Seq(Models)
      /\ request[r].tried[asked] \in 1 .. Len(request[r].order[asked])
  BY <1>1, AskedOK
<1>3. old \in Entries /\ now \in Nat \ {0} /\ memory \in [AllRoutes -> [Models -> Entries]]
  BY <1>2 DEF RouteTypeOK
<1>4. /\ memory' = [memory EXCEPT ![asked][model] = new]
      /\ doubted' = IF ~success /\ model = Own THEN doubted \cup {asked} ELSE doubted
  BY DEF Tell
<1>5. doubted \subseteq doubted' BY <1>4
<1>6. Own \in Models BY MemoryAssumption
<1>7. MemoryOK(asked) BY <1>2 DEF ModelInv
<1>8. model # Own /\ success => Excused(asked)
  <2>1. OrderOK(r) BY DEF ModelInv
  <2>2. model = request[r].order[asked][request[r].tried[asked]] BY DEF Model
  <2> HIDE DEF model, asked
  <2>3. request[r].tried[asked] \in 1 .. request[r].tried[asked] /\ request[r].order[asked] # <<>>
    BY <1>2
  <2> QED BY <1>2, <2>1, <2>2, <2>3 DEF OrderOK
<1>9. /\ new.score > 0 => new.successes > 0
      /\ success => new.score >= 0 /\ new.until = 0
      /\ ~success => new.successes = old.successes
  <2>1. old.score > 0 => old.successes > 0 BY <1>2, <1>7 DEF MemoryOK
  <2>2. old.score \in Int /\ old.successes \in Nat BY <1>3 DEF Entries
  <2>3. CASE success
    <3>1. new.score = (IF old.score > 0 THEN old.score ELSE 0) + 4 /\ new.successes = old.successes + 1 /\ new.until = 0
      BY <2>3 DEF Remember
    <3> HIDE DEF new, old
    <3> QED BY <2>2, <2>3, <3>1
  <2>4. CASE ~success
    <3>1. new.score = old.score - 3 /\ new.successes = old.successes
      BY <1>3, <2>4 DEF Remember, Entries
    <3> QED BY <2>1, <2>2, <2>4, <3>1
  <2> QED BY <2>3, <2>4
<1> HIDE DEF new, old, asked, model
<1>10. \A m \in Models : memory'[asked][m] = IF m = model THEN new ELSE memory[asked][m]
  BY <1>2, <1>3, <1>4
<1>11. \A route \in AllRoutes : route # asked => memory'[route] = memory[route]
  BY <1>3, <1>4
<1>12. ASSUME NEW route \in AllRoutes, route = asked PROVE MemoryOK(route)'
  <2>0. MemoryOK(route) BY <1>7, <1>12
  <2>1. \A m \in Models : memory'[route][m].score > 0 => memory'[route][m].successes > 0
    BY <1>12, <2>0, <1>9, <1>10 DEF MemoryOK
  <2>2. Excused(route) => Excused(route)' BY <1>5 DEF Excused
  <2>3. ASSUME NEW m \in Models \ {Own}, memory'[route][m].successes > 0 PROVE Excused(route)
    <3>1. CASE m = model
      <4>1. CASE success BY <1>12, <1>8, <2>3, <3>1, <4>1
      <4>2. CASE ~success
        <5>1. memory[route][m].successes > 0 BY <1>12, <1>9, <1>10, <2>3, <3>1, <4>2 DEF old
        <5> QED BY <2>0, <2>3, <5>1 DEF MemoryOK
      <4> QED BY <4>1, <4>2
    <3>2. CASE m # model BY <1>12, <2>0, <1>10, <2>3, <3>2 DEF MemoryOK
    <3> QED BY <3>1, <3>2
  <2>4. ASSUME memory'[route][Own].score < 0 \/ memory'[route][Own].until > 0 PROVE route \in doubted'
    <3>1. CASE Own = model
      <4>1. CASE success
        <5>1. new.score \in Int BY <1>12, <1>2, <1>3, <1>4, RememberOK DEF new, Entries
        <5> QED BY <1>12, <1>6, <1>9, <1>10, <2>4, <3>1, <4>1, <5>1
      <4>2. CASE ~success BY <1>12, <1>4, <3>1, <4>2
      <4> QED BY <4>1, <4>2
    <3>2. CASE Own # model BY <1>12, <1>5, <1>6, <2>0, <1>10, <2>4, <3>2 DEF MemoryOK
    <3> QED BY <3>1, <3>2
  <2> QED BY <2>1, <2>2, <2>3, <2>4 DEF MemoryOK
<1>13. ASSUME NEW route \in AllRoutes, route # asked PROVE MemoryOK(route)'
  <2>1. MemoryOK(route) /\ memory'[route] = memory[route] BY <1>11, <1>13 DEF ModelInv
  <2> QED BY <1>5, <2>1 DEF MemoryOK, Excused
<1> QED BY <1>5, <1>12, <1>13

\* A request that keeps its orders and its places, or is done
StillOrdered(r, v) ==
  \/ v = Idle
  \/ v.order = request[r].order /\ v.tried = request[r].tried

\* The orders that requests work through, while none comes to a new one
LEMMA OrdersStay ==
  ASSUME RequestsOK, \A r \in Requests : OrderOK(r), UNCHANGED config, doubted \subseteq doubted',
         NEW q \in Requests, NEW v, StillOrdered(q, v), request' = [request EXCEPT ![q] = v]
  PROVE  \A r \in Requests : OrderOK(r)'
<1> SUFFICES ASSUME NEW r \in Requests, NEW route \in AllRoutes, request'[r].order[route] # <<>>
             PROVE  LET order == request'[r].order[route]
                    IN /\ (\E k \in 1 .. request'[r].tried[route] : order[k] # Own) => Excused(route)'
                       /\ Locked(Configured(route))' => Range(order) \subseteq Range(Configured(route))'
                       /\ (config.supported[route] # {})' => Range(order) \subseteq (config.supported[route])'
  BY DEF OrderOK
<1>1. request'[r].order = request[r].order /\ request'[r].tried = request[r].tried
  <2>1. CASE r = q
    <3>1. request'[r] = v BY <2>1 DEF RequestsOK
    <3>2. v # Idle BY <3>1 DEF Idle
    <3> QED BY <2>1, <3>1, <3>2 DEF StillOrdered
  <2>2. CASE r # q
    <3>1. request'[r] = request[r] BY <2>2 DEF RequestsOK
    <3> QED BY <3>1
  <2> QED BY <2>1, <2>2
<1>2. OrderOK(r) OBVIOUS
<1> QED BY <1>1, <1>2 DEF OrderOK, Excused, Configured

\* The models to try on a route: the first is another than the one asked for
\* only where this one has failed, is missing or has an alias.
LEMMA OrderMade ==
  ASSUME RouteTypeOK, NEW route \in AllRoutes, MemoryOK(route), NEW offered \in Seq(Models),
         NEW order \in CandidateOrders(memory[route], Configured(route), config.supported[route],
                                       offered, now),
         order # <<>>
  PROVE  /\ order[1] # Own => Excused(route) \/ (offered # <<>> /\ Own \notin Range(offered))
         /\ Locked(Configured(route)) => Range(order) \subseteq Range(Configured(route))
         /\ config.supported[route] # {} => Range(order) \subseteq config.supported[route]
<1> DEFINE entries == memory[route]
           configured == Configured(route)
           manual == config.supported[route]
<1>1. /\ entries \in [Models -> Entries] /\ now \in Nat
      /\ configured \in Seq(Models) /\ manual \in SUBSET Models
  BY ConfiguredOK DEF RouteTypeOK
<1>2. ASSUME order[1] # Own, config.aliases[route] = <<>>
      PROVE  route \in doubted \/ (offered # <<>> /\ Own \notin Range(offered))
  <2>1. configured = <<Own>> BY <1>2 DEF Configured
  <2>2. \A m \in Models : entries[m].score > 0 => entries[m].successes > 0 BY DEF MemoryOK
  <2>3. order \in CandidateOrders(entries, <<Own>>, manual, offered, now) BY <2>1
  <2> HIDE DEF entries, manual, configured
  <2>4. \/ \E m \in Models \ {Own} : entries[m].successes > 0
        \/ entries[Own].score < 0 \/ entries[Own].until > 0
        \/ offered # <<>> /\ Own \notin Range(offered)
    BY <1>1, <1>2, <2>2, <2>3, OwnFirst
  <2>5. (\E m \in Models \ {Own} : entries[m].successes > 0) => route \in doubted
    BY <1>2 DEF MemoryOK, Excused, entries
  <2>6. entries[Own].score < 0 \/ entries[Own].until > 0 => route \in doubted
    BY DEF MemoryOK, entries
  <2> QED BY <2>4, <2>5, <2>6
<1>3. /\ Locked(configured) => Range(order) \subseteq Range(configured)
      /\ manual # {} => Range(order) \subseteq manual
  <2>1. order \in CandidateOrders(entries, configured, manual, offered, now) OBVIOUS
  <2> HIDE DEF entries, manual, configured
  <2> QED BY <1>1, <2>1, OrdersKeep
<1> QED BY <1>2, <1>3 DEF Excused

LEMMA OrderChosen ==
  ASSUME RouteTypeOK, ModelInv, NEW q \in Requests, NEW offered \in Offers, Choose(q, offered)
  PROVE  \A r \in Requests : OrderOK(r)'
<1> DEFINE route == Asked(q)
<1>1. /\ RequestsOK /\ now \in Nat /\ config \in Configs
      /\ \A r \in Requests : OrderOK(r)
      /\ UNCHANGED <<config, memory>> /\ doubted \subseteq doubted'
      /\ request[q].pc = "choosing" /\ Probe(route, offered)
      /\ doubted' = IF offered # <<>> /\ Own \notin Range(offered) THEN doubted \cup {route} ELSE doubted
  BY TypeParts DEF RouteTypeOK, ModelInv, Choose, Asked
<1>2. route \in AllRoutes /\ MemoryOK(route) BY <1>1, AskedOK DEF ModelInv
<1>3. offered \in Seq(Models) BY <1>1, <1>2, ProbeOK DEF RouteTypeOK
<1>4. PICK order \in OrdersFor(q, route, offered) :
         IF order = <<>> THEN Leave(q)
         ELSE request' = [request EXCEPT ![q].order[route] = order, ![q].pc = "asking"]
  BY DEF Choose, Asked
<1>5. CASE order = <<>>
  <2>1. PICK v : LeavesAs(q, v) BY <1>1, <1>4, <1>5, Left
  <2>2. StillOrdered(q, v) /\ request' = [request EXCEPT ![q] = v]
    BY <2>1 DEF LeavesAs, StillOrdered
  <2> QED BY <1>1, <2>2, OrdersStay
<1>6. CASE order # <<>> /\ request[q].order[route] # <<>>
  <2> DEFINE v == [request[q] EXCEPT !.pc = "asking"]
  <2>1. request[q] \in RequestStates BY <1>1 DEF RequestsOK
  <2>2. order = request[q].order[route] BY <1>4, <1>6 DEF OrdersFor
  <2>3. request' = [request EXCEPT ![q] = [request[q] EXCEPT !.order = [@ EXCEPT ![route] = order],
                                                              !.pc = "asking"]]
    BY <1>1, <1>4, <1>6, <2>1 DEF RequestsOK, RequestStates
  <2>4. [request[q].order EXCEPT ![route] = order] = request[q].order
    BY <2>1, <2>2 DEF RequestStates
  <2>5. [request[q] EXCEPT !.order = [@ EXCEPT ![route] = order], !.pc = "asking"] = v
    BY <2>1, <2>4 DEF RequestStates
  <2>6. v.order = request[q].order /\ v.tried = request[q].tried BY <2>1 DEF RequestStates
  <2>7. request' = [request EXCEPT ![q] = v] BY <2>3, <2>5
  <2> HIDE DEF v
  <2> QED BY <1>1, <2>6, <2>7, OrdersStay DEF StillOrdered
<1>7. CASE order # <<>> /\ request[q].order[route] = <<>>
  <2>1. request' = [request EXCEPT ![q].order[route] = order, ![q].pc = "asking"]
    BY <1>4, <1>7
  <2>2. request[q] \in RequestStates /\ Placed(request[q]) BY <1>1 DEF RequestsOK, Sound
  <2>3. /\ request'[q].order[route] = order /\ request'[q].tried = request[q].tried
        /\ \A one \in AllRoutes : one # route => request'[q].order[one] = request[q].order[one]
    BY <1>1, <1>2, <2>1, <2>2 DEF RequestsOK, RequestStates
  <2>4. \A r \in Requests : r # q => request'[r] = request[r] BY <1>1, <2>1 DEF RequestsOK
  <2>5. request'[q].tried[route] = 1
    <3>1. request[q].tried[route] \in 1 .. 1 BY <1>2, <1>7, <2>2 DEF Placed
    <3> QED BY <2>3, <3>1
  <2>6. order \in CandidateOrders(memory[route], Configured(route), config.supported[route],
                                  offered, now)
    BY <1>4, <1>7 DEF OrdersFor
  <2>7. /\ order[1] # Own => Excused(route)'
        /\ Locked(Configured(route)) => Range(order) \subseteq Range(Configured(route))
        /\ config.supported[route] # {} => Range(order) \subseteq config.supported[route]
    <3>1. /\ order[1] # Own => Excused(route) \/ (offered # <<>> /\ Own \notin Range(offered))
          /\ Locked(Configured(route)) => Range(order) \subseteq Range(Configured(route))
          /\ config.supported[route] # {} => Range(order) \subseteq config.supported[route]
      <4> HIDE DEF route
      <4> QED BY <1>2, <1>3, <1>7, <2>6, OrderMade
    <3>2. Excused(route) \/ route \in doubted' => Excused(route)'
      <4>1. route' = route BY <1>1, <2>1 DEF Asked, RequestsOK, RequestStates
      <4> HIDE DEF route
      <4> QED BY <1>1, <4>1 DEF Excused
    <3> QED BY <1>1, <3>1, <3>2
  <2>8. OrderOK(q)'
    <3> SUFFICES ASSUME NEW one \in AllRoutes, request'[q].order[one] # <<>>
                 PROVE  LET made == request'[q].order[one]
                        IN /\ (\E k \in 1 .. request'[q].tried[one] : made[k] # Own) => Excused(one)'
                           /\ Locked(Configured(one))' => Range(made) \subseteq Range(Configured(one))'
                           /\ (config.supported[one] # {})' => Range(made) \subseteq (config.supported[one])'
      BY DEF OrderOK
    <3>1. CASE one = route
      <4>1. route' = route BY <1>1, <2>1 DEF Asked, RequestsOK, RequestStates
      <4> HIDE DEF route
      <4>2. \A k \in 1 .. request'[q].tried[one] : k = 1 BY <2>5, <3>1
      <4>3. Configured(one)' = Configured(one) BY <1>1 DEF Configured
      <4>4. Excused(route)' => Excused(one)' BY <3>1, <4>1 DEF Excused
      <4> QED BY <1>1, <2>3, <2>7, <3>1, <4>2, <4>3, <4>4
    <3>2. CASE one # route
      <4>1. OrderOK(q) /\ request'[q].order[one] = request[q].order[one] BY <1>1, <2>3, <3>2
      <4> HIDE DEF route
      <4> QED BY <1>1, <2>3, <4>1 DEF OrderOK, Excused, Configured
    <3> QED BY <3>1, <3>2
  <2>9. ASSUME NEW r \in Requests, r # q PROVE OrderOK(r)'
    <3>1. OrderOK(r) /\ request'[r] = request[r] BY <1>1, <2>4, <2>9
    <3> QED BY <1>1, <3>1 DEF OrderOK, Excused, Configured
  <2> QED BY <2>8, <2>9
<1> QED BY <1>5, <1>6, <1>7

\* The next model is tried after the one before it has failed.
LEMMA OrderGoesOn ==
  ASSUME RouteTypeOK, ModelInv, NEW q \in Requests, AskNext(q)
  PROVE  \A r \in Requests : OrderOK(r)'
<1> DEFINE route == Asked(q)
           place == request[q].tried[route]
<1>1. /\ RequestsOK /\ request[q].pc = "asking" /\ UNCHANGED config
      /\ \A r \in Requests : OrderOK(r)
      /\ doubted' = IF Model(q) = Own THEN doubted \cup {route} ELSE doubted
  BY TypeParts DEF ModelInv, AskNext, Tell
<1>2. route \in AllRoutes /\ place \in 1 .. Len(request[q].order[route])
      /\ request[q].order[route] \in Seq(Models)
  BY <1>1, AskedOK
<1>3. PICK v : /\ request' = [request EXCEPT ![q] = v] /\ v.order = request[q].order
               /\ v.tried = [request[q].tried EXCEPT ![route] = place + 1]
  BY <1>1, NextTried
<1>4. request'[q] = v /\ request[q].tried \in [AllRoutes -> Nat]
  BY <1>1, <1>3 DEF RequestsOK, RequestStates
<1>5. OrderOK(q) /\ doubted \subseteq doubted' BY <1>1
<1>6. route \in doubted' \/ config.aliases[route] # <<>>
  <2>1. CASE Model(q) = Own BY <1>1, <2>1
  <2>2. CASE Model(q) # Own
    <3>1. place \in 1 .. place /\ request[q].order[route][place] # Own BY <1>2, <2>2 DEF Model
    <3>2. request[q].order[route] # <<>> BY <1>2
    <3>3. Excused(route)
      <4> HIDE DEF route
      <4> QED BY <1>2, <1>5, <3>1, <3>2 DEF OrderOK
    <3> QED BY <1>5, <3>3 DEF Excused
  <2> QED BY <2>1, <2>2
<1> HIDE DEF route, place
<1>7. OrderOK(q)'
  <2> SUFFICES ASSUME NEW one \in AllRoutes, request'[q].order[one] # <<>>
               PROVE  LET made == request'[q].order[one]
                      IN /\ (\E k \in 1 .. request'[q].tried[one] : made[k] # Own) => Excused(one)'
                         /\ Locked(Configured(one))' => Range(made) \subseteq Range(Configured(one))'
                         /\ (config.supported[one] # {})' => Range(made) \subseteq (config.supported[one])'
    BY DEF OrderOK
  <2>1. request'[q].order[one] = request[q].order[one] BY <1>3, <1>4
  <2>2. Configured(one)' = Configured(one) BY <1>1 DEF Configured
  <2>3. /\ Locked(Configured(one)) => Range(request[q].order[one]) \subseteq Range(Configured(one))
        /\ config.supported[one] # {} => Range(request[q].order[one]) \subseteq config.supported[one]
        /\ (\E k \in 1 .. request[q].tried[one] : request[q].order[one][k] # Own) => Excused(one)
    BY <1>5, <2>1 DEF OrderOK
  <2>4. CASE one = route
    <3>1. Excused(one)' BY <1>1, <1>6, <2>4 DEF Excused
    <3> QED BY <1>1, <2>1, <2>2, <2>3, <3>1
  <2>5. CASE one # route
    <3>1. request'[q].tried[one] = request[q].tried[one] BY <1>3, <1>4, <2>5
    <3>2. Excused(one) => Excused(one)' BY <1>1, <1>5 DEF Excused
    <3> QED BY <1>1, <2>1, <2>2, <2>3, <3>1, <3>2
  <2> QED BY <2>4, <2>5
<1>8. ASSUME NEW r \in Requests, r # q PROVE OrderOK(r)'
  <2>1. OrderOK(r) /\ request'[r] = request[r] BY <1>1, <1>3, <1>8 DEF RequestsOK
  <2> QED BY <1>1, <1>5, <2>1 DEF OrderOK, Excused, Configured
<1> QED BY <1>7, <1>8

LEMMA ModelStep ==
  ASSUME RouteInv, ModelInv, [RouteNext]_routeVars
  PROVE  ModelInv'
<1>1. /\ RouteTypeOK /\ RequestsOK
      /\ \A route \in AllRoutes : MemoryOK(route)
      /\ \A r \in Requests : OrderOK(r)
  BY TypeParts DEF RouteInv, ModelInv
<1>2. ASSUME UNCHANGED <<config, memory>>, doubted \subseteq doubted'
      PROVE  \A route \in AllRoutes : MemoryOK(route)'
  BY <1>1, <1>2, MemoryStays
<1>3. ASSUME NEW q \in Requests, Look(q) PROVE ModelInv'
  <2>1. UNCHANGED <<config, memory, doubted>> BY <1>3 DEF Look, state
  <2>2. \E v : StillOrdered(q, v) /\ request' = [request EXCEPT ![q] = v]
    <3>1. PICK active : request' = [request EXCEPT ![q].active = active, ![q].cycle = active,
                           ![q].pc = IF active = <<>> THEN "idle"
                                     ELSE IF Len(active) = 1 THEN "choosing" ELSE "ranking"]
      BY <1>3 DEF Look
    <3> DEFINE phase == IF active = <<>> THEN "idle"
                     ELSE IF Len(active) = 1 THEN "choosing" ELSE "ranking"
               v == [request[q] EXCEPT !.active = active, !.cycle = active, !.pc = phase]
    <3>2. request' = [request EXCEPT ![q] = v] BY <1>1, <3>1 DEF RequestsOK, RequestStates
    <3> HIDE DEF phase
    <3>3. request[q] \in RequestStates BY <1>1 DEF RequestsOK
    <3>4. StillOrdered(q, v) BY <3>3 DEF RequestStates, StillOrdered
    <3> HIDE DEF v
    <3> QED BY <3>2, <3>4
  <2>3. \A r \in Requests : OrderOK(r)' BY <1>1, <2>1, <2>2, OrdersStay
  <2> QED BY <1>2, <2>1, <2>3 DEF ModelInv
<1>4. ASSUME NEW q \in Requests, Rank(q) PROVE ModelInv'
  <2>1. UNCHANGED <<config, memory, doubted>> BY <1>4 DEF Rank
  <2>2. PICK ring : request' = [request EXCEPT ![q].cycle = ring, ![q].pc = "choosing"]
    BY <1>4 DEF Rank, Settle
  <2>3. \E v : StillOrdered(q, v) /\ request' = [request EXCEPT ![q] = v]
    <3> DEFINE v == [request[q] EXCEPT !.cycle = ring, !.pc = "choosing"]
    <3>1. request[q] \in RequestStates BY <1>1 DEF RequestsOK
    <3>2. request' = [request EXCEPT ![q] = v]
      BY <1>1, <2>2, <3>1 DEF RequestsOK, RequestStates
    <3>3. StillOrdered(q, v) BY <3>1 DEF RequestStates, StillOrdered
    <3> HIDE DEF v
    <3> QED BY <3>2, <3>3
  <2>4. \A r \in Requests : OrderOK(r)' BY <1>1, <2>1, <2>3, OrdersStay
  <2> QED BY <1>2, <2>1, <2>4 DEF ModelInv
<1>5. \A q \in Requests : StillOrdered(q, Idle) BY DEF StillOrdered
<1>6. ASSUME NEW q \in Requests, Answers(q) PROVE ModelInv'
  <2>1. /\ request[q].pc = "asking" /\ Tell(q, TRUE) /\ request' = [request EXCEPT ![q] = Idle]
        /\ UNCHANGED config
    BY <1>6 DEF Answers
  <2>2. (\A route \in AllRoutes : MemoryOK(route)') /\ doubted \subseteq doubted'
    BY <1>1, <2>1, MemoryTold
  <2>3. \A r \in Requests : OrderOK(r)' BY <1>1, <1>5, <2>1, <2>2, OrdersStay
  <2> QED BY <2>2, <2>3 DEF ModelInv
<1>7. ASSUME NEW q \in Requests, AskNext(q) PROVE ModelInv'
  <2>1. request[q].pc = "asking" /\ Tell(q, FALSE) /\ UNCHANGED config BY <1>7 DEF AskNext
  <2>2. \A route \in AllRoutes : MemoryOK(route)' BY <1>1, <2>1, MemoryTold
  <2>3. \A r \in Requests : OrderOK(r)' BY <1>1, <1>7, OrderGoesOn
  <2> QED BY <2>2, <2>3 DEF ModelInv
<1>8. ASSUME NEW q \in Requests, NEW offered \in Offers, Choose(q, offered) PROVE ModelInv'
  <2>1. UNCHANGED <<config, memory>> /\ doubted \subseteq doubted' BY <1>8 DEF Choose
  <2>2. \A r \in Requests : OrderOK(r)' BY <1>1, <1>8, OrderChosen
  <2> QED BY <1>2, <2>1, <2>2 DEF ModelInv
<1>9. ASSUME NEW q \in Requests, NEW kind \in Kinds, Fail(q, kind) PROVE ModelInv'
  <2>1. /\ request[q].pc = "asking" /\ Afterwards(q, kind) /\ UNCHANGED config
        /\ IF kind = "exception" THEN Tell(q, FALSE) ELSE UNCHANGED <<memory, doubted>>
    BY <1>9 DEF Fail
  <2>2. (\A route \in AllRoutes : MemoryOK(route)') /\ doubted \subseteq doubted'
    <3>1. CASE kind = "exception" BY <1>1, <2>1, <3>1, MemoryTold
    <3>2. CASE kind # "exception" BY <1>2, <2>1, <3>2
    <3> QED BY <3>1, <3>2
  <2>3. \E v : StillOrdered(q, v) /\ request' = [request EXCEPT ![q] = v]
    <3>1. CASE Leave(q) BY <1>1, <3>1, Left DEF LeavesAs, StillOrdered
    <3>2. CASE Again(q) \/ Onward(q) BY <1>1, <2>1, <3>2, GoesOn DEF StillOrdered
    <3>3. CASE request' = [request EXCEPT ![q] = Idle] BY <1>5, <3>3
    <3> QED BY <2>1, <3>1, <3>2, <3>3 DEF Afterwards
  <2>4. \A r \in Requests : OrderOK(r)' BY <1>1, <2>1, <2>2, <2>3, OrdersStay
  <2> QED BY <2>2, <2>4 DEF ModelInv
<1>10. ASSUME UNCHANGED <<state, request, history>> PROVE ModelInv'
  <2>1. UNCHANGED <<config, memory, doubted, request>> BY <1>10 DEF state, history
  <2>2. ASSUME NEW r \in Requests PROVE OrderOK(r)'
    <3>1. OrderOK(r) BY <1>1
    <3> QED BY <2>1, <3>1 DEF OrderOK, Excused, Configured
  <2> QED BY <1>2, <2>1, <2>2 DEF ModelInv
<1> QED BY <1>3, <1>4, <1>6, <1>7, <1>8, <1>9, <1>10 DEF RouteNext, Tick, routeVars

\* A request is answered by another model than it asked for only where that one
\* has failed, was missing in the route's list or has an alias, and no manual
\* list and no alias is exceeded (OwnModelFirst): an order that was made from
\* the memory is worked through while other requests go on to change it.
THEOREM OwnModelFirstTried == RouteSpec => []OwnModelFirst
<1>1. RouteInit => ModelInv BY ModelInitially
<1>2. RouteInv /\ ModelInv /\ [RouteNext]_routeVars => ModelInv' BY ModelStep
<1>3. RouteSpec => []ModelInv BY <1>1, <1>2, RouteInvariant, PTL DEF RouteSpec
<1>4. RouteInv /\ ModelInv => OwnModelFirst
  <2> SUFFICES ASSUME RouteInv, ModelInv, NEW r \in Requests, request[r].pc = "asking"
               PROVE  /\ Model(r) # Own => Asked(r) \in doubted \/ config.aliases[Asked(r)] # <<>>
                      /\ Locked(Configured(Asked(r))) =>
                            Range(request[r].order[Asked(r)]) \subseteq Range(Configured(Asked(r)))
                      /\ config.supported[Asked(r)] # {} =>
                            Range(request[r].order[Asked(r)]) \subseteq config.supported[Asked(r)]
    BY DEF OwnModelFirst
  <2> DEFINE route == Asked(r)
  <2>1. RequestsOK /\ OrderOK(r) BY TypeParts DEF RouteInv, ModelInv
  <2>2. /\ route \in AllRoutes /\ request[r].order[route] \in Seq(Models)
        /\ request[r].tried[route] \in 1 .. Len(request[r].order[route])
    BY <2>1, AskedOK
  <2>3. Model(r) = request[r].order[route][request[r].tried[route]] BY DEF Model
  <2> HIDE DEF route
  <2>4. request[r].tried[route] \in 1 .. request[r].tried[route] /\ request[r].order[route] # <<>>
    BY <2>2
  <2> QED BY <2>1, <2>2, <2>3, <2>4 DEF OrderOK, Excused, route
<1> QED BY <1>3, <1>4, RouteInvariant, PTL

-----------------------------------------------------------------------------
(* Priorities.  First the score of a route is a number: what FoldSet adds   *)
(* up over the subsets of a finite set exists by induction over their size. *)

Some(s) == CHOOSE x \in s : TRUE

\* All subsets of a finite set are in H.
LEMMA SubsetsClimb ==
  ASSUME NEW S, IsFiniteSet(S), NEW H, {} \in H,
         \A s \in SUBSET S : s # {} /\ s \ {Some(s)} \in H => s \in H
  PROVE  \A s \in SUBSET S : s \in H
<1> DEFINE size == Cardinality(S)
           T == {k \in Nat : \A s \in SUBSET S : Cardinality(s) <= k => s \in H}
<1>1. size \in Nat BY FS_CardinalityType
<1>2. \A s \in SUBSET S : IsFiniteSet(s) /\ Cardinality(s) \in 0 .. size
  BY <1>1, FS_Subset, FS_CardinalityType
<1>3. 0 \in T
  <2> SUFFICES ASSUME NEW s \in SUBSET S, Cardinality(s) <= 0 PROVE s \in H OBVIOUS
  <2>1. IsFiniteSet(s) /\ Cardinality(s) = 0 BY <1>1, <1>2
  <2>2. s = {} BY <2>1, FS_EmptySet
  <2> QED BY <2>2
<1>4. ASSUME NEW k \in 1 .. size, k - 1 \in T PROVE k \in T
  <2>1. ASSUME NEW s \in SUBSET S, Cardinality(s) <= k, s # {} PROVE s \in H
    <3>1. Some(s) \in s BY <2>1 DEF Some
    <3>2. Cardinality(s \ {Some(s)}) = Cardinality(s) - 1 BY <1>2, <3>1, FS_RemoveElement
    <3>3. Cardinality(s \ {Some(s)}) <= k - 1 BY <1>1, <1>2, <2>1, <3>2
    <3>4. s \ {Some(s)} \in H BY <1>4, <3>3
    <3> QED BY <2>1, <3>4
  <2>2. k \in Nat BY <1>1
  <2>3. \A s \in SUBSET S : Cardinality(s) <= k => s \in H BY <2>1
  <2> QED BY <2>2, <2>3
<1>5. \A k \in 0 .. size : k \in T
  <2> HIDE DEF T, size
  <2> QED BY <1>1, <1>3, <1>4, Climb
<1>6. size \in T BY <1>1, <1>5
<1> QED BY <1>1, <1>2, <1>6

Folds(f, s, G) == f[s] = IF s = {} THEN 0 ELSE G[Some(s)][f[s \ {Some(s)}]]

LEMMA FoldExists ==
  ASSUME NEW S, IsFiniteSet(S), NEW G \in [S -> [Int -> Int]]
  PROVE  \E f \in [SUBSET S -> Int] : \A s \in SUBSET S : Folds(f, s, G)
<1> DEFINE size == Cardinality(S)
           Upto(k) == \E f \in [SUBSET S -> Int] :
                         \A s \in SUBSET S : Cardinality(s) <= k => Folds(f, s, G)
           T == {k \in Nat : Upto(k)}
<1>1. size \in Nat BY FS_CardinalityType
<1>2. \A s \in SUBSET S : IsFiniteSet(s) /\ Cardinality(s) \in 0 .. size
  BY <1>1, FS_Subset, FS_CardinalityType
<1>3. \A s \in SUBSET S : s # {} => /\ Some(s) \in S /\ s \ {Some(s)} \in SUBSET S
                                    /\ Cardinality(s \ {Some(s)}) = Cardinality(s) - 1
  <2> TAKE s \in SUBSET S
  <2> HAVE s # {}
  <2>1. Some(s) \in s BY DEF Some
  <2> QED BY <1>2, <2>1, FS_RemoveElement
<1>4. Upto(0)
  <2> DEFINE f == [s \in SUBSET S |-> 0]
  <2>1. ASSUME NEW s \in SUBSET S, Cardinality(s) <= 0 PROVE Folds(f, s, G)
    <3>1. IsFiniteSet(s) /\ Cardinality(s) = 0 BY <1>1, <1>2, <2>1
    <3>2. s = {} BY <3>1, FS_EmptySet
    <3> QED BY <3>2 DEF Folds
  <2>2. f \in [SUBSET S -> Int] OBVIOUS
  <2> HIDE DEF f
  <2> QED BY <2>1, <2>2
<1>5. ASSUME NEW k \in 1 .. size, Upto(k - 1) PROVE Upto(k)
  <2>1. PICK f \in [SUBSET S -> Int] : \A s \in SUBSET S : Cardinality(s) <= k - 1 => Folds(f, s, G)
    BY <1>5
  <2> DEFINE g == [s \in SUBSET S |-> IF Cardinality(s) = k THEN G[Some(s)][f[s \ {Some(s)}]] ELSE f[s]]
  <2>2. ASSUME NEW s \in SUBSET S, s # {} PROVE G[Some(s)][f[s \ {Some(s)}]] \in Int
    <3> DEFINE one == Some(s)
               less == s \ {one}
    <3>1. one \in S /\ less \in SUBSET S BY <1>3, <2>2
    <3> HIDE DEF one, less
    <3>2. f[less] \in Int /\ G[one] \in [Int -> Int] BY <3>1
    <3>3. G[one][f[less]] \in Int BY <3>2
    <3> QED BY <3>3 DEF one, less
  <2>3. ASSUME NEW s \in SUBSET S, Cardinality(s) = k PROVE s # {}
    <3>1. k # 0 BY <1>1
    <3> QED BY <2>3, <3>1, FS_EmptySet
  <2>4. g \in [SUBSET S -> Int] BY <2>2, <2>3
  <2>5. ASSUME NEW s \in SUBSET S, Cardinality(s) <= k PROVE Folds(g, s, G)
    <3>0. /\ Cardinality(s) \in Nat
          /\ g[s] = IF Cardinality(s) = k THEN G[Some(s)][f[s \ {Some(s)}]] ELSE f[s]
      BY <1>1, <1>2
    <3>1. s # {} => g[s \ {Some(s)}] = f[s \ {Some(s)}]
      <4> SUFFICES ASSUME s # {} PROVE g[s \ {Some(s)}] = f[s \ {Some(s)}] OBVIOUS
      <4> DEFINE less == s \ {Some(s)}
      <4>1. less \in SUBSET S /\ Cardinality(less) = Cardinality(s) - 1 BY <1>3
      <4> HIDE DEF less
      <4>2. Cardinality(less) # k BY <1>1, <2>5, <3>0, <4>1
      <4>3. g[less] = f[less] BY <4>1, <4>2
      <4> QED BY <4>3 DEF less
    <3> HIDE DEF g
    <3>2. CASE Cardinality(s) = k
      <4>1. s # {} BY <2>3, <3>2
      <4> QED BY <3>0, <3>1, <3>2, <4>1 DEF Folds
    <3>3. CASE Cardinality(s) # k
      <4>1. Cardinality(s) <= k - 1 BY <1>1, <2>5, <3>0, <3>3
      <4>2. Folds(f, s, G) BY <2>1, <4>1
      <4> QED BY <3>0, <3>1, <3>3, <4>2 DEF Folds
    <3> QED BY <3>2, <3>3
  <2> HIDE DEF g
  <2> QED BY <2>4, <2>5
<1>6. Upto(size)
  <2>1. 0 \in T BY <1>4
  <2>2. ASSUME NEW k \in 1 .. size, k - 1 \in T PROVE k \in T
    <3>1. k \in Nat BY <1>1
    <3>2. Upto(k - 1) BY <2>2
    <3>3. Upto(k) BY <1>5, <3>2
    <3> HIDE DEF Upto
    <3> QED BY <3>1, <3>3
  <2>3. \A k \in 0 .. size : k \in T
    <3> HIDE DEF T, size
    <3> QED BY <1>1, <2>1, <2>2, Climb
  <2> HIDE DEF Upto
  <2>4. size \in T BY <1>1, <2>3
  <2> QED BY <2>4
<1>7. PICK f \in [SUBSET S -> Int] : \A s \in SUBSET S : Cardinality(s) <= size => Folds(f, s, G)
  BY <1>6
<1> QED BY <1>1, <1>2, <1>7

Later(entry, latest) == IF entry.succeededAt > latest THEN entry.succeededAt ELSE latest

LEMMA TotalOK ==
  ASSUME NEW entries \in [Models -> Entries], NEW live \in SUBSET Models, IsFiniteSet(live)
  PROVE  FoldSet(LAMBDA m, sum : sum + Worth(entries[m]), 0, live) \in Int
<1> DEFINE G == [m \in live |-> [i \in Int |-> i + Worth(entries[m])]]
           Whole(f) == f = [s \in SUBSET live |->
              IF s = {} THEN 0
              ELSE f[s \ {CHOOSE x \in s : TRUE}] + Worth(entries[CHOOSE x \in s : TRUE])]
           h == CHOOSE f : Whole(f)
<1>1. \A m \in live : Worth(entries[m]) \in Int
  <2> TAKE m \in live
  <2>1. entries[m] \in Entries OBVIOUS
  <2>2. entries[m].score \in Int /\ entries[m].successes \in Nat /\ entries[m].failures \in Nat
    BY <2>1 DEF Entries
  <2> QED BY <2>2 DEF Worth, Unit
<1>2. G \in [live -> [Int -> Int]] BY <1>1
<1>3. \A s \in SUBSET live : s # {} => Some(s) \in live /\ s \ {Some(s)} \in SUBSET live
  <2> TAKE s \in SUBSET live
  <2> HAVE s # {}
  <2>1. Some(s) \in s BY DEF Some
  <2> QED BY <2>1
<1> HIDE DEF G
<1>4. PICK f \in [SUBSET live -> Int] : \A s \in SUBSET live : Folds(f, s, G) BY <1>2, FoldExists
<1>5. ASSUME NEW s \in SUBSET live, s # {} PROVE f[s] = f[s \ {Some(s)}] + Worth(entries[Some(s)])
  <2> DEFINE one == Some(s)
             less == s \ {one}
  <2>1. one \in live /\ less \in SUBSET live BY <1>3, <1>5
  <2>2. f[s] = G[one][f[less]] BY <1>4, <1>5 DEF Folds
  <2> HIDE DEF one, less
  <2>3. f[less] \in Int BY <2>1
  <2>4. G[one][f[less]] = f[less] + Worth(entries[one]) BY <2>1, <2>3 DEF G
  <2> QED BY <2>2, <2>4 DEF one, less
<1>6. Whole(f)
  <2>1. \A s \in SUBSET live : f[s] = IF s = {} THEN 0 ELSE f[s \ {Some(s)}] + Worth(entries[Some(s)])
    BY <1>4, <1>5 DEF Folds
  <2> QED BY <2>1 DEF Some
<1>7. Whole(h)
  <2> HIDE DEF Whole
  <2> QED BY <1>6
<1>8. \A s \in SUBSET live : h[s] = IF s = {} THEN 0 ELSE h[s \ {Some(s)}] + Worth(entries[Some(s)])
  <2> HIDE DEF h
  <2> QED BY <1>7 DEF Some
<1> DEFINE H == {s \in SUBSET live : h[s] \in Int}
<1> HIDE DEF h
<1>9. {} \in H
  <2>1. {} \in SUBSET live OBVIOUS
  <2>2. h[{}] = 0 BY <1>8, <2>1
  <2> QED BY <2>1, <2>2
<1>10. ASSUME NEW s \in SUBSET live, s # {}, s \ {Some(s)} \in H PROVE s \in H
  BY <1>1, <1>3, <1>8, <1>10
<1>11. live \in H
  <2> HIDE DEF H
  <2> QED BY <1>9, <1>10, SubsetsClimb
<1>12. FoldSet(LAMBDA m, sum : sum + Worth(entries[m]), 0, live) = h[live]
  BY DEF FoldSet, MapThenFoldSet, h
<1> QED BY <1>11, <1>12

LEMMA LastOK ==
  ASSUME NEW entries \in [Models -> Entries], NEW live \in SUBSET Models, IsFiniteSet(live)
  PROVE  FoldSet(LAMBDA m, latest : IF entries[m].succeededAt > latest
                                  THEN entries[m].succeededAt ELSE latest, 0, live) \in Int
<1> DEFINE G == [m \in live |-> [i \in Int |-> Later(entries[m], i)]]
           Whole(f) == f = [s \in SUBSET live |->
              IF s = {} THEN 0
              ELSE IF entries[CHOOSE x \in s : TRUE].succeededAt > f[s \ {CHOOSE x \in s : TRUE}]
                   THEN entries[CHOOSE x \in s : TRUE].succeededAt ELSE f[s \ {CHOOSE x \in s : TRUE}]]
           h == CHOOSE f : Whole(f)
<1>1. \A m \in live : entries[m].succeededAt \in Int
  <2> TAKE m \in live
  <2>1. entries[m] \in Entries OBVIOUS
  <2> QED BY <2>1 DEF Entries
<1>2. G \in [live -> [Int -> Int]] BY <1>1 DEF Later
<1>3. \A s \in SUBSET live : s # {} => Some(s) \in live /\ s \ {Some(s)} \in SUBSET live
  <2> TAKE s \in SUBSET live
  <2> HAVE s # {}
  <2>1. Some(s) \in s BY DEF Some
  <2> QED BY <2>1
<1> HIDE DEF G
<1>4. PICK f \in [SUBSET live -> Int] : \A s \in SUBSET live : Folds(f, s, G) BY <1>2, FoldExists
<1>5. ASSUME NEW s \in SUBSET live, s # {} PROVE f[s] = Later(entries[Some(s)], f[s \ {Some(s)}])
  <2> DEFINE one == Some(s)
             less == s \ {one}
  <2>1. one \in live /\ less \in SUBSET live BY <1>3, <1>5
  <2>2. f[s] = G[one][f[less]] BY <1>4, <1>5 DEF Folds
  <2> HIDE DEF one, less
  <2>3. f[less] \in Int BY <2>1
  <2>4. G[one][f[less]] = Later(entries[one], f[less]) BY <2>1, <2>3 DEF G
  <2> QED BY <2>2, <2>4 DEF one, less
<1>6. Whole(f)
  <2>1. \A s \in SUBSET live : f[s] = IF s = {} THEN 0 ELSE Later(entries[Some(s)], f[s \ {Some(s)}])
    BY <1>4, <1>5 DEF Folds
  <2> QED BY <2>1 DEF Some, Later
<1>7. Whole(h)
  <2> HIDE DEF Whole
  <2> QED BY <1>6
<1>8. \A s \in SUBSET live : h[s] = IF s = {} THEN 0 ELSE Later(entries[Some(s)], h[s \ {Some(s)}])
  <2> HIDE DEF h
  <2> QED BY <1>7 DEF Some, Later
<1> DEFINE H == {s \in SUBSET live : h[s] \in Int}
<1> HIDE DEF h
<1>9. {} \in H
  <2>1. {} \in SUBSET live OBVIOUS
  <2>2. h[{}] = 0 BY <1>8, <2>1
  <2> QED BY <2>1, <2>2
<1>10. ASSUME NEW s \in SUBSET live, s # {}, s \ {Some(s)} \in H PROVE s \in H
  BY <1>1, <1>3, <1>8, <1>10 DEF Later
<1>11. live \in H
  <2> HIDE DEF H
  <2> QED BY <1>9, <1>10, SubsetsClimb
<1>12. FoldSet(LAMBDA m, latest : IF entries[m].succeededAt > latest
                                THEN entries[m].succeededAt ELSE latest, 0, live) = h[live]
  BY DEF FoldSet, MapThenFoldSet, h
<1> QED BY <1>11, <1>12

LEMMA RouteScoreOK ==
  ASSUME NEW entries \in [Models -> Entries], NEW t \in Nat
  PROVE  RouteScore(entries, t) \in Int
<1> DEFINE live == {m \in Models : Live(entries[m], t)}
           total == FoldSet(LAMBDA m, sum : sum + Worth(entries[m]), 0, live)
           recent == FoldSet(LAMBDA m, latest : IF entries[m].succeededAt > latest
                                            THEN entries[m].succeededAt ELSE latest, 0, live)
<1>1. live \in SUBSET Models /\ IsFiniteSet(live) BY MemoryAssumption, FS_Subset
<1>2. total \in Int /\ recent \in Int
  <2> HIDE DEF live
  <2> QED BY <1>1, TotalOK, LastOK
<1>3. live # {} => Cardinality(live) \in Nat \ {0}
  <2> HIDE DEF live
  <2> QED BY <1>1, FS_CardinalityType, FS_EmptySet
<1>4. RouteScore(entries, t) =
        IF live = {} THEN 0
        ELSE total \div Cardinality(live)
             + IF recent = 0 \/ (t - recent) >= FreshFor THEN 0 ELSE (Unit \div FreshFor) * (FreshFor - (t - recent))
  BY DEF RouteScore
<1> HIDE DEF live, total, recent
<1>5. live # {} => total \div Cardinality(live) \in Int BY <1>2, <1>3
<1>6. (Unit \div FreshFor) * (FreshFor - (t - recent)) \in Int
  <2>1. FreshFor \in {1, 2, 4, 5} BY MemoryAssumption
  <2>2. Unit \div FreshFor \in Int BY <2>1 DEF Unit
  <2>3. FreshFor - (t - recent) \in Int BY <2>1, <1>2
  <2> QED BY <2>2, <2>3
<1> QED BY <1>4, <1>5, <1>6

\* What does not rank after another route has a better priority, or its memory
\* outweighs that.
LEMMA PriorityOrScore ==
  ASSUME RouteTypeOK, NEW first \in AllRoutes, NEW later \in AllRoutes,
         NotAfter(Rankings, first, later)
  PROVE  \/ Priority[first] <= Priority[later]
         \/ RouteScore(memory[first], now) - RouteScore(memory[later], now) >= PriorityWeight
<1> DEFINE a == RouteScore(memory[first], now)
           b == RouteScore(memory[later], now)
           x == Rankings[first]
           y == Rankings[later]
<1>1. a \in Int /\ b \in Int BY RouteScoreOK DEF RouteTypeOK
<1>2. Priority[first] \in Int /\ Priority[later] \in Int /\ PriorityWeight \in Nat BY SelectionAssumption
<1>3. x = y \/ ~Before(y, x) BY DEF NotAfter
<1>4. x[1] = -(a - PriorityWeight * Priority[first]) /\ y[1] = -(b - PriorityWeight * Priority[later])
  BY DEF Rankings, RankOf, Score
<1> HIDE DEF a, b, x, y
<1>5. ~(y[1] < x[1])
  <2> DEFINE s == PriorityWeight * Priority[first]
             t == PriorityWeight * Priority[later]
  <2>1. s \in Int /\ t \in Int BY <1>2
  <2> HIDE DEF s, t
  <2>2. CASE x = y BY <1>1, <1>4, <2>1, <2>2 DEF s, t
  <2>3. CASE ~Before(y, x)
    <3>1. 1 \in 1 .. 3 /\ \A j \in 1 .. (1 - 1) : y[j] = x[j] OBVIOUS
    <3> QED BY <2>3, <3>1 DEF Before
  <2> QED BY <1>3, <2>2, <2>3
<1>6. a - b >= PriorityWeight * Priority[first] - PriorityWeight * Priority[later]
  <2> DEFINE s == PriorityWeight * Priority[first]
             t == PriorityWeight * Priority[later]
  <2>1. s \in Int /\ t \in Int BY <1>2
  <2>2. x[1] = -(a - s) /\ y[1] = -(b - t) BY <1>4
  <2> HIDE DEF s, t
  <2>3. a - b >= s - t BY <1>1, <1>5, <2>1, <2>2
  <2> QED BY <2>3 DEF s, t
<1>7. ASSUME Priority[first] > Priority[later] PROVE a - b >= PriorityWeight
  <2> DEFINE d == Priority[first] - Priority[later]
  <2>1. d \in Nat \ {0} BY <1>2, <1>7
  <2>2. PriorityWeight * Priority[first] - PriorityWeight * Priority[later] = PriorityWeight * d
    BY <1>2
  <2> HIDE DEF d
  <2>3. PriorityWeight * d >= PriorityWeight BY <1>2, <2>1
  <2>4. a - b >= PriorityWeight * d BY <1>6, <2>2
  <2>5. PriorityWeight * d \in Int BY <1>2, <2>1
  <2> QED BY <1>1, <1>2, <2>3, <2>4, <2>5
<1> QED BY <1>2, <1>7 DEF a, b

\* No ranking puts a route before one of a better priority, whatever has been
\* remembered and failed, unless a session returns to it or its memory has
\* outgrown the weight of the priorities (PriorityHonoured).
THEOREM PriorityKept == RouteSpec => PriorityHonoured
<1> DEFINE Outgrown(first, later) ==
             RouteScore(memory[first], now) - RouteScore(memory[later], now) >= PriorityWeight
           Honours == \A r \in Requests : Ranked(r) =>
             \A j \in DOMAIN request'[r].cycle : \A i \in 1 .. (j - 1) :
                LET first == request'[r].cycle[i]
                    later == request'[r].cycle[j]
                IN \/ Priority[first] <= Priority[later]
                   \/ i = 1 /\ first = home[Session[r]] /\ Attached /\ ~WithinTop
                   \/ RouteScore(memory[first], now) - RouteScore(memory[later], now)
                         >= PriorityWeight
<1>1. RouteInv /\ [RouteNext]_routeVars => Honours
  <2> SUFFICES ASSUME RouteInv, [RouteNext]_routeVars, NEW r \in Requests, Ranked(r),
                      NEW j \in DOMAIN request'[r].cycle, NEW i \in 1 .. (j - 1)
               PROVE  \/ Priority[request'[r].cycle[i]] <= Priority[request'[r].cycle[j]]
                      \/ i = 1 /\ request'[r].cycle[i] = home[Session[r]] /\ Attached /\ ~WithinTop
                      \/ Outgrown(request'[r].cycle[i], request'[r].cycle[j])
    OBVIOUS
  <2>1. RouteTypeOK /\ RequestsOK /\ CursorsOK /\ home \in [Sessions -> AllRoutes \cup {NoRoute}]
    BY TypeParts DEF RouteInv, RouteTypeOK
  <2>2. Rank(r) BY <2>1, RankedOnly
  <2>3. PICK ring : Ranking(r, Rankings, ring) BY <2>1, <2>2, RankOutcome
  <2>4. request'[r].cycle = ring
    BY <2>1, <2>3 DEF Ranking, RequestsOK, RequestStates
  <2>5. j \in DOMAIN ring /\ i \in DOMAIN ring /\ ring[i] \in AllRoutes /\ ring[j] \in AllRoutes
    <3>1. ring \in Seq(AllRoutes) BY <2>3 DEF Ranking, NonEmpty
    <3>2. j \in 1 .. Len(ring) /\ i \in 1 .. Len(ring) BY <2>4, <3>1
    <3> QED BY <3>1, <3>2, SeqElement
  <2>6. \/ i = 1 /\ ring[1] = home[Session[r]] /\ Attached /\ ~WithinTop
        \/ NotAfter(Rankings, ring[i], ring[j])
    BY <2>3, <2>5 DEF Ranking
  <2>7. NotAfter(Rankings, ring[i], ring[j]) =>
           Priority[ring[i]] <= Priority[ring[j]] \/ Outgrown(ring[i], ring[j])
    BY <2>1, <2>5, PriorityOrScore
  <2> HIDE DEF Outgrown
  <2> QED BY <2>4, <2>6, <2>7
<1>2. RouteInv /\ [RouteNext]_routeVars => [Honours]_routeVars BY <1>1
<1> HIDE DEF Honours
<1>3. RouteSpec => [][Honours]_routeVars BY <1>2, RouteInvariant, PTL DEF RouteSpec
<1>4. [][Honours]_routeVars => PriorityHonoured BY PTL DEF PriorityHonoured, Honours
<1> QED BY <1>3, <1>4
=============================================================================
