--------------------------- MODULE UpstreamRetry ---------------------------
(***************************************************************************)
(* One downstream request inside request_upstream_with_retries: the loop   *)
(* that walks the upstream routes, switches keys, models and routes, backs *)
(* off and finally hands one response (or exception) to the caller.        *)
(*                                                                         *)
(* Any number of other requests run the same loop concurrently.  They      *)
(* share with this one only the route health table and the key pool, so    *)
(* they are modelled by what they may do to those two: cool a route or a   *)
(* key, or end its cooldown, between any two steps of this request.  The   *)
(* key table itself is the module KeyPool.                                 *)
(***************************************************************************)
EXTENDS Naturals, Sequences, FiniteSets

CONSTANTS
    Routes,        \* the configured route URLs
    Keys,          \* the API keys
    NoKey,         \* the choice {} of choose_api_key_for_url
    KeysOf,        \* KeysOf[u] = the keys of the pool that owns route u
    Twin,          \* Twin[u] = the first route with the base URL of u
    ModelCount,    \* ModelCount[u] = length of u's ordered model candidates
    RaceRoutes,    \* the routes whose candidates are not known: they may race
    RaceLimit,     \* MODEL_CANDIDATE_RACE_LIMIT
    RateRetries,   \* RateRetries[u] = rate_limit_retry_attempts of u's policy
    MaxRetries,    \* UPSTREAM_MAX_RETRIES
    NoBackoff,     \* UPSTREAM_RETRY_BACKOFF_MS is 0
    Variants       \* model_variant_count, max(1, len(model_candidates) + 6)

ASSUME ConstantsAssumption ==
    /\ IsFiniteSet(Routes) /\ IsFiniteSet(Keys) /\ NoKey \notin Keys
    /\ KeysOf \in [Routes -> SUBSET Keys] /\ Twin \in [Routes -> Routes]
    /\ ModelCount \in [Routes -> Nat] /\ RateRetries \in [Routes -> Nat]
    /\ RaceRoutes \subseteq Routes /\ NoBackoff \in BOOLEAN
    /\ RaceLimit \in Nat /\ MaxRetries \in Nat /\ Variants \in Nat \ {0}

VARIABLES
    pc,            \* "idle", "top" (of the loop), "route" (popped), "wait", "done"
    cands,         \* candidate_urls
    method,        \* "POST", "GET" (or HEAD), or "OTHER"
    n,             \* attempt_number
    att,           \* len(attempts)
    late,          \* the route switch window has elapsed
    followup,      \* "none", "available", "consumed" immediate follow-up
    lateStarts,    \* history: iterations begun after the window
    blocked,       \* blocked_urls
    cycle,         \* route_cycle
    at,            \* attempt_url
    key,           \* key_choice of the attempt
    failedKeys,    \* route_key_failures
    modelAt,       \* route_model_index
    raced,         \* raced_routes
    rateUsed,      \* route_rate_limit_retries
    openResp,      \* history: upstream responses received and not closed
    last,          \* last_response: "none", or whether it is "open" or "closed"
    raised,        \* last_exception is set
    cause,         \* history: how the latest attempt ended
    outcome,       \* what the caller got
    sent,          \* history: <<route, key>> sent, of a request not to be repeated
    coolingRoutes, \* shared: routes with cooldown_until > now
    coolingKeys    \* shared: <<route, key>> with cooldown_until > now

input   == <<cands, method>>
budget  == <<n, late, followup, lateStarts>>
routing == <<blocked, cycle, at, key, failedKeys, modelAt, raced, rateUsed>>
reply   == <<openResp, last, raised, cause, outcome, sent, att>>
shared  == <<coolingRoutes, coolingKeys>>
vars    == <<pc, input, budget, routing, reply, shared>>

-----------------------------------------------------------------------------
(* What an upstream answer can look like to the loop: the action that      *)
(* classify_upstream_response gives it and the facts tested besides.        *)

\* rate: status 429;  failover: status in ROUTE_FAILOVER_STATUS_CODES;
\* det: _is_deterministic_upstream_failure;  unavail: model unavailable marker.
ErrorReply ==
    {r \in [act : {"return", "retry", "switch"}, det : BOOLEAN,
            rate : BOOLEAN, failover : BOOLEAN, unavail : BOOLEAN] :
        /\ r.rate => r.failover /\ r.act # "retry"
        /\ r.unavail => r.act = "switch"}

\* should_retry_upstream_request: other methods may not be repeated.
retryAllowed == method # "OTHER"

MaxAttempts == (1 + (IF retryAllowed THEN MaxRetries ELSE 0)) * Variants

Enforced == retryAllowed /\ Cardinality(cands) > 1

Unblocked == cands \ blocked
\* Faulty variant: the last alternative is not counted.
HasAlternateOffByOne == Cardinality(Unblocked) > 2

HasAlternate == Cardinality(Unblocked) > 1

\* Candidates that are neither blocked nor cooling, or else all unblocked ones.
Active(unblocked, cooling) ==
    IF unblocked \ cooling # {} THEN unblocked \ cooling ELSE unblocked

\* build_attempt_url_cycle: ranking, affinity and rotation may produce any order.
Cycles(unblocked, cooling) ==
    LET active == Active(unblocked, cooling)
    IN  {s \in [1 .. Cardinality(active) -> active] :
            \A i, j \in 1 .. Cardinality(active) : s[i] = s[j] => i = j}

\* get_api_keys_for_url: a route without keys has those of its base URL.
PoolKeys(u) == IF KeysOf[u] # {} THEN KeysOf[u] ELSE KeysOf[Twin[u]]

\* The keys of u that are neither excluded nor cooling.
FreeKeys(u, exclude, cooling) == {k \in KeysOf[u] \ exclude : <<u, k>> \notin cooling}

\* Faulty variant: the exclude argument is ignored.
UsableKeysIgnoringExclude(u, exclude, cooling) == FreeKeys(u, {}, cooling)

\* choose_api_key_for_url: if u has no free key, one of its base URL's.  The
\* marks of that choice are left under u all the same.
UsableKeys(u, exclude, cooling) ==
    IF FreeKeys(u, exclude, cooling) # {} THEN FreeKeys(u, exclude, cooling)
    ELSE FreeKeys(Twin[u], exclude, cooling)

OfferFollowup == followup' = IF followup = "consumed" THEN followup ELSE "available"

Success(u, k) ==
    /\ coolingRoutes' = coolingRoutes \ {u}
    /\ coolingKeys' = coolingKeys \ {<<u, k>>}

Max2(a, b) == IF a >= b THEN a ELSE b

-----------------------------------------------------------------------------
Init ==
    /\ pc = "idle"
    /\ cands = {} /\ method = "OTHER"
    /\ n = 0 /\ late = FALSE /\ followup = "none" /\ lateStarts = 0
    /\ blocked = {} /\ cycle = <<>> /\ at \in Routes /\ key = NoKey
    /\ failedKeys = [u \in Routes |-> {}]
    /\ modelAt = [u \in Routes |-> 0]
    /\ raced = {}
    /\ rateUsed = [u \in Routes |-> 0]
    /\ openResp = 0 /\ last = "none" /\ raised = FALSE
    /\ cause = "none" /\ outcome = "none" /\ sent = {} /\ att = 0
    /\ coolingRoutes = {} /\ coolingKeys = {}

\* The caller names the candidate routes and those an earlier execution of the
\* same request already burnt; blocking every candidate blocks none.
Start ==
    /\ pc = "idle"
    /\ \E c \in (SUBSET Routes) \ {{}}, initial \in SUBSET Routes :
        /\ cands' = c
        /\ blocked' = IF c \subseteq initial THEN {} ELSE initial \cap c
        /\ cycle' \in Cycles(c \ blocked', coolingRoutes)
    /\ method' \in {"POST", "GET", "OTHER"}
    /\ pc' = "top"
    /\ UNCHANGED <<budget, at, key, failedKeys, modelAt, raced, rateUsed, reply, shared>>

\* The end of the loop: an earlier response wins over the last exception.
Finish ==
    /\ pc' = "done"
    /\ outcome' = IF last # "none" THEN "response"
                  ELSE IF raised' THEN "exception" ELSE "nothing"

\* From the second iteration on an elapsed window lets the loop go on only on
\* the one immediate follow-up a failover has earned.
WindowSpent == n > 0 /\ Enforced /\ late

NextAttempt ==
    /\ pc = "top" /\ n < MaxAttempts
    /\ WindowSpent => followup = "available"
    /\ \E c \in IF cycle = <<>> THEN Cycles(Unblocked, coolingRoutes) ELSE {cycle} :
        /\ c # <<>>
        /\ at' = Head(c)
        /\ cycle' = Tail(c)
    /\ n' = n + 1
    /\ followup' = IF WindowSpent THEN "consumed" ELSE followup
    /\ lateStarts' = IF WindowSpent THEN lateStarts + 1 ELSE lateStarts
    /\ pc' = "route" /\ key' = NoKey
    /\ UNCHANGED <<input, late, blocked, failedKeys, modelAt, raced, rateUsed, reply, shared>>

\* Faulty variant: the loop polls an elapsed window instead of ending.
GiveUpNotOnWindow ==
    /\ pc = "top"
    /\ n = MaxAttempts \/ (cycle = <<>> /\ Unblocked = {})
    /\ UNCHANGED raised
    /\ Finish
    /\ UNCHANGED <<input, budget, routing, openResp, last, cause, sent, att, shared>>

GiveUp ==
    /\ pc = "top"
    /\ \/ n = MaxAttempts
       \/ WindowSpent /\ followup # "available"
       \/ cycle = <<>> /\ Unblocked = {}
    /\ UNCHANGED raised
    /\ Finish
    /\ UNCHANGED <<input, budget, routing, openResp, last, cause, sent, att, shared>>

\* Block the current route without sending: it supports none of the models, or
\* all of its keys are cooling or excluded.
SkipRoute ==
    /\ blocked' = blocked \cup {at}
    /\ att' = att + 1
    /\ cause' = "skip"
    /\ UNCHANGED raised
    /\ IF cands \subseteq blocked'
       THEN Finish /\ UNCHANGED cycle
       ELSE /\ cycle' \in Cycles(cands \ blocked', coolingRoutes)
            /\ pc' = "top" /\ UNCHANGED outcome
    /\ UNCHANGED <<input, budget, at, key, failedKeys, modelAt, raced, rateUsed,
                   openResp, last, sent, shared>>

SkipUnsupported == pc = "route" /\ ModelCount[at] = 0 /\ SkipRoute

\* The candidates of a route race at most once per request (POST only).
RaceDue == /\ method = "POST" /\ ModelCount[at] > 1
           /\ at \in RaceRoutes \ raced /\ RaceLimit > 1

CanChoose == UsableKeys(at, failedKeys[at], coolingKeys) # {}

RaceWon ==
    /\ pc = "route" /\ RaceDue
    /\ \E k \in IF CanChoose THEN UsableKeys(at, failedKeys[at], coolingKeys) ELSE {NoKey} :
            Success(at, k)
    /\ \E m \in 1 .. RaceLimit : att' = att + m
    /\ raced' = raced \cup {at}
    /\ openResp' = openResp + 1 /\ last' = "open"
    /\ cause' = "ok" /\ outcome' = "response" /\ pc' = "done"
    /\ UNCHANGED <<input, budget, blocked, cycle, at, key, failedKeys, modelAt, rateUsed,
                   raised, sent>>

\* No winner: the models the race found unavailable are passed over, the route
\* itself is tried in the same iteration.
RaceLost ==
    /\ pc = "route" /\ RaceDue
    /\ \E m \in 0 .. RaceLimit : att' = att + m
    /\ \E m \in 0 .. ModelCount[at] :
        /\ m <= RaceLimit
        /\ modelAt' = [modelAt EXCEPT ![at] = Max2(modelAt[at], m)]
    /\ raced' = raced \cup {at}
    /\ UNCHANGED <<pc, input, budget, blocked, cycle, at, key, failedKeys, rateUsed,
                   openResp, last, raised, cause, outcome, sent, shared>>

SkipCooling ==
    /\ pc = "route" /\ ModelCount[at] > 0 /\ ~RaceDue
    /\ PoolKeys(at) # {} /\ ~CanChoose
    /\ SkipRoute

Send ==
    /\ pc = "route" /\ ModelCount[at] > 0 /\ ~RaceDue
    /\ \E k \in IF PoolKeys(at) = {} THEN {NoKey}
                ELSE UsableKeys(at, failedKeys[at], coolingKeys) :
        /\ key' = k
        /\ sent' = IF retryAllowed THEN sent ELSE sent \cup {<<at, k>>}
    /\ pc' = "wait"
    /\ UNCHANGED <<input, budget, blocked, cycle, at, failedKeys, modelAt, raced, rateUsed,
                   openResp, last, raised, cause, outcome, att, shared>>

-----------------------------------------------------------------------------
(* pc = "wait": the sender returns a response or raises.                    *)

\* Faulty variant: the response is dropped without close().
ContinueWithoutClose ==
    /\ last' = "open" /\ openResp' = openResp + 1
    /\ OfferFollowup /\ pc' = "top"
    /\ UNCHANGED outcome

CloseAndContinue ==
    /\ last' = "closed" /\ OfferFollowup /\ pc' = "top"
    /\ UNCHANGED <<openResp, outcome>>

SwitchRoute ==
    /\ blocked' = blocked \cup {at}
    /\ cycle' \in Cycles(cands \ blocked', coolingRoutes')

\* A status below 400: its evaluation is left to the stream, it is returned.
Succeed ==
    /\ pc = "wait"
    /\ Success(at, key)
    /\ att' = att + 1
    /\ openResp' = openResp + 1 /\ last' = "open"
    /\ cause' = "ok" /\ outcome' = "response" /\ pc' = "done"
    /\ UNCHANGED <<input, budget, routing, raised, sent>>

BacksOff == n < MaxAttempts /\ retryAllowed /\ ~NoBackoff /\ ~(Enforced /\ late)

\* An exception cools the route and fails over whatever the method; without an
\* alternative it backs off, if attempts are left and the delay is not 0.
Raise ==
    /\ pc = "wait"
    /\ raised' = TRUE /\ att' = att + 1 /\ cause' = "exception"
    /\ coolingRoutes' = coolingRoutes \cup {at}
    /\ \/ /\ HasAlternate
          /\ SwitchRoute /\ OfferFollowup
          /\ pc' = "top" /\ UNCHANGED outcome
       \/ /\ ~HasAlternate
          /\ UNCHANGED <<blocked, cycle, followup>>
          /\ IF BacksOff THEN pc' = "top" /\ UNCHANGED outcome ELSE Finish
    /\ UNCHANGED <<input, n, late, lateStarts, at, key, failedKeys, modelAt, raced, rateUsed,
                   openResp, last, sent, coolingKeys>>

AttemptsLeft == att + 1 < MaxAttempts

\* A 429 for which the route's policy has a retry left.
RateLimited(r) ==
    r.rate /\ retryAllowed /\ AttemptsLeft /\ rateUsed[at] < RateRetries[at]

\* The marks an error response leaves before any branch is taken.  Reasons of a
\* switch cool the route at once, others from the failure threshold on.
Record(r) ==
    /\ att' = att + 1
    /\ cause' = IF RateLimited(r) THEN "rateLimited" ELSE r.act
    /\ \/ /\ r.act = "switch" \/ r.det \/ r.rate
          /\ coolingRoutes' = coolingRoutes \cup {at}
       \/ r.act # "switch" /\ UNCHANGED coolingRoutes
    /\ coolingKeys' = IF r.det /\ key # NoKey THEN coolingKeys \cup {<<at, key>>}
                      ELSE coolingKeys
    /\ UNCHANGED <<input, n, late, lateStarts, at, key, raced, raised, sent>>

RetryRateLimited(r) ==
    /\ RateLimited(r) /\ ~(Enforced /\ late)
    /\ rateUsed' = [rateUsed EXCEPT ![at] = @ + 1]
    /\ cycle' = <<at>> \o cycle
    /\ CloseAndContinue
    /\ UNCHANGED <<blocked, failedKeys, modelAt>>

\* The delay is 0: no time is left in the window, or the route's policy or a
\* Retry-After header says 0.  The closed 429 is what the caller gets.
ReturnRateLimited(r) ==
    /\ RateLimited(r)
    /\ last' = "closed" /\ outcome' = "response" /\ pc' = "done"
    /\ UNCHANGED <<followup, blocked, cycle, failedKeys, modelAt, rateUsed, openResp>>

\* A deterministic failure fails the key for the rest of the request.
FailsKey(r) ==
    r.det /\ key # NoKey /\ Cardinality(failedKeys[at]) < Cardinality(PoolKeys(at))

FailedWith(r) == IF FailsKey(r) THEN failedKeys[at] \cup {key} ELSE failedKeys[at]

SwitchesKey(r) ==
    ~RateLimited(r) /\ FailsKey(r) /\ UsableKeys(at, FailedWith(r), coolingKeys') # {}

SwitchKey(r) ==
    /\ SwitchesKey(r)
    /\ failedKeys' = [failedKeys EXCEPT ![at] = FailedWith(r)]
    /\ cycle' = <<at>> \o cycle
    /\ CloseAndContinue
    /\ UNCHANGED <<blocked, modelAt, rateUsed>>

\* Past the 429 and key branches; what they left in failedKeys stays.
Decides(r) ==
    /\ ~RateLimited(r) /\ ~SwitchesKey(r)
    /\ failedKeys' = [failedKeys EXCEPT ![at] = FailedWith(r)]
    /\ UNCHANGED rateUsed

FailsOver(r) ==
    HasAlternate
        /\ \/ retryAllowed /\ (r.act = "switch" \/ r.failover)
           \/ r.act = "retry" /\ Cardinality(FailedWith(r)) >= Cardinality(PoolKeys(at))

Failover(r) ==
    /\ Decides(r) /\ FailsOver(r)
    /\ SwitchRoute /\ CloseAndContinue
    /\ UNCHANGED modelAt

Final(r) == r.act = "return" \/ ~retryAllowed \/ ~AttemptsLeft

NextModel(r) == r.unavail /\ modelAt[at] + 1 < ModelCount[at]

SwitchModel(r) ==
    /\ Decides(r) /\ ~FailsOver(r) /\ ~Final(r) /\ NextModel(r)
    /\ modelAt' = [modelAt EXCEPT ![at] = @ + 1]
    /\ cycle' = <<at>> \o cycle
    /\ CloseAndContinue
    /\ UNCHANGED blocked

\* The error goes to the caller, unread and open.  A switch that reaches this
\* branch has no other route: the code blocks the last one and returns.
ReturnError(r) ==
    /\ Decides(r) /\ ~FailsOver(r)
    /\ \/ Final(r) /\ UNCHANGED blocked
       \/ ~Final(r) /\ r.act = "switch" /\ ~NextModel(r) /\ blocked' = blocked \cup {at}
    /\ openResp' = openResp + 1 /\ last' = "open"
    /\ outcome' = "response" /\ pc' = "done"
    /\ UNCHANGED <<followup, cycle, modelAt>>

\* As for an exception the delay may be 0: then the closed response is returned.
BackOff(r) ==
    /\ Decides(r) /\ ~FailsOver(r) /\ ~Final(r) /\ r.act = "retry"
    /\ last' = "closed"
    /\ \/ pc' = "done" /\ outcome' = "response"
       \/ ~(Enforced /\ late) /\ pc' = "top" /\ UNCHANGED outcome
    /\ UNCHANGED <<followup, blocked, cycle, modelAt, openResp>>

Answer(r) ==
    /\ pc = "wait"
    /\ Record(r)
    /\ \/ RetryRateLimited(r)
       \/ ReturnRateLimited(r)
       \/ SwitchKey(r)
       \/ Failover(r)
       \/ SwitchModel(r)
       \/ ReturnError(r)
       \/ BackOff(r)

-----------------------------------------------------------------------------
(* The clock, and what other requests do to the shared tables.              *)

WindowElapses ==
    /\ pc \notin {"idle", "done"} /\ ~late
    /\ late' = TRUE
    /\ UNCHANGED <<pc, input, n, followup, lateStarts, routing, reply, shared>>

\* (A mark for a key under a route that does not own it is never looked up.)
Interfere ==
    /\ pc # "done"
    /\ \/ \E u \in Routes :
            /\ coolingRoutes' \in {coolingRoutes \cup {u}, coolingRoutes \ {u}}
            /\ UNCHANGED coolingKeys
       \/ \E u \in Routes : \E k \in KeysOf[u] :
            /\ coolingKeys' \in {coolingKeys \cup {<<u, k>>}, coolingKeys \ {<<u, k>>}}
            /\ UNCHANGED coolingRoutes
    /\ UNCHANGED <<pc, input, budget, routing, reply>>

Iterate == NextAttempt \/ GiveUp
Attempt == SkipUnsupported \/ RaceWon \/ RaceLost \/ SkipCooling \/ Send
Conclude == Succeed \/ Raise \/ \E r \in ErrorReply : Answer(r)

Step == Start \/ Iterate \/ Attempt \/ Conclude

Next == Step \/ WindowElapses \/ Interfere

Spec == Init /\ [][Next]_vars

\* Every request is sent with a connect and a read timeout, and every sleep of
\* the loop is finite: a request that can take a step takes one.
FairSpec == Spec /\ WF_vars(Step)

-----------------------------------------------------------------------------
\* The loop's state and the shared cooldowns keep their types.
TypeOK ==
    /\ pc \in {"idle", "top", "route", "wait", "done"}
    /\ cands \in SUBSET Routes /\ method \in {"POST", "GET", "OTHER"}
    /\ n \in Nat /\ att \in Nat /\ lateStarts \in Nat /\ openResp \in Nat
    /\ late \in BOOLEAN /\ raised \in BOOLEAN
    /\ followup \in {"none", "available", "consumed"}
    /\ blocked \in SUBSET Routes /\ raced \in SUBSET Routes
    /\ cycle \in Seq(Routes)
    /\ at \in Routes /\ key \in Keys \cup {NoKey}
    /\ failedKeys \in [Routes -> SUBSET Keys]
    /\ modelAt \in [Routes -> Nat] /\ rateUsed \in [Routes -> Nat]
    /\ last \in {"none", "open", "closed"}
    /\ cause \in {"none", "ok", "skip", "exception", "return", "retry", "switch",
                 "rateLimited"}
    /\ outcome \in {"none", "response", "exception", "nothing"}
    /\ sent \in SUBSET (Routes \X (Keys \cup {NoKey}))
    /\ coolingRoutes \in SUBSET Routes
    /\ coolingKeys \in SUBSET (Routes \X Keys)

\* A route that the request has given up (or was told to avoid) is never sent
\* to again: the route being attempted and the routes still queued in
\* route_cycle are candidates outside blocked_urls, whichever branch rebuilt or
\* extended the cycle.
BlockedStaysBlocked ==
    pc \in {"top", "route", "wait"} =>
        /\ \A i \in DOMAIN cycle : cycle[i] \in Unblocked
        /\ pc # "top" => at \in Unblocked

\* A key in route_key_failures of a route is not used on that route again by
\* this request, even when its shared cooldown was cleared meanwhile by another
\* request's success, or it comes from another pool with the same base URL.
FailedKeyNotReused == pc = "wait" => key \notin failedKeys[at]

\* Every upstream response is closed before the loop goes on; the only one left
\* open is the one handed to the caller.
OnlyReturnedResponseOpen ==
    openResp = IF pc = "done" /\ last = "open" THEN 1 ELSE 0

\* After the route switch window one more iteration may start at most, the
\* immediate follow-up (tests/test_orchestrator_failover.py:846).
SingleLateStart == lateStarts <= 1

\* A request whose method may not be repeated is never sent twice to a route
\* with the same key, however it fails over between routes and keys.
NeverRepeated == [][
    pc = "route" /\ pc' = "wait" /\ ~retryAllowed => <<at, key'>> \notin sent]_vars

\* The caller gets a switch error, an exception or nothing only when there is
\* no way on: the budget or the window is spent, no unblocked route is left
\* besides the last one tried, or (exception) repeating is ruled out.
FailureMeansExhausted ==
    pc = "done" /\ cause \in {"switch", "exception", "skip"} /\ retryAllowed =>
        \/ n >= MaxAttempts \/ att >= MaxAttempts
        \/ Enforced /\ late
        \/ /\ Unblocked \subseteq {at}
           /\ cause = "exception" => NoBackoff

\* Every request ends, whatever upstream answers and other requests do.
Terminates == (pc # "idle") ~> (pc = "done")
=============================================================================
