----------------------------- MODULE Coalescing -----------------------------
(***************************************************************************)
(* Identical requests in flight share one upstream execution:              *)
(* execute_upstream_request of server.py with begin_, complete_ and        *)
(* wait_for_inflight_request.                                              *)
(*                                                                         *)
(* A request of this module is one call of execute_upstream_request.  The  *)
(* first call of an answer runs on a background thread                     *)
(* (http/async_execution.py), which goes on whether or not its client is   *)
(* still there.  The failovers of a stream that came empty are calls of    *)
(* the same kind (server.py:5448, 5662, 8412, 8749), made in the thread of *)
(* the answer after the entry of its earlier call was completed: further   *)
(* members of Requests, possibly with the key of that call.  The failovers *)
(* of a cut stream (4817, 4877) and the continuation with cached tool      *)
(* results pass the table by (bypass_inflight_coalescing) and are not      *)
(* modelled; the upstream request itself is the module UpstreamRetry.      *)
(*                                                                         *)
(* An entry of inflight_request_cache is named by the request that put it  *)
(* there.                                                                  *)
(* Names common to every module have the prefix Co, so that RequestProofs  *)
(* can extend this module and CandidateRace.                               *)
(***************************************************************************)
EXTENDS FiniteSets

CONSTANTS
    Requests,   \* the calls of execute_upstream_request
    Payloads,   \* coalescing keys
    KeyOf,      \* KeyOf[r] = build_coalescing_key of r
    NoEntry     \* no entry

ASSUME CoalescingAssumption ==
    NoEntry \notin Requests /\ KeyOf \in [Requests -> Payloads]

VARIABLES
    at,         \* per request: "new", "waiting", "upstream", "popResult", "copy",
                \* "popError", "signal", "returned", "raised"
    inflight,   \* inflight_request_cache: the entry of each key, or NoEntry
    entry,      \* the entry a request waits for or, once popped, completes
    event,      \* entries whose event is set
    outcome,    \* entry["result"] / entry["error"]: "none", "result", "error"
    resp,       \* the request's upstream response: "none", "unread", "read", "lost"
    stranded    \* history: popped entries whose result could not be copied

state  == <<inflight, event, outcome, stranded>>
coVars == <<at, entry, resp, state>>

CoInit ==
    /\ at = [r \in Requests |-> "new"]
    /\ inflight = [k \in Payloads |-> NoEntry]
    /\ entry = [r \in Requests |-> NoEntry]
    /\ event = {} /\ stranded = {}
    /\ outcome = [e \in Requests |-> "none"]
    /\ resp = [r \in Requests |-> "none"]

Goto(r, p) == at' = [at EXCEPT ![r] = p]

\* begin_inflight_request: the first one owns the entry, the others wait.
BeginOwner(r) ==
    /\ at[r] = "new" /\ inflight[KeyOf[r]] = NoEntry
    /\ inflight' = [inflight EXCEPT ![KeyOf[r]] = r]
    /\ Goto(r, "upstream")
    /\ UNCHANGED <<entry, event, outcome, stranded, resp>>

BeginWaiter(r) ==
    /\ at[r] = "new" /\ inflight[KeyOf[r]] # NoEntry
    /\ entry' = [entry EXCEPT ![r] = inflight[KeyOf[r]]]
    /\ Goto(r, "waiting")
    /\ UNCHANGED <<state, resp>>

\* Faulty variant: a waiter is woken by a result only.
WakeOnResult(r) ==
    /\ at[r] = "waiting" /\ entry[r] \in event /\ outcome[entry[r]] = "result"
    /\ Goto(r, "returned")
    /\ resp' = [resp EXCEPT ![r] = "read"]
    /\ UNCHANGED <<state, entry>>

\* wait_for_inflight_request: a copy of the result, or after an error the
\* request goes upstream itself, without an entry of its own.
Wake(r) ==
    /\ at[r] = "waiting" /\ entry[r] \in event
    /\ IF outcome[entry[r]] = "result"
       THEN /\ Goto(r, "returned")
            /\ resp' = [resp EXCEPT ![r] = "read"]
       ELSE Goto(r, "upstream") /\ UNCHANGED resp
    /\ UNCHANGED <<state, entry>>

\* request_upstream_with_retries returns a response with an unread body, no
\* response at all, or raises.
Upstream(r) ==
    /\ at[r] = "upstream"
    /\ \/ /\ Goto(r, "popResult")
          /\ resp' \in {resp, [resp EXCEPT ![r] = "unread"]}
       \/ Goto(r, "popError") /\ UNCHANGED resp
    /\ UNCHANGED <<state, entry>>

\* Faulty variant: the entry stays in the table until its result is set.
PopLate(r, next) ==
    /\ at[r] \in {"popResult", "popError"}
    /\ entry' = [entry EXCEPT ![r] = inflight[KeyOf[r]]]
    /\ UNCHANGED inflight
    /\ Goto(r, IF inflight[KeyOf[r]] = NoEntry THEN
                   IF at[r] = "popError" THEN "raised" ELSE "returned"
               ELSE next)
    /\ UNCHANGED <<event, outcome, stranded, resp>>

\* complete_inflight_request takes whatever entry the key has now: its own, that
\* of a request which began after its own was taken, or none.
Pop(r, next) ==
    /\ at[r] \in {"popResult", "popError"}
    /\ entry' = [entry EXCEPT ![r] = inflight[KeyOf[r]]]
    /\ inflight' = [inflight EXCEPT ![KeyOf[r]] = NoEntry]
    /\ Goto(r, IF inflight[KeyOf[r]] = NoEntry THEN
                   IF at[r] = "popError" THEN "raised" ELSE "returned"
               ELSE next)
    /\ UNCHANGED <<event, outcome, stranded, resp>>

PopResult(r) == at[r] = "popResult" /\ Pop(r, "copy")
PopError(r)  == at[r] = "popError" /\ Pop(r, "signal")

\* deepcopy(result): copying an unread response reads its body to the end, whether
\* or not anybody waits for it.
Copy(r) ==
    /\ at[r] = "copy"
    /\ outcome' = [outcome EXCEPT ![entry[r]] = "result"]
    /\ resp' = [resp EXCEPT ![r] = IF @ = "unread" THEN "read" ELSE @]
    /\ Goto(r, "signal")
    /\ UNCHANGED <<inflight, entry, event, stranded>>

\* If the upstream breaks off while the body is read, the copy raises.  The
\* entry is out of the table already: the error goes to the key's next one.
CopyFails(r) ==
    /\ at[r] = "copy" /\ resp[r] = "unread"
    /\ stranded' = stranded \cup {entry[r]}
    /\ resp' = [resp EXCEPT ![r] = "lost"]
    /\ Goto(r, "popError")
    /\ UNCHANGED <<inflight, entry, event, outcome>>

Signal(r) ==
    /\ at[r] = "signal"
    /\ event' = event \cup {entry[r]}
    /\ outcome' = [outcome EXCEPT ![entry[r]] = IF @ = "none" THEN "error" ELSE @]
    /\ Goto(r, IF outcome[entry[r]] = "result" THEN "returned" ELSE "raised")
    /\ UNCHANGED <<inflight, entry, stranded, resp>>

Complete(r) == PopResult(r) \/ PopError(r) \/ Copy(r) \/ CopyFails(r) \/ Signal(r)

Run(r) == BeginOwner(r) \/ BeginWaiter(r) \/ Wake(r) \/ Upstream(r) \/ Complete(r)

CoNext == \E r \in Requests : Run(r)

CoSpec == CoInit /\ [][CoNext]_coVars

\* A thread that can go on does: upstream requests end (UpstreamRetry) and reads
\* have a timeout.
CoFairSpec == CoSpec /\ \A r \in Requests : WF_coVars(Run(r))

-----------------------------------------------------------------------------
Over == {"returned", "raised"}

\* The table and its entries keep their types; a thread that waits or completes has
\* an entry.
CoTypeOK ==
    /\ at \in [Requests -> {"new", "waiting", "upstream", "popResult", "copy", "popError",
                            "signal"} \cup Over]
    /\ inflight \in [Payloads -> Requests \cup {NoEntry}]
    /\ entry \in [Requests -> Requests \cup {NoEntry}]
    /\ event \in SUBSET Requests /\ stranded \in SUBSET Requests
    /\ outcome \in [Requests -> {"none", "result", "error"}]
    /\ resp \in [Requests -> {"none", "unread", "read", "lost"}]
    /\ \A r \in Requests : at[r] \in {"waiting", "copy", "signal"} => entry[r] \in Requests

\* An entry in the table is going to be taken out: the request that put it there
\* is still on its way to complete the key.
EntriesHaveOwners ==
    \A k \in Payloads : inflight[k] # NoEntry =>
        KeyOf[inflight[k]] = k /\ at[inflight[k]] \in {"upstream", "popResult", "popError"}

\* An entry is completed by one request at most, though requests also complete
\* entries of others: none gets a second outcome.
CompletedOnce ==
    \A r, s \in Requests :
        at[r] \in {"copy", "signal"} /\ at[s] \in {"copy", "signal"} /\ entry[r] = entry[s]
            => r = s

\* A request waits only for an entry that is still to be completed or has been,
\* unless the copy of its result has failed.
NobodyForgotten ==
    \A r \in Requests : at[r] = "waiting" =>
        \/ entry[r] \in event \cup stranded
        \/ inflight[KeyOf[r]] = entry[r]
        \/ \E s \in Requests : at[s] \in {"copy", "signal"} /\ entry[s] = entry[r]

\* Every request ends, except those that wait for an entry whose copy failed.
EndsOrStranded ==
    \A r \in Requests :
        (at[r] # "new") ~> (at[r] \in Over \/ (at[r] = "waiting" /\ entry[r] \in stranded))
=============================================================================
