--------------------------- MODULE CandidateRace ---------------------------
(***************************************************************************)
(* The race of one route's model candidates, race_model_candidate_requests *)
(* in upstream/retry.py: a thread per candidate sends the request, the     *)
(* caller takes the first accepted response and tidies up.  RaceWon and    *)
(* RaceLost of UpstreamRetry are its outcome seen from the retry loop.     *)
(* Names common to every module have the prefix Race, so that              *)
(* RequestProofs can extend this module, Coalescing and KeyPool.           *)
(***************************************************************************)
EXTENDS FiniteSets

CONSTANTS Candidates,  \* the model names of the route, non-empty
          None         \* no winner

ASSUME CandidateRaceAssumption == Candidates # {} /\ None \notin Candidates

VARIABLES
    worker,   \* "queued", "sending", "received", "returning", or ended:
              \* "done", "skipped", "raised", "cancelled"
    accepted, \* the candidates answered with a status below 400
    conn,     \* the candidate's response: "none", "open", "closed"
    stop,     \* stop_event
    tardy,    \* history: candidates answered after stop was set
    stage,    \* the caller: "collect", "read", "cleanup", "done"
    yielded,  \* futures as_completed has yielded
    reading,  \* the yielded future whose response is classified
    winner,   \* winner_response
    timedOut, \* timed_out
    todo      \* futures the finally block has still to visit

workers  == <<worker, accepted, conn, tardy>>
loop     == <<yielded, reading>>
result   == <<winner, timedOut>>
caller   == <<stage, loop, result, todo, stop>>
raceVars == <<workers, caller>>

Ended == {"done", "skipped", "raised", "cancelled"}

RaceInit ==
    /\ worker = [c \in Candidates |-> "queued"]
    /\ accepted = {} /\ tardy = {}
    /\ conn = [c \in Candidates |-> "none"]
    /\ stop = FALSE /\ stage = "collect"
    /\ yielded = {} /\ reading = None
    /\ winner = None /\ timedOut = FALSE /\ todo = {}

-----------------------------------------------------------------------------
(* run_candidate                                                            *)

Begin(c) ==
    /\ worker[c] = "queued"
    /\ worker' = [worker EXCEPT ![c] = IF stop THEN "skipped" ELSE "sending"]
    /\ UNCHANGED <<accepted, conn, tardy, caller>>

\* The sender returns at the response headers, or raises.
Receive(c) ==
    /\ worker[c] = "sending"
    /\ \/ /\ worker' = [worker EXCEPT ![c] = "raised"]
          /\ UNCHANGED <<accepted, conn, tardy>>
       \/ /\ worker' = [worker EXCEPT ![c] = "received"]
          /\ conn' = [conn EXCEPT ![c] = "open"]
          /\ accepted' \in {accepted, accepted \cup {c}}
          /\ tardy' = IF stop THEN tardy \cup {c} ELSE tardy
    /\ UNCHANGED caller

\* Faulty variant: stop_event is looked at only before sending.
ReturnUnchecked(c) ==
    /\ worker[c] = "received"
    /\ worker' = [worker EXCEPT ![c] = "returning"]
    /\ UNCHANGED <<accepted, conn, tardy, caller>>

\* The late response is closed here, if stop is already set ...
CheckStop(c) ==
    /\ worker[c] = "received"
    /\ worker' = [worker EXCEPT ![c] = "returning"]
    /\ conn' = IF stop THEN [conn EXCEPT ![c] = "closed"] ELSE conn
    /\ UNCHANGED <<accepted, tardy, caller>>

\* ... and the future is done only after that.
HandBack(c) ==
    /\ worker[c] = "returning"
    /\ worker' = [worker EXCEPT ![c] = "done"]
    /\ UNCHANGED <<accepted, conn, tardy, caller>>

Work(c) == Begin(c) \/ Receive(c) \/ CheckStop(c) \/ HandBack(c)

-----------------------------------------------------------------------------
(* The caller's as_completed loop and its finally block.                    *)

Yields(c) ==
    /\ stage = "collect" /\ c \notin yielded /\ worker[c] \in Ended
    /\ yielded' = yielded \cup {c}

\* An exception or a skipped candidate is only noted.
CollectNothing(c) ==
    /\ Yields(c) /\ worker[c] # "done"
    /\ UNCHANGED <<workers, stage, reading, result, todo, stop>>

\* classify_upstream_response searches the text of every response for error
\* markers: it reads the body to its end, also of an accepted one.
Classify(c) ==
    /\ Yields(c) /\ worker[c] = "done"
    /\ stage' = "read" /\ reading' = c
    /\ UNCHANGED <<workers, result, todo, stop>>

Leave == stage' = "cleanup" /\ todo' = Candidates

Decide ==
    /\ stage = "read"
    /\ IF reading \in accepted
       THEN stop' = TRUE /\ winner' = reading /\ Leave /\ UNCHANGED conn
       ELSE /\ conn' = [conn EXCEPT ![reading] = "closed"]
            /\ stage' = "collect" /\ UNCHANGED <<stop, winner, todo>>
    /\ UNCHANGED <<worker, accepted, tardy, loop, timedOut>>

\* Faulty variant: the loop ends with the first candidate that has failed.
AllCollectedAny ==
    /\ stage = "collect" /\ yielded # {} /\ Leave
    /\ UNCHANGED <<workers, loop, result, stop>>

AllCollected ==
    /\ stage = "collect" /\ yielded = Candidates /\ Leave
    /\ UNCHANGED <<workers, loop, result, stop>>

\* as_completed looks at the clock before it waits, also when another future
\* has ended since.
Timeout ==
    /\ stage = "collect" /\ yielded # Candidates
    /\ timedOut' = TRUE /\ stop' = TRUE /\ Leave
    /\ UNCHANGED <<workers, loop, winner>>

ClosedInCleanup(c) == worker[c] = "done" /\ c # winner

\* A future that is done is closed unless it won; one that is not is cancelled,
\* which a running one ignores.
Visit(c) ==
    /\ stage = "cleanup" /\ c \in todo
    /\ todo' = todo \ {c}
    /\ conn' = IF ClosedInCleanup(c) THEN [conn EXCEPT ![c] = "closed"] ELSE conn
    /\ worker' = IF worker[c] = "queued" THEN [worker EXCEPT ![c] = "cancelled"]
                 ELSE worker
    /\ UNCHANGED <<accepted, tardy, stage, loop, result, stop>>

Shutdown ==
    /\ stage = "cleanup" /\ todo = {}
    /\ stage' = "done"
    /\ UNCHANGED <<workers, loop, result, todo, stop>>

Collect == (\E c \in Candidates : CollectNothing(c) \/ Classify(c)) \/ Decide

Caller == Collect \/ AllCollected \/ Timeout \/ (\E c \in Candidates : Visit(c)) \/ Shutdown

RaceNext == Caller \/ \E c \in Candidates : Work(c)

RaceSpec == RaceInit /\ [][RaceNext]_raceVars

-----------------------------------------------------------------------------
\* The race's state keeps its types.
RaceTypeOK ==
    /\ worker \in [Candidates -> {"queued", "sending", "received", "returning"} \cup Ended]
    /\ conn \in [Candidates -> {"none", "open", "closed"}]
    /\ accepted \in SUBSET Candidates /\ tardy \in SUBSET Candidates
    /\ yielded \in SUBSET Candidates /\ todo \in SUBSET Candidates
    /\ winner \in Candidates \cup {None} /\ reading \in Candidates \cup {None}
    /\ stop \in BOOLEAN /\ timedOut \in BOOLEAN
    /\ stage \in {"collect", "read", "cleanup", "done"}
    /\ (stage = "read" => reading \in yielded) /\ (todo # {} => stage = "cleanup")

\* The winner stays open for the caller: neither its own thread nor the finally
\* block closes it.
WinnerStaysOpen == winner # None => conn[winner] = "open"

\* A response that arrives after the decision is closed by its own thread, and
\* one the caller has seen and not taken by the caller.
LosersClosed ==
    \A c \in Candidates :
        worker[c] = "done" /\ conn[c] = "open" =>
            c \notin tardy /\ (c \in yielded => c \in {reading, winner})

\* The caller comes back without a winner only after a timeout or when no
\* candidate was accepted.
WinnerIfAccepted ==
    stage \in {"cleanup", "done"} /\ winner = None /\ ~timedOut => accepted = {}
=============================================================================
