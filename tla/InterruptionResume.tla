---- MODULE InterruptionResume ----
(***************************************************************************)
(* What outlives a streamed request: the snapshot of an answer that was    *)
(* interrupted (save_interruption_resume_snapshot), which is put as a hint *)
(* into a later request of the same task, and the answer in the request    *)
(* cache.  The requests here are all the same one, sent again: they share  *)
(* the snapshot's key and the cache's key.                                 *)
(*                                                                         *)
(* An answer is the pieces 1..Length.  A text is an interval of them: the  *)
(* upstream, told of a text by a hint, goes on after its last piece, as    *)
(* the hint asks; without a hint it starts at 1.                           *)
(***************************************************************************)
EXTENDS Integers, Sequences, SequencesExt

CONSTANTS
  Requests,   \* the requests, each sent once
  Length,     \* pieces of the answer
  MinLength,  \* INTERRUPTION_RESUME_MIN_CHARS, in pieces
  MaxCuts,    \* failovers of a cut stream (the pool's size less one)
  Enabled,    \* ENABLE_INTERRUPTION_RESUME
  Instructed, \* the request has a system or developer message
  Alone       \* the requests are sent one after the other

ASSUME ResumeAssumption ==
  /\ Length \in Nat \ {0} /\ MinLength \in Nat \ {0} /\ MaxCuts \in Nat
  /\ Enabled \in BOOLEAN /\ Instructed \in BOOLEAN /\ Alone \in BOOLEAN
ASSUME NobodyAssumption == "nobody" \notin Requests   \* see Nobody

VARIABLES
  pc,       \* where each request is
  from,     \* the first piece of its running attempt
  at,       \* the last piece the attempt delivered, or from - 1
  hint,     \* the attempt's hint: none, stored (from the snapshot) or runtime
  cuts,     \* the failovers it has used
  got,      \* the pieces its client received
  snapshot, \* the stored snapshot and the request it is of
  cache     \* the cached text

vars == <<pc, from, at, hint, cuts, got, snapshot, cache>>

Pieces == 1..Length
Nobody == "nobody"
NoText == [by |-> Nobody, from |-> 1, to |-> 0]
Text(r) == [by |-> r, from |-> from[r], to |-> at[r]]
HasOutput(r) == at[r] >= from[r]

Init ==
  /\ pc = [r \in Requests |-> "new"]
  /\ from = [r \in Requests |-> 1] /\ at = [r \in Requests |-> 0]
  /\ hint = [r \in Requests |-> "none"]
  /\ cuts = [r \in Requests |-> 0]
  /\ got = [r \in Requests |-> <<>>]
  /\ snapshot = NoText /\ cache = NoText

Go(r, step) == pc' = [pc EXCEPT ![r] = step]
Ended(r) == pc[r] \in {"left", "done"}

(* execute_upstream_request looks the answer up in the cache first. *)
Lookup(r) ==
  /\ pc[r] = "new"
  /\ Alone => \A q \in Requests : pc[q] = "new" \/ Ended(q)
  /\ IF cache # NoText
     THEN /\ Go(r, "done")
          /\ got' = [got EXCEPT ![r] = [i \in 1..(cache.to - cache.from + 1) |-> cache.from + i - 1]]
     ELSE Go(r, "resuming") /\ UNCHANGED got
  /\ UNCHANGED <<from, at, hint, cuts, snapshot, cache>>

Attempt(r, first, kind) ==
  /\ from' = [from EXCEPT ![r] = first]
  /\ at' = [at EXCEPT ![r] = first - 1]
  /\ hint' = [hint EXCEPT ![r] = kind]

(* apply_interruption_resume_to_payload: the snapshot becomes a hint. *)
Resume(r) ==
  /\ pc[r] = "resuming"
  /\ Go(r, "relaying")
  /\ IF snapshot # NoText
     THEN Attempt(r, snapshot.to + 1, "stored")
     ELSE Attempt(r, 1, "none")
  /\ UNCHANGED <<cuts, got, snapshot, cache>>

Relay(r) ==
  /\ pc[r] = "relaying" /\ at[r] < Length
  /\ at' = [at EXCEPT ![r] = @ + 1]
  /\ got' = [got EXCEPT ![r] = Append(@, at[r] + 1)]
  /\ UNCHANGED <<pc, from, hint, cuts, snapshot, cache>>

(* The stream came to its end: the finally clause clears the snapshot, if it *)
(* was this attempt's hint, and then stores the answer in the cache.  The    *)
(* cache's key is made of the payload before the snapshot is put into it,    *)
(* but after a runtime hint, so that the answer to such a one has a key that *)
(* no request sends.                                                         *)
Finish(r) ==
  /\ pc[r] = "relaying" /\ at[r] = Length /\ HasOutput(r)
  /\ Go(r, "storing")
  /\ snapshot' = IF hint[r] = "stored" THEN NoText ELSE snapshot
  /\ UNCHANGED <<from, at, hint, cuts, got, cache>>

Store(r) ==
  /\ pc[r] = "storing"
  /\ Go(r, "done")
  /\ cache' = IF hint[r] # "runtime" THEN Text(r) ELSE cache
  /\ UNCHANGED <<from, at, hint, cuts, got, snapshot>>

(* save_interruption_resume_snapshot: the text of the running attempt, if it is  *)
(* long enough.  A runtime hint is itself a system message: where the request    *)
(* has none before it, it changes the key of what is saved after it.             *)
(* Faulty variant: the first attempt's text is kept.                             *)
SaveFirst(r) ==
  snapshot' = IF Enabled /\ at[r] - from[r] + 1 >= MinLength /\ snapshot = NoText
              THEN Text(r) ELSE snapshot
Save(r) ==
  snapshot' = IF /\ Enabled /\ at[r] - from[r] + 1 >= MinLength
                 /\ hint[r] = "runtime" => Instructed
              THEN Text(r) ELSE snapshot

Leave(r) ==
  /\ pc[r] = "relaying"
  /\ Go(r, "left") /\ Save(r)
  /\ UNCHANGED <<from, at, hint, cuts, got, cache>>

(* The upstream cut the stream, or ended it without output.  Faulty variant: *)
(* a cut that cannot be retried is taken for the end of the answer.          *)
CutAsEnd(r) ==
  /\ pc[r] = "relaying"
  /\ Go(r, IF cuts[r] < MaxCuts THEN "failed" ELSE "storing") /\ Save(r)
  /\ UNCHANGED <<from, at, hint, cuts, got, cache>>
Cut(r) ==
  /\ pc[r] = "relaying"
  /\ Go(r, "failed") /\ Save(r)
  /\ UNCHANGED <<from, at, hint, cuts, got, cache>>

CutsLeft(r) == cuts[r] < MaxCuts

(* The failover: with a hint of the text the attempt delivered, or with the *)
(* request as it came, into which the snapshot may be put.  The answer may  *)
(* be in the cache by then, which the failover has no use for.              *)
(* Faulty variant: the failover is given no hint.                           *)
RetryPlain(r) ==
  /\ pc[r] = "failed" /\ CutsLeft(r)
  /\ cuts' = [cuts EXCEPT ![r] = @ + 1]
  /\ Go(r, "relaying") /\ Attempt(r, 1, "runtime")
  /\ UNCHANGED <<got, snapshot, cache>>
Retry(r) ==
  /\ pc[r] = "failed" /\ CutsLeft(r)
  /\ cuts' = [cuts EXCEPT ![r] = @ + 1]
  /\ IF HasOutput(r)
     THEN Go(r, "relaying") /\ Attempt(r, at[r] + 1, "runtime")
     ELSE /\ cache = NoText
          /\ Go(r, "resuming") /\ UNCHANGED <<from, at, hint>>
  /\ UNCHANGED <<got, snapshot, cache>>

GiveUp(r) ==
  /\ pc[r] = "failed"
  /\ Go(r, "done")
  /\ UNCHANGED <<from, at, hint, cuts, got, snapshot, cache>>

(* The snapshot's time to live, long against a request, is over. *)
Expire ==
  /\ snapshot # NoText
  /\ \A r \in Requests : pc[r] = "new" \/ Ended(r)
  /\ snapshot' = NoText
  /\ UNCHANGED <<pc, from, at, hint, cuts, got, cache>>

Serve(r) == Lookup(r) \/ Resume(r) \/ Relay(r) \/ Finish(r) \/ Store(r) \/ Leave(r)
            \/ Cut(r) \/ Retry(r) \/ GiveUp(r)
Next == (\E r \in Requests : Serve(r)) \/ Expire
Spec == Init /\ [][Next]_vars

-----------------------------------------------------------------------------
(* Properties *)

Texts == [by : Requests \cup {Nobody}, from : 1..(Length + 1), to : 0..Length]

(* The variables keep their types. *)
TypeOK ==
  /\ pc \in [Requests -> {"new", "resuming", "relaying", "storing", "failed", "left", "done"}]
  /\ from \in [Requests -> 1..(Length + 1)]
  /\ at \in [Requests -> 0..Length]
  /\ hint \in [Requests -> {"none", "stored", "runtime"}]
  /\ cuts \in [Requests -> 0..MaxCuts]
  /\ got \in [Requests -> Seq(Pieces)]
  /\ snapshot \in Texts /\ cache \in Texts

(* The last piece of what the cache holds is the answer's last one, and its     *)
(* first one is missing only where the attempt continued a stored snapshot: no  *)
(* cut, failover or abandoned stream is ever cached as an answer.               *)
CachedToTheEnd ==
  cache # NoText =>
    /\ cache.to = Length
    /\ cache.from = 1 \/ hint[cache.by] = "stored"

(* What n texts hold at most that are too short for a snapshot. *)
Untold(n) == IF n > 0 THEN n * (MinLength - 1) ELSE 0

(* What a client receives in one stream goes on without a gap, however often its   *)
(* attempts are cut and whatever hint each of them is given; and it repeats no     *)
(* more than the cut attempts' texts that were too short for a snapshot, of which  *)
(* the last cut attempt, the one without output, has none.                         *)
Contiguous ==
  \A r \in Requests : \A i \in 2..Len(got[r]) :
    LET next == got[r][i - 1] + 1
    IN  got[r][i] \in (next - Untold(cuts[r] - 1))..next

(* The snapshot left by a client that went away, which a later request goes on     *)
(* after, ends where the client's copy of the answer ends, or before it by the     *)
(* texts since that were too short: the later answer leaves nothing out.           *)
SnapshotIsTail ==
  \A r \in Requests :
    snapshot.by = r /\ pc[r] = "left" =>
      got[r] # <<>> /\ snapshot.to \in (Last(got[r]) - Untold(cuts[r]))..Last(got[r])
====
