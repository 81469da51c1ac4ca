------------------------------ MODULE AnswerProofs ------------------------------
(***************************************************************************)
(* Theorems about the answers clients receive: the resuming of interrupted *)
(* answers, for any number of requests, an answer of any length, any limit *)
(* of failovers and any least length of a snapshot; and the answers of     *)
(* /v1/messages and :generateContent, for any clients, any texts, calls    *)
(* and numbers of calls in the chunks, and any bound on the chunks.        *)
(***************************************************************************)
EXTENDS InterruptionResume, ConvertedStreams, FiniteSetTheorems, WellFoundedInduction, TLAPS

-----------------------------------------------------------------------------
(* Types *)

LEMMA NoTextType == NoText \in Texts /\ NoText.by \notin Requests /\ NoText.to = 0
BY ResumeAssumption, NobodyAssumption DEF NoText, Texts, Nobody

LEMMA TextFields ==
  ASSUME NEW t \in Texts
  PROVE  t.by \in Requests \cup {Nobody} /\ t.from \in 1..(Length + 1) /\ t.to \in 0..Length
BY DEF Texts

LEMMA TextType ==
  ASSUME TypeOK, NEW r \in Requests
  PROVE  Text(r) \in Texts /\ Text(r).by = r /\ Text(r).from = from[r] /\ Text(r).to = at[r]
BY DEF TypeOK, Text, Texts

(* A read snapshot or the starting of an attempt keeps the types. *)
LEMMA AttemptType ==
  ASSUME TypeOK, NEW r \in Requests, NEW first \in 1..(Length + 1),
         NEW kind \in {"none", "stored", "runtime"}, Attempt(r, first, kind)
  PROVE  /\ from' \in [Requests -> 1..(Length + 1)] /\ at' \in [Requests -> 0..Length]
         /\ hint' \in [Requests -> {"none", "stored", "runtime"}]
<1>1. first - 1 \in 0..Length BY ResumeAssumption
<1> QED BY <1>1 DEF TypeOK, Attempt

LEMMA SaveType ==
  ASSUME TypeOK, NEW r \in Requests, Save(r)
  PROVE  snapshot' \in Texts
BY TextType DEF TypeOK, Save

LEMMA GoType ==
  ASSUME TypeOK, NEW r \in Requests,
         NEW step \in {"new", "resuming", "relaying", "storing", "failed", "left", "done"},
         Go(r, step)
  PROVE  pc' \in [Requests -> {"new", "resuming", "relaying", "storing", "failed", "left", "done"}]
BY DEF TypeOK, Go

LEMMA InitType == Init => TypeOK
<1> SUFFICES ASSUME Init PROVE TypeOK OBVIOUS
<1>1. 1 \in 1..(Length + 1) /\ 0 \in 0..Length /\ 0 \in 0..MaxCuts BY ResumeAssumption
<1>2. <<>> \in Seq(Pieces) OBVIOUS
<1> QED BY <1>1, <1>2, NoTextType DEF Init, TypeOK

(* The pieces of a cached text. *)
CachedPieces == [i \in 1..(cache.to - cache.from + 1) |-> cache.from + i - 1]

LEMMA CachedPiecesType == TypeOK => CachedPieces \in Seq(Pieces)
<1> SUFFICES ASSUME TypeOK PROVE CachedPieces \in Seq(Pieces) OBVIOUS
<1>1. cache.from \in 1..(Length + 1) /\ cache.to \in 0..Length BY TextFields DEF TypeOK
<1>2. cache.to - cache.from + 1 \in Int BY <1>1, ResumeAssumption
<1>3. \A i \in 1..(cache.to - cache.from + 1) : cache.from + i - 1 \in Pieces
  BY <1>1, <1>2, ResumeAssumption DEF Pieces
<1>4. CASE cache.to - cache.from + 1 \in Nat
  BY <1>3, <1>4 DEF CachedPieces
<1>5. CASE cache.to - cache.from + 1 \notin Nat
  <2>1. 1..(cache.to - cache.from + 1) = {} /\ 1..0 = {} BY <1>2, <1>5
  <2>2. CachedPieces = [i \in 1..0 |-> cache.from + i - 1] BY <2>1 DEF CachedPieces
  <2>3. CachedPieces \in [1..0 -> Pieces] BY <2>1, <2>2
  <2> QED BY <2>3
<1> QED BY <1>4, <1>5

LEMMA StepType ==
  ASSUME TypeOK, NEW r \in Requests, Serve(r)
  PROVE  TypeOK'
<1>1. CASE Lookup(r)
  <2>1. pc' \in [Requests -> {"new", "resuming", "relaying", "storing", "failed", "left", "done"}]
    BY <1>1, GoType DEF Lookup
  <2>2. got' \in [Requests -> Seq(Pieces)]
    BY <1>1, CachedPiecesType DEF Lookup, TypeOK, CachedPieces
  <2> QED BY <1>1, <2>1, <2>2 DEF Lookup, TypeOK
<1>2. CASE Resume(r)
  <2>1. snapshot.to + 1 \in 1..(Length + 1) /\ 1 \in 1..(Length + 1)
    BY TextFields, ResumeAssumption DEF TypeOK
  <2>2. /\ from' \in [Requests -> 1..(Length + 1)] /\ at' \in [Requests -> 0..Length]
        /\ hint' \in [Requests -> {"none", "stored", "runtime"}]
    BY <1>2, <2>1, AttemptType DEF Resume
  <2>3. pc' \in [Requests -> {"new", "resuming", "relaying", "storing", "failed", "left", "done"}]
    BY <1>2, GoType DEF Resume
  <2> QED BY <1>2, <2>2, <2>3 DEF Resume, TypeOK
<1>3. CASE Relay(r)
  <2>1. at[r] + 1 \in 0..Length /\ at[r] + 1 \in Pieces
    BY <1>3, ResumeAssumption DEF Relay, TypeOK, Pieces
  <2>2. Append(got[r], at[r] + 1) \in Seq(Pieces) BY <2>1 DEF TypeOK
  <2> QED BY <1>3, <2>1, <2>2 DEF Relay, TypeOK
<1>4. CASE Finish(r)
  BY <1>4, GoType, NoTextType DEF Finish, TypeOK
<1>5. CASE Store(r)
  BY <1>5, GoType, TextType DEF Store, TypeOK
<1>6. CASE Leave(r)
  BY <1>6, GoType, SaveType DEF Leave, TypeOK
<1>7. CASE Cut(r)
  BY <1>7, GoType, SaveType DEF Cut, TypeOK
<1>8. CASE Retry(r)
  <2>1. cuts' \in [Requests -> 0..MaxCuts]
    BY <1>8, ResumeAssumption DEF Retry, CutsLeft, TypeOK
  <2>2. pc' \in [Requests -> {"new", "resuming", "relaying", "storing", "failed", "left", "done"}]
    BY <1>8, GoType DEF Retry
  <2>3. at[r] + 1 \in 1..(Length + 1) BY ResumeAssumption DEF TypeOK
  <2>4. /\ from' \in [Requests -> 1..(Length + 1)] /\ at' \in [Requests -> 0..Length]
        /\ hint' \in [Requests -> {"none", "stored", "runtime"}]
    BY <1>8, <2>3, AttemptType DEF Retry, TypeOK
  <2> QED BY <1>8, <2>1, <2>2, <2>4 DEF Retry, TypeOK
<1>9. CASE GiveUp(r)
  BY <1>9, GoType DEF GiveUp, TypeOK
<1> QED BY <1>1, <1>2, <1>3, <1>4, <1>5, <1>6, <1>7, <1>8, <1>9 DEF Serve

LEMMA NextType == TypeOK /\ [Next]_vars => TypeOK'
<1> SUFFICES ASSUME TypeOK, [Next]_vars PROVE TypeOK' OBVIOUS
<1>1. ASSUME NEW r \in Requests, Serve(r) PROVE TypeOK' BY <1>1, StepType
<1>2. CASE Expire BY <1>2, NoTextType DEF Expire, TypeOK
<1>3. CASE UNCHANGED vars BY <1>3 DEF vars, TypeOK
<1> QED BY <1>1, <1>2, <1>3 DEF Next

(* The variables keep their types. *)
THEOREM TypeCorrect == Spec => []TypeOK
BY InitType, NextType, PTL DEF Spec

-----------------------------------------------------------------------------
(* What the cache holds *)

(* An attempt without a hint starts at the answer's first piece, the answer that *)
(* is about to be stored is at its end, and a cached text is of a request that   *)
(* is done with it and never changes its hint again.                             *)
Whole ==
  /\ \A r \in Requests : hint[r] = "none" => from[r] = 1
  /\ \A r \in Requests : pc[r] = "storing" => at[r] = Length
  /\ cache # NoText =>
       /\ cache.by \in Requests /\ pc[cache.by] = "done"
       /\ cache.to = Length
       /\ cache.from = 1 \/ hint[cache.by] = "stored"

LEMMA AttemptWhole ==
  ASSUME TypeOK, Whole, NEW r \in Requests, NEW first \in 1..(Length + 1), NEW kind,
         Attempt(r, first, kind), kind = "none" => first = 1
  PROVE  \A q \in Requests : hint'[q] = "none" => from'[q] = 1
BY DEF TypeOK, Whole, Attempt

LEMMA StepWhole ==
  ASSUME TypeOK, Whole, NEW r \in Requests, Serve(r)
  PROVE  Whole'
<1>1. pc[r] # "done" BY DEF Serve, Lookup, Resume, Relay, Finish, Store, Leave, Cut, Retry, GiveUp
<1>2. cache # NoText => cache.by # r BY <1>1 DEF Whole
<1>3. CASE Lookup(r) BY <1>2, <1>3 DEF Lookup, Go, TypeOK, Whole
<1>4. CASE Resume(r)
  <2>1. snapshot.to + 1 \in 1..(Length + 1) /\ 1 \in 1..(Length + 1)
    BY TextFields, ResumeAssumption DEF TypeOK
  <2>2. \A q \in Requests : hint'[q] = "none" => from'[q] = 1
    BY <1>4, <2>1, AttemptWhole DEF Resume
  <2>3. \A q \in Requests : pc'[q] = "storing" => at'[q] = Length
    BY <1>4 DEF Resume, Go, Attempt, TypeOK, Whole
  <2>4. \A q \in Requests \ {r} : pc'[q] = pc[q] /\ hint'[q] = hint[q]
    BY <1>4 DEF Resume, Go, Attempt, TypeOK
  <2>5. cache' = cache BY <1>4 DEF Resume
  <2> QED BY <1>2, <2>2, <2>3, <2>4, <2>5 DEF Whole
<1>5. CASE Relay(r) BY <1>2, <1>5 DEF Relay, TypeOK, Whole
<1>6. CASE Finish(r) BY <1>2, <1>6 DEF Finish, Go, TypeOK, Whole
<1>7. CASE Store(r)
  <2>1. pc' = [pc EXCEPT ![r] = "done"] BY <1>7 DEF Store, Go
  <2>2. pc'[r] = "done" /\ \A q \in Requests \ {r} : pc'[q] = pc[q] BY <2>1 DEF TypeOK
  <2>3. CASE hint[r] # "runtime"
    <3>1. cache' = Text(r) /\ at[r] = Length BY <1>7, <2>3 DEF Store, Whole
    <3>2. cache'.by = r /\ cache'.to = Length /\ cache'.from = from[r] BY <3>1, TextType
    <3>3. from[r] = 1 \/ hint[r] = "stored" BY <2>3 DEF Whole, TypeOK
    <3> QED BY <1>7, <2>2, <3>2, <3>3 DEF Store, Whole
  <2>4. CASE hint[r] = "runtime" BY <1>2, <1>7, <2>2, <2>4 DEF Store, Whole
  <2> QED BY <2>3, <2>4
<1>8. CASE Leave(r) BY <1>2, <1>8 DEF Leave, Go, TypeOK, Whole
<1>9. CASE Cut(r) BY <1>2, <1>9 DEF Cut, Go, TypeOK, Whole
<1>10. CASE Retry(r)
  <2>1. at[r] + 1 \in 1..(Length + 1) BY ResumeAssumption DEF TypeOK
  <2>2. \A q \in Requests : hint'[q] = "none" => from'[q] = 1
    BY <1>10, <2>1, AttemptWhole DEF Retry, Whole
  <2>3. \A q \in Requests : pc'[q] = "storing" => at'[q] = Length
    BY <1>10 DEF Retry, Go, Attempt, TypeOK, Whole
  <2>4. \A q \in Requests \ {r} : pc'[q] = pc[q] /\ hint'[q] = hint[q]
    BY <1>10 DEF Retry, Go, Attempt, TypeOK
  <2>5. cache' = cache BY <1>10 DEF Retry
  <2> QED BY <1>2, <2>2, <2>3, <2>4, <2>5 DEF Whole
<1>11. CASE GiveUp(r) BY <1>2, <1>11 DEF GiveUp, Go, TypeOK, Whole
<1> QED BY <1>3, <1>4, <1>5, <1>6, <1>7, <1>8, <1>9, <1>10, <1>11 DEF Serve

LEMMA NextWhole == TypeOK /\ Whole /\ [Next]_vars => Whole'
<1> SUFFICES ASSUME TypeOK, Whole, [Next]_vars PROVE Whole' OBVIOUS
<1>1. ASSUME NEW r \in Requests, Serve(r) PROVE Whole' BY <1>1, StepWhole
<1>2. CASE Expire BY <1>2 DEF Expire, Whole
<1>3. CASE UNCHANGED vars BY <1>3 DEF vars, Whole
<1> QED BY <1>1, <1>2, <1>3 DEF Next

(* A cached text reaches the answer's end and misses its beginning only where the *)
(* attempt went on after a stored snapshot, with requests that overlap too.       *)
THEOREM CachedWhole == Spec => []CachedToTheEnd
<1>1. Init => Whole BY DEF Init, Whole, NoText
<1>2. Whole => CachedToTheEnd BY DEF Whole, CachedToTheEnd
<1> QED BY <1>1, <1>2, TypeCorrect, NextWhole, PTL DEF Spec

-----------------------------------------------------------------------------
(* Distances between pieces *)

(* The pieces of n texts that are too short to be saved. *)
LEMMA UntoldSteps ==
  ASSUME NEW n \in Nat
  PROVE  /\ Untold(n) \in Nat /\ Untold(n - 1) \in Nat
         /\ Untold(n + 1) = Untold(n) + (MinLength - 1)
         /\ Untold(n - 1) <= Untold(n)
<1> DEFINE k == MinLength - 1
<1>1. k \in Nat BY ResumeAssumption
<1> HIDE DEF k
<1>2. n * k \in Nat /\ (n + 1) * k = n * k + k /\ (n - 1) * k = n * k - k BY <1>1
<1>3. CASE n = 0
  <2>1. Untold(n) = 0 /\ Untold(n - 1) = 0 BY <1>3 DEF Untold
  <2>2. Untold(n + 1) = 1 * k BY <1>3 DEF Untold, k
  <2> QED BY <2>1, <2>2, <1>1 DEF k
<1>4. CASE n > 0
  <2>1. Untold(n) = n * k /\ Untold(n + 1) = (n + 1) * k BY <1>4 DEF Untold, k
  <2>2. CASE n = 1
    <3>1. Untold(n - 1) = 0 BY <2>2 DEF Untold
    <3> QED BY <3>1, <2>1, <1>1, <1>2 DEF k
  <2>3. CASE n > 1
    <3>1. Untold(n - 1) = (n - 1) * k BY <2>3 DEF Untold, k
    <3>2. (n - 1) * k \in Nat BY <1>1, <2>3
    <3> QED BY <3>1, <3>2, <2>1, <1>1, <1>2 DEF k
  <2> QED BY <2>2, <2>3, <1>4
<1> QED BY <1>3, <1>4

(* high is not before low, nor further on than n texts that were not saved. *)
Near(low, high, n) == low <= high /\ high - low <= Untold(n)

LEMMA NearSelf ==
  ASSUME NEW n \in Nat, NEW a \in Int
  PROVE  Near(a, a, n) /\ Near(a, a, n - 1)
BY UntoldSteps DEF Near

LEMMA NearMore ==
  ASSUME NEW n \in Nat, NEW a \in Int, NEW b \in Int, Near(a, b, n - 1)
  PROVE  Near(a, b, n)
BY UntoldSteps DEF Near

(* A further text that is not saved. *)
LEMMA NearShort ==
  ASSUME NEW n \in Nat, NEW a \in Int, NEW b \in Int, NEW c \in Int,
         Near(a, b, n), b <= c, c - b < MinLength
  PROVE  Near(a, c, n + 1)
BY UntoldSteps, ResumeAssumption DEF Near

-----------------------------------------------------------------------------
(* The steps, piece by piece *)

(* A step of r leaves the variables of the others alone. *)
LEMMA Others ==
  ASSUME TypeOK, NEW r \in Requests, Serve(r)
  PROVE  \A q \in Requests \ {r} :
           /\ pc'[q] = pc[q] /\ from'[q] = from[q] /\ at'[q] = at[q]
           /\ cuts'[q] = cuts[q] /\ got'[q] = got[q]
<1> USE DEF TypeOK, Go, Attempt
<1>1. CASE Lookup(r) BY <1>1 DEF Lookup
<1>2. CASE Resume(r) BY <1>2 DEF Resume
<1>3. CASE Relay(r) BY <1>3 DEF Relay
<1>4. CASE Finish(r) BY <1>4 DEF Finish
<1>5. CASE Store(r) BY <1>5 DEF Store
<1>6. CASE Leave(r) BY <1>6 DEF Leave
<1>7. CASE Cut(r) BY <1>7 DEF Cut
<1>8. CASE Retry(r) BY <1>8 DEF Retry
<1>9. CASE GiveUp(r) BY <1>9 DEF GiveUp
<1> QED BY <1>1, <1>2, <1>3, <1>4, <1>5, <1>6, <1>7, <1>8, <1>9 DEF Serve

LEMMA AttemptStep ==
  ASSUME TypeOK, NEW r \in Requests, NEW first \in Int, NEW kind, Attempt(r, first, kind)
  PROVE  from'[r] = first /\ at'[r] = first - 1
BY DEF Attempt, TypeOK

LEMMA ResumeStep ==
  ASSUME TypeOK, NEW r \in Requests, Resume(r)
  PROVE  /\ pc[r] = "resuming" /\ pc'[r] = "relaying"
         /\ from'[r] = snapshot.to + 1 /\ at'[r] = snapshot.to
         /\ got' = got /\ cuts' = cuts /\ snapshot' = snapshot
<1>1. snapshot.to \in Int /\ snapshot.to + 1 \in Int BY TextFields DEF TypeOK
<1>2. PICK kind : Attempt(r, snapshot.to + 1, kind)
  <2>1. CASE snapshot # NoText
    <3>1. Attempt(r, snapshot.to + 1, "stored") BY <2>1 DEF Resume
    <3> QED BY <3>1
  <2>2. CASE snapshot = NoText
    <3>1. Attempt(r, 1, "none") BY <2>2 DEF Resume
    <3>2. snapshot.to + 1 = 1 BY <2>2, NoTextType
    <3> QED BY <3>1, <3>2
  <2> QED BY <2>1, <2>2
<1>3. from'[r] = snapshot.to + 1 /\ at'[r] = snapshot.to + 1 - 1 BY <1>1, <1>2, AttemptStep
<1>4. pc'[r] = "relaying" BY DEF Resume, Go, TypeOK
<1> QED BY <1>1, <1>3, <1>4 DEF Resume

LEMMA RelayStep ==
  ASSUME TypeOK, NEW r \in Requests, Relay(r)
  PROVE  /\ pc[r] = "relaying" /\ pc'[r] = "relaying"
         /\ from'[r] = from[r] /\ at'[r] = at[r] + 1
         /\ got'[r] = Append(got[r], at[r] + 1) /\ got'[r] # <<>> /\ Last(got'[r]) = at[r] + 1
         /\ cuts' = cuts /\ snapshot' = snapshot
<1>1. got'[r] = Append(got[r], at[r] + 1) /\ at'[r] = at[r] + 1 BY DEF Relay, TypeOK
<1>2. at[r] + 1 \in Pieces BY ResumeAssumption DEF Relay, TypeOK, Pieces
<1>3. Len(got'[r]) = Len(got[r]) + 1 /\ got'[r][Len(got[r]) + 1] = at[r] + 1
  BY <1>1, <1>2 DEF TypeOK
<1>4. got'[r] # <<>> /\ Last(got'[r]) = at[r] + 1 BY <1>3 DEF Last, TypeOK
<1> QED BY <1>1, <1>4 DEF Relay

(* What a request that is cut or left saves. *)
LEMMA SaveStep ==
  ASSUME TypeOK, NEW r \in Requests, Save(r)
  PROVE  \/ snapshot' = Text(r) /\ HasOutput(r) /\ Enabled
         \/ /\ snapshot' = snapshot
            /\ Enabled /\ Instructed => at[r] - from[r] + 1 < MinLength
BY ResumeAssumption DEF Save, HasOutput, TypeOK

LEMMA RetryStep ==
  ASSUME TypeOK, NEW r \in Requests, Retry(r)
  PROVE  /\ pc[r] = "failed" /\ cuts'[r] = cuts[r] + 1
         /\ got' = got /\ snapshot' = snapshot
         /\ \/ HasOutput(r) /\ pc'[r] = "relaying" /\ from'[r] = at[r] + 1 /\ at'[r] = at[r]
            \/ ~HasOutput(r) /\ pc'[r] = "resuming" /\ from' = from /\ at' = at
BY DEF TypeOK, Retry, Go, Attempt

(* An attempt that has delivered pieces delivered the last one of its client's. *)
Delivered ==
  \A r \in Requests :
    /\ pc[r] = "new" => got[r] = <<>>
    /\ pc[r] = "relaying" => from[r] <= at[r] + 1
    /\ pc[r] \in {"relaying", "failed"} /\ HasOutput(r) => got[r] # <<>> /\ Last(got[r]) = at[r]

LEMMA StepDelivered ==
  ASSUME TypeOK, Delivered, NEW r \in Requests, Serve(r)
  PROVE  Delivered'
<1> DEFINE Here(q) ==
      /\ pc'[q] = "new" => got'[q] = <<>>
      /\ pc'[q] = "relaying" => from'[q] <= at'[q] + 1
      /\ pc'[q] \in {"relaying", "failed"} /\ at'[q] >= from'[q] =>
           got'[q] # <<>> /\ Last(got'[q]) = at'[q]
<1>1. \A q \in Requests \ {r} : Here(q) BY Others DEF Delivered, HasOutput
<1>2. Here(r)
  <2>1. CASE Lookup(r) BY <2>1 DEF Lookup, Go, TypeOK
  <2>2. CASE Resume(r)
    <3>1. snapshot.to \in 0..Length BY TextFields DEF TypeOK
    <3> QED BY <2>2, <3>1, ResumeStep
  <2>3. CASE Relay(r) BY <2>3, RelayStep DEF Delivered, TypeOK
  <2>4. CASE Finish(r) BY <2>4 DEF Finish, Go, TypeOK
  <2>5. CASE Store(r) BY <2>5 DEF Store, Go, TypeOK
  <2>6. CASE Leave(r) BY <2>6 DEF Leave, Go, TypeOK
  <2>7. CASE Cut(r) BY <2>7 DEF Cut, Go, TypeOK, Delivered, HasOutput
  <2>8. CASE Retry(r) BY <2>8, RetryStep DEF Delivered, HasOutput, TypeOK
  <2>9. CASE GiveUp(r) BY <2>9 DEF GiveUp, Go, TypeOK
  <2> QED BY <2>1, <2>2, <2>3, <2>4, <2>5, <2>6, <2>7, <2>8, <2>9 DEF Serve
<1> QED BY <1>1, <1>2 DEF Delivered, HasOutput

LEMMA NextDelivered == TypeOK /\ Delivered /\ [Next]_vars => Delivered'
<1> SUFFICES ASSUME TypeOK, Delivered, [Next]_vars PROVE Delivered' OBVIOUS
<1>1. ASSUME NEW r \in Requests, Serve(r) PROVE Delivered' BY <1>1, StepDelivered
<1>2. CASE Expire BY <1>2 DEF Expire, Delivered, HasOutput
<1>3. CASE UNCHANGED vars BY <1>3 DEF vars, Delivered, HasOutput
<1> QED BY <1>1, <1>2, <1>3 DEF Next

LEMMA InitDelivered == Init => Delivered
BY DEF Init, Delivered, HasOutput

-----------------------------------------------------------------------------
(* The snapshot of a request that has left *)

(* A request's own snapshot, until another takes its place or it is used up, is no *)
(* further behind its client than the texts that were too short to replace it: its *)
(* first text was saved, so that one text at least, of all it was cut off from, is *)
(* not among them.                                                                 *)
Own(r) ==
  /\ Enabled
  /\ pc[r] # "new" /\ got[r] # <<>>
  /\ pc[r] \in {"resuming", "relaying"} => cuts[r] > 0
  /\ pc[r] = "resuming" => Near(snapshot.to, Last(got[r]), cuts[r] - 1)
  /\ pc[r] = "relaying" =>
       /\ Near(snapshot.to, from[r] - 1, cuts[r] - 1)
       /\ ~HasOutput(r) => Near(snapshot.to, Last(got[r]), cuts[r] - 1)
  /\ pc[r] \in {"failed", "left"} => Near(snapshot.to, Last(got[r]), cuts[r])
Owned == \A r \in Requests : snapshot.by = r => Own(r)

LEMMA Numbers ==
  ASSUME TypeOK, NEW r \in Requests
  PROVE  /\ snapshot.to \in Int /\ from[r] \in Int /\ at[r] \in Int /\ cuts[r] \in Nat
         /\ got[r] # <<>> => Last(got[r]) \in Int
<1>1. snapshot.to \in Int BY TextFields DEF TypeOK
<1>2. ASSUME got[r] # <<>> PROVE Last(got[r]) \in Int
  <2>1. got[r] \in Seq(Pieces) /\ Len(got[r]) \in 1..Len(got[r]) BY <1>2 DEF TypeOK
  <2>2. got[r][Len(got[r])] \in Pieces BY <2>1
  <2> QED BY <2>2 DEF Last, Pieces
<1> QED BY <1>1, <1>2, ResumeAssumption DEF TypeOK

(* A step that saves another snapshot, or none, leaves nothing to be shown. *)
LEMMA NotOwn ==
  ASSUME TypeOK, Owned, NEW r \in Requests, NEW q \in Requests, q # r, Serve(r),
         snapshot' = snapshot, snapshot.by = q
  PROVE  Own(q)'
<1>1. /\ pc'[q] = pc[q] /\ from'[q] = from[q] /\ at'[q] = at[q]
      /\ cuts'[q] = cuts[q] /\ got'[q] = got[q]
  BY Others
<1> QED BY <1>1 DEF Owned, Own, HasOutput

(* Leaving and being cut off: either of them saves the text or adds a short one. *)
LEMMA OwnSaved ==
  ASSUME TypeOK, Delivered, Owned, Instructed, NEW r \in Requests, pc[r] = "relaying", Save(r),
         snapshot'.by = r
  PROVE  Enabled /\ got[r] # <<>> /\ Near(snapshot'.to, Last(got[r]), cuts[r])
<1>0. at[r] \in Int /\ cuts[r] \in Nat BY Numbers
<1>1. CASE snapshot' = Text(r) /\ HasOutput(r) /\ Enabled
  BY <1>0, <1>1, TextType, NearSelf DEF Delivered
<1>2. CASE snapshot' = snapshot /\ (Enabled => at[r] - from[r] + 1 < MinLength)
  <2>1. Own(r) BY <1>2 DEF Owned
  <2>2. CASE ~HasOutput(r)
    <3>1. got[r] # <<>> /\ Near(snapshot.to, Last(got[r]), cuts[r] - 1) BY <2>1, <2>2 DEF Own
    <3> QED BY <3>1, <1>2, <2>1, Numbers, NearMore DEF Own
  <2>3. CASE HasOutput(r)
    <3>1. got[r] # <<>> /\ Last(got[r]) = at[r] BY <2>3 DEF Delivered
    <3>2. Near(snapshot.to, from[r] - 1, cuts[r] - 1) /\ cuts[r] > 0 BY <2>1 DEF Own
    <3>3. Enabled BY <2>1 DEF Own
    <3>4. from[r] - 1 <= at[r] /\ at[r] - (from[r] - 1) < MinLength
      BY <1>2, <2>3, <3>3, Numbers, ResumeAssumption DEF HasOutput
    <3>5. Near(snapshot.to, at[r], cuts[r] - 1 + 1)
      <4>1. cuts[r] - 1 \in Nat BY <1>0, <3>2
      <4>2. from[r] - 1 \in Int BY Numbers
      <4> QED BY <4>1, <4>2, <3>2, <3>4, Numbers, NearShort
    <3> QED BY <1>0, <1>2, <3>1, <3>3, <3>5
  <2> QED BY <2>2, <2>3
<1> QED BY <1>1, <1>2, SaveStep

LEMMA StepOwned ==
  ASSUME TypeOK, Delivered, Owned, Instructed, NEW r \in Requests, Serve(r)
  PROVE  Owned'
<1>0. cuts[r] \in Nat /\ at[r] \in Int /\ snapshot.to \in Int BY Numbers
<1>1. CASE Lookup(r)
  <2>1. pc[r] = "new" /\ snapshot' = snapshot BY <1>1 DEF Lookup
  <2>2. snapshot.by # r BY <2>1 DEF Owned, Own
  <2> QED BY <1>1, <2>1, <2>2, NotOwn DEF Owned
<1>2. CASE Resume(r)
  <2>1. snapshot' = snapshot /\ got' = got /\ cuts' = cuts /\ pc[r] = "resuming"
    BY <1>2, ResumeStep
  <2>2. ASSUME snapshot.by = r PROVE Own(r)'
    <3>1. Own(r) BY <2>2 DEF Owned
    <3>2. Near(snapshot.to, from'[r] - 1, cuts[r] - 1)
      <4>1. from'[r] - 1 = snapshot.to BY <1>0, <1>2, ResumeStep
      <4> QED BY <4>1, <1>0, NearSelf
    <3>3. pc'[r] = "relaying" BY <1>2, ResumeStep
    <3> QED BY <2>1, <3>1, <3>2, <3>3 DEF Own
  <2> QED BY <1>2, <2>1, <2>2, NotOwn DEF Owned
<1>3. CASE Relay(r)
  <2>1. snapshot' = snapshot /\ cuts' = cuts /\ pc[r] = "relaying" /\ pc'[r] = "relaying"
    BY <1>3, RelayStep
  <2>2. ASSUME snapshot.by = r PROVE Own(r)'
    <3>1. Own(r) BY <2>2 DEF Owned
    <3>2. got'[r] # <<>> /\ from'[r] = from[r] BY <1>3, RelayStep
    <3>3. at'[r] >= from'[r] BY <1>0, <1>3, <2>1, RelayStep, Numbers DEF Delivered
    <3> QED BY <2>1, <3>1, <3>2, <3>3 DEF Own, HasOutput
  <2> QED BY <1>3, <2>1, <2>2, NotOwn DEF Owned
<1>4. CASE Finish(r)
  <2>1. snapshot' = snapshot \/ snapshot' = NoText BY <1>4 DEF Finish
  <2>2. CASE snapshot' = NoText BY <2>2, NoTextType DEF Owned
  <2>3. CASE snapshot' = snapshot
    <3>1. got' = got /\ pc'[r] = "storing" BY <1>4 DEF Finish, Go, TypeOK
    <3>2. snapshot.by = r => Own(r)' BY <3>1, <1>4 DEF Owned, Own
    <3> QED BY <2>3, <3>2, NotOwn DEF Owned
  <2> QED BY <2>1, <2>2, <2>3
<1>5. CASE Store(r)
  <2>1. snapshot' = snapshot /\ got' = got /\ pc'[r] = "done" BY <1>5 DEF Store, Go, TypeOK
  <2>2. snapshot.by = r => Own(r)' BY <2>1, <1>5 DEF Owned, Own
  <2> QED BY <2>1, <2>2, NotOwn DEF Owned
<1>6. ASSUME pc[r] = "relaying", Save(r), pc'[r] \in {"failed", "left"},
             got' = got, cuts' = cuts
      PROVE  Owned'
  <2>1. snapshot'.by = r => Own(r)' BY <1>6, OwnSaved DEF Own
  <2>2. ASSUME NEW q \in Requests \ {r}, snapshot'.by = q PROVE Own(q)'
    <3>1. snapshot' = snapshot BY <1>6, <2>2, SaveStep, TextType
    <3> QED BY <2>2, <3>1, NotOwn
  <2> QED BY <2>1, <2>2 DEF Owned
<1>7. CASE Leave(r) BY <1>6, <1>7 DEF Leave, Go, TypeOK
<1>8. CASE Cut(r) BY <1>6, <1>8 DEF Cut, Go, TypeOK
<1>9. CASE Retry(r)
  <2>1. /\ snapshot' = snapshot /\ got' = got /\ cuts'[r] = cuts[r] + 1 /\ pc[r] = "failed"
        /\ cuts'[r] - 1 = cuts[r] /\ cuts'[r] > 0
    BY <1>0, <1>9, RetryStep
  <2>2. ASSUME snapshot.by = r PROVE Own(r)'
    <3>1. Enabled /\ got[r] # <<>> /\ Near(snapshot.to, Last(got[r]), cuts'[r] - 1)
      BY <2>1, <2>2 DEF Owned, Own
    <3>2. CASE pc'[r] = "resuming" BY <2>1, <3>1, <3>2 DEF Own
    <3>3. CASE HasOutput(r) /\ pc'[r] = "relaying" /\ from'[r] = at[r] + 1
      <4>1. from'[r] - 1 = Last(got[r]) BY <1>0, <2>1, <3>3 DEF Delivered
      <4> QED BY <2>1, <3>1, <3>3, <4>1 DEF Own
    <3> QED BY <1>9, <3>2, <3>3, RetryStep
  <2> QED BY <1>9, <2>1, <2>2, NotOwn DEF Owned
<1>10. CASE GiveUp(r)
  <2>1. snapshot' = snapshot /\ got' = got /\ pc'[r] = "done" BY <1>10 DEF GiveUp, Go, TypeOK
  <2>2. snapshot.by = r => Own(r)' BY <2>1, <1>10 DEF Owned, Own
  <2> QED BY <2>1, <2>2, NotOwn DEF Owned
<1> QED BY <1>1, <1>2, <1>3, <1>4, <1>5, <1>7, <1>8, <1>9, <1>10 DEF Serve

LEMMA NextOwned == Instructed /\ TypeOK /\ Delivered /\ Owned /\ [Next]_vars => Owned'
<1> SUFFICES ASSUME Instructed, TypeOK, Delivered, Owned, [Next]_vars PROVE Owned' OBVIOUS
<1>1. ASSUME NEW r \in Requests, Serve(r) PROVE Owned' BY <1>1, StepOwned
<1>2. CASE Expire BY <1>2, NoTextType DEF Expire, Owned
<1>3. CASE UNCHANGED vars BY <1>3 DEF vars, Owned, Own, HasOutput
<1> QED BY <1>1, <1>2, <1>3 DEF Next

(* The snapshot left by a client that went away ends where its copy of the answer *)
(* ends, or before it by the short texts since, with requests that overlap too,   *)
(* where the request has instructions of its own: a runtime hint changes the      *)
(* snapshot's key of one that has none.                                           *)
THEOREM SnapshotTail == ASSUME Instructed PROVE Spec => []SnapshotIsTail
<1>1. Init => Owned BY NoTextType DEF Init, Owned
<1>2. ASSUME TypeOK, Owned PROVE SnapshotIsTail
  <2> SUFFICES ASSUME NEW r \in Requests, snapshot.by = r, pc[r] = "left"
      PROVE  got[r] # <<>> /\ snapshot.to \in (Last(got[r]) - Untold(cuts[r]))..Last(got[r])
    BY DEF SnapshotIsTail
  <2>1. got[r] # <<>> /\ Near(snapshot.to, Last(got[r]), cuts[r]) BY <1>2 DEF Owned, Own
  <2>2. Untold(cuts[r]) \in Nat BY Numbers, <1>2, UntoldSteps
  <2> QED BY <1>2, <2>1, <2>2, Numbers DEF Near
<1> QED BY <1>1, <1>2, InitDelivered, NextDelivered, NextOwned, TypeCorrect, PTL DEF Spec

-----------------------------------------------------------------------------
(* What a client receives *)

(* The pieces go on without a gap and repeat no more than n short texts. *)
Runs(s, n) == \A i \in 2..Len(s) : s[i] \in ((s[i - 1] + 1) - Untold(n))..(s[i - 1] + 1)

LEMMA RunsMore ==
  ASSUME NEW n \in Nat, NEW s \in Seq(Pieces), Runs(s, n - 1)
  PROVE  Runs(s, n)
<1>1. Untold(n - 1) \in Nat /\ Untold(n) \in Nat /\ Untold(n - 1) <= Untold(n) BY UntoldSteps
<1> SUFFICES ASSUME NEW i \in 2..Len(s)
    PROVE  s[i] \in ((s[i - 1] + 1) - Untold(n))..(s[i - 1] + 1)
  BY DEF Runs
<1>2. s[i] \in Int /\ s[i - 1] \in Int
  <2>1. i \in 1..Len(s) /\ i - 1 \in 1..Len(s) OBVIOUS
  <2>2. s[i] \in Pieces /\ s[i - 1] \in Pieces BY <2>1
  <2> QED BY <2>2 DEF Pieces
<1>3. s[i] \in ((s[i - 1] + 1) - Untold(n - 1))..(s[i - 1] + 1) BY DEF Runs
<1> HIDE DEF Runs
<1> QED BY <1>1, <1>2, <1>3

LEMMA RunsOn ==
  ASSUME NEW n, Untold(n) \in Nat, NEW s \in Seq(Pieces), NEW x \in Int, Runs(s, n),
         s # <<>> => Near(x, Last(s), n)
  PROVE  Runs(Append(s, x + 1), n)
<1> DEFINE t == Append(s, x + 1)
<1>1. /\ Len(t) = Len(s) + 1 /\ t[Len(s) + 1] = x + 1 /\ Len(s) \in Nat
      /\ \A i \in 1..Len(s) : t[i] = s[i]
  OBVIOUS
<1> HIDE DEF t
<1> SUFFICES ASSUME NEW i \in 2..Len(t)
    PROVE  t[i] \in ((t[i - 1] + 1) - Untold(n))..(t[i - 1] + 1)
  BY DEF Runs, t
<1>2. CASE i <= Len(s)
  <2>1. i \in 2..Len(s) /\ i \in 1..Len(s) /\ i - 1 \in 1..Len(s) BY <1>1, <1>2
  <2> QED BY <1>1, <2>1 DEF Runs
<1>3. CASE i = Len(s) + 1
  <2>1. Len(s) \in 1..Len(s) /\ i - 1 = Len(s) BY <1>1, <1>3
  <2>2. s # <<>> /\ t[i - 1] = Last(s) /\ t[i] = x + 1 BY <1>1, <1>3, <2>1 DEF Last
  <2>3. s[Len(s)] \in Pieces BY <2>1
  <2>4. Last(s) \in Int BY <2>3 DEF Last, Pieces
  <2>5. x <= Last(s) /\ Last(s) - x <= Untold(n) BY <2>2 DEF Near
  <2> QED BY <2>2, <2>4, <2>5
<1> QED BY <1>1, <1>2, <1>3

LEMMA CachedRuns ==
  ASSUME TypeOK, NEW n, Untold(n) \in Nat
  PROVE  Runs(CachedPieces, n)
<1>1. cache.from \in Int /\ cache.to \in Int BY TextFields DEF TypeOK
<1>2. CachedPieces \in Seq(Pieces) BY CachedPiecesType
<1>3. \A i \in 1..Len(CachedPieces) : CachedPieces[i] = cache.from + i - 1
  <2>1. DOMAIN CachedPieces = 1..Len(CachedPieces) BY <1>2
  <2>2. DOMAIN CachedPieces = 1..(cache.to - cache.from + 1) BY DEF CachedPieces
  <2> QED BY <2>1, <2>2 DEF CachedPieces
<1> SUFFICES ASSUME NEW i \in 2..Len(CachedPieces)
    PROVE  CachedPieces[i]
             \in ((CachedPieces[i - 1] + 1) - Untold(n))..(CachedPieces[i - 1] + 1)
  BY DEF Runs
<1>4. i \in 1..Len(CachedPieces) /\ i - 1 \in 1..Len(CachedPieces) BY <1>2
<1>5. CachedPieces[i] = cache.from + i - 1 /\ CachedPieces[i - 1] = cache.from + (i - 1) - 1
  BY <1>3, <1>4
<1> QED BY <1>1, <1>5

(* Requests sent one after the other are served one at a time. *)
Active(r) == pc[r] \in {"resuming", "relaying", "storing", "failed"}
Single == \A r, q \in Requests : Active(r) /\ Active(q) => r = q

(* The snapshot, whoever left it, and the hint of the running attempt are never ahead *)
(* of what the client has, or the pieces between would be left out, and no further    *)
(* behind it than the texts that were too short to be saved.                          *)
Told(r) ==
  /\ pc[r] = "resuming" /\ got[r] # <<>> => Near(snapshot.to, Last(got[r]), cuts[r] - 1)
  /\ pc[r] = "relaying" =>
       /\ Near(snapshot.to, from[r] - 1, cuts[r])
       /\ ~HasOutput(r) /\ got[r] # <<>> =>
            /\ Near(from[r] - 1, Last(got[r]), cuts[r] - 1)
            /\ Near(snapshot.to, Last(got[r]), cuts[r])
  /\ pc[r] = "failed" /\ got[r] # <<>> =>
       Near(snapshot.to, Last(got[r]), IF HasOutput(r) THEN cuts[r] + 1 ELSE cuts[r])
Hinted ==
  /\ Single
  /\ \A r \in Requests : Told(r) /\ Runs(got[r], cuts[r] - 1)

LEMMA RestIdle ==
  ASSUME Alone, TypeOK, Hinted, NEW r \in Requests, Serve(r)
  PROVE  \A q \in Requests \ {r} : ~Active(q) /\ ~Active(q)'
<1>1. \A q \in Requests \ {r} : ~Active(q)
  <2>1. CASE Lookup(r) BY <2>1 DEF Lookup, Ended, Active
  <2>2. CASE ~Lookup(r)
    <3>1. Active(r)
      BY <2>2 DEF Active, Serve, Resume, Relay, Finish, Store, Leave, Cut, Retry, GiveUp
    <3> QED BY <3>1 DEF Hinted, Single
  <2> QED BY <2>1, <2>2
<1> QED BY <1>1, Others DEF Active

LEMMA ToldSaved ==
  ASSUME TypeOK, Delivered, Hinted, Enabled, Instructed,
         NEW r \in Requests, pc[r] = "relaying", Save(r), got[r] # <<>>
  PROVE  Near(snapshot'.to, Last(got[r]), IF HasOutput(r) THEN cuts[r] + 1 ELSE cuts[r])
<1>0. /\ at[r] \in Int /\ cuts[r] \in Nat /\ cuts[r] + 1 \in Nat
      /\ from[r] - 1 \in Int /\ snapshot.to \in Int
  BY Numbers
<1>1. CASE snapshot' = Text(r) /\ HasOutput(r)
  <2>1. Last(got[r]) = at[r] /\ snapshot'.to = at[r] BY <1>1, TextType DEF Delivered
  <2>2. Near(at[r], at[r], cuts[r] + 1) BY <1>0, NearSelf
  <2> QED BY <1>1, <2>1, <2>2
<1>2. CASE snapshot' = snapshot /\ at[r] - from[r] + 1 < MinLength
  <2>1. CASE ~HasOutput(r) BY <1>2, <2>1 DEF Hinted, Told
  <2>2. CASE HasOutput(r)
    <3>1. Last(got[r]) = at[r] BY <2>2 DEF Delivered
    <3>2. Near(snapshot.to, from[r] - 1, cuts[r]) BY DEF Hinted, Told
    <3>3. from[r] - 1 <= at[r] /\ at[r] - (from[r] - 1) < MinLength
      BY <1>2, <2>2, Numbers, ResumeAssumption DEF HasOutput
    <3>4. Near(snapshot.to, at[r], cuts[r] + 1) BY <1>0, <3>2, <3>3, NearShort
    <3> QED BY <1>2, <2>2, <3>1, <3>4
  <2> QED BY <2>1, <2>2
<1> QED BY <1>1, <1>2, SaveStep

LEMMA StepHinted ==
  ASSUME Alone, Enabled, Instructed, TypeOK, Delivered, Hinted, NEW r \in Requests, Serve(r)
  PROVE  Hinted'
<1>0. /\ cuts[r] \in Nat /\ at[r] \in Int /\ from[r] \in Int /\ snapshot.to \in Int
      /\ cuts[r] + 1 \in Nat /\ got[r] \in Seq(Pieces)
      /\ got[r] # <<>> => Last(got[r]) \in Int
  BY Numbers DEF TypeOK
<1>1. \A q \in Requests \ {r} : ~Active(q)' BY RestIdle
<1>2. Single' BY <1>1 DEF Single
<1>3. \A q \in Requests \ {r} : Told(q)' /\ Runs(got[q], cuts[q] - 1)'
  <2>1. \A q \in Requests \ {r} : Told(q)' BY <1>1 DEF Active, Told
  <2>2. \A q \in Requests \ {r} : got'[q] = got[q] /\ cuts'[q] = cuts[q] BY Others
  <2>3. \A q \in Requests \ {r} : Runs(got'[q], cuts'[q] - 1) BY <2>2 DEF Hinted
  <2> QED BY <2>1, <2>3 DEF Runs, Untold
<1>4. ASSUME Told(r)', Runs(got'[r], cuts'[r] - 1) PROVE Hinted'
  <2>1. Runs(got[r], cuts[r] - 1)' BY <1>4 DEF Runs, Untold
  <2> QED BY <1>2, <1>3, <1>4, <2>1 DEF Hinted
<1>5. ASSUME got' = got, cuts' = cuts, pc'[r] \in {"storing", "left", "done"} PROVE Hinted'
  BY <1>4, <1>5 DEF Told, Hinted
<1>6. CASE Lookup(r)
  <2>1. CASE cache # NoText
    <3>1. pc'[r] = "done" /\ got'[r] = CachedPieces /\ cuts' = cuts
      BY <1>6, <2>1 DEF Lookup, Go, TypeOK, CachedPieces
    <3>2. Runs(got'[r], cuts'[r] - 1) BY <1>0, <3>1, CachedRuns, UntoldSteps
    <3>3. Told(r)' BY <3>1 DEF Told
    <3> QED BY <1>4, <3>2, <3>3
  <2>2. CASE cache = NoText
    <3>1. pc'[r] = "resuming" /\ got' = got /\ cuts' = cuts /\ got[r] = <<>>
      BY <1>6, <2>2 DEF Lookup, Go, TypeOK, Delivered
    <3> QED BY <1>4, <3>1 DEF Told, Hinted
  <2> QED BY <2>1, <2>2
<1>7. CASE Resume(r)
  <2>1. /\ pc[r] = "resuming" /\ pc'[r] = "relaying" /\ got' = got /\ cuts' = cuts
        /\ snapshot' = snapshot /\ from'[r] - 1 = snapshot.to
    BY <1>0, <1>7, ResumeStep
  <2>2. Near(snapshot.to, from'[r] - 1, cuts[r]) BY <1>0, <2>1, NearSelf
  <2>3. got[r] # <<>> => Near(snapshot.to, Last(got[r]), cuts[r] - 1)
    BY <2>1 DEF Hinted, Told
  <2>4. got[r] # <<>> => Near(snapshot.to, Last(got[r]), cuts[r]) BY <1>0, <2>3, NearMore
  <2>5. Told(r)' BY <2>1, <2>2, <2>3, <2>4 DEF Told, Near, Untold
  <2> QED BY <1>4, <2>1, <2>5 DEF Hinted
<1>8. CASE Relay(r)
  <2>1. /\ pc[r] = "relaying" /\ pc'[r] = "relaying" /\ from'[r] = from[r]
        /\ at'[r] = at[r] + 1 /\ got'[r] = Append(got[r], at[r] + 1)
        /\ cuts' = cuts /\ snapshot' = snapshot
    BY <1>8, RelayStep
  <2>2. got[r] # <<>> => Near(at[r], Last(got[r]), cuts[r] - 1)
    <3>1. CASE HasOutput(r) BY <1>0, <2>1, <3>1, NearSelf DEF Delivered
    <3>2. CASE ~HasOutput(r)
      <4>1. at[r] = from[r] - 1 BY <1>0, <2>1, <3>2 DEF Delivered, HasOutput
      <4> QED BY <2>1, <3>2, <4>1 DEF Hinted, Told
    <3> QED BY <3>1, <3>2
  <2>3. Untold(cuts[r] - 1) \in Nat BY <1>0, UntoldSteps
  <2>4. Runs(Append(got[r], at[r] + 1), cuts[r] - 1)
    BY <1>0, <2>2, <2>3, RunsOn DEF Hinted
  <2>5. at'[r] >= from'[r] BY <1>0, <2>1 DEF Delivered
  <2>6. Near(snapshot.to, from[r] - 1, cuts[r]) BY <2>1 DEF Hinted, Told
  <2>7. Told(r)' BY <2>1, <2>5, <2>6 DEF Told, HasOutput, Near, Untold
  <2> QED BY <1>4, <2>1, <2>4, <2>7
<1>9. CASE Leave(r) BY <1>5, <1>9 DEF Leave, Go, TypeOK
<1>10. CASE Cut(r)
  <2>1. /\ pc[r] = "relaying" /\ pc'[r] = "failed" /\ Save(r)
        /\ from' = from /\ at' = at /\ cuts' = cuts /\ got' = got
    BY <1>10 DEF Cut, Go, TypeOK
  <2>2. Told(r)' BY <2>1, ToldSaved DEF Told, HasOutput, Near, Untold
  <2> QED BY <1>4, <2>1, <2>2 DEF Hinted
<1>11. CASE Retry(r)
  <2>1. /\ pc[r] = "failed" /\ cuts'[r] = cuts[r] + 1 /\ cuts'[r] - 1 = cuts[r]
        /\ got' = got /\ snapshot' = snapshot
    BY <1>0, <1>11, RetryStep
  <2>2. Runs(got'[r], cuts'[r] - 1) BY <1>0, <2>1, RunsMore DEF Hinted
  <2>3. CASE HasOutput(r) /\ pc'[r] = "relaying" /\ from'[r] = at[r] + 1 /\ at'[r] = at[r]
    <3>1. /\ got[r] # <<>> /\ Last(got[r]) = at[r] /\ from'[r] - 1 = at[r]
          /\ Near(snapshot.to, at[r], cuts'[r])
      BY <1>0, <2>1, <2>3 DEF Delivered, Hinted, Told
    <3>2. Near(at[r], at[r], cuts[r]) BY <1>0, NearSelf
    <3> QED BY <1>4, <2>1, <2>2, <2>3, <3>1, <3>2 DEF Told, Near, Untold
  <2>4. CASE ~HasOutput(r) /\ pc'[r] = "resuming"
    <3>1. got[r] # <<>> => Near(snapshot.to, Last(got[r]), cuts[r])
      BY <2>1, <2>4 DEF Hinted, Told
    <3> QED BY <1>4, <2>1, <2>2, <2>4, <3>1 DEF Told, Near, Untold
  <2> QED BY <1>11, <2>3, <2>4, RetryStep
<1>12. CASE Finish(r) BY <1>5, <1>12 DEF Finish, Go, TypeOK
<1>13. CASE Store(r) BY <1>5, <1>13 DEF Store, Go, TypeOK
<1>14. CASE GiveUp(r) BY <1>5, <1>14 DEF GiveUp, Go, TypeOK
<1> QED BY <1>6, <1>7, <1>8, <1>9, <1>10, <1>11, <1>12, <1>13, <1>14 DEF Serve

LEMMA NextHinted ==
  Alone /\ Enabled /\ Instructed /\ TypeOK /\ Delivered /\ Hinted /\ [Next]_vars => Hinted'
<1> SUFFICES ASSUME Alone, Enabled, Instructed, TypeOK, Delivered, Hinted, [Next]_vars
    PROVE  Hinted'
  OBVIOUS
<1>1. ASSUME NEW r \in Requests, Serve(r) PROVE Hinted' BY <1>1, StepHinted
<1>2. CASE Expire
  <2>1. \A r \in Requests : ~Active(r)' BY <1>2 DEF Expire, Ended, Active
  <2>2. got' = got /\ cuts' = cuts BY <1>2 DEF Expire
  <2> QED BY <2>1, <2>2 DEF Hinted, Single, Told, Active, Runs, Untold
<1>3. CASE UNCHANGED vars
  BY <1>3 DEF vars, Hinted, Single, Told, Active, Runs, Untold, Near, HasOutput
<1> QED BY <1>1, <1>2, <1>3 DEF Next

(* What a client receives in one stream goes on without a gap and repeats no more   *)
(* than the short texts, where the requests come one after the other, snapshots are *)
(* kept and the request has instructions of its own.                                *)
THEOREM StreamContiguous == ASSUME Alone, Enabled, Instructed PROVE Spec => []Contiguous
<1>1. Init => Hinted
  <2> SUFFICES ASSUME Init PROVE Hinted OBVIOUS
  <2>1. \A r \in Requests : got[r] = <<>> /\ pc[r] = "new" BY DEF Init
  <2> QED BY <2>1 DEF Hinted, Single, Active, Told, Runs
<1>2. ASSUME TypeOK, Hinted PROVE Contiguous
  <2>1. \A r \in Requests : \A i \in 2..Len(got[r]) :
          got[r][i] \in ((got[r][i - 1] + 1) - Untold(cuts[r] - 1))..(got[r][i - 1] + 1)
    BY <1>2 DEF Hinted, Runs
  <2> QED BY <2>1 DEF Contiguous
<1> QED BY <1>1, <1>2, InitDelivered, NextDelivered, NextHinted, TypeCorrect, PTL DEF Spec

-----------------------------------------------------------------------------
(* Sequences and steps                                                      *)

LEMMA LeastNat ==
  ASSUME NEW T, T \subseteq Nat, T # {}
  PROVE  \E x \in T : \A y \in T : x <= y
<1> DEFINE R == OpToRel(<, Nat)
<1>1. IsWellFoundedOn(R, Nat) BY NatLessThanWellFounded
<1>2. \A x, y \in Nat : y < x => <<y, x>> \in R BY DEF OpToRel
<1> HIDE DEF R
<1>3. PICK x \in T : \A y \in T : ~(<<y, x>> \in R) BY <1>1, WFMin
<1>4. ASSUME NEW y \in T PROVE x <= y
  <2>1. x \in Nat /\ y \in Nat /\ <<y, x>> \notin R BY <1>3
  <2>2. ~(y < x) BY <1>2, <2>1
  <2> QED BY <2>1, <2>2
<1> QED BY <1>4

\* What holds at 0 and from each number to the next holds at all of them.
LEMMA Climb ==
  ASSUME NEW size \in Nat, NEW T, 0 \in T, \A k \in 1 .. size : k - 1 \in T => k \in T
  PROVE  \A k \in 0 .. size : k \in T
<1> SUFFICES ASSUME NEW j \in 0 .. size, j \notin T PROVE FALSE OBVIOUS
<1> DEFINE Miss == {k \in 0 .. size : k \notin T}
<1>1. Miss \subseteq Nat /\ Miss # {} OBVIOUS
<1>2. PICK x \in Miss : \A y \in Miss : x <= y BY <1>1, LeastNat
<1>3. x \in 1 .. size /\ x \notin T BY <1>2
<1>4. x - 1 \in 0 .. size /\ x - 1 \notin Miss BY <1>2, <1>3
<1>5. x - 1 \in T BY <1>4
<1> QED BY <1>3, <1>5

\* The sequences of Seq are the ones IsSequence describes.
LEMMA OfSet ==
  ASSUME NEW S, NEW s \in Seq(S)
  PROVE  IsSequence(s) /\ Len(s) \in Nat /\ DOMAIN s = 1 .. Len(s)
<1>1. Len(s) \in Nat /\ DOMAIN s = 1 .. Len(s) /\ s \in [1 .. Len(s) -> S] OBVIOUS
<1>2. s \in [1 .. Len(s) -> Range(s)] BY <1>1 DEF Range
<1> QED BY <1>1, <1>2 DEF IsSequence

LEMMA Bounds ==
  ASSUME NEW s, IsSequence(s)
  PROVE  /\ Len(s) \in Nat /\ DOMAIN s = 1 .. Len(s)
         /\ s = <<>> <=> Len(s) = 0
BY DEF IsSequence

LEMMA Empty == IsSequence(<<>>) /\ Len(<<>>) = 0
<1>1. <<>> \in Seq({}) OBVIOUS
<1> QED BY <1>1, OfSet

LEMMA One ==
  ASSUME NEW x
  PROVE  IsSequence(<<x>>) /\ Len(<<x>>) = 1
<1>1. <<x>> \in Seq({x}) OBVIOUS
<1> QED BY <1>1, OfSet

LEMMA Appended ==
  ASSUME NEW s, IsSequence(s), NEW x
  PROVE  /\ IsSequence(Append(s, x)) /\ Len(Append(s, x)) = Len(s) + 1
         /\ Append(s, x)[Len(s) + 1] = x
         /\ \A k \in 1 .. Len(s) : Append(s, x)[k] = s[k]
<1> DEFINE S == Range(s) \cup {x}
<1>1. s \in [1 .. Len(s) -> Range(s)] /\ Len(s) \in Nat BY DEF IsSequence
<1>2. s \in Seq(S) /\ x \in S BY <1>1
<1> HIDE DEF S
<1>3. /\ Append(s, x) \in Seq(S) /\ Len(Append(s, x)) = Len(s) + 1
      /\ Append(s, x)[Len(s) + 1] = x
  BY <1>1, <1>2
<1>4. \A k \in 1 .. Len(s) : Append(s, x)[k] = s[k] BY <1>1, <1>2
<1> QED BY <1>3, <1>4, OfSet

LEMMA Concatenated ==
  ASSUME NEW s, IsSequence(s), NEW t, IsSequence(t)
  PROVE  /\ IsSequence(s \o t) /\ Len(s \o t) = Len(s) + Len(t)
         /\ \A k \in 1 .. Len(s) : (s \o t)[k] = s[k]
         /\ \A k \in 1 .. Len(t) : (s \o t)[Len(s) + k] = t[k]
<1> DEFINE S == Range(s) \cup Range(t)
<1>1. /\ s \in [1 .. Len(s) -> Range(s)] /\ Len(s) \in Nat
      /\ t \in [1 .. Len(t) -> Range(t)] /\ Len(t) \in Nat
  BY DEF IsSequence
<1>2. s \in Seq(S) /\ t \in Seq(S) BY <1>1
<1> HIDE DEF S
<1>3. s \o t \in Seq(S) /\ Len(s \o t) = Len(s) + Len(t) BY <1>2
<1>4. \A k \in 1 .. Len(s) : (s \o t)[k] = s[k] BY <1>1, <1>2
<1>5. \A k \in 1 .. Len(t) : (s \o t)[Len(s) + k] = t[k]
  <2> TAKE k \in 1 .. Len(t)
  <2>1. Len(s) + k \in (Len(s) + 1) .. (Len(s) + Len(t)) /\ (Len(s) + k) - Len(s) = k BY <1>1
  <2> QED BY <1>2, <2>1
<1> QED BY <1>3, <1>4, <1>5, OfSet

\* Two sequences of the same elements are one.
LEMMA SameElements ==
  ASSUME NEW s, IsSequence(s), NEW t, IsSequence(t), Len(s) = Len(t),
         \A k \in 1 .. Len(s) : s[k] = t[k]
  PROVE  s = t
<1>1. s \in [1 .. Len(s) -> Range(s)] /\ t \in [1 .. Len(t) -> Range(t)] BY DEF IsSequence
<1>2. s = [k \in 1 .. Len(s) |-> s[k]] /\ t = [k \in 1 .. Len(s) |-> t[k]] BY <1>1
<1> QED BY <1>2

LEMMA EmptyAside ==
  ASSUME NEW s, IsSequence(s)
  PROVE  s \o <<>> = s /\ <<>> \o s = s
<1>1. Len(s) \in Nat BY Bounds
<1>2. s \o <<>> = s BY <1>1, Empty, Concatenated, SameElements
<1>3. <<>> \o s = s BY <1>1, Empty, Concatenated, SameElements
<1> QED BY <1>2, <1>3

LEMMA AppendAside ==
  ASSUME NEW s, IsSequence(s), NEW t, IsSequence(t), NEW x
  PROVE  s \o Append(t, x) = Append(s \o t, x)
<1> DEFINE a == Append(t, x)
           c == s \o t
           left == s \o a
           right == Append(c, x)
<1>1. Len(s) \in Nat /\ Len(t) \in Nat BY Bounds
<1>2. /\ IsSequence(a) /\ Len(a) = Len(t) + 1 /\ a[Len(t) + 1] = x
      /\ \A k \in 1 .. Len(t) : a[k] = t[k]
  BY Appended
<1>3. /\ IsSequence(c) /\ Len(c) = Len(s) + Len(t)
      /\ \A k \in 1 .. Len(s) : c[k] = s[k]
      /\ \A k \in 1 .. Len(t) : c[Len(s) + k] = t[k]
  BY Concatenated
<1> HIDE DEF a, c
<1>4. /\ IsSequence(left) /\ Len(left) = Len(s) + (Len(t) + 1)
      /\ \A k \in 1 .. Len(s) : left[k] = s[k]
      /\ \A k \in 1 .. (Len(t) + 1) : left[Len(s) + k] = a[k]
  <2>1. Len(left) = Len(s) + Len(a) /\ IsSequence(left) BY <1>2, Concatenated
  <2>2. \A k \in 1 .. Len(s) : left[k] = s[k] BY <1>2, Concatenated
  <2>3. \A k \in 1 .. Len(a) : left[Len(s) + k] = a[k] BY <1>2, Concatenated
  <2> QED BY <1>2, <2>1, <2>2, <2>3
<1>5. /\ IsSequence(right) /\ Len(right) = Len(c) + 1 /\ right[Len(c) + 1] = x
      /\ \A k \in 1 .. Len(c) : right[k] = c[k]
  BY <1>3, Appended
<1> HIDE DEF left, right
<1>6. ASSUME NEW k \in 1 .. Len(left) PROVE left[k] = right[k]
  <2>1. CASE k \in 1 .. Len(s) BY <1>1, <1>3, <1>4, <1>5, <2>1
  <2>2. CASE k \in (Len(s) + 1) .. (Len(s) + Len(t))
    <3>1. k - Len(s) \in 1 .. Len(t) /\ Len(s) + (k - Len(s)) = k BY <1>1, <2>2
    <3>2. left[k] = t[k - Len(s)] BY <1>1, <1>2, <1>4, <3>1
    <3>3. right[k] = c[k] BY <1>1, <1>3, <1>5, <2>2
    <3>4. c[k] = t[k - Len(s)] BY <1>3, <3>1
    <3> QED BY <3>2, <3>3, <3>4
  <2>3. CASE k = Len(s) + (Len(t) + 1)
    <3>1. left[k] = x BY <1>1, <1>2, <1>4, <2>3
    <3>2. right[k] = x BY <1>1, <1>3, <1>5, <2>3
    <3> QED BY <3>1, <3>2
  <2> QED BY <1>1, <1>4, <2>1, <2>2, <2>3
<1>7. Len(left) = Len(right) BY <1>1, <1>3, <1>4, <1>5
<1>8. left = right BY <1>4, <1>5, <1>6, <1>7, SameElements
<1> QED BY <1>8 DEF left, right, a, c

LEMMA Associative ==
  ASSUME NEW s, IsSequence(s), NEW t, IsSequence(t), NEW u, IsSequence(u)
  PROVE  (s \o t) \o u = s \o (t \o u)
<1> DEFINE S == Range(s) \cup Range(t) \cup Range(u)
<1>1. /\ s \in [1 .. Len(s) -> Range(s)] /\ Len(s) \in Nat
      /\ t \in [1 .. Len(t) -> Range(t)] /\ Len(t) \in Nat
      /\ u \in [1 .. Len(u) -> Range(u)] /\ Len(u) \in Nat
  BY DEF IsSequence
<1>2. s \in Seq(S) /\ t \in Seq(S) /\ u \in Seq(S) BY <1>1
<1> HIDE DEF S
<1> QED BY <1>2

\* What is sent moves from the one sequence to the other.
LEMMA Sent1 ==
  ASSUME NEW s, IsSequence(s), NEW t, IsSequence(t), t # <<>>
  PROVE  Append(s, Head(t)) \o Tail(t) = s \o t /\ IsSequence(Tail(t))
<1> DEFINE S == Range(s) \cup Range(t)
<1>1. /\ s \in [1 .. Len(s) -> Range(s)] /\ Len(s) \in Nat
      /\ t \in [1 .. Len(t) -> Range(t)] /\ Len(t) \in Nat
  BY DEF IsSequence
<1>2. s \in Seq(S) /\ t \in Seq(S) BY <1>1
<1> HIDE DEF S
<1>3. Tail(t) \in Seq(S) /\ Head(t) \in S BY <1>2
<1>4. Append(s, Head(t)) \o Tail(t) = s \o t BY <1>2, <1>3
<1> QED BY <1>3, <1>4, OfSet
-----------------------------------------------------------------------------
(* What is seen of a sequence of packets                                    *)

\* The view after each packet is made from the one before it.
LEMMA ViewsDefined ==
  ASSUME NEW packets, Len(packets) \in Nat
  PROVE  \E f : /\ f = [k \in 0 .. Len(packets) |->
                         IF k = 0 THEN Unseen ELSE See(f[k - 1], packets[k])]
               /\ Views(packets) = f
<1> DEFINE Is(f, n) == f = [k \in 0 .. n |-> IF k = 0 THEN Unseen ELSE See(f[k - 1], packets[k])]
           T == {n \in Nat : \E f : Is(f, n)}
           after == CHOOSE f : f = [k \in 0 .. Len(packets) |->
                                     IF k = 0 THEN Unseen ELSE See(f[k - 1], packets[k])]
<1>1. 0 \in T
  <2> DEFINE g == [k \in 0 .. 0 |-> Unseen]
  <2>1. Is(g, 0) OBVIOUS
  <2> HIDE DEF g
  <2> QED BY <2>1
<1>2. ASSUME NEW n \in 1 .. Len(packets), n - 1 \in T PROVE n \in T
  <2>1. n \in Nat /\ n - 1 \in Nat OBVIOUS
  <2>2. PICK f : Is(f, n - 1) BY <1>2
  <2> DEFINE g == [k \in 0 .. n |-> IF k = n THEN See(f[n - 1], packets[n]) ELSE f[k]]
             h == [k \in 0 .. n |-> IF k = 0 THEN Unseen ELSE See(g[k - 1], packets[k])]
  <2>3. f[0] = Unseen /\ \A k \in 1 .. (n - 1) : f[k] = See(f[k - 1], packets[k])
    BY <2>1, <2>2
  <2>4. /\ g[n] = See(f[n - 1], packets[n])
        /\ \A k \in 0 .. (n - 1) : g[k] = f[k]
    BY <2>1
  <2>5. ASSUME NEW k \in 0 .. n PROVE g[k] = h[k]
    <3>1. h[k] = IF k = 0 THEN Unseen ELSE See(g[k - 1], packets[k]) OBVIOUS
    <3> HIDE DEF g, h
    <3>2. CASE k = 0 BY <2>1, <2>3, <2>4, <3>1, <3>2
    <3>3. CASE k = n /\ k # 0
      <4>1. g[k - 1] = f[k - 1] BY <2>1, <2>4, <3>3
      <4> QED BY <2>4, <3>1, <3>3, <4>1
    <3>4. CASE k \in 1 .. (n - 1)
      <4>1. g[k] = f[k] /\ g[k - 1] = f[k - 1] BY <2>1, <2>4, <3>4
      <4>2. k # 0 BY <3>4
      <4> QED BY <2>3, <3>1, <3>4, <4>1, <4>2
    <3> QED BY <2>1, <3>2, <3>3, <3>4
  <2>6. g = h BY <2>5
  <2>7. Is(g, n) BY <2>6
  <2> HIDE DEF g, h, Is
  <2> QED BY <2>1, <2>7
<1>3. \A n \in 0 .. Len(packets) : n \in T
  <2> HIDE DEF T
  <2> QED BY <1>1, <1>2, Climb
<1>4. PICK f : Is(f, Len(packets)) BY <1>3
<1>5. after = [k \in 0 .. Len(packets) |-> IF k = 0 THEN Unseen ELSE See(after[k - 1], packets[k])]
  BY <1>4
<1>6. Views(packets) = after BY DEF Views
<1> HIDE DEF after
<1> QED BY <1>5, <1>6

LEMMA ViewsStep ==
  ASSUME NEW s, IsSequence(s)
  PROVE  /\ Views(s)[0] = Unseen
         /\ \A k \in 1 .. Len(s) : Views(s)[k] = See(Views(s)[k - 1], s[k])
<1>1. Len(s) \in Nat BY Bounds
<1>2. PICK f : /\ f = [k \in 0 .. Len(s) |-> IF k = 0 THEN Unseen ELSE See(f[k - 1], s[k])]
               /\ Views(s) = f
  BY <1>1, ViewsDefined
<1>3. f[0] = Unseen BY <1>1, <1>2
<1>4. \A k \in 1 .. Len(s) : f[k] = See(f[k - 1], s[k]) BY <1>1, <1>2
<1> QED BY <1>2, <1>3, <1>4

\* Two sequences that begin alike are seen alike that far.
LEMMA SameViews ==
  ASSUME NEW s, IsSequence(s), NEW t, IsSequence(t), NEW n \in Nat, n <= Len(s), n <= Len(t),
         \A k \in 1 .. n : s[k] = t[k]
  PROVE  \A k \in 0 .. n : Views(s)[k] = Views(t)[k]
<1> DEFINE T == {k \in Nat : Views(s)[k] = Views(t)[k]}
<1>1. Len(s) \in Nat /\ Len(t) \in Nat BY Bounds
<1>2. 0 \in T BY ViewsStep
<1>3. ASSUME NEW k \in 1 .. n, k - 1 \in T PROVE k \in T
  <2>1. k \in 1 .. Len(s) /\ k \in 1 .. Len(t) /\ s[k] = t[k] /\ k \in Nat BY <1>1
  <2>2. Views(s)[k] = See(Views(s)[k - 1], s[k]) /\ Views(t)[k] = See(Views(t)[k - 1], t[k])
    BY <2>1, ViewsStep
  <2> QED BY <1>3, <2>1, <2>2
<1>4. \A k \in 0 .. n : k \in T
  <2> HIDE DEF T
  <2> QED BY <1>2, <1>3, Climb
<1> QED BY <1>4

\* What is seen at the end
SeenAfter(packets) == Views(packets)[Len(packets)]

LEMMA LastOfNothing == SeenAfter(<<>>) = Unseen
BY Empty, ViewsStep DEF SeenAfter

LEMMA LastAppended ==
  ASSUME NEW s, IsSequence(s), NEW p
  PROVE  /\ SeenAfter(Append(s, p)) = See(SeenAfter(s), p)
         /\ \A k \in 0 .. Len(s) : Views(Append(s, p))[k] = Views(s)[k]
<1> DEFINE t == Append(s, p)
<1>1. Len(s) \in Nat BY Bounds
<1>2. /\ IsSequence(t) /\ Len(t) = Len(s) + 1 /\ t[Len(s) + 1] = p
      /\ \A k \in 1 .. Len(s) : t[k] = s[k]
  BY Appended
<1> HIDE DEF t
<1>3. \A k \in 0 .. Len(s) : Views(t)[k] = Views(s)[k] BY <1>1, <1>2, SameViews
<1>4. Views(t)[Len(t)] = See(Views(t)[Len(t) - 1], t[Len(t)])
  <2>1. Len(t) \in 1 .. Len(t) BY <1>1, <1>2
  <2> QED BY <1>2, <2>1, ViewsStep
<1>5. Len(t) - 1 = Len(s) BY <1>1, <1>2
<1>6. SeenAfter(t) = See(SeenAfter(s), p) BY <1>1, <1>2, <1>3, <1>4, <1>5 DEF SeenAfter
<1> QED BY <1>3, <1>6 DEF t

\* The fields of what is seen
ViewParts == {"stage", "open", "used", "filled"}

LEMMA SeeParts ==
  ASSUME NEW v, DOMAIN v = ViewParts, NEW p
  PROVE  DOMAIN See(v, p) = ViewParts
BY DEF See, Unseen, ViewParts

LEMMA ViewHasParts ==
  ASSUME NEW s, IsSequence(s)
  PROVE  \A k \in 0 .. Len(s) : DOMAIN Views(s)[k] = ViewParts
<1> DEFINE T == {k \in Nat : DOMAIN Views(s)[k] = ViewParts}
<1>1. Len(s) \in Nat BY Bounds
<1>2. 0 \in T
  <2>1. DOMAIN Unseen = ViewParts BY DEF Unseen, ViewParts
  <2> QED BY <2>1, ViewsStep
<1>3. ASSUME NEW k \in 1 .. Len(s), k - 1 \in T PROVE k \in T
  <2>1. Views(s)[k] = See(Views(s)[k - 1], s[k]) BY ViewsStep
  <2>2. DOMAIN Views(s)[k] = ViewParts BY <1>3, <2>1, SeeParts
  <2> QED BY <2>2
<1>4. \A k \in 0 .. Len(s) : k \in T
  <2> HIDE DEF T
  <2> QED BY <1>1, <1>2, <1>3, Climb
<1> QED BY <1>4

-----------------------------------------------------------------------------
(* Steps of the abstract message                                            *)

BlockSet == 1 .. (2 * MaxChunks + Cardinality(ToolIndexes))

\* After the view v the packet p is one that MessageStream allows.
Allowed(v, p) ==
  \/ p.kind = "attempt" /\ v.stage = "before"
  \/ p.kind = "message_start" /\ v.stage = "before"
  \/ /\ p.kind = "block_start" /\ v.stage \in {"before", "message"}
     /\ p.block \in BlockSet /\ p.block \notin v.used
  \/ p.kind = "delta" /\ p.block \in BlockSet /\ p.block \in v.open
  \/ /\ p.kind = "block_stop" /\ v.stage = "message"
     /\ p.block \in BlockSet /\ p.block \in v.open
  \/ p.kind = "message_delta" /\ v.stage = "message" /\ v.open = {}
  \/ p.kind = "message_stop" /\ v.stage = "summed"
  \/ p.kind = "error" /\ v.stage \in {"before", "message"}

\* An allowed packet is a step of the abstract message.
LEMMA AllowedStep ==
  ASSUME NEW p, Allowed(Seen, p), DOMAIN Seen = ViewParts, Seen' = See(Seen, p)
  PROVE  Promise!Next
<1>1. CASE p.kind = "attempt" /\ Seen.stage = "before"
  <2>1. Promise!Restart BY <1>1 DEF Promise!Restart, See, Unseen
  <2> QED BY <2>1 DEF Promise!Next
<1>2. CASE p.kind = "message_start" /\ Seen.stage = "before"
  <2>1. Promise!Start BY <1>2 DEF Promise!Start, See, ViewParts
  <2> QED BY <2>1 DEF Promise!Next
<1>3. CASE /\ p.kind = "block_start" /\ Seen.stage \in {"before", "message"}
           /\ p.block \in BlockSet /\ p.block \notin Seen.used
  <2>1. Promise!OpenBlock(p.block) BY <1>3 DEF Promise!OpenBlock, See, ViewParts
  <2> QED BY <1>3, <2>1 DEF Promise!Next, BlockSet
<1>4. CASE p.kind = "delta" /\ p.block \in BlockSet /\ p.block \in Seen.open
  <2>1. Promise!FillBlock(p.block) BY <1>4 DEF Promise!FillBlock, See, ViewParts
  <2> QED BY <1>4, <2>1 DEF Promise!Next, BlockSet
<1>5. CASE /\ p.kind = "block_stop" /\ Seen.stage = "message"
           /\ p.block \in BlockSet /\ p.block \in Seen.open
  <2>1. Promise!CloseBlock(p.block) BY <1>5 DEF Promise!CloseBlock, See, ViewParts
  <2> QED BY <1>5, <2>1 DEF Promise!Next, BlockSet
<1>6. CASE p.kind = "message_delta" /\ Seen.stage = "message" /\ Seen.open = {}
  <2>1. Promise!Sum BY <1>6 DEF Promise!Sum, See, ViewParts
  <2> QED BY <2>1 DEF Promise!Next
<1>7. CASE p.kind = "message_stop" /\ Seen.stage = "summed"
  <2>1. Promise!Complete BY <1>7 DEF Promise!Complete, See, ViewParts
  <2> QED BY <2>1 DEF Promise!Next
<1>8. CASE p.kind = "error" /\ Seen.stage \in {"before", "message"}
  <2>1. Promise!Fail BY <1>8 DEF Promise!Fail, See, ViewParts
  <2> QED BY <2>1 DEF Promise!Next
<1> QED BY <1>1, <1>2, <1>3, <1>4, <1>5, <1>6, <1>7, <1>8 DEF Allowed

\* Each packet is allowed after the ones before it.
Legal(s) == \A k \in 1 .. Len(s) : Allowed(Views(s)[k - 1], s[k])

LEMMA LegalNothing == Legal(<<>>)
<1>1. 1 .. Len(<<>>) = {} BY Empty
<1> QED BY <1>1 DEF Legal

LEMMA LegalAppended ==
  ASSUME NEW s, IsSequence(s), Legal(s), NEW p, Allowed(SeenAfter(s), p)
  PROVE  Legal(Append(s, p))
<1> DEFINE t == Append(s, p)
<1>1. Len(s) \in Nat BY Bounds
<1>2. /\ IsSequence(t) /\ Len(t) = Len(s) + 1 /\ t[Len(s) + 1] = p
      /\ \A k \in 1 .. Len(s) : t[k] = s[k]
  BY Appended
<1>3. \A k \in 0 .. Len(s) : Views(t)[k] = Views(s)[k] BY LastAppended
<1> HIDE DEF t
<1>4. ASSUME NEW k \in 1 .. Len(t) PROVE Allowed(Views(t)[k - 1], t[k])
  <2>1. CASE k \in 1 .. Len(s)
    <3>1. Views(t)[k - 1] = Views(s)[k - 1] /\ t[k] = s[k] BY <1>1, <1>2, <1>3, <2>1
    <3>2. Allowed(Views(s)[k - 1], s[k]) BY <2>1 DEF Legal
    <3> QED BY <3>1, <3>2
  <2>2. CASE k = Len(s) + 1
    <3>1. Views(t)[k - 1] = SeenAfter(s) /\ t[k] = p BY <1>1, <1>2, <1>3, <2>2 DEF SeenAfter
    <3> QED BY <3>1
  <2> QED BY <1>1, <1>2, <2>1, <2>2
<1> QED BY <1>4 DEF Legal, t

\* What is legal was legal all along: the beginning, and the packet after it.
LEMMA LegalBefore ==
  ASSUME NEW s, IsSequence(s), NEW t, IsSequence(t), Legal(s \o t)
  PROVE  /\ Legal(s)
         /\ t # <<>> => Allowed(SeenAfter(s), Head(t))
<1> DEFINE c == s \o t
<1>1. Len(s) \in Nat /\ Len(t) \in Nat BY Bounds
<1>2. /\ IsSequence(c) /\ Len(c) = Len(s) + Len(t)
      /\ \A k \in 1 .. Len(s) : c[k] = s[k]
      /\ \A k \in 1 .. Len(t) : c[Len(s) + k] = t[k]
  BY Concatenated
<1>3. \A k \in 1 .. Len(c) : Allowed(Views(c)[k - 1], c[k]) BY DEF Legal
<1> HIDE DEF c
<1>4. \A k \in 0 .. Len(s) : Views(c)[k] = Views(s)[k] BY <1>1, <1>2, SameViews
<1>5. Legal(s)
  <2>1. ASSUME NEW k \in 1 .. Len(s) PROVE Allowed(Views(s)[k - 1], s[k])
    <3>1. k \in 1 .. Len(c) /\ k - 1 \in 0 .. Len(s) BY <1>1, <1>2
    <3>2. Views(c)[k - 1] = Views(s)[k - 1] /\ c[k] = s[k] BY <1>2, <1>4, <3>1
    <3> QED BY <1>3, <3>1, <3>2
  <2> QED BY <2>1 DEF Legal
<1>6. ASSUME t # <<>> PROVE Allowed(SeenAfter(s), Head(t))
  <2>1. Len(t) # 0 BY <1>6, Bounds
  <2>2. Len(s) + 1 \in 1 .. Len(c) /\ 1 \in 1 .. Len(t) BY <1>1, <1>2, <2>1
  <2>3. c[Len(s) + 1] = t[1] BY <1>2, <2>2
  <2>4. Views(c)[(Len(s) + 1) - 1] = SeenAfter(s) BY <1>1, <1>4 DEF SeenAfter
  <2>5. Head(t) = t[1] OBVIOUS
  <2> QED BY <1>3, <2>2, <2>3, <2>4, <2>5
<1> QED BY <1>5, <1>6

-----------------------------------------------------------------------------
(* The Anthropic writer: what it writes is legal, and its own record of the *)
(* open blocks is what the client will see.                                 *)

WriterParts == DOMAIN FreshWriter

\* The tools whose blocks were opened
Opened(w) == {i \in ToolIndexes : w.tools[i] # 0}

\* The writer and the view of its client agree; m blocks of text and thoughts
\* at most have been opened.
Matches(w, v, m) ==
  /\ w.started \in BOOLEAN /\ w.meant = w.started
  /\ w.failed = FALSE /\ w.refused = FALSE
  /\ w.next \in Nat \ {0}
  /\ w.text \in 0 .. (w.next - 1) /\ w.thinking \in 0 .. (w.next - 1)
  /\ w.tools \in [ToolIndexes -> 0 .. (w.next - 1)]
  /\ w.text # 0 => w.started /\ w.text # w.thinking /\ w.text \notin ToolBlocks(w)
  /\ w.thinking # 0 => w.thinking \notin ToolBlocks(w)
  /\ w.next <= 1 + m + Cardinality(Opened(w))
  /\ v.stage = IF w.started THEN "message" ELSE "before"
  /\ v.used = 1 .. (w.next - 1)
  /\ v.open = {b \in 1 .. (w.next - 1) : b = w.text \/ b = w.thinking \/ b \in ToolBlocks(w)}

\* t is what was yielded before the writer's packets.
Writes(t, w, m) ==
  /\ DOMAIN w = WriterParts /\ IsSequence(w.out)
  /\ Legal(t \o w.out)
  /\ Matches(w, SeenAfter(t \o w.out), m)

\* A packet more: the writer changes in nothing but out and any.
LEMMA Emitted ==
  ASSUME NEW t, IsSequence(t), NEW w, DOMAIN w = WriterParts, IsSequence(w.out), Legal(t \o w.out),
         NEW p, Allowed(SeenAfter(t \o w.out), p)
  PROVE  LET e == Emit(w, p)
         IN  /\ DOMAIN e = WriterParts /\ e.out = Append(w.out, p)
             /\ \A f \in WriterParts \ {"out", "any"} : e[f] = w[f]
             /\ IsSequence(e.out) /\ Legal(t \o e.out)
             /\ SeenAfter(t \o e.out) = See(SeenAfter(t \o w.out), p)
<1> DEFINE e == Emit(w, p)
<1>1. DOMAIN e = WriterParts /\ \A f \in WriterParts \ {"out", "any"} : e[f] = w[f]
  BY DEF Emit
<1>2. e.out = Append(w.out, p) BY DEF Emit, WriterParts, FreshWriter
<1>3. IsSequence(Append(w.out, p)) BY Appended
<1>4. t \o Append(w.out, p) = Append(t \o w.out, p) BY AppendAside
<1>5. IsSequence(t \o w.out) BY Concatenated
<1>6. Legal(Append(t \o w.out, p)) BY <1>5, LegalAppended
<1>7. SeenAfter(Append(t \o w.out, p)) = See(SeenAfter(t \o w.out), p) BY <1>5, LastAppended
<1> QED BY <1>1, <1>2, <1>3, <1>4, <1>6, <1>7

LEMMA ViewParted ==
  ASSUME NEW t, IsSequence(t), NEW w, IsSequence(w.out)
  PROVE  DOMAIN SeenAfter(t \o w.out) = ViewParts
<1>1. IsSequence(t \o w.out) BY Concatenated
<1>2. Len(t \o w.out) \in 0 .. Len(t \o w.out) BY <1>1, Bounds
<1> QED BY <1>1, <1>2, ViewHasParts DEF SeenAfter

LEMMA OpenedBounds ==
  ASSUME NEW w
  PROVE  /\ Cardinality(ToolIndexes) \in Nat /\ Cardinality(Opened(w)) \in Nat
         /\ Cardinality(Opened(w)) <= Cardinality(ToolIndexes)
         /\ \A i \in ToolIndexes :
               w.tools[i] = 0 => Cardinality(Opened(w)) < Cardinality(ToolIndexes)
<1>1. IsFiniteSet(ToolIndexes) BY StreamAssumption
<1>2. Opened(w) \subseteq ToolIndexes BY DEF Opened
<1>3. /\ IsFiniteSet(Opened(w)) /\ Cardinality(Opened(w)) <= Cardinality(ToolIndexes)
      /\ Cardinality(Opened(w)) = Cardinality(ToolIndexes) => Opened(w) = ToolIndexes
  BY <1>1, <1>2, FS_Subset
<1>4. Cardinality(ToolIndexes) \in Nat /\ Cardinality(Opened(w)) \in Nat
  BY <1>1, <1>3, FS_CardinalityType
<1>5. ASSUME NEW i \in ToolIndexes, w.tools[i] = 0
      PROVE  Cardinality(Opened(w)) < Cardinality(ToolIndexes)
  <2>1. Opened(w) # ToolIndexes BY <1>5 DEF Opened
  <2> QED BY <1>3, <1>4, <2>1
<1> QED BY <1>3, <1>4, <1>5

\* A block that is open or is opened next has a number of the abstract message.
LEMMA InBlockSet ==
  ASSUME NEW t, NEW w, NEW m \in Nat, Writes(t, w, m), m <= 2 * MaxChunks
  PROVE  /\ 1 .. (w.next - 1) \subseteq BlockSet
         /\ m < 2 * MaxChunks => w.next \in BlockSet
         /\ \A i \in ToolIndexes : w.tools[i] = 0 => w.next \in BlockSet
<1>1. w.next \in Nat \ {0} /\ w.next <= 1 + m + Cardinality(Opened(w)) BY DEF Writes, Matches
<1>2. MaxChunks \in Nat BY StreamAssumption
<1>3. /\ Cardinality(ToolIndexes) \in Nat /\ Cardinality(Opened(w)) \in Nat
      /\ Cardinality(Opened(w)) <= Cardinality(ToolIndexes)
      /\ \A i \in ToolIndexes : w.tools[i] = 0 => Cardinality(Opened(w)) < Cardinality(ToolIndexes)
  BY OpenedBounds
<1> DEFINE c == Cardinality(ToolIndexes)
           o == Cardinality(Opened(w))
           x == 2 * MaxChunks
<1>4. x \in Nat BY <1>2
<1> HIDE DEF c, o, x
<1>5. 1 .. (w.next - 1) \subseteq 1 .. (x + c) BY <1>1, <1>3, <1>4 DEF c, o, x
<1>6. m < x => w.next \in 1 .. (x + c) BY <1>1, <1>3, <1>4 DEF c, o
<1>7. \A i \in ToolIndexes : w.tools[i] = 0 => w.next \in 1 .. (x + c)
  BY <1>1, <1>3, <1>4 DEF c, o, x
<1> QED BY <1>5, <1>6, <1>7 DEF BlockSet, c, x

\* Closing the block of text or of thoughts writes what the message allows.
LEMMA TextCloses ==
  ASSUME NEW t, IsSequence(t), NEW w, NEW m \in Nat, Writes(t, w, m), m <= 2 * MaxChunks
  PROVE  LET c == CloseText(w)
         IN  /\ Writes(t, c, m) /\ c.text = 0 /\ c.thinking = w.thinking /\ c.started = w.started
             /\ c.tools = w.tools /\ c.next = w.next
<1> DEFINE v == SeenAfter(t \o w.out)
           p == Packet("block_stop", w.text, <<>>)
           e == Emit(w, p)
           c == [e EXCEPT !.text = 0]
<1>1. CASE w.text = 0 BY <1>1 DEF CloseText
<1>2. CASE w.text # 0
  <2>1. DOMAIN v = ViewParts BY ViewParted DEF Writes
  <2>2. w.text \in 1 .. (w.next - 1) /\ w.next \in Nat BY <1>2 DEF Writes, Matches
  <2>3. w.text \in BlockSet BY <2>2, InBlockSet
  <2>4. v.stage = "message" /\ w.text \in v.open BY <1>2, <2>2 DEF Writes, Matches
  <2>5. Allowed(v, p) BY <2>3, <2>4 DEF Allowed, Packet
  <2>6. /\ DOMAIN e = WriterParts /\ e.out = Append(w.out, p)
        /\ \A f \in WriterParts \ {"out", "any"} : e[f] = w[f]
        /\ IsSequence(e.out) /\ Legal(t \o e.out)
        /\ SeenAfter(t \o e.out) = See(v, p)
    BY <2>5, Emitted DEF Writes
  <2> HIDE DEF e, v
  <2>7. DOMAIN c = WriterParts /\ c.out = e.out /\ c.text = 0
        /\ \A f \in WriterParts \ {"out", "any", "text"} : c[f] = w[f]
    BY <2>6 DEF WriterParts, FreshWriter
  <2>8. /\ c.started = w.started /\ c.meant = w.meant /\ c.failed = w.failed
        /\ c.refused = w.refused
        /\ c.next = w.next /\ c.thinking = w.thinking /\ c.tools = w.tools
    BY <2>7 DEF WriterParts, FreshWriter
  <2> HIDE DEF c
  <2>9. See(v, p) = [v EXCEPT !.open = @ \ {w.text}, !.filled = IF @ = w.text THEN 0 ELSE @]
    BY DEF See, p, Packet
  <2>10. /\ See(v, p).stage = v.stage /\ See(v, p).used = v.used
         /\ See(v, p).open = v.open \ {w.text}
    BY <2>1, <2>9 DEF ViewParts
  <2>11. Matches(w, v, m) BY DEF Writes, v
  <2>12. ToolBlocks(c) = ToolBlocks(w) /\ Opened(c) = Opened(w) BY <2>8 DEF ToolBlocks, Opened
  <2>13. Matches(c, See(v, p), m)
    BY <1>2, <2>2, <2>7, <2>8, <2>10, <2>11, <2>12 DEF Matches
  <2>14. Writes(t, c, m) BY <2>6, <2>7, <2>13 DEF Writes
  <2>15. CloseText(w) = c BY <1>2 DEF CloseText, c, e
  <2> QED BY <2>7, <2>8, <2>14, <2>15
<1> QED BY <1>1, <1>2

LEMMA MoreBlocks ==
  ASSUME NEW t, NEW w, NEW m \in Nat, Writes(t, w, m)
  PROVE  Writes(t, w, m + 1)
<1>1. Cardinality(Opened(w)) \in Nat BY OpenedBounds
<1>2. w.next \in Nat /\ w.next <= 1 + m + Cardinality(Opened(w)) BY DEF Writes, Matches
<1>3. w.next <= 1 + (m + 1) + Cardinality(Opened(w)) BY <1>1, <1>2
<1> QED BY <1>3 DEF Writes, Matches

LEMMA ThinkingCloses ==
  ASSUME NEW t, IsSequence(t), NEW w, NEW m \in Nat, Writes(t, w, m), m <= 2 * MaxChunks,
         w.started
  PROVE  LET c == CloseThinking(w)
         IN  /\ Writes(t, c, m) /\ c.thinking = 0 /\ c.text = w.text /\ c.started = w.started
             /\ c.tools = w.tools /\ c.next = w.next
<1> DEFINE v == SeenAfter(t \o w.out)
           p == Packet("block_stop", w.thinking, <<>>)
           e == Emit(w, p)
           c == [e EXCEPT !.thinking = 0]
<1>0. w.next \in Nat \ {0} /\ Matches(w, v, m) BY DEF Writes, Matches
<1>1. CASE w.thinking = 0
  <2>1. CloseThinking(w) = w BY <1>1 DEF CloseThinking
  <2> QED BY <1>0, <1>1, <2>1, MoreBlocks DEF Matches
<1>2. CASE ~(w.thinking = 0)
  <2>1. DOMAIN v = ViewParts BY ViewParted DEF Writes
  <2>2. w.thinking \in 1 .. (w.next - 1) /\ w.next \in Nat BY <1>0, <1>2 DEF Matches
  <2>3. w.thinking \in BlockSet BY <2>2, InBlockSet
  <2>4. v.stage = "message" /\ w.thinking \in v.open BY <1>0, <1>2, <2>2 DEF Matches
  <2>5. Allowed(v, p) BY <2>3, <2>4 DEF Allowed, Packet
  <2>6. /\ DOMAIN e = WriterParts /\ e.out = Append(w.out, p)
        /\ \A f \in WriterParts \ {"out", "any"} : e[f] = w[f]
        /\ IsSequence(e.out) /\ Legal(t \o e.out)
        /\ SeenAfter(t \o e.out) = See(v, p)
    BY <2>5, Emitted DEF Writes
  <2> HIDE DEF e, v
  <2>7. DOMAIN c = WriterParts /\ c.out = e.out /\ c.thinking = 0
        /\ \A f \in WriterParts \ {"out", "any", "thinking"} : c[f] = w[f]
    BY <2>6 DEF WriterParts, FreshWriter
  <2>8. /\ c.started = w.started
        /\ c.meant = w.meant
        /\ c.failed = w.failed
        /\ c.refused = w.refused
        /\ c.next = w.next
        /\ c.text = w.text
        /\ c.tools = w.tools
    BY <2>7 DEF WriterParts, FreshWriter
  <2> HIDE DEF c
  <2>9. See(v, p) = [v EXCEPT !.open = @ \ {w.thinking}, !.filled = IF @ = w.thinking THEN 0 ELSE @]
    BY DEF See, p, Packet
  <2>10. /\ See(v, p).stage = v.stage /\ See(v, p).used = v.used
         /\ See(v, p).open = v.open \ {w.thinking}
    BY <2>1, <2>9 DEF ViewParts
  <2>12. ToolBlocks(c) = ToolBlocks(w) /\ Opened(c) = Opened(w) BY <2>8 DEF ToolBlocks, Opened
  <2>13. Matches(c, See(v, p), m)
    BY <1>0, <1>2, <2>2, <2>7, <2>8, <2>10, <2>12 DEF Matches
  <2>14. Writes(t, c, m) BY <2>6, <2>7, <2>13 DEF Writes
  <2>15. CloseThinking(w) = c BY <1>2 DEF CloseThinking, c, e, p
  <2> QED BY <1>0, <2>7, <2>8, <2>14, <2>15 DEF Matches
<1> QED BY <1>1, <1>2

\* Opening such a block takes the next number, and leaves at most one more.
LEMMA TextOpens ==
  ASSUME NEW t, IsSequence(t), NEW w, NEW m \in Nat, Writes(t, w, m), m < 2 * MaxChunks,
         w.started
  PROVE  LET c == OpenText(w)
         IN  /\ Writes(t, c, m + 1) /\ c.text # 0 /\ c.thinking = w.thinking
             /\ c.started = w.started
<1> DEFINE v == SeenAfter(t \o w.out)
           p == Packet("block_start", w.next, <<"text">>)
           e == Emit(w, p)
           c == [e EXCEPT !.text = w.next, !.next = @ + 1]
<1>0. w.next \in Nat \ {0} /\ Matches(w, v, m) BY DEF Writes, Matches
<1>1. CASE w.text # 0
  <2>1. OpenText(w) = w BY <1>1 DEF OpenText
  <2> QED BY <1>0, <1>1, <2>1, MoreBlocks DEF Matches
<1>2. CASE ~(w.text # 0)
  <2>1. DOMAIN v = ViewParts BY ViewParted DEF Writes
  <2>2. m <= 2 * MaxChunks BY StreamAssumption
  <2>3. w.next \in BlockSet BY <2>2, InBlockSet
  <2>4. v.stage \in {"before", "message"} /\ w.next \notin v.used BY <1>0 DEF Matches
  <2>5. Allowed(v, p) BY <2>3, <2>4 DEF Allowed, Packet
  <2>6. /\ DOMAIN e = WriterParts /\ e.out = Append(w.out, p)
        /\ \A f \in WriterParts \ {"out", "any"} : e[f] = w[f]
        /\ IsSequence(e.out) /\ Legal(t \o e.out)
        /\ SeenAfter(t \o e.out) = See(v, p)
    BY <2>5, Emitted DEF Writes
  <2> HIDE DEF e, v
  <2>7. DOMAIN c = WriterParts /\ c.out = e.out /\ c.text = w.next /\ c.next = w.next + 1
        /\ \A f \in WriterParts \ {"out", "any", "text", "next"} : c[f] = w[f]
    BY <2>6 DEF WriterParts, FreshWriter
  <2>8. /\ c.started = w.started
        /\ c.meant = w.meant
        /\ c.failed = w.failed
        /\ c.refused = w.refused
        /\ c.thinking = w.thinking
        /\ c.tools = w.tools
    BY <2>7 DEF WriterParts, FreshWriter
  <2> HIDE DEF c
  <2>9. See(v, p) = [v EXCEPT !.open = @ \cup {w.next}, !.used = @ \cup {w.next}]
    BY DEF See, p, Packet
  <2>10. /\ See(v, p).stage = v.stage /\ See(v, p).used = v.used \cup {w.next}
         /\ See(v, p).open = v.open \cup {w.next}
    BY <2>1, <2>9 DEF ViewParts
  <2>12. ToolBlocks(c) = ToolBlocks(w) /\ Opened(c) = Opened(w) BY <2>8 DEF ToolBlocks, Opened
  <2>13. Matches(c, See(v, p), m + 1)
    <3>1. ToolBlocks(w) \subseteq 1 .. (w.next - 1) BY <1>0 DEF Matches, ToolBlocks
    <3>2. Cardinality(Opened(w)) \in Nat BY OpenedBounds
    <3>3. c.next \in Nat \ {0} /\ c.next - 1 = w.next BY <1>0, <2>7
    <3>4. c.next <= 1 + (m + 1) + Cardinality(Opened(c)) BY <1>0, <2>7, <2>12, <3>2 DEF Matches
    <3>5. /\ c.text \in 0 .. (c.next - 1) /\ c.thinking \in 0 .. (c.next - 1)
          /\ c.tools \in [ToolIndexes -> 0 .. (c.next - 1)]
      BY <1>0, <2>7, <2>8, <3>3 DEF Matches
    <3>6. See(v, p).used = 1 .. (c.next - 1)
      <4>1. See(v, p).used = (1 .. (w.next - 1)) \cup {w.next} BY <1>0, <2>10 DEF Matches
      <4>2. (1 .. (w.next - 1)) \cup {w.next} = 1 .. w.next BY <1>0
      <4> QED BY <3>3, <4>1, <4>2
    <3>7. See(v, p).open = {b \in 1 .. (c.next - 1) :
                               b = c.text \/ b = c.thinking \/ b \in ToolBlocks(c)}
      BY <1>0, <1>2, <2>7, <2>8, <2>10, <2>12, <3>1, <3>3 DEF Matches
    <3>8. /\ c.text # 0 => c.started /\ c.text # c.thinking /\ c.text \notin ToolBlocks(c)
          /\ c.thinking # 0 => c.thinking \notin ToolBlocks(c)
      BY <1>0, <1>2, <2>7, <2>8, <2>12, <3>1 DEF Matches
    <3> QED BY <1>0, <2>8, <2>10, <3>3, <3>4, <3>5, <3>6, <3>7, <3>8 DEF Matches
  <2>14. Writes(t, c, m + 1) BY <2>6, <2>7, <2>13 DEF Writes
  <2>15. OpenText(w) = c BY <1>2 DEF OpenText, c, e, p
  <2> QED BY <1>0, <2>7, <2>8, <2>14, <2>15 DEF Matches
<1> QED BY <1>1, <1>2

LEMMA ThinkingOpens ==
  ASSUME NEW t, IsSequence(t), NEW w, NEW m \in Nat, Writes(t, w, m), m < 2 * MaxChunks
  PROVE  LET c == OpenThinking(w)
         IN  /\ Writes(t, c, m + 1) /\ c.thinking # 0 /\ c.text = w.text /\ c.started = w.started
<1> DEFINE v == SeenAfter(t \o w.out)
           p == Packet("block_start", w.next, <<"thinking">>)
           e == Emit(w, p)
           c == [e EXCEPT !.thinking = w.next, !.next = @ + 1]
<1>0. w.next \in Nat \ {0} /\ Matches(w, v, m) BY DEF Writes, Matches
<1>1. CASE w.thinking # 0
  <2>1. OpenThinking(w) = w BY <1>1 DEF OpenThinking
  <2> QED BY <1>0, <1>1, <2>1, MoreBlocks DEF Matches
<1>2. CASE ~(w.thinking # 0)
  <2>1. DOMAIN v = ViewParts BY ViewParted DEF Writes
  <2>2. m <= 2 * MaxChunks BY StreamAssumption
  <2>3. w.next \in BlockSet BY <2>2, InBlockSet
  <2>4. v.stage \in {"before", "message"} /\ w.next \notin v.used BY <1>0 DEF Matches
  <2>5. Allowed(v, p) BY <2>3, <2>4 DEF Allowed, Packet
  <2>6. /\ DOMAIN e = WriterParts /\ e.out = Append(w.out, p)
        /\ \A f \in WriterParts \ {"out", "any"} : e[f] = w[f]
        /\ IsSequence(e.out) /\ Legal(t \o e.out)
        /\ SeenAfter(t \o e.out) = See(v, p)
    BY <2>5, Emitted DEF Writes
  <2> HIDE DEF e, v
  <2>7. DOMAIN c = WriterParts /\ c.out = e.out /\ c.thinking = w.next /\ c.next = w.next + 1
        /\ \A f \in WriterParts \ {"out", "any", "thinking", "next"} : c[f] = w[f]
    BY <2>6 DEF WriterParts, FreshWriter
  <2>8. /\ c.started = w.started
        /\ c.meant = w.meant
        /\ c.failed = w.failed
        /\ c.refused = w.refused
        /\ c.text = w.text
        /\ c.tools = w.tools
    BY <2>7 DEF WriterParts, FreshWriter
  <2> HIDE DEF c
  <2>9. See(v, p) = [v EXCEPT !.open = @ \cup {w.next}, !.used = @ \cup {w.next}]
    BY DEF See, p, Packet
  <2>10. /\ See(v, p).stage = v.stage /\ See(v, p).used = v.used \cup {w.next}
         /\ See(v, p).open = v.open \cup {w.next}
    BY <2>1, <2>9 DEF ViewParts
  <2>12. ToolBlocks(c) = ToolBlocks(w) /\ Opened(c) = Opened(w) BY <2>8 DEF ToolBlocks, Opened
  <2>13. Matches(c, See(v, p), m + 1)
    <3>1. ToolBlocks(w) \subseteq 1 .. (w.next - 1) BY <1>0 DEF Matches, ToolBlocks
    <3>2. Cardinality(Opened(w)) \in Nat BY OpenedBounds
    <3>3. c.next \in Nat \ {0} /\ c.next - 1 = w.next BY <1>0, <2>7
    <3>4. c.next <= 1 + (m + 1) + Cardinality(Opened(c)) BY <1>0, <2>7, <2>12, <3>2 DEF Matches
    <3>5. /\ c.text \in 0 .. (c.next - 1) /\ c.thinking \in 0 .. (c.next - 1)
          /\ c.tools \in [ToolIndexes -> 0 .. (c.next - 1)]
      BY <1>0, <2>7, <2>8, <3>3 DEF Matches
    <3>6. See(v, p).used = 1 .. (c.next - 1)
      <4>1. See(v, p).used = (1 .. (w.next - 1)) \cup {w.next} BY <1>0, <2>10 DEF Matches
      <4>2. (1 .. (w.next - 1)) \cup {w.next} = 1 .. w.next BY <1>0
      <4> QED BY <3>3, <4>1, <4>2
    <3>7. See(v, p).open = {b \in 1 .. (c.next - 1) :
                               b = c.text \/ b = c.thinking \/ b \in ToolBlocks(c)}
      BY <1>0, <1>2, <2>7, <2>8, <2>10, <2>12, <3>1, <3>3 DEF Matches
    <3>8. /\ c.text # 0 => c.started /\ c.text # c.thinking /\ c.text \notin ToolBlocks(c)
          /\ c.thinking # 0 => c.thinking \notin ToolBlocks(c)
      BY <1>0, <1>2, <2>7, <2>8, <2>12, <3>1 DEF Matches
    <3> QED BY <1>0, <2>8, <2>10, <3>3, <3>4, <3>5, <3>6, <3>7, <3>8 DEF Matches
  <2>14. Writes(t, c, m + 1) BY <2>6, <2>7, <2>13 DEF Writes
  <2>15. OpenThinking(w) = c BY <1>2 DEF OpenThinking, c, e, p
  <2> QED BY <1>0, <2>7, <2>8, <2>14, <2>15 DEF Matches
<1> QED BY <1>1, <1>2

\* A delta is written to a block that is open.
LEMMA TextFills ==
  ASSUME NEW t, IsSequence(t), NEW w, NEW m \in Nat, Writes(t, w, m), m <= 2 * MaxChunks,
         NEW s, w.text # 0
  PROVE  LET c == FillText(w, s)
         IN  Writes(t, c, m) /\ c.started = w.started
<1> DEFINE v == SeenAfter(t \o w.out)
           p == Packet("delta", w.text, s)
           e == Emit(w, p)
           c == [e EXCEPT !.said = @ \o s]
<1>0. w.next \in Nat \ {0} /\ Matches(w, v, m) BY DEF Writes, Matches
<1>2. Writes(t, c, m) /\ c.started = w.started /\ FillText(w, s) = c
  <2>1. DOMAIN v = ViewParts BY ViewParted DEF Writes
  <2>2. w.text \in 1 .. (w.next - 1) /\ w.next \in Nat BY <1>0 DEF Matches
  <2>3. w.text \in BlockSet BY <2>2, InBlockSet
  <2>4. w.text \in v.open BY <1>0, <2>2 DEF Matches
  <2>5. Allowed(v, p) BY <2>3, <2>4 DEF Allowed, Packet
  <2>6. /\ DOMAIN e = WriterParts /\ e.out = Append(w.out, p)
        /\ \A f \in WriterParts \ {"out", "any"} : e[f] = w[f]
        /\ IsSequence(e.out) /\ Legal(t \o e.out)
        /\ SeenAfter(t \o e.out) = See(v, p)
    BY <2>5, Emitted DEF Writes
  <2> HIDE DEF e, v
  <2>7. DOMAIN c = WriterParts /\ c.out = e.out /\ c.said = w.said \o s
        /\ \A f \in WriterParts \ {"out", "any", "said"} : c[f] = w[f]
    BY <2>6 DEF WriterParts, FreshWriter
  <2>8. /\ c.started = w.started
        /\ c.meant = w.meant
        /\ c.failed = w.failed
        /\ c.refused = w.refused
        /\ c.next = w.next
        /\ c.text = w.text
        /\ c.thinking = w.thinking
        /\ c.tools = w.tools
    BY <2>7 DEF WriterParts, FreshWriter
  <2> HIDE DEF c
  <2>9. See(v, p) = [v EXCEPT !.filled = w.text]
    BY DEF See, p, Packet
  <2>10. See(v, p).stage = v.stage /\ See(v, p).used = v.used /\ See(v, p).open = v.open
    BY <2>1, <2>9 DEF ViewParts
  <2>12. ToolBlocks(c) = ToolBlocks(w) /\ Opened(c) = Opened(w) BY <2>8 DEF ToolBlocks, Opened
  <2>13. Matches(c, See(v, p), m)
    BY <1>0, <2>8, <2>10, <2>12 DEF Matches
  <2>14. Writes(t, c, m) BY <2>6, <2>7, <2>13 DEF Writes
  <2>15. FillText(w, s) = c BY DEF FillText, c, e, p
  <2> QED BY <1>0, <2>7, <2>8, <2>14, <2>15 DEF Matches
<1> QED BY <1>2

LEMMA ThinkingFills ==
  ASSUME NEW t, IsSequence(t), NEW w, NEW m \in Nat, Writes(t, w, m), m <= 2 * MaxChunks,
         NEW s, w.thinking # 0
  PROVE  LET c == FillThinking(w, s)
         IN  Writes(t, c, m) /\ c.started = w.started
<1> DEFINE v == SeenAfter(t \o w.out)
           p == Packet("delta", w.thinking, s)
           e == Emit(w, p)
           c == e
<1>0. w.next \in Nat \ {0} /\ Matches(w, v, m) BY DEF Writes, Matches
<1>2. Writes(t, c, m) /\ c.started = w.started /\ FillThinking(w, s) = c
  <2>1. DOMAIN v = ViewParts BY ViewParted DEF Writes
  <2>2. w.thinking \in 1 .. (w.next - 1) /\ w.next \in Nat BY <1>0 DEF Matches
  <2>3. w.thinking \in BlockSet BY <2>2, InBlockSet
  <2>4. w.thinking \in v.open BY <1>0, <2>2 DEF Matches
  <2>5. Allowed(v, p) BY <2>3, <2>4 DEF Allowed, Packet
  <2>6. /\ DOMAIN e = WriterParts /\ e.out = Append(w.out, p)
        /\ \A f \in WriterParts \ {"out", "any"} : e[f] = w[f]
        /\ IsSequence(e.out) /\ Legal(t \o e.out)
        /\ SeenAfter(t \o e.out) = See(v, p)
    BY <2>5, Emitted DEF Writes
  <2> HIDE DEF e, v
  <2>7. DOMAIN c = WriterParts /\ c.out = e.out 
        /\ \A f \in WriterParts \ {"out", "any"} : c[f] = w[f]
    BY <2>6 DEF WriterParts, FreshWriter
  <2>8. /\ c.started = w.started
        /\ c.meant = w.meant
        /\ c.failed = w.failed
        /\ c.refused = w.refused
        /\ c.next = w.next
        /\ c.text = w.text
        /\ c.thinking = w.thinking
        /\ c.tools = w.tools
    BY <2>7 DEF WriterParts, FreshWriter
  <2> HIDE DEF c
  <2>9. See(v, p) = [v EXCEPT !.filled = w.thinking]
    BY DEF See, p, Packet
  <2>10. See(v, p).stage = v.stage /\ See(v, p).used = v.used /\ See(v, p).open = v.open
    BY <2>1, <2>9 DEF ViewParts
  <2>12. ToolBlocks(c) = ToolBlocks(w) /\ Opened(c) = Opened(w) BY <2>8 DEF ToolBlocks, Opened
  <2>13. Matches(c, See(v, p), m)
    BY <1>0, <2>8, <2>10, <2>12 DEF Matches
  <2>14. Writes(t, c, m) BY <2>6, <2>7, <2>13 DEF Writes
  <2>15. FillThinking(w, s) = c BY DEF FillThinking, c, e, p
  <2> QED BY <1>0, <2>7, <2>8, <2>14, <2>15 DEF Matches
<1> QED BY <1>2

\* The message starts with the first event that means something, or had started.
LEMMA MessageStarts ==
  ASSUME NEW t, IsSequence(t), NEW w, NEW m \in Nat, Writes(t, w, m), NEW event, NEW thinking
  PROVE  LET c == StartMessage(w, event, thinking)
         IN  /\ Writes(t, c, m) /\ c.started = (w.started \/ Means(event, thinking))
<1> DEFINE v == SeenAfter(t \o w.out)
           p == Packet("message_start", 0, <<>>)
           e == Emit(w, p)
           c == [e EXCEPT !.meant = TRUE, !.started = TRUE]
<1>0. w.next \in Nat \ {0} /\ Matches(w, v, m) BY DEF Writes, Matches
<1>1. CASE w.started \/ ~Means(event, thinking)
  <2>1. StartMessage(w, event, thinking) = w BY <1>1 DEF StartMessage
  <2> QED BY <1>0, <1>1, <2>1, MoreBlocks DEF Matches
<1>2. CASE ~(w.started \/ ~Means(event, thinking))
  <2>1. DOMAIN v = ViewParts BY ViewParted DEF Writes
  <2>4. v.stage = "before" BY <1>0, <1>2 DEF Matches
  <2>5. Allowed(v, p) BY <2>4 DEF Allowed, Packet
  <2>6. /\ DOMAIN e = WriterParts /\ e.out = Append(w.out, p)
        /\ \A f \in WriterParts \ {"out", "any"} : e[f] = w[f]
        /\ IsSequence(e.out) /\ Legal(t \o e.out)
        /\ SeenAfter(t \o e.out) = See(v, p)
    BY <2>5, Emitted DEF Writes
  <2> HIDE DEF e, v
  <2>7. DOMAIN c = WriterParts /\ c.out = e.out /\ c.meant = TRUE /\ c.started = TRUE
        /\ \A f \in WriterParts \ {"out", "any", "meant", "started"} : c[f] = w[f]
    BY <2>6 DEF WriterParts, FreshWriter
  <2>8. /\ c.failed = w.failed
        /\ c.refused = w.refused
        /\ c.next = w.next
        /\ c.text = w.text
        /\ c.thinking = w.thinking
        /\ c.tools = w.tools
    BY <2>7 DEF WriterParts, FreshWriter
  <2> HIDE DEF c
  <2>9. See(v, p) = [v EXCEPT !.stage = "message"]
    BY DEF See, p, Packet
  <2>10. /\ See(v, p).stage = "message" /\ See(v, p).used = v.used
         /\ See(v, p).open = v.open
    BY <2>1, <2>9 DEF ViewParts
  <2>12. ToolBlocks(c) = ToolBlocks(w) /\ Opened(c) = Opened(w) BY <2>8 DEF ToolBlocks, Opened
  <2>13. Matches(c, See(v, p), m)
    BY <1>0, <2>7, <2>8, <2>10, <2>12 DEF Matches
  <2>14. Writes(t, c, m) BY <2>6, <2>7, <2>13 DEF Writes
  <2>15. StartMessage(w, event, thinking) = c BY <1>2 DEF StartMessage, c, e, p
  <2> QED BY <1>0, <1>2, <2>7, <2>8, <2>14, <2>15 DEF Matches
<1> QED BY <1>1, <1>2

\* A tool has one block, which is opened once and stays open.
LEMMA ToolOpens ==
  ASSUME NEW t, IsSequence(t), NEW w, NEW m \in Nat, Writes(t, w, m), m <= 2 * MaxChunks,
         NEW i \in ToolIndexes
  PROVE  LET c == OpenTool(w, i)
         IN  /\ Writes(t, c, m) /\ c.tools[i] # 0 /\ c.started = w.started
             /\ c.text = w.text /\ c.thinking = w.thinking
<1> DEFINE v == SeenAfter(t \o w.out)
           p == Packet("block_start", w.next, <<"tool">>)
           e == Emit(w, p)
           c == [e EXCEPT !.tools[i] = w.next, !.next = @ + 1]
<1>0. w.next \in Nat \ {0} /\ Matches(w, v, m) BY DEF Writes, Matches
<1>1. CASE w.tools[i] # 0
  <2>1. OpenTool(w, i) = w BY <1>1 DEF OpenTool
  <2> QED BY <1>0, <1>1, <2>1, MoreBlocks DEF Matches
<1>2. CASE ~(w.tools[i] # 0)
  <2>1. DOMAIN v = ViewParts BY ViewParted DEF Writes
  <2>3. w.next \in BlockSet BY <1>2, InBlockSet
  <2>4. v.stage \in {"before", "message"} /\ w.next \notin v.used BY <1>0 DEF Matches
  <2>5. Allowed(v, p) BY <2>3, <2>4 DEF Allowed, Packet
  <2>6. /\ DOMAIN e = WriterParts /\ e.out = Append(w.out, p)
        /\ \A f \in WriterParts \ {"out", "any"} : e[f] = w[f]
        /\ IsSequence(e.out) /\ Legal(t \o e.out)
        /\ SeenAfter(t \o e.out) = See(v, p)
    BY <2>5, Emitted DEF Writes
  <2> HIDE DEF e, v
  <2>7. /\ DOMAIN c = WriterParts /\ c.out = e.out
        /\ c.tools = [w.tools EXCEPT ![i] = w.next] /\ c.next = w.next + 1
        /\ \A f \in WriterParts \ {"out", "any", "tools", "next"} : c[f] = w[f]
    BY <2>6 DEF WriterParts, FreshWriter
  <2>8. /\ c.started = w.started
        /\ c.meant = w.meant
        /\ c.failed = w.failed
        /\ c.refused = w.refused
        /\ c.text = w.text
        /\ c.thinking = w.thinking
    BY <2>7 DEF WriterParts, FreshWriter
  <2> HIDE DEF c
  <2>9. See(v, p) = [v EXCEPT !.open = @ \cup {w.next}, !.used = @ \cup {w.next}]
    BY DEF See, p, Packet
  <2>10. /\ See(v, p).stage = v.stage /\ See(v, p).used = v.used \cup {w.next}
         /\ See(v, p).open = v.open \cup {w.next}
    BY <2>1, <2>9 DEF ViewParts
  <2>11. /\ w.tools \in [ToolIndexes -> 0 .. (w.next - 1)]
         /\ c.tools[i] = w.next /\ \A j \in ToolIndexes \ {i} : c.tools[j] = w.tools[j]
    BY <1>0, <2>7 DEF Matches
  <2>12. /\ ToolBlocks(c) = ToolBlocks(w) \cup {w.next}
         /\ Opened(c) = Opened(w) \cup {i} /\ i \notin Opened(w)
    BY <1>0, <1>2, <2>11 DEF ToolBlocks, Opened
  <2>13. Matches(c, See(v, p), m)
    <3>1. ToolBlocks(w) \subseteq 1 .. (w.next - 1) BY <1>0 DEF Matches, ToolBlocks
    <3>2. Cardinality(Opened(c)) = Cardinality(Opened(w)) + 1 /\ Cardinality(Opened(w)) \in Nat
      <4>1. IsFiniteSet(Opened(w)) BY StreamAssumption, FS_Subset DEF Opened
      <4> QED BY <2>12, <4>1, FS_AddElement, FS_CardinalityType
    <3>3. c.next \in Nat \ {0} /\ c.next - 1 = w.next BY <1>0, <2>7
    <3>4. c.next <= 1 + m + Cardinality(Opened(c)) BY <1>0, <2>7, <3>2 DEF Matches
    <3>5. /\ c.text \in 0 .. (c.next - 1) /\ c.thinking \in 0 .. (c.next - 1)
          /\ c.tools \in [ToolIndexes -> 0 .. (c.next - 1)]
      <4>1. c.tools = [w.tools EXCEPT ![i] = w.next] BY <2>7
      <4> QED BY <1>0, <2>8, <2>11, <3>3, <4>1 DEF Matches
    <3>6. See(v, p).used = 1 .. (c.next - 1)
      <4>1. See(v, p).used = (1 .. (w.next - 1)) \cup {w.next} BY <1>0, <2>10 DEF Matches
      <4>2. (1 .. (w.next - 1)) \cup {w.next} = 1 .. w.next BY <1>0
      <4> QED BY <3>3, <4>1, <4>2
    <3>7. See(v, p).open = {b \in 1 .. (c.next - 1) :
                               b = c.text \/ b = c.thinking \/ b \in ToolBlocks(c)}
      BY <1>0, <2>8, <2>10, <2>12, <3>1, <3>3 DEF Matches
    <3>8. /\ c.text # 0 => c.started /\ c.text # c.thinking /\ c.text \notin ToolBlocks(c)
          /\ c.thinking # 0 => c.thinking \notin ToolBlocks(c)
      BY <1>0, <2>8, <2>12, <3>1 DEF Matches
    <3> QED BY <1>0, <2>8, <2>10, <3>3, <3>4, <3>5, <3>6, <3>7, <3>8 DEF Matches
  <2>14. Writes(t, c, m) BY <2>6, <2>7, <2>13 DEF Writes
  <2>15. OpenTool(w, i) = c BY <1>2 DEF OpenTool, c, e, p
  <2> QED BY <1>0, <2>7, <2>8, <2>11, <2>14, <2>15 DEF Matches
<1> QED BY <1>1, <1>2

LEMMA ToolFills ==
  ASSUME NEW t, IsSequence(t), NEW w, NEW m \in Nat, Writes(t, w, m), m <= 2 * MaxChunks,
         NEW call, call.index \in ToolIndexes, w.tools[call.index] # 0
  PROVE  LET c == FillTool(w, call)
         IN  /\ Writes(t, c, m) /\ c.started = w.started
<1> DEFINE v == SeenAfter(t \o w.out)
           p == Packet("delta", w.tools[call.index], <<call.args>>)
           e == Emit(w, p)
           c == e
<1>0. w.next \in Nat \ {0} /\ Matches(w, v, m) BY DEF Writes, Matches
<1>1. CASE call.args = None
  <2>1. FillTool(w, call) = w BY <1>1 DEF FillTool
  <2> QED BY <1>0, <1>1, <2>1, MoreBlocks DEF Matches
<1>2. CASE ~(call.args = None)
  <2>1. DOMAIN v = ViewParts BY ViewParted DEF Writes
  <2>2. w.tools[call.index] \in 1 .. (w.next - 1) /\ w.tools[call.index] \in ToolBlocks(w)
    BY <1>0 DEF Matches, ToolBlocks
  <2>3. w.tools[call.index] \in BlockSet BY <2>2, InBlockSet
  <2>4. w.tools[call.index] \in v.open BY <1>0, <2>2 DEF Matches
  <2>5. Allowed(v, p) BY <2>3, <2>4 DEF Allowed, Packet
  <2>6. /\ DOMAIN e = WriterParts /\ e.out = Append(w.out, p)
        /\ \A f \in WriterParts \ {"out", "any"} : e[f] = w[f]
        /\ IsSequence(e.out) /\ Legal(t \o e.out)
        /\ SeenAfter(t \o e.out) = See(v, p)
    BY <2>5, Emitted DEF Writes
  <2> HIDE DEF e, v
  <2>7. DOMAIN c = WriterParts /\ c.out = e.out 
        /\ \A f \in WriterParts \ {"out", "any"} : c[f] = w[f]
    BY <2>6 DEF WriterParts, FreshWriter
  <2>8. /\ c.started = w.started
        /\ c.meant = w.meant
        /\ c.failed = w.failed
        /\ c.refused = w.refused
        /\ c.next = w.next
        /\ c.text = w.text
        /\ c.thinking = w.thinking
        /\ c.tools = w.tools
    BY <2>7 DEF WriterParts, FreshWriter
  <2> HIDE DEF c
  <2>9. See(v, p) = [v EXCEPT !.filled = w.tools[call.index]]
    BY DEF See, p, Packet
  <2>10. See(v, p).stage = v.stage /\ See(v, p).used = v.used /\ See(v, p).open = v.open
    BY <2>1, <2>9 DEF ViewParts
  <2>12. ToolBlocks(c) = ToolBlocks(w) /\ Opened(c) = Opened(w) BY <2>8 DEF ToolBlocks, Opened
  <2>13. Matches(c, See(v, p), m)
    BY <1>0, <2>8, <2>10, <2>12 DEF Matches
  <2>14. Writes(t, c, m) BY <2>6, <2>7, <2>13 DEF Writes
  <2>15. FillTool(w, call) = c BY <1>2 DEF FillTool, c, e, p
  <2> QED BY <1>0, <2>7, <2>8, <2>14, <2>15 DEF Matches
<1> QED BY <1>1, <1>2

\* The parts of an event: thoughts, text, calls and the reason to stop.
LEMMA ReasonWritten ==
  ASSUME NEW t, IsSequence(t), NEW w, NEW m \in Nat, Writes(t, w, m), m < 2 * MaxChunks,
         NEW reason, NEW thinking
  PROVE  LET c == WriteReason(w, reason, thinking)
         IN  Writes(t, c, m + 1) /\ c.started = w.started
<1>1. CASE ~thinking \/ reason = <<>>
  <2>1. WriteReason(w, reason, thinking) = w BY <1>1 DEF WriteReason
  <2> QED BY <2>1, MoreBlocks
<1>2. CASE ~(~thinking \/ reason = <<>>)
  <2> DEFINE a == CloseText(w)
             b == OpenThinking(a)
             c == FillThinking(b, reason)
  <2>0. /\ MaxChunks \in Nat /\ m <= 2 * MaxChunks
        /\ m + 1 <= 2 * MaxChunks /\ m + 1 \in Nat
    BY StreamAssumption
  <2>1. Writes(t, a, m) /\ a.started = w.started BY <2>0, TextCloses
  <2> HIDE DEF a
  <2>2. Writes(t, b, m + 1) /\ b.thinking # 0 /\ b.started = a.started BY <2>1, ThinkingOpens
  <2> HIDE DEF b
  <2>3. Writes(t, c, m + 1) /\ c.started = b.started BY <2>0, <2>2, ThinkingFills
  <2>4. WriteReason(w, reason, thinking) = c BY <1>2 DEF WriteReason, a, b
  <2> QED BY <2>1, <2>2, <2>3, <2>4
<1> QED BY <1>1, <1>2

LEMMA TextWritten ==
  ASSUME NEW t, IsSequence(t), NEW w, NEW m \in Nat, Writes(t, w, m), m < 2 * MaxChunks,
         NEW text, text # <<>> => w.started
  PROVE  LET c == WriteText(w, text)
         IN  Writes(t, c, m + 1) /\ c.started = w.started
<1>1. CASE text = <<>>
  <2>1. WriteText(w, text) = w BY <1>1 DEF WriteText
  <2> QED BY <2>1, MoreBlocks
<1>2. CASE text # <<>>
  <2> DEFINE a == CloseThinking(w)
             b == OpenText(a)
             c == FillText(b, text)
  <2>0. /\ MaxChunks \in Nat /\ m <= 2 * MaxChunks
        /\ m + 1 <= 2 * MaxChunks /\ m + 1 \in Nat
    BY StreamAssumption
  <2>1. Writes(t, a, m) /\ a.started = w.started BY <1>2, <2>0, ThinkingCloses
  <2> HIDE DEF a
  <2>2. Writes(t, b, m + 1) /\ b.text # 0 /\ b.started = a.started BY <1>2, <2>1, TextOpens
  <2> HIDE DEF b
  <2>3. Writes(t, c, m + 1) /\ c.started = b.started BY <2>0, <2>2, TextFills
  <2>4. WriteText(w, text) = c BY <1>2 DEF WriteText, a, b
  <2> QED BY <2>1, <2>2, <2>3, <2>4
<1> QED BY <1>1, <1>2

LEMMA CallWritten ==
  ASSUME NEW t, IsSequence(t), NEW w, NEW m \in Nat, Writes(t, w, m), m <= 2 * MaxChunks,
         w.started, NEW call, call.index \in ToolIndexes
  PROVE  LET c == WriteCall(w, call)
         IN  Writes(t, c, m) /\ c.started
<1> DEFINE a == CloseThinking(w)
           b == CloseText(a)
           d == OpenTool(b, call.index)
           c == FillTool(d, call)
<1>1. Writes(t, a, m) /\ a.started BY ThinkingCloses
<1> HIDE DEF a
<1>2. Writes(t, b, m) /\ b.started BY <1>1, TextCloses
<1> HIDE DEF b
<1>3. Writes(t, d, m) /\ d.tools[call.index] # 0 /\ d.started BY <1>2, ToolOpens
<1> HIDE DEF d
<1>4. Writes(t, c, m) /\ c.started BY <1>3, ToolFills
<1>5. WriteCall(w, call) = c BY DEF WriteCall, a, b, d
<1> QED BY <1>4, <1>5

\* The writer after each call is made from the one before it.
LEMMA WriteCallsDefined ==
  ASSUME NEW w, NEW calls, Len(calls) \in Nat
  PROVE  \E f : /\ f = [k \in 0 .. Len(calls) |->
                         IF k = 0 THEN w ELSE WriteCall(f[k - 1], calls[k])]
               /\ WriteCalls(w, calls) = f[Len(calls)]
<1> DEFINE Is(f, n) == f = [k \in 0 .. n |-> IF k = 0 THEN w ELSE WriteCall(f[k - 1], calls[k])]
           T == {n \in Nat : \E f : Is(f, n)}
           after == CHOOSE f : f = [k \in 0 .. Len(calls) |->
                                     IF k = 0 THEN w ELSE WriteCall(f[k - 1], calls[k])]
<1>1. 0 \in T
  <2> DEFINE g == [k \in 0 .. 0 |-> w]
  <2>1. Is(g, 0) OBVIOUS
  <2> HIDE DEF g
  <2> QED BY <2>1
<1>2. ASSUME NEW n \in 1 .. Len(calls), n - 1 \in T PROVE n \in T
  <2>1. n \in Nat /\ n - 1 \in Nat OBVIOUS
  <2>2. PICK f : Is(f, n - 1) BY <1>2
  <2> DEFINE g == [k \in 0 .. n |-> IF k = n THEN WriteCall(f[n - 1], calls[n]) ELSE f[k]]
             h == [k \in 0 .. n |-> IF k = 0 THEN w ELSE WriteCall(g[k - 1], calls[k])]
  <2>3. f[0] = w /\ \A k \in 1 .. (n - 1) : f[k] = WriteCall(f[k - 1], calls[k])
    BY <2>1, <2>2
  <2>4. /\ g[n] = WriteCall(f[n - 1], calls[n])
        /\ \A k \in 0 .. (n - 1) : g[k] = f[k]
    BY <2>1
  <2>5. ASSUME NEW k \in 0 .. n PROVE g[k] = h[k]
    <3>1. h[k] = IF k = 0 THEN w ELSE WriteCall(g[k - 1], calls[k]) OBVIOUS
    <3> HIDE DEF g, h
    <3>2. CASE k = 0 BY <2>1, <2>3, <2>4, <3>1, <3>2
    <3>3. CASE k = n /\ k # 0
      <4>1. g[k - 1] = f[k - 1] BY <2>1, <2>4, <3>3
      <4> QED BY <2>4, <3>1, <3>3, <4>1
    <3>4. CASE k \in 1 .. (n - 1)
      <4>1. g[k] = f[k] /\ g[k - 1] = f[k - 1] BY <2>1, <2>4, <3>4
      <4>2. k # 0 BY <3>4
      <4> QED BY <2>3, <3>1, <3>4, <4>1, <4>2
    <3> QED BY <2>1, <3>2, <3>3, <3>4
  <2>6. g = h BY <2>5
  <2>7. Is(g, n) BY <2>6
  <2> HIDE DEF g, h, Is
  <2> QED BY <2>1, <2>7
<1>3. \A n \in 0 .. Len(calls) : n \in T
  <2> HIDE DEF T
  <2> QED BY <1>1, <1>2, Climb
<1>4. PICK f : Is(f, Len(calls)) BY <1>3
<1>5. after = [k \in 0 .. Len(calls) |-> IF k = 0 THEN w ELSE WriteCall(after[k - 1], calls[k])]
  BY <1>4
<1>6. WriteCalls(w, calls) = after[Len(calls)] BY DEF WriteCalls
<1> HIDE DEF after
<1> QED BY <1>5, <1>6

LEMMA CallsWritten ==
  ASSUME NEW t, IsSequence(t), NEW w, NEW m \in Nat, Writes(t, w, m), m <= 2 * MaxChunks,
         NEW calls, IsSequence(calls), calls # <<>> => w.started,
         \A k \in 1 .. Len(calls) : calls[k].index \in ToolIndexes
  PROVE  LET c == WriteCalls(w, calls)
         IN  Writes(t, c, m) /\ c.started = w.started
<1>1. Len(calls) \in Nat BY Bounds
<1>2. PICK f : /\ f = [k \in 0 .. Len(calls) |-> IF k = 0 THEN w ELSE WriteCall(f[k - 1], calls[k])]
               /\ WriteCalls(w, calls) = f[Len(calls)]
  BY <1>1, WriteCallsDefined
<1>3. f[0] = w BY <1>1, <1>2
<1>4. \A k \in 1 .. Len(calls) : f[k] = WriteCall(f[k - 1], calls[k]) BY <1>1, <1>2
<1> DEFINE T == {k \in Nat : Writes(t, f[k], m) /\ f[k].started = w.started}
<1>5. 0 \in T BY <1>3
<1>6. ASSUME NEW k \in 1 .. Len(calls), k - 1 \in T PROVE k \in T
  <2>1. Writes(t, f[k - 1], m) /\ f[k - 1].started = w.started /\ k \in Nat BY <1>6
  <2>2. w.started = TRUE
    <3>1. calls # <<>> BY <1>1, <1>6, Bounds
    <3>2. w.started \in BOOLEAN BY DEF Writes, Matches
    <3> QED BY <3>1, <3>2
  <2>3. f[k] = WriteCall(f[k - 1], calls[k]) /\ calls[k].index \in ToolIndexes BY <1>4
  <2>4. Writes(t, f[k], m) /\ f[k].started BY <2>1, <2>2, <2>3, CallWritten
  <2>5. f[k].started \in BOOLEAN BY <2>4 DEF Writes, Matches
  <2> QED BY <2>1, <2>2, <2>4, <2>5
<1>7. \A k \in 0 .. Len(calls) : k \in T
  <2> HIDE DEF T
  <2> QED BY <1>1, <1>5, <1>6, Climb
<1>8. Len(calls) \in T BY <1>1, <1>7
<1> QED BY <1>2, <1>8

LEMMA StopWritten ==
  ASSUME NEW t, NEW w, NEW m \in Nat, Writes(t, w, m), NEW finish
  PROVE  LET c == WriteStop(w, finish)
         IN  Writes(t, c, m) /\ c.started = w.started
<1> DEFINE c == [w EXCEPT !.stop = StopReason(finish)]
<1>1. DOMAIN c = WriterParts /\ \A f \in WriterParts \ {"stop"} : c[f] = w[f] BY DEF Writes
<1>2. CASE finish = None BY <1>2 DEF WriteStop
<1>3. CASE finish # None
  <2>1. WriteStop(w, finish) = c BY <1>3 DEF WriteStop
  <2> HIDE DEF c
  <2>2. /\ c.out = w.out /\ c.started = w.started /\ c.meant = w.meant /\ c.failed = w.failed
        /\ c.refused = w.refused /\ c.next = w.next /\ c.text = w.text
        /\ c.thinking = w.thinking /\ c.tools = w.tools
    BY <1>1 DEF WriterParts, FreshWriter
  <2>3. ToolBlocks(c) = ToolBlocks(w) /\ Opened(c) = Opened(w) BY <2>2 DEF ToolBlocks, Opened
  <2>4. Writes(t, c, m) BY <1>1, <2>2, <2>3 DEF Writes, Matches
  <2> QED BY <2>1, <2>2, <2>4
<1> QED BY <1>2, <1>3

\* The packets of an event are written from a writer that has none.
LEMMA EventWritten ==
  ASSUME NEW t, IsSequence(t), Legal(t), NEW w, DOMAIN w = WriterParts, NEW m \in Nat,
         Matches(w, SeenAfter(t), m), m + 1 < 2 * MaxChunks, NEW event, NEW thinking,
         event.text = <<>> \/ Visible(event.text), IsSequence(event.calls),
         \A k \in 1 .. Len(event.calls) : event.calls[k].index \in ToolIndexes
  PROVE  Writes(t, AnthropicWrite(w, event, thinking), m + 2)
<1> DEFINE a == [w EXCEPT !.out = <<>>, !.message = Aggregate(@, event)]
           b == StartMessage(a, event, thinking)
           c == WriteReason(b, event.reason, thinking)
           d == WriteText(c, event.text)
           e == WriteCalls(d, event.calls)
           g == WriteStop(e, event.finish)
<1>0. /\ MaxChunks \in Nat /\ m < 2 * MaxChunks /\ m <= 2 * MaxChunks /\ m + 1 \in Nat
      /\ m + 2 \in Nat /\ m + 2 <= 2 * MaxChunks /\ (m + 1) + 1 = m + 2
  BY StreamAssumption
<1>1. Writes(t, a, m)
  <2>1. DOMAIN a = WriterParts /\ a.out = <<>> BY DEF WriterParts, FreshWriter
  <2>2. /\ a.started = w.started /\ a.meant = w.meant /\ a.failed = w.failed
        /\ a.refused = w.refused /\ a.next = w.next /\ a.text = w.text
        /\ a.thinking = w.thinking /\ a.tools = w.tools
    BY DEF WriterParts, FreshWriter
  <2> HIDE DEF a
  <2>3. ToolBlocks(a) = ToolBlocks(w) /\ Opened(a) = Opened(w) BY <2>2 DEF ToolBlocks, Opened
  <2>4. t \o a.out = t /\ IsSequence(a.out) BY <2>1, EmptyAside, Empty
  <2> QED BY <2>1, <2>2, <2>3, <2>4 DEF Writes, Matches
<1> HIDE DEF a
<1>2. Writes(t, b, m) /\ b.started = (a.started \/ Means(event, thinking)) BY <1>1, MessageStarts
<1> HIDE DEF b
<1>3. Writes(t, c, m + 1) /\ c.started = b.started BY <1>0, <1>2, ReasonWritten
<1> HIDE DEF c
<1>4. event.text # <<>> => c.started BY <1>2, <1>3 DEF Means
<1>5. Writes(t, d, m + 2) /\ d.started = c.started
  <2>1. m + 1 < 2 * MaxChunks OBVIOUS
  <2>2. Writes(t, d, (m + 1) + 1) /\ d.started = c.started
    BY <1>0, <1>3, <1>4, <2>1, TextWritten
  <2> QED BY <1>0, <2>2
<1>6. event.calls # <<>> => d.started BY <1>2, <1>3, <1>5 DEF Means
<1> HIDE DEF d
<1>7. Writes(t, e, m + 2) BY <1>0, <1>5, <1>6, CallsWritten
<1> HIDE DEF e
<1>8. Writes(t, g, m + 2) BY <1>0, <1>7, StopWritten
<1>9. AnthropicWrite(w, event, thinking) = g BY DEF AnthropicWrite, a, b, c, d, e
<1> QED BY <1>8, <1>9

-----------------------------------------------------------------------------
(* The end of the message                                                   *)

\* The writer after each block number is made from the one before it.
LEMMA CloseToolsDefined ==
  ASSUME NEW w, w.next - 1 \in Nat
  PROVE  \E f : /\ f = [k \in 0 .. (w.next - 1) |-> IF k = 0 THEN w ELSE CloseTool(f[k - 1], k)]
               /\ CloseTools(w) = f[w.next - 1]
<1> DEFINE Is(f, n) == f = [k \in 0 .. n |-> IF k = 0 THEN w ELSE CloseTool(f[k - 1], k)]
           T == {n \in Nat : \E f : Is(f, n)}
           after == CHOOSE f : f = [k \in 0 .. (w.next - 1) |->
                                     IF k = 0 THEN w ELSE CloseTool(f[k - 1], k)]
<1>1. 0 \in T
  <2> DEFINE g == [k \in 0 .. 0 |-> w]
  <2>1. Is(g, 0) OBVIOUS
  <2> HIDE DEF g
  <2> QED BY <2>1
<1>2. ASSUME NEW n \in 1 .. (w.next - 1), n - 1 \in T PROVE n \in T
  <2>1. n \in Nat /\ n - 1 \in Nat OBVIOUS
  <2>2. PICK f : Is(f, n - 1) BY <1>2
  <2> DEFINE g == [k \in 0 .. n |-> IF k = n THEN CloseTool(f[n - 1], n) ELSE f[k]]
             h == [k \in 0 .. n |-> IF k = 0 THEN w ELSE CloseTool(g[k - 1], k)]
  <2>3. f[0] = w /\ \A k \in 1 .. (n - 1) : f[k] = CloseTool(f[k - 1], k)
    BY <2>1, <2>2
  <2>4. /\ g[n] = CloseTool(f[n - 1], n)
        /\ \A k \in 0 .. (n - 1) : g[k] = f[k]
    BY <2>1
  <2>5. ASSUME NEW k \in 0 .. n PROVE g[k] = h[k]
    <3>1. h[k] = IF k = 0 THEN w ELSE CloseTool(g[k - 1], k) OBVIOUS
    <3> HIDE DEF g, h
    <3>2. CASE k = 0 BY <2>1, <2>3, <2>4, <3>1, <3>2
    <3>3. CASE k = n /\ k # 0
      <4>1. g[k - 1] = f[k - 1] BY <2>1, <2>4, <3>3
      <4> QED BY <2>4, <3>1, <3>3, <4>1
    <3>4. CASE k \in 1 .. (n - 1)
      <4>1. g[k] = f[k] /\ g[k - 1] = f[k - 1] BY <2>1, <2>4, <3>4
      <4>2. k # 0 BY <3>4
      <4> QED BY <2>3, <3>1, <3>4, <4>1, <4>2
    <3> QED BY <2>1, <3>2, <3>3, <3>4
  <2>6. g = h BY <2>5
  <2>7. Is(g, n) BY <2>6
  <2> HIDE DEF g, h, Is
  <2> QED BY <2>1, <2>7
<1>3. \A n \in 0 .. (w.next - 1) : n \in T
  <2> HIDE DEF T
  <2> QED BY <1>1, <1>2, Climb
<1>4. PICK f : Is(f, (w.next - 1)) BY <1>3
<1>5. after = [k \in 0 .. (w.next - 1) |-> IF k = 0 THEN w ELSE CloseTool(after[k - 1], k)] BY <1>4
<1>6. CloseTools(w) = after[w.next - 1] BY DEF CloseTools
<1> HIDE DEF after
<1> QED BY <1>5, <1>6

\* The writer c has closed the tool blocks of w up to the number k.
Closes(t, w, c, k) ==
  /\ DOMAIN c = WriterParts /\ IsSequence(c.out) /\ Legal(t \o c.out)
  /\ c.tools = w.tools
  /\ SeenAfter(t \o c.out).stage = "message"
  /\ SeenAfter(t \o c.out).open = {b \in ToolBlocks(w) : b > k}

LEMMA ToolCloses ==
  ASSUME NEW t, IsSequence(t), NEW w, NEW m \in Nat, Writes(t, w, m), m <= 2 * MaxChunks,
         NEW k \in 1 .. (w.next - 1), NEW c, Closes(t, w, c, k - 1)
  PROVE  Closes(t, w, CloseTool(c, k), k)
<1> DEFINE v == SeenAfter(t \o c.out)
           p == Packet("block_stop", k, <<>>)
           e == Emit(c, p)
<1>1. w.next \in Nat /\ k \in Nat /\ ToolBlocks(w) \subseteq 1 .. (w.next - 1)
  BY DEF Writes, Matches, ToolBlocks
<1>2. ToolBlocks(c) = ToolBlocks(w) BY DEF Closes, ToolBlocks
<1>3. {b \in ToolBlocks(w) : b > k - 1} \ {k} = {b \in ToolBlocks(w) : b > k} BY <1>1
<1>4. CASE k \in ToolBlocks(c)
  <2>1. DOMAIN v = ViewParts BY ViewParted DEF Closes
  <2>2. k \in BlockSet BY InBlockSet
  <2>3. k \in v.open /\ v.stage = "message" BY <1>1, <1>2, <1>4 DEF Closes
  <2>4. Allowed(v, p) BY <2>2, <2>3 DEF Allowed, Packet
  <2>5. /\ DOMAIN e = WriterParts
        /\ \A f \in WriterParts \ {"out", "any"} : e[f] = c[f]
        /\ IsSequence(e.out) /\ Legal(t \o e.out)
        /\ SeenAfter(t \o e.out) = See(v, p)
    BY <2>4, Emitted DEF Closes
  <2>6. CloseTool(c, k) = e BY <1>4 DEF CloseTool
  <2> HIDE DEF e, v
  <2>7. See(v, p) = [v EXCEPT !.open = @ \ {k}, !.filled = IF @ = k THEN 0 ELSE @]
    BY DEF See, p, Packet
  <2>8. See(v, p).stage = v.stage /\ See(v, p).open = v.open \ {k} BY <2>1, <2>7 DEF ViewParts
  <2>9. e.tools = c.tools BY <2>5 DEF WriterParts, FreshWriter
  <2> QED BY <1>3, <2>5, <2>6, <2>8, <2>9 DEF Closes, v
<1>5. CASE k \notin ToolBlocks(c)
  <2>1. CloseTool(c, k) = c BY <1>5 DEF CloseTool
  <2>2. {b \in ToolBlocks(w) : b > k - 1} = {b \in ToolBlocks(w) : b > k} BY <1>2, <1>3, <1>5
  <2> QED BY <2>1, <2>2 DEF Closes
<1> QED BY <1>4, <1>5

LEMMA ToolsClose ==
  ASSUME NEW t, IsSequence(t), NEW w, NEW m \in Nat, Writes(t, w, m), m <= 2 * MaxChunks,
         w.started, w.text = 0, w.thinking = 0
  PROVE  LET c == CloseTools(w)
         IN  /\ DOMAIN c = WriterParts /\ IsSequence(c.out) /\ Legal(t \o c.out)
             /\ SeenAfter(t \o c.out).stage = "message" /\ SeenAfter(t \o c.out).open = {}
<1> DEFINE n == w.next - 1
<1>1. w.next \in Nat \ {0} /\ n \in Nat BY DEF Writes, Matches
<1>2. PICK f : /\ f = [k \in 0 .. n |-> IF k = 0 THEN w ELSE CloseTool(f[k - 1], k)]
               /\ CloseTools(w) = f[n]
  BY <1>1, CloseToolsDefined
<1>3. f[0] = w BY <1>1, <1>2
<1>4. \A k \in 1 .. n : f[k] = CloseTool(f[k - 1], k) BY <1>1, <1>2
<1>5. ToolBlocks(w) \subseteq 1 .. n BY DEF Writes, Matches, ToolBlocks
<1> DEFINE T == {k \in Nat : Closes(t, w, f[k], k)}
<1>6. 0 \in T
  <2>1. ToolBlocks(w) = {b \in ToolBlocks(w) : b > 0} BY <1>5
  <2>2. SeenAfter(t \o w.out).open = ToolBlocks(w) BY <1>1, <1>5 DEF Writes, Matches
  <2> QED BY <1>3, <2>1, <2>2 DEF Closes, Writes, Matches
<1>7. ASSUME NEW k \in 1 .. n, k - 1 \in T PROVE k \in T
  <2>1. Closes(t, w, f[k - 1], k - 1) /\ k \in Nat BY <1>7
  <2>2. Closes(t, w, CloseTool(f[k - 1], k), k) BY <2>1, ToolCloses
  <2> QED BY <1>4, <2>1, <2>2
<1>8. \A k \in 0 .. n : k \in T
  <2> HIDE DEF T, n
  <2> QED BY <1>1, <1>6, <1>7, Climb
<1>9. Closes(t, w, f[n], n) BY <1>1, <1>8
<1>10. {b \in ToolBlocks(w) : b > n} = {} BY <1>1, <1>5
<1> QED BY <1>2, <1>9, <1>10 DEF Closes

LEMMA MessageEnds ==
  ASSUME NEW t, IsSequence(t), NEW w, DOMAIN w = WriterParts, IsSequence(w.out), Legal(t \o w.out),
         SeenAfter(t \o w.out).stage = "message", SeenAfter(t \o w.out).open = {}
  PROVE  LET c == EndMessage(w)
         IN  /\ IsSequence(c.out) /\ Legal(t \o c.out) /\ SeenAfter(t \o c.out).stage = "complete"
<1> DEFINE stop == IF ToolBlocks(w) # {} /\ w.stop = "end_turn" THEN "tool_use" ELSE w.stop
           v == SeenAfter(t \o w.out)
           p == Packet("message_delta", 0, <<stop>>)
           q == Packet("message_stop", 0, <<>>)
           d == Emit(w, p)
           c == Emit(d, q)
<1>1. DOMAIN v = ViewParts BY ViewParted
<1>2. Allowed(v, p) BY DEF Allowed, Packet
<1>3. /\ DOMAIN d = WriterParts /\ IsSequence(d.out) /\ Legal(t \o d.out)
      /\ SeenAfter(t \o d.out) = See(v, p)
  BY <1>2, Emitted
<1> HIDE DEF d, v
<1>4. See(v, p) = [v EXCEPT !.stage = "summed"] BY DEF See, p, Packet
<1>5. See(v, p).stage = "summed" /\ DOMAIN See(v, p) = ViewParts BY <1>1, <1>4 DEF ViewParts
<1> DEFINE u == SeenAfter(t \o d.out)
<1>6. u.stage = "summed" /\ DOMAIN u = ViewParts BY <1>3, <1>5
<1>7. Allowed(u, q) BY <1>6 DEF Allowed, Packet
<1>8. IsSequence(c.out) /\ Legal(t \o c.out) /\ SeenAfter(t \o c.out) = See(u, q)
  BY <1>3, <1>7, Emitted
<1> HIDE DEF u, c
<1>9. See(u, q) = [u EXCEPT !.stage = "complete"] BY DEF See, q, Packet
<1>10. See(u, q).stage = "complete" BY <1>6, <1>9 DEF ViewParts
<1>11. EndMessage(w) = c BY DEF EndMessage, c, d, p, q
<1> QED BY <1>8, <1>10, <1>11

\* The last packets of a message that was started complete it.
LEMMA MessageCloses ==
  ASSUME NEW t, IsSequence(t), Legal(t), NEW w, DOMAIN w = WriterParts, NEW m \in Nat,
         Matches(w, SeenAfter(t), m), m <= 2 * MaxChunks, w.started
  PROVE  LET s == AnthropicClose(w).out
         IN  IsSequence(s) /\ Legal(t \o s) /\ SeenAfter(t \o s).stage = "complete"
<1> DEFINE a == [w EXCEPT !.out = <<>>]
           b == CloseText(a)
           c == CloseThinking(b)
           d == CloseTools(c)
           e == EndMessage(d)
<1>1. Writes(t, a, m) /\ a.started
  <2>1. DOMAIN a = WriterParts /\ a.out = <<>> BY DEF WriterParts, FreshWriter
  <2>2. /\ a.started = w.started /\ a.meant = w.meant /\ a.failed = w.failed
        /\ a.refused = w.refused /\ a.next = w.next /\ a.text = w.text
        /\ a.thinking = w.thinking /\ a.tools = w.tools
    BY DEF WriterParts, FreshWriter
  <2> HIDE DEF a
  <2>3. ToolBlocks(a) = ToolBlocks(w) /\ Opened(a) = Opened(w) BY <2>2 DEF ToolBlocks, Opened
  <2>4. t \o a.out = t /\ IsSequence(a.out) BY <2>1, EmptyAside, Empty
  <2> QED BY <2>1, <2>2, <2>3, <2>4 DEF Writes, Matches
<1> HIDE DEF a
<1>2. Writes(t, b, m) /\ b.text = 0 /\ b.started BY <1>1, TextCloses
<1> HIDE DEF b
<1>3. Writes(t, c, m) /\ c.thinking = 0 /\ c.text = 0 /\ c.started BY <1>2, ThinkingCloses
<1> HIDE DEF c
<1>4. /\ DOMAIN d = WriterParts /\ IsSequence(d.out) /\ Legal(t \o d.out)
      /\ SeenAfter(t \o d.out).stage = "message" /\ SeenAfter(t \o d.out).open = {}
  BY <1>3, ToolsClose
<1> HIDE DEF d
<1>5. IsSequence(e.out) /\ Legal(t \o e.out) /\ SeenAfter(t \o e.out).stage = "complete"
  BY <1>4, MessageEnds
<1>6. AnthropicClose(w) = e BY DEF AnthropicClose, a, b, c, d
<1> QED BY <1>5, <1>6

-----------------------------------------------------------------------------
(* The normalizer: what it says of a chunk can be written.                  *)

LEMMA Part ==
  ASSUME NEW s, IsSequence(s), NEW m \in 1 .. (Len(s) + 1), NEW n \in (m - 1) .. Len(s)
  PROVE  /\ IsSequence(SubSeq(s, m, n)) /\ Len(SubSeq(s, m, n)) = n - m + 1
         /\ \A k \in 1 .. (n - m + 1) : SubSeq(s, m, n)[k] = s[m + k - 1]
<1>1. s \in Seq(Range(s)) /\ Len(s) \in Nat BY DEF IsSequence
<1>2. SubSeq(s, m, n) \in Seq(Range(s)) BY <1>1
<1>3. Len(SubSeq(s, m, n)) = n - m + 1 BY <1>1
<1>4. \A k \in 1 .. (n - m + 1) : SubSeq(s, m, n)[k] = s[m + k - 1] BY <1>1
<1> QED BY <1>2, <1>3, <1>4, OfSet

\* A sequence that is written down by its elements
LEMMA Listed ==
  ASSUME NEW n \in Nat, NEW f, f = [k \in 1 .. n |-> f[k]]
  PROVE  IsSequence(f) /\ Len(f) = n
<1>1. f \in [1 .. n -> Range(f)] BY DEF Range
<1>2. f \in Seq(Range(f)) BY <1>1
<1> QED BY <1>1, <1>2 DEF IsSequence

LEMMA VisibleBehind ==
  ASSUME NEW s, IsSequence(s), NEW t, IsSequence(t), Visible(t)
  PROVE  Visible(s \o t)
<1>1. Len(s) \in Nat /\ Len(t) \in Nat /\ DOMAIN t = 1 .. Len(t) BY Bounds
<1>2. PICK k \in 1 .. Len(t) : t[k] # Blank BY <1>1 DEF Visible
<1>3. /\ IsSequence(s \o t) /\ Len(s \o t) = Len(s) + Len(t) /\ (s \o t)[Len(s) + k] = t[k]
  BY Concatenated
<1>4. DOMAIN (s \o t) = 1 .. (Len(s) + Len(t)) BY <1>3, Bounds
<1>5. Len(s) + k \in DOMAIN (s \o t) BY <1>1, <1>4
<1> QED BY <1>2, <1>3, <1>5 DEF Visible

\* What is left of a text without its leading blanks is nothing or visible.
LEMMA TrimmedVisible ==
  ASSUME NEW text, IsSequence(text)
  PROVE  /\ IsSequence(Trimmed(text))
         /\ Trimmed(text) = <<>> \/ Visible(Trimmed(text))
<1> DEFINE n == Len(text)
           T == {k \in 0 .. n : k < n => text[k + 1] # Blank}
           lb == LeadingBlanks(text)
<1>1. n \in Nat BY Bounds
<1>2. T \subseteq Nat /\ n \in T BY <1>1
<1>3. PICK x \in T : \A y \in T : x <= y BY <1>2, LeastNat
<1>4. \A k \in 1 .. x : text[k] = Blank
  <2> TAKE k \in 1 .. x
  <2>1. k - 1 \in 0 .. n /\ k - 1 < n /\ k - 1 < x /\ (k - 1) + 1 = k BY <1>1, <1>3
  <2>2. k - 1 \notin T BY <1>2, <1>3, <2>1
  <2> QED BY <2>1, <2>2
<1>5. lb \in 0 .. n /\ (lb < n => text[lb + 1] # Blank)
  <2>1. \E k \in 0 .. n : /\ \A j \in 1 .. k : text[j] = Blank
                          /\ k < n => text[k + 1] # Blank
    BY <1>3, <1>4
  <2> QED BY <2>1 DEF LeadingBlanks
<1> HIDE DEF lb, T
<1> DEFINE r == SubSeq(text, lb + 1, n)
<1>6. lb + 1 \in 1 .. (n + 1) /\ n \in ((lb + 1) - 1) .. n BY <1>1, <1>5
<1>7. /\ IsSequence(r) /\ Len(r) = n - (lb + 1) + 1
      /\ \A k \in 1 .. (n - (lb + 1) + 1) : r[k] = text[(lb + 1) + k - 1]
  BY <1>6, Part
<1>8. Trimmed(text) = r BY DEF Trimmed, lb
<1> HIDE DEF r
<1>9. CASE lb = n BY <1>1, <1>7, <1>8, <1>9, Bounds
<1>10. CASE lb < n
  <2>1. 1 \in 1 .. (n - (lb + 1) + 1) /\ (lb + 1) + 1 - 1 = lb + 1 BY <1>1, <1>5, <1>10
  <2>2. r[1] # Blank BY <1>5, <1>7, <1>10, <2>1
  <2>3. 1 \in DOMAIN r BY <1>7, <2>1, Bounds
  <2> QED BY <1>7, <1>8, <2>2, <2>3 DEF Visible
<1> QED BY <1>1, <1>5, <1>9, <1>10

\* The text that is kept is made token by token.
LEMMA WithoutDefined ==
  ASSUME NEW text, NEW tokens, Len(text) \in Nat
  PROVE  \E f : /\ f = [k \in 0 .. Len(text) |->
                         IF k = 0 THEN <<>> ELSE Unless(tokens, f[k - 1], text[k])]
               /\ Without(text, tokens) = f[Len(text)]
<1> DEFINE Is(f, n) == f = [k \in 0 .. n |->
                             IF k = 0 THEN <<>> ELSE Unless(tokens, f[k - 1], text[k])]
           T == {n \in Nat : \E f : Is(f, n)}
           after == CHOOSE f : f = [k \in 0 .. Len(text) |->
                                     IF k = 0 THEN <<>> ELSE Unless(tokens, f[k - 1], text[k])]
<1>1. 0 \in T
  <2> DEFINE g == [k \in 0 .. 0 |-> <<>>]
  <2>1. Is(g, 0) OBVIOUS
  <2> HIDE DEF g
  <2> QED BY <2>1
<1>2. ASSUME NEW n \in 1 .. Len(text), n - 1 \in T PROVE n \in T
  <2>1. n \in Nat /\ n - 1 \in Nat OBVIOUS
  <2>2. PICK f : Is(f, n - 1) BY <1>2
  <2> DEFINE g == [k \in 0 .. n |-> IF k = n THEN Unless(tokens, f[n - 1], text[n]) ELSE f[k]]
             h == [k \in 0 .. n |-> IF k = 0 THEN <<>> ELSE Unless(tokens, g[k - 1], text[k])]
  <2>3. f[0] = <<>> /\ \A k \in 1 .. (n - 1) : f[k] = Unless(tokens, f[k - 1], text[k])
    BY <2>1, <2>2
  <2>4. /\ g[n] = Unless(tokens, f[n - 1], text[n])
        /\ \A k \in 0 .. (n - 1) : g[k] = f[k]
    BY <2>1
  <2>5. ASSUME NEW k \in 0 .. n PROVE g[k] = h[k]
    <3>1. h[k] = IF k = 0 THEN <<>> ELSE Unless(tokens, g[k - 1], text[k]) OBVIOUS
    <3> HIDE DEF g, h
    <3>2. CASE k = 0 BY <2>1, <2>3, <2>4, <3>1, <3>2
    <3>3. CASE k = n /\ k # 0
      <4>1. g[k - 1] = f[k - 1] BY <2>1, <2>4, <3>3
      <4> QED BY <2>4, <3>1, <3>3, <4>1
    <3>4. CASE k \in 1 .. (n - 1)
      <4>1. g[k] = f[k] /\ g[k - 1] = f[k - 1] BY <2>1, <2>4, <3>4
      <4>2. k # 0 BY <3>4
      <4> QED BY <2>3, <3>1, <3>4, <4>1, <4>2
    <3> QED BY <2>1, <3>2, <3>3, <3>4
  <2>6. g = h BY <2>5
  <2>7. Is(g, n) BY <2>6
  <2> HIDE DEF g, h, Is
  <2> QED BY <2>1, <2>7
<1>3. \A n \in 0 .. Len(text) : n \in T
  <2> HIDE DEF T
  <2> QED BY <1>1, <1>2, Climb
<1>4. PICK f : Is(f, Len(text)) BY <1>3
<1>5. after = [k \in 0 .. Len(text) |->
                IF k = 0 THEN <<>> ELSE Unless(tokens, after[k - 1], text[k])] BY <1>4
<1>6. Without(text, tokens) = after[Len(text)] BY DEF Without
<1> HIDE DEF after
<1> QED BY <1>5, <1>6

LEMMA WithoutText ==
  ASSUME NEW text, IsSequence(text), NEW tokens
  PROVE  IsSequence(Without(text, tokens))
<1>1. Len(text) \in Nat BY Bounds
<1>2. PICK f : /\ f = [k \in 0 .. Len(text) |-> IF k = 0 THEN <<>>
                          ELSE Unless(tokens, f[k - 1], text[k])]
               /\ Without(text, tokens) = f[Len(text)]
  BY <1>1, WithoutDefined
<1>3. f[0] = <<>> BY <1>1, <1>2
<1>4. \A k \in 1 .. Len(text) :
          f[k] = Unless(tokens, f[k - 1], text[k])
  BY <1>1, <1>2
<1> DEFINE T == {k \in Nat : IsSequence(f[k])}
<1>5. 0 \in T BY <1>3, Empty
<1>6. ASSUME NEW k \in 1 .. Len(text), k - 1 \in T PROVE k \in T
  <2>1. IsSequence(f[k - 1]) /\ k \in Nat BY <1>6
  <2>2. IsSequence(Append(f[k - 1], text[k])) BY <2>1, Appended
  <2>3. IsSequence(f[k]) BY <1>4, <2>1, <2>2 DEF Unless
  <2> QED BY <2>1, <2>3
<1>7. \A k \in 0 .. Len(text) : k \in T
  <2> HIDE DEF T
  <2> QED BY <1>1, <1>5, <1>6, Climb
<1>8. Len(text) \in T BY <1>1, <1>7
<1> QED BY <1>2, <1>8

\* What is found behind a marker, and the text in front of it, are texts.
LEMMA ExtractFound ==
  ASSUME NEW text, IsSequence(text), NEW finalizing
  PROVE  LET found == Extract(text, finalizing)
         IN  IsSequence(found.text) /\ IsSequence(found.tail) /\ found.invokes \in Nat
<1> DEFINE tags == {k \in DOMAIN text : text[k] \in {DsmlOpen, DsmlInvoke}}
           invokes == Cardinality({k \in tags : text[k] = DsmlInvoke})
           first == CHOOSE k \in tags : \A j \in tags : k <= j
<1>1. Len(text) \in Nat /\ DOMAIN text = 1 .. Len(text) BY Bounds
<1>2. invokes \in Nat
  <2>1. {k \in tags : text[k] = DsmlInvoke} \subseteq 1 .. Len(text) BY <1>1
  <2>2. IsFiniteSet(1 .. Len(text)) BY <1>1, FS_Interval
  <2>3. IsFiniteSet({k \in tags : text[k] = DsmlInvoke}) BY <2>1, <2>2, FS_Subset
  <2> QED BY <2>3, FS_CardinalityType
<1>3. CASE tags = {} \/ invokes > 0 \/ finalizing
  <2>1. Extract(text, finalizing) =
          [text |-> Without(text, {DsmlOpen, DsmlInvoke}), invokes |-> invokes, tail |-> <<>>]
    BY <1>3 DEF Extract
  <2> HIDE DEF invokes, tags
  <2> QED BY <1>2, <2>1, WithoutText, Empty
<1>4. CASE ~(tags = {} \/ invokes > 0 \/ finalizing)
  <2>1. Extract(text, finalizing) =
          [text |-> SubSeq(text, 1, first - 1), invokes |-> 0,
           tail |-> SubSeq(text, first, Len(text))]
    BY <1>4 DEF Extract
  <2>2. tags \subseteq Nat /\ tags # {} BY <1>1, <1>4
  <2>3. \E k \in tags : \A j \in tags : k <= j
    <3> HIDE DEF tags
    <3> QED BY <2>2, LeastNat
  <2>4. first \in tags BY <2>3
  <2>5. first \in 1 .. Len(text) BY <1>1, <2>4
  <2> HIDE DEF first, tags, invokes
  <2>6. IsSequence(SubSeq(text, 1, first - 1))
    <3>1. 1 \in 1 .. (Len(text) + 1) /\ first - 1 \in (1 - 1) .. Len(text) BY <1>1, <2>5
    <3> QED BY <3>1, Part
  <2>7. IsSequence(SubSeq(text, first, Len(text)))
    <3>1. first \in 1 .. (Len(text) + 1) /\ Len(text) \in (first - 1) .. Len(text) BY <1>1, <2>5
    <3> QED BY <3>1, Part
  <2> QED BY <2>1, <2>6, <2>7
<1> QED BY <1>3, <1>4

\* The state after each call is made from the one before it.
LEMMA CallsNormalizedDefined ==
  ASSUME NEW before, NEW calls, NEW finalizing, Len(calls) \in Nat
  PROVE  \E f : /\ f = [k \in 0 .. Len(calls) |->
                         IF k = 0 THEN [choice |-> before, calls |-> <<>>]
                         ELSE NormalizeCall(f[k - 1], calls[k], finalizing)]
               /\ NormalizeCalls(before, calls, finalizing) = f[Len(calls)]
<1> DEFINE Is(f, n) == f = [k \in 0 .. n |->
                             IF k = 0 THEN [choice |-> before, calls |-> <<>>]
                             ELSE NormalizeCall(f[k - 1], calls[k], finalizing)]
           T == {n \in Nat : \E f : Is(f, n)}
           after == CHOOSE f : f = [k \in 0 .. Len(calls) |->
                                     IF k = 0 THEN [choice |-> before, calls |-> <<>>]
                                     ELSE NormalizeCall(f[k - 1], calls[k], finalizing)]
<1>1. 0 \in T
  <2> DEFINE g == [k \in 0 .. 0 |-> [choice |-> before, calls |-> <<>>]]
  <2>1. Is(g, 0) OBVIOUS
  <2> HIDE DEF g
  <2> QED BY <2>1
<1>2. ASSUME NEW n \in 1 .. Len(calls), n - 1 \in T PROVE n \in T
  <2>1. n \in Nat /\ n - 1 \in Nat OBVIOUS
  <2>2. PICK f : Is(f, n - 1) BY <1>2
  <2> DEFINE g == [k \in 0 .. n |->
                    IF k = n THEN NormalizeCall(f[n - 1], calls[n], finalizing) ELSE f[k]]
             h == [k \in 0 .. n |->
                    IF k = 0 THEN [choice |-> before, calls |-> <<>>]
                    ELSE NormalizeCall(g[k - 1], calls[k], finalizing)]
  <2>3. /\ f[0] = [choice |-> before, calls |-> <<>>]
        /\ \A k \in 1 .. (n - 1) : f[k] = NormalizeCall(f[k - 1], calls[k], finalizing)
    BY <2>1, <2>2
  <2>4. /\ g[n] = NormalizeCall(f[n - 1], calls[n], finalizing)
        /\ \A k \in 0 .. (n - 1) : g[k] = f[k]
    BY <2>1
  <2>5. ASSUME NEW k \in 0 .. n PROVE g[k] = h[k]
    <3>1. h[k] = IF k = 0 THEN [choice |-> before, calls |-> <<>>]
                 ELSE NormalizeCall(g[k - 1], calls[k], finalizing)
      OBVIOUS
    <3> HIDE DEF g, h
    <3>2. CASE k = 0 BY <2>1, <2>3, <2>4, <3>1, <3>2
    <3>3. CASE k = n /\ k # 0
      <4>1. g[k - 1] = f[k - 1] BY <2>1, <2>4, <3>3
      <4> QED BY <2>4, <3>1, <3>3, <4>1
    <3>4. CASE k \in 1 .. (n - 1)
      <4>1. g[k] = f[k] /\ g[k - 1] = f[k - 1] BY <2>1, <2>4, <3>4
      <4>2. k # 0 BY <3>4
      <4> QED BY <2>3, <3>1, <3>4, <4>1, <4>2
    <3> QED BY <2>1, <3>2, <3>3, <3>4
  <2>6. g = h BY <2>5
  <2>7. Is(g, n) BY <2>6
  <2> HIDE DEF g, h, Is
  <2> QED BY <2>1, <2>7
<1>3. \A n \in 0 .. Len(calls) : n \in T
  <2> HIDE DEF T
  <2> QED BY <1>1, <1>2, Climb
<1>4. PICK f : Is(f, Len(calls)) BY <1>3
<1>5. after = [k \in 0 .. Len(calls) |->
                IF k = 0 THEN [choice |-> before, calls |-> <<>>]
                ELSE NormalizeCall(after[k - 1], calls[k], finalizing)] BY <1>4
<1>6. NormalizeCalls(before, calls, finalizing) = after[Len(calls)] BY DEF NormalizeCalls
<1> HIDE DEF after
<1> QED BY <1>5, <1>6

\* The fields of a choice
ChoiceParts == DOMAIN FreshChoice

\* The texts a choice holds back are texts.
Holds(before) ==
  DOMAIN before = ChoiceParts /\ IsSequence(before.pending) /\ IsSequence(before.held)

LEMMA CallNormalized ==
  ASSUME NEW done, Holds(done.choice), IsSequence(done.calls), NEW call, NEW finalizing
  PROVE  LET next == NormalizeCall(done, call, finalizing)
         IN  Holds(next.choice) /\ IsSequence(next.calls)
<1> DEFINE tool == ToolAfter(done.choice.tools[call.index], call)
           args == ArgumentsOf(tool, finalizing)
           next == EmitCall(done, call, tool, args)
<1>1. NormalizeCall(done, call, finalizing) = next BY DEF NormalizeCall
<1> HIDE DEF tool, args
<1>2. /\ DOMAIN next.choice = ChoiceParts
      /\ next.choice.pending = done.choice.pending /\ next.choice.held = done.choice.held
  BY DEF EmitCall, Holds, ChoiceParts, FreshChoice
<1>3. next.calls = done.calls \/ \E x : next.calls = Append(done.calls, x) BY DEF EmitCall
<1>4. IsSequence(next.calls)
  <2>1. \A x : IsSequence(Append(done.calls, x)) BY Appended
  <2> HIDE DEF next
  <2> QED BY <1>3, <2>1
<1> QED BY <1>1, <1>2, <1>4 DEF Holds

LEMMA CallsNormalized ==
  ASSUME NEW before, Holds(before), NEW calls, IsSequence(calls), NEW finalizing
  PROVE  LET done == NormalizeCalls(before, calls, finalizing)
         IN  Holds(done.choice) /\ IsSequence(done.calls)
<1>1. Len(calls) \in Nat BY Bounds
<1>2. PICK f : /\ f = [k \in 0 .. Len(calls) |-> IF k = 0 THEN [choice |-> before, calls |-> <<>>]
                          ELSE NormalizeCall(f[k - 1], calls[k], finalizing)]
               /\ NormalizeCalls(before, calls, finalizing) = f[Len(calls)]
  BY <1>1, CallsNormalizedDefined
<1>3. f[0] = [choice |-> before, calls |-> <<>>] BY <1>1, <1>2
<1>4. \A k \in 1 .. Len(calls) : f[k] = NormalizeCall(f[k - 1], calls[k], finalizing)
  BY <1>1, <1>2
<1> DEFINE T == {k \in Nat : Holds(f[k].choice) /\ IsSequence(f[k].calls)}
<1>5. 0 \in T BY <1>3, Empty
<1>6. ASSUME NEW k \in 1 .. Len(calls), k - 1 \in T PROVE k \in T
  <2>1. Holds(f[k - 1].choice) /\ IsSequence(f[k - 1].calls) /\ k \in Nat BY <1>6
  <2>2. f[k] = NormalizeCall(f[k - 1], calls[k], finalizing) BY <1>4
  <2>3. Holds(f[k].choice) /\ IsSequence(f[k].calls) BY <2>1, <2>2, CallNormalized
  <2> QED BY <2>1, <2>3
<1>7. \A k \in 0 .. Len(calls) : k \in T
  <2> HIDE DEF T
  <2> QED BY <1>1, <1>5, <1>6, Climb
<1>8. Len(calls) \in T BY <1>1, <1>7
<1> QED BY <1>2, <1>8

\* The fields of an event
EventParts == {"text", "reason", "role", "calls", "finish"}

\* The text of an event is empty or has something to see.
Says(event) ==
  /\ DOMAIN event = EventParts /\ IsSequence(event.text) /\ IsSequence(event.calls)
  /\ event.text = <<>> \/ Visible(event.text)

\* After each stage the choice holds texts, and the event says something or nothing.
Cleaned(st) == DOMAIN st = {"choice", "event"} /\ Holds(st.choice) /\ Says(st.event)

LEMMA CallsAdded ==
  ASSUME NEW st, Cleaned(st), NEW done, Holds(done.choice), IsSequence(done.calls)
  PROVE  Cleaned(AddCalls(st, done))
<1> DEFINE e == [st.event EXCEPT !.calls = @ \o done.calls]
<1>1. IsSequence(st.event.calls \o done.calls) BY Concatenated DEF Cleaned, Says
<1>2. /\ DOMAIN e = EventParts /\ e.text = st.event.text
      /\ e.calls = st.event.calls \o done.calls
  BY DEF Cleaned, Says, EventParts
<1>3. AddCalls(st, done) = [choice |-> done.choice, event |-> e] BY DEF AddCalls
<1> HIDE DEF e
<1>4. Says(e) BY <1>1, <1>2 DEF Cleaned, Says
<1> QED BY <1>3, <1>4 DEF Cleaned

LEMMA GivenCalls ==
  ASSUME NEW chunk \in Chunks
  PROVE  IsSequence(Given(chunk)) /\ IsSequence(chunk.text) /\ IsSequence(chunk.message)
BY StreamAssumption DEF Given

\* The stages of the normalizer, one by one.
LEMMA CallsStaged ==
  ASSUME NEW st, Cleaned(st), NEW chunk \in Chunks
  PROVE  Cleaned(CallsStage(st, chunk))
<1> DEFINE c == [st.choice EXCEPT !.pending = <<>>]
           done == NormalizeCalls(c, Given(chunk), FALSE)
<1>1. CASE Given(chunk) = <<>> BY <1>1 DEF CallsStage
<1>2. CASE Given(chunk) # <<>>
  <2>1. Holds(c)
    <3>1. DOMAIN c = ChoiceParts /\ c.pending = <<>> /\ c.held = st.choice.held
      BY DEF Cleaned, Holds, ChoiceParts, FreshChoice
    <3> QED BY <3>1, Empty DEF Cleaned, Holds
  <2> HIDE DEF c
  <2>2. Holds(done.choice) /\ IsSequence(done.calls) BY <2>1, GivenCalls, CallsNormalized
  <2> HIDE DEF done
  <2>3. CallsStage(st, chunk) = AddCalls(st, done) BY <1>2 DEF CallsStage, done, c
  <2> QED BY <2>2, <2>3, CallsAdded
<1> QED BY <1>1, <1>2

\* The text that comes out of a marker's check
LEMMA TextConsumed ==
  ASSUME NEW st, Cleaned(st), NEW all, IsSequence(all), Visible(all)
  PROVE  Cleaned(TextGoesOn(st, all))
<1> DEFINE led == Trimmed(all)
           out(rest) == [choice |-> [st.choice EXCEPT !.pending = <<>>,
                                                      !.emitted = @ \/ Visible(rest)],
                         event |-> [st.event EXCEPT !.text = rest]]
<1>1. IsSequence(led) BY TrimmedVisible
<1> HIDE DEF led
<1>2. ASSUME NEW rest, IsSequence(rest), rest = <<>> \/ Visible(rest) PROVE Cleaned(out(rest))
  <2> DEFINE c == [st.choice EXCEPT !.pending = <<>>, !.emitted = @ \/ Visible(rest)]
             e == [st.event EXCEPT !.text = rest]
  <2>1. DOMAIN c = ChoiceParts /\ c.pending = <<>> /\ c.held = st.choice.held
    BY DEF Cleaned, Holds, ChoiceParts, FreshChoice
  <2>2. DOMAIN e = EventParts /\ e.text = rest /\ e.calls = st.event.calls
    BY DEF Cleaned, Says, EventParts
  <2>3. out(rest) = [choice |-> c, event |-> e] OBVIOUS
  <2> HIDE DEF c, e, out
  <2>4. Holds(c) BY <2>1, Empty DEF Cleaned, Holds
  <2>5. Says(e) BY <1>2, <2>2 DEF Cleaned, Says
  <2> QED BY <2>3, <2>4, <2>5 DEF Cleaned
<1>3. CASE ~st.choice.emitted /\ led = <<MarkerHead>>
  <2> DEFINE c == [st.choice EXCEPT !.pending = all]
             s == [st EXCEPT !.choice.pending = all]
  <2>1. DOMAIN c = ChoiceParts /\ c.pending = all /\ c.held = st.choice.held
    BY DEF Cleaned, Holds, ChoiceParts, FreshChoice
  <2>2. DOMAIN s = {"choice", "event"} /\ s.choice = c /\ s.event = st.event BY DEF Cleaned
  <2>3. TextGoesOn(st, all) = s BY <1>3 DEF TextGoesOn, ConsumeText, led
  <2> HIDE DEF c, s
  <2> QED BY <2>1, <2>2, <2>3 DEF Cleaned, Holds
<1>4. CASE ~st.choice.emitted /\ led # <<MarkerHead>> /\ IsPrefix(<<MarkerHead, MarkerTail>>, led)
  <2> DEFINE part == SubSeq(led, 3, Len(led))
             rest == Trimmed(part)
  <2>1. Len(led) \in Nat /\ Len(led) >= 2 BY <1>1, <1>4, Bounds DEF IsPrefix
  <2>2. 3 \in 1 .. (Len(led) + 1) /\ Len(led) \in (3 - 1) .. Len(led) BY <2>1
  <2>3. IsSequence(part) BY <1>1, <2>2, Part
  <2> HIDE DEF part
  <2>4. IsSequence(rest) /\ (rest = <<>> \/ Visible(rest)) BY <2>3, TrimmedVisible
  <2>5. TextGoesOn(st, all) = out(rest) BY <1>4 DEF TextGoesOn, ConsumeText, led, part
  <2> HIDE DEF rest, out
  <2> QED BY <1>2, <2>4, <2>5
<1>5. CASE /\ ~(~st.choice.emitted /\ led = <<MarkerHead>>)
           /\ ~(~st.choice.emitted /\ IsPrefix(<<MarkerHead, MarkerTail>>, led))
  <2>1. TextGoesOn(st, all) = out(all) BY <1>5 DEF TextGoesOn, ConsumeText, led
  <2> HIDE DEF out
  <2> QED BY <1>2, <2>1
<1> QED BY <1>3, <1>4, <1>5

LEMMA TextStaged ==
  ASSUME NEW st, Cleaned(st), NEW chunk \in Chunks
  PROVE  Cleaned(TextStage(st, chunk))
<1> DEFINE text == st.choice.held \o chunk.text
           found == Extract(text, FALSE)
           c == [st.choice EXCEPT !.held = found.tail]
           done == SyntheticCalls(c, found.invokes)
           s == AddCalls(st, done)
<1>1. IsSequence(text) BY GivenCalls, Concatenated DEF Cleaned, Holds
<1> HIDE DEF text
<1>2. IsSequence(found.text) /\ IsSequence(found.tail) /\ found.invokes \in Nat
  BY <1>1, ExtractFound
<1> HIDE DEF found
<1>3. Holds(c)
  <2>1. DOMAIN c = ChoiceParts /\ c.pending = st.choice.pending /\ c.held = found.tail
    BY DEF Cleaned, Holds, ChoiceParts, FreshChoice
  <2> HIDE DEF c
  <2> QED BY <1>2, <2>1 DEF Cleaned, Holds
<1> HIDE DEF c
<1>4. Holds(done.choice) /\ IsSequence(done.calls)
  <2> DEFINE n == found.invokes
             known == Cardinality(Known(c))
             first == IF known > c.synthetic THEN known ELSE c.synthetic
             d == [c EXCEPT !.synthetic = first + n]
             calls == [k \in 1 .. n |->
                         [index |-> first + k - 1, name |-> EagerTool, args |-> "whole"]]
  <2>1. SyntheticCalls(c, n) = NormalizeCalls(d, calls, TRUE) BY DEF SyntheticCalls
  <2> HIDE DEF first
  <2>2. DOMAIN d = ChoiceParts /\ d.pending = c.pending /\ d.held = c.held
    BY <1>3 DEF Holds, ChoiceParts, FreshChoice
  <2>3. Holds(d) BY <1>3, <2>2 DEF Holds
  <2>4. calls = [k \in 1 .. n |-> calls[k]] OBVIOUS
  <2> HIDE DEF d, calls
  <2>5. IsSequence(calls) BY <1>2, <2>4, Listed
  <2> QED BY <2>1, <2>3, <2>5, CallsNormalized
<1> HIDE DEF done
<1>5. Cleaned(s) BY <1>4, CallsAdded
<1> HIDE DEF s
<1>6. TextStage(st, chunk) = TextFound(s, found)
  BY DEF TextStage, TextExtracted, s, done, c, found, text
<1>7. CASE ~Visible(found.text) BY <1>5, <1>6, <1>7 DEF TextFound
<1>8. CASE Visible(found.text)
  <2> DEFINE all == s.choice.pending \o found.text
  <2>1. IsSequence(s.choice.pending) BY <1>5 DEF Cleaned, Holds
  <2>2. IsSequence(all) /\ Visible(all) BY <1>2, <1>8, <2>1, Concatenated, VisibleBehind
  <2>3. TextStage(st, chunk) = TextGoesOn(s, all) BY <1>6, <1>8 DEF TextFound
  <2> HIDE DEF all
  <2> QED BY <1>5, <2>2, <2>3, TextConsumed
<1> QED BY <1>7, <1>8

LEMMA ReasonStaged ==
  ASSUME NEW st, Cleaned(st), NEW chunk
  PROVE  Cleaned(ReasonStage(st, chunk))
<1> DEFINE c == [st.choice EXCEPT !.reasoning = @ \o chunk.reason]
           e == [st.event EXCEPT !.reason = chunk.reason]
<1>1. DOMAIN c = ChoiceParts /\ c.pending = st.choice.pending /\ c.held = st.choice.held
  BY DEF Cleaned, Holds, ChoiceParts, FreshChoice
<1>2. DOMAIN e = EventParts /\ e.text = st.event.text /\ e.calls = st.event.calls
  BY DEF Cleaned, Says, EventParts
<1>3. ReasonStage(st, chunk) = [choice |-> c, event |-> e] BY DEF ReasonStage
<1> HIDE DEF c, e
<1>4. Holds(c) BY <1>1 DEF Cleaned, Holds
<1>5. Says(e) BY <1>2 DEF Cleaned, Says
<1> QED BY <1>3, <1>4, <1>5 DEF Cleaned

\* The calls that are open are completed one by one.
LEMMA FinalizedDefined ==
  ASSUME NEW before, Cardinality(ToolIndexes) \in Nat
  PROVE  \E f : /\ f[0] = [choice |-> before, calls |-> <<>>]
                /\ \A k \in 1 .. Cardinality(ToolIndexes) : f[k] = FinalizeCall(f[k - 1], k - 1)
                /\ FinalizePending(before) = f[Cardinality(ToolIndexes)]
<1> DEFINE n == Cardinality(ToolIndexes)
           Is(f, m) == f = [k \in 0 .. m |->
                             IF k = 0 THEN [choice |-> before, calls |-> <<>>]
                             ELSE FinalizeCall(f[k - 1], k - 1)]
           T == {m \in Nat : \E f : Is(f, m)}
           after == CHOOSE f : f = [k \in 0 .. n |->
                                     IF k = 0 THEN [choice |-> before, calls |-> <<>>]
                                     ELSE FinalizeCall(f[k - 1], k - 1)]
<1>1. 0 \in T
  <2> DEFINE g == [k \in 0 .. 0 |-> [choice |-> before, calls |-> <<>>]]
  <2>1. Is(g, 0) OBVIOUS
  <2> HIDE DEF g
  <2> QED BY <2>1
<1>2. ASSUME NEW m \in 1 .. n, m - 1 \in T PROVE m \in T
  <2>1. m \in Nat /\ m - 1 \in Nat OBVIOUS
  <2>2. PICK f : Is(f, m - 1) BY <1>2
  <2> DEFINE g == [k \in 0 .. m |-> IF k = m THEN FinalizeCall(f[m - 1], m - 1) ELSE f[k]]
             h == [k \in 0 .. m |->
                    IF k = 0 THEN [choice |-> before, calls |-> <<>>]
                    ELSE FinalizeCall(g[k - 1], k - 1)]
  <2>3. /\ f[0] = [choice |-> before, calls |-> <<>>]
        /\ \A k \in 1 .. (m - 1) : f[k] = FinalizeCall(f[k - 1], k - 1)
    BY <2>1, <2>2
  <2>4. /\ g[m] = FinalizeCall(f[m - 1], m - 1)
        /\ \A k \in 0 .. (m - 1) : g[k] = f[k]
    BY <2>1
  <2>5. ASSUME NEW k \in 0 .. m PROVE g[k] = h[k]
    <3>1. h[k] = IF k = 0 THEN [choice |-> before, calls |-> <<>>]
                 ELSE FinalizeCall(g[k - 1], k - 1)
      OBVIOUS
    <3> HIDE DEF g, h
    <3>2. CASE k = 0 BY <2>1, <2>3, <2>4, <3>1, <3>2
    <3>3. CASE k = m /\ k # 0
      <4>1. g[k - 1] = f[k - 1] BY <2>1, <2>4, <3>3
      <4> QED BY <2>4, <3>1, <3>3, <4>1
    <3>4. CASE k \in 1 .. (m - 1)
      <4>1. g[k] = f[k] /\ g[k - 1] = f[k - 1] BY <2>1, <2>4, <3>4
      <4>2. k # 0 BY <3>4
      <4> QED BY <2>3, <3>1, <3>4, <4>1, <4>2
    <3> QED BY <2>1, <3>2, <3>3, <3>4
  <2>6. g = h BY <2>5
  <2>7. Is(g, m) BY <2>6
  <2> HIDE DEF g, h, Is
  <2> QED BY <2>1, <2>7
<1>3. \A m \in 0 .. n : m \in T
  <2> HIDE DEF T
  <2> QED BY <1>1, <1>2, Climb
<1>4. PICK f : Is(f, n) BY <1>3
<1>5. after = [k \in 0 .. n |->
                IF k = 0 THEN [choice |-> before, calls |-> <<>>]
                ELSE FinalizeCall(after[k - 1], k - 1)]
  BY <1>4
<1>6. FinalizePending(before) = after[n] BY DEF FinalizePending
<1> HIDE DEF after
<1>7. after[0] = [choice |-> before, calls |-> <<>>] BY <1>5
<1>8. \A k \in 1 .. n : after[k] = FinalizeCall(after[k - 1], k - 1) BY <1>5
<1> QED BY <1>6, <1>7, <1>8

LEMMA Indices ==
  /\ IsFiniteSet(ToolIndexes) /\ Cardinality(ToolIndexes) \in Nat
  /\ ToolIndexes = 0 .. (Cardinality(ToolIndexes) - 1)
BY StreamAssumption, FS_CardinalityType

LEMMA PendingFinalized ==
  ASSUME NEW before, Holds(before)
  PROVE  LET done == FinalizePending(before)
         IN  Holds(done.choice) /\ IsSequence(done.calls)
<1> DEFINE n == Cardinality(ToolIndexes)
<1>1. n \in Nat BY Indices
<1>2. PICK f : /\ f[0] = [choice |-> before, calls |-> <<>>]
               /\ \A k \in 1 .. n : f[k] = FinalizeCall(f[k - 1], k - 1)
               /\ FinalizePending(before) = f[n]
  BY <1>1, FinalizedDefined
<1> HIDE DEF n
<1> DEFINE T == {k \in Nat : Holds(f[k].choice) /\ IsSequence(f[k].calls)}
<1>3. 0 \in T BY <1>2, Empty
<1>4. ASSUME NEW k \in 1 .. n, k - 1 \in T PROVE k \in T
  <2>1. Holds(f[k - 1].choice) /\ IsSequence(f[k - 1].calls) /\ k \in Nat BY <1>4
  <2>2. f[k] = FinalizeCall(f[k - 1], k - 1) BY <1>2
  <2>3. Holds(f[k].choice) /\ IsSequence(f[k].calls)
    BY <2>1, <2>2, CallNormalized DEF FinalizeCall
  <2> QED BY <2>1, <2>3
<1>5. \A k \in 0 .. n : k \in T
  <2> HIDE DEF T
  <2> QED BY <1>1, <1>3, <1>4, Climb
<1>6. n \in T BY <1>1, <1>5
<1> QED BY <1>2, <1>6

\* The whole calls of a message are collected one by one.
LEMMA WholeCallsDefined ==
  ASSUME NEW message, Len(message) \in Nat
  PROVE  \E f : /\ f[0] = <<>>
                /\ \A k \in 1 .. Len(message) : f[k] = WholeCall(f[k - 1], message[k])
                /\ WholeCalls(message) = f[Len(message)]
<1> DEFINE n == Len(message)
           Is(f, m) == f = [k \in 0 .. m |->
                             IF k = 0 THEN <<>>
                             ELSE WholeCall(f[k - 1], message[k])]
           T == {m \in Nat : \E f : Is(f, m)}
           after == CHOOSE f : f = [k \in 0 .. n |->
                                     IF k = 0 THEN <<>>
                                     ELSE WholeCall(f[k - 1], message[k])]
<1>1. 0 \in T
  <2> DEFINE g == [k \in 0 .. 0 |-> <<>>]
  <2>1. Is(g, 0) OBVIOUS
  <2> HIDE DEF g
  <2> QED BY <2>1
<1>2. ASSUME NEW m \in 1 .. n, m - 1 \in T PROVE m \in T
  <2>1. m \in Nat /\ m - 1 \in Nat OBVIOUS
  <2>2. PICK f : Is(f, m - 1) BY <1>2
  <2> DEFINE g == [k \in 0 .. m |-> IF k = m THEN WholeCall(f[m - 1], message[m]) ELSE f[k]]
             h == [k \in 0 .. m |->
                    IF k = 0 THEN <<>> ELSE WholeCall(g[k - 1], message[k])]
  <2>3. /\ f[0] = <<>>
        /\ \A k \in 1 .. (m - 1) : f[k] = WholeCall(f[k - 1], message[k])
    BY <2>1, <2>2
  <2>4. /\ g[m] = WholeCall(f[m - 1], message[m])
        /\ \A k \in 0 .. (m - 1) : g[k] = f[k]
    BY <2>1
  <2>5. ASSUME NEW k \in 0 .. m PROVE g[k] = h[k]
    <3>1. h[k] = IF k = 0 THEN <<>> ELSE WholeCall(g[k - 1], message[k]) OBVIOUS
    <3> HIDE DEF g, h
    <3>2. CASE k = 0 BY <2>1, <2>3, <2>4, <3>1, <3>2
    <3>3. CASE k = m /\ k # 0
      <4>1. g[k - 1] = f[k - 1] BY <2>1, <2>4, <3>3
      <4> QED BY <2>4, <3>1, <3>3, <4>1
    <3>4. CASE k \in 1 .. (m - 1)
      <4>1. g[k] = f[k] /\ g[k - 1] = f[k - 1] BY <2>1, <2>4, <3>4
      <4>2. k # 0 BY <3>4
      <4> QED BY <2>3, <3>1, <3>4, <4>1, <4>2
    <3> QED BY <2>1, <3>2, <3>3, <3>4
  <2>6. g = h BY <2>5
  <2>7. Is(g, m) BY <2>6
  <2> HIDE DEF g, h, Is
  <2> QED BY <2>1, <2>7
<1>3. \A m \in 0 .. n : m \in T
  <2> HIDE DEF T
  <2> QED BY <1>1, <1>2, Climb
<1>4. PICK f : Is(f, n) BY <1>3
<1>5. after = [k \in 0 .. n |->
                IF k = 0 THEN <<>> ELSE WholeCall(after[k - 1], message[k])] BY <1>4
<1>6. WholeCalls(message) = after[n] BY DEF WholeCalls
<1> HIDE DEF after
<1>7. after[0] = <<>> BY <1>5
<1>8. \A k \in 1 .. n : after[k] = WholeCall(after[k - 1], message[k]) BY <1>5
<1> QED BY <1>6, <1>7, <1>8

LEMMA WholeCallsListed ==
  ASSUME NEW message, IsSequence(message)
  PROVE  IsSequence(WholeCalls(message))
<1>1. Len(message) \in Nat BY Bounds
<1>2. PICK f : /\ f[0] = <<>>
               /\ \A k \in 1 .. Len(message) : f[k] = WholeCall(f[k - 1], message[k])
               /\ WholeCalls(message) = f[Len(message)]
  BY <1>1, WholeCallsDefined
<1> DEFINE T == {k \in Nat : IsSequence(f[k])}
<1>3. 0 \in T BY <1>2, Empty
<1>4. ASSUME NEW k \in 1 .. Len(message), k - 1 \in T PROVE k \in T
  <2>1. IsSequence(f[k - 1]) /\ k \in Nat BY <1>4
  <2>2. f[k] = WholeCall(f[k - 1], message[k]) BY <1>2
  <2>3. \A x : IsSequence(Append(f[k - 1], x)) BY <2>1, Appended
  <2> QED BY <2>1, <2>2, <2>3 DEF WholeCall
<1>5. \A k \in 0 .. Len(message) : k \in T
  <2> HIDE DEF T
  <2> QED BY <1>1, <1>3, <1>4, Climb
<1>6. Len(message) \in T BY <1>1, <1>5
<1> QED BY <1>2, <1>6

LEMMA FinishedWithCalls ==
  ASSUME NEW st, Cleaned(st), NEW chunk \in Chunks
  PROVE  Cleaned(FinishWithCalls(st, chunk))
<1> DEFINE done == IF Given(chunk) = <<>> THEN [choice |-> st.choice, calls |-> <<>>]
                   ELSE FinalizePending(st.choice)
           calls == IF done.calls # <<>> THEN done.calls ELSE st.event.calls
           fallback == WholeCalls(chunk.message)
<1>1. Holds(done.choice) /\ IsSequence(done.calls)
  <2>1. CASE Given(chunk) = <<>> BY <2>1, Empty DEF Cleaned
  <2>2. CASE Given(chunk) # <<>> BY <2>2, PendingFinalized DEF Cleaned
  <2> QED BY <2>1, <2>2
<1>2. FinishWithCalls(st, chunk) = CallsCompleted(st, chunk, done) BY DEF FinishWithCalls
<1> HIDE DEF done
<1>3. IsSequence(calls) BY <1>1 DEF Cleaned, Says
<1>4. IsSequence(fallback) BY GivenCalls, WholeCallsListed
<1>5. CallsCompleted(st, chunk, done) =
        IF calls = <<>> /\ fallback # <<>>
        THEN [choice |-> [done.choice EXCEPT !.seen = TRUE],
              event |-> [st.event EXCEPT !.calls = fallback, !.finish = "tool_calls"]]
        ELSE [choice |-> done.choice,
              event |-> [st.event EXCEPT !.calls = calls,
                             !.finish = IF done.choice.seen THEN "tool_calls" ELSE "stop"]]
  BY DEF CallsCompleted
<1> HIDE DEF calls, fallback
<1>6. CASE calls = <<>> /\ fallback # <<>>
  <2> DEFINE c == [done.choice EXCEPT !.seen = TRUE]
             e == [st.event EXCEPT !.calls = fallback, !.finish = "tool_calls"]
  <2>1. DOMAIN c = ChoiceParts /\ c.pending = done.choice.pending /\ c.held = done.choice.held
    BY <1>1 DEF Holds, ChoiceParts, FreshChoice
  <2>2. DOMAIN e = EventParts /\ e.text = st.event.text /\ e.calls = fallback
    BY DEF Cleaned, Says, EventParts
  <2>3. FinishWithCalls(st, chunk) = [choice |-> c, event |-> e] BY <1>2, <1>5, <1>6
  <2> HIDE DEF c, e
  <2>4. Holds(c) BY <1>1, <2>1 DEF Holds
  <2>5. Says(e) BY <1>4, <2>2 DEF Cleaned, Says
  <2> QED BY <2>3, <2>4, <2>5 DEF Cleaned
<1>7. CASE ~(calls = <<>> /\ fallback # <<>>)
  <2> DEFINE finish == IF done.choice.seen THEN "tool_calls" ELSE "stop"
             e == [st.event EXCEPT !.calls = calls, !.finish = finish]
  <2>1. FinishWithCalls(st, chunk) = [choice |-> done.choice, event |-> e] BY <1>2, <1>5, <1>7
  <2> HIDE DEF finish
  <2>2. DOMAIN e = EventParts /\ e.text = st.event.text /\ e.calls = calls
    BY DEF Cleaned, Says, EventParts
  <2> HIDE DEF e
  <2>3. Says(e) BY <1>3, <2>2 DEF Cleaned, Says
  <2> QED BY <1>1, <2>1, <2>3 DEF Cleaned
<1> QED BY <1>6, <1>7

LEMMA FinishedWithText ==
  ASSUME NEW st, Cleaned(st), NEW finish, NEW rest, IsSequence(rest)
  PROVE  Cleaned(FinishWithText(st, finish, rest))
<1> DEFINE text == IF Visible(rest) THEN st.event.text \o rest ELSE st.event.text
           e == [st.event EXCEPT !.finish = finish, !.text = text]
<1>1. IsSequence(text) /\ (text = <<>> \/ Visible(text))
  BY Concatenated, VisibleBehind DEF Cleaned, Says
<1>2. FinishWithText(st, finish, rest) = [choice |-> st.choice, event |-> e]
  BY DEF FinishWithText, Cleaned, Says, EventParts
<1> HIDE DEF text
<1>3. DOMAIN e = EventParts /\ e.text = text /\ e.calls = st.event.calls
  BY DEF Cleaned, Says, EventParts
<1> HIDE DEF e
<1>4. Says(e) BY <1>1, <1>3 DEF Cleaned, Says
<1> QED BY <1>2, <1>4 DEF Cleaned

LEMMA FinishStaged ==
  ASSUME NEW st, Cleaned(st), NEW chunk \in Chunks
  PROVE  Cleaned(Finished(st, chunk))
<1> DEFINE finish == FinishOf(st.choice, chunk)
           cleared == [st EXCEPT !.choice.held = <<>>, !.choice.pending = <<>>]
           rest == Extract(st.choice.held, TRUE).text
<1>1. Cleaned(cleared)
  <2> DEFINE c == [st.choice EXCEPT !.held = <<>>, !.pending = <<>>]
  <2>1. DOMAIN c = ChoiceParts /\ c.pending = <<>> /\ c.held = <<>>
    BY DEF Cleaned, Holds, ChoiceParts, FreshChoice
  <2>2. DOMAIN cleared = {"choice", "event"} /\ cleared.choice = c /\ cleared.event = st.event
    BY DEF Cleaned
  <2> HIDE DEF c, cleared
  <2> QED BY <2>1, <2>2, Empty DEF Cleaned, Holds
<1>2. IsSequence(rest) BY ExtractFound DEF Cleaned, Holds
<1>3. Finished(st, chunk) =
        IF finish = None THEN st
        ELSE IF finish = "tool_calls" THEN FinishWithCalls(cleared, chunk)
        ELSE FinishWithText(cleared, finish, rest)
  BY DEF Finished, FinishStage
<1> HIDE DEF finish, cleared, rest
<1>4. Cleaned(FinishWithCalls(cleared, chunk)) BY <1>1, FinishedWithCalls
<1>5. Cleaned(FinishWithText(cleared, finish, rest)) BY <1>1, <1>2, FinishedWithText
<1> QED BY <1>3, <1>4, <1>5

\* Every chunk makes an event whose text, if any, can be seen.
LEMMA ChoiceNormalized ==
  ASSUME NEW before, Holds(before), NEW chunk \in Chunks
  PROVE  Cleaned(NormalizeChoice(before, chunk))
<1> DEFINE event == [text |-> <<>>, reason |-> <<>>, role |-> chunk.role, calls |-> <<>>,
                     finish |-> None]
           a == [choice |-> before, event |-> event]
           b == CallsStage(a, chunk)
           c == TextStage(b, chunk)
           d == ReasonStage(c, chunk)
<1>1. Cleaned(a)
  <2>1. Says(event) BY Empty DEF Says, EventParts
  <2> QED BY <2>1 DEF Cleaned
<1>2. NormalizeChoice(before, chunk) = Finished(d, chunk) BY DEF NormalizeChoice
<1> HIDE DEF a
<1>3. Cleaned(b) BY <1>1, CallsStaged
<1> HIDE DEF b
<1>4. Cleaned(c) BY <1>3, TextStaged
<1> HIDE DEF c
<1>5. Cleaned(d) BY <1>4, ReasonStaged
<1> HIDE DEF d
<1> QED BY <1>2, <1>5, FinishStaged

-----------------------------------------------------------------------------
(* The inductive invariant                                                  *)

\* The requests that are answered with the Anthropic stream of packets
Watched == Anthropic /\ request.stream

\* What was yielded: what is sent, and what waits to be sent
Yielded == client \o outbox

\* The phases of a streamed request and of another one; before its answer
\* is there, nothing is sent.
PhaseKnown ==
  /\ request \in ClientRequests
  /\ phase \in IF request.stream
               THEN {"opening", "waiting", "failing", "first", "reading", "read", "closing",
                     "replaying", "ended"}
               ELSE {"opening", "collecting", "collected", "ended"}
  /\ bridged => Anthropic
  /\ phase \in {"opening", "waiting"} => client = <<>> /\ outbox = <<>>

\* Nothing is recorded before the answer ends, except the answers that are
\* recorded before they are sent.
RecordKnown ==
  /\ phase \in {"opening", "waiting", "failing", "first", "reading", "read", "collecting",
                "collected"} => records = <<>>
  /\ phase = "closing" => records = <<>> \/ (Anthropic /\ records = <<"malformed">>)
  /\ phase = "replaying" =>
        /\ Anthropic
        /\ \/ records \in {<<"ok">>, <<"malformed">>, <<"malformed", "ok">>}
           \/ records = <<>> /\ writer.refused
        /\ records = <<"ok">> => bridged \/ writer.said = <<"whole">>

\* The queues are sequences, no more chunks were read than the bound allows,
\* and what the writer wrote was taken over.
AnswerParts ==
  /\ IsSequence(client) /\ IsSequence(outbox) /\ IsSequence(upstream)
  /\ Len(upstream) <= MaxChunks
  /\ Holds(choice)
  /\ writer.out = <<>>

\* All that was yielded is legal, and the writer knows what is open.
AnswerKnown ==
  /\ phase # "ended" => Legal(Yielded)
  /\ phase \in {"first", "reading", "read"} =>
        DOMAIN writer = WriterParts /\ Matches(writer, SeenAfter(Yielded), 2 * Len(upstream))
  /\ phase = "closing" =>
        /\ writer.failed = FALSE /\ writer.refused = FALSE
        /\ SeenAfter(Yielded).stage = IF records = <<>> THEN "complete" ELSE "error"

\* The inductive invariant: what is known of the phase, of the records and, for
\* the packets of /v1/messages, of the answer.
StreamInvariant ==
  /\ PhaseKnown /\ RecordKnown
  /\ Watched => AnswerParts /\ AnswerKnown
  /\ RecordedOnce

LEMMA Recorded1 ==
  ASSUME NEW x
  PROVE  Append(<<>>, x) = <<x>> /\ Len(<<x>>) = 1
OBVIOUS

LEMMA Recorded2 ==
  ASSUME NEW x, NEW y
  PROVE  Append(<<x>>, y) = <<x, y>>
<1> DEFINE s == <<x, y>>
           r == Append(<<x>>, y)
<1>1. s \in Seq({x, y}) /\ Len(s) = 2 /\ s[1] = x /\ s[2] = y OBVIOUS
<1>2. IsSequence(s) BY <1>1, OfSet
<1>3. IsSequence(<<x>>) /\ Len(<<x>>) = 1 /\ <<x>>[1] = x BY One
<1>4. IsSequence(r) /\ Len(r) = 2 /\ r[1] = x /\ r[2] = y BY <1>3, Appended
<1> HIDE DEF s, r
<1>5. s = r BY <1>1, <1>2, <1>4, SameElements
<1> QED BY <1>5 DEF s, r

LEMMA SixPackets ==
  ASSUME NEW a, NEW b, NEW c, NEW d, NEW e, NEW f
  PROVE  Append(Append(Append(Append(Append(Append(<<>>, a), b), c), d), e), f)
            = <<a, b, c, d, e, f>>
<1> DEFINE s == <<a, b, c, d, e, f>>
           r1 == Append(<<>>, a)
           r2 == Append(r1, b)
           r3 == Append(r2, c)
           r4 == Append(r3, d)
           r5 == Append(r4, e)
           r6 == Append(r5, f)
<1>1. s \in Seq({a, b, c, d, e, f}) OBVIOUS
<1>2. Len(s) = 6 /\ s[1] = a /\ s[2] = b /\ s[3] = c /\ s[4] = d /\ s[5] = e /\ s[6] = f OBVIOUS
<1>3. IsSequence(s) BY <1>1, OfSet
<1> HIDE DEF s
<1>4. IsSequence(r1)
  <2>1. r1 = <<a>> BY Recorded1
  <2> HIDE DEF r1
  <2> QED BY <2>1, One
<1>5. Len(r1) = 1 /\ r1[1] = a BY Recorded1
<1> HIDE DEF r1
<1>6. IsSequence(r2) BY <1>4, Appended
<1>7. /\ Len(r2) = Len(r1) + 1 /\ r2[Len(r1) + 1] = b
      /\ \A k \in 1 .. Len(r1) : r2[k] = r1[k]
  BY <1>4, Appended
<1> HIDE DEF r2
<1>8. Len(r2) = 2 /\ r2[1] = a /\ r2[2] = b
  BY <1>5, <1>7
<1>9. IsSequence(r3) BY <1>6, Appended
<1>10. /\ Len(r3) = Len(r2) + 1 /\ r3[Len(r2) + 1] = c
      /\ \A k \in 1 .. Len(r2) : r3[k] = r2[k]
  BY <1>6, Appended
<1> HIDE DEF r3
<1>11. Len(r3) = 3 /\ r3[1] = a /\ r3[2] = b /\ r3[3] = c
  BY <1>8, <1>10
<1>12. IsSequence(r4) BY <1>9, Appended
<1>13. /\ Len(r4) = Len(r3) + 1 /\ r4[Len(r3) + 1] = d
      /\ \A k \in 1 .. Len(r3) : r4[k] = r3[k]
  BY <1>9, Appended
<1> HIDE DEF r4
<1>14. Len(r4) = 4 /\ r4[1] = a /\ r4[2] = b /\ r4[3] = c /\ r4[4] = d
  BY <1>11, <1>13
<1>15. IsSequence(r5) BY <1>12, Appended
<1>16. /\ Len(r5) = Len(r4) + 1 /\ r5[Len(r4) + 1] = e
      /\ \A k \in 1 .. Len(r4) : r5[k] = r4[k]
  BY <1>12, Appended
<1> HIDE DEF r5
<1>17. Len(r5) = 5 /\ r5[1] = a /\ r5[2] = b /\ r5[3] = c /\ r5[4] = d /\ r5[5] = e
  BY <1>14, <1>16
<1>18. IsSequence(r6) BY <1>15, Appended
<1>19. /\ Len(r6) = Len(r5) + 1 /\ r6[Len(r5) + 1] = f
      /\ \A k \in 1 .. Len(r5) : r6[k] = r5[k]
  BY <1>15, Appended
<1> HIDE DEF r6
<1>20. Len(r6) = 6 /\ r6[1] = a /\ r6[2] = b /\ r6[3] = c /\ r6[4] = d /\ r6[5] = e /\ r6[6] = f
  BY <1>17, <1>19
<1>21. \A k \in 1 .. Len(s) : s[k] = r6[k] BY <1>2, <1>20
<1>22. s = r6 BY <1>2, <1>3, <1>18, <1>20, <1>21, SameElements
<1> QED BY <1>22 DEF s, r6, r5, r4, r3, r2, r1

LEMMA WriterEmptied ==
  ASSUME NEW t, NEW w, NEW m \in Nat, Writes(t, w, m)
  PROVE  LET c == [w EXCEPT !.out = <<>>]
         IN  DOMAIN c = WriterParts /\ c.out = <<>> /\ Matches(c, SeenAfter(t \o w.out), m)
<1> DEFINE c == [w EXCEPT !.out = <<>>]
<1>1. DOMAIN c = WriterParts /\ c.out = <<>> /\ \A f \in WriterParts \ {"out"} : c[f] = w[f]
  BY DEF Writes, WriterParts, FreshWriter
<1> HIDE DEF c
<1>2. /\ c.started = w.started /\ c.meant = w.meant /\ c.failed = w.failed
      /\ c.refused = w.refused /\ c.next = w.next /\ c.text = w.text
      /\ c.thinking = w.thinking /\ c.tools = w.tools
  BY <1>1 DEF WriterParts, FreshWriter
<1>3. ToolBlocks(c) = ToolBlocks(w) /\ Opened(c) = Opened(w) BY <1>2 DEF ToolBlocks, Opened
<1>4. Matches(c, SeenAfter(t \o w.out), m) BY <1>2, <1>3 DEF Writes, Matches
<1> QED BY <1>1, <1>4 DEF c

\* A writer that has written nothing matches a client that has seen nothing.
LEMMA FreshMatches ==
  ASSUME NEW said
  PROVE  LET w == [FreshWriter EXCEPT !.refused = FALSE, !.unread = FALSE, !.said = said]
         IN  DOMAIN w = WriterParts /\ w.out = <<>> /\ Matches(w, Unseen, 0)
<1> DEFINE w == [FreshWriter EXCEPT !.refused = FALSE, !.unread = FALSE, !.said = said]
<1>1. DOMAIN w = WriterParts /\ w.out = <<>> BY DEF WriterParts, FreshWriter
<1>2. /\ w.started = FALSE /\ w.meant = FALSE /\ w.failed = FALSE /\ w.refused = FALSE
      /\ w.next = 1 /\ w.text = 0 /\ w.thinking = 0 /\ w.tools = [i \in ToolIndexes |-> 0]
  BY DEF FreshWriter
<1> HIDE DEF w
<1>3. ToolBlocks(w) = {} BY <1>2 DEF ToolBlocks
<1>4. Cardinality(Opened(w)) \in Nat BY OpenedBounds
<1>5. Unseen.stage = "before" /\ Unseen.used = {} /\ Unseen.open = {} BY DEF Unseen
<1>6. w.next <= 1 + 0 + Cardinality(Opened(w)) BY <1>2, <1>4
<1>7. /\ w.tools \in [ToolIndexes -> 0 .. (w.next - 1)]
      /\ w.text \in 0 .. (w.next - 1) /\ w.thinking \in 0 .. (w.next - 1)
      /\ 1 .. (w.next - 1) = {}
  BY <1>2
<1>8. Unseen.open = {b \in 1 .. (w.next - 1) : b = w.text \/ b = w.thinking \/ b \in ToolBlocks(w)}
  BY <1>5, <1>7
<1>9. Unseen.stage = (IF w.started THEN "message" ELSE "before") BY <1>2, <1>5
<1>10. w.next \in Nat \ {0} /\ Unseen.used = 1 .. (w.next - 1) BY <1>2, <1>5, <1>7
<1>11. Matches(w, Unseen, 0) BY <1>2, <1>6, <1>7, <1>8, <1>9, <1>10 DEF Matches
<1> QED BY <1>1, <1>11 DEF w

LEMMA ErrorLegal ==
  ASSUME NEW t, IsSequence(t), Legal(t), SeenAfter(t).stage \in {"before", "message"}
  PROVE  Legal(Append(t, ErrorPacket)) /\ SeenAfter(Append(t, ErrorPacket)).stage = "error"
<1> DEFINE v == SeenAfter(t)
<1>1. Len(t) \in 0 .. Len(t) BY Bounds
<1>2. DOMAIN v = ViewParts BY <1>1, ViewHasParts DEF SeenAfter
<1>3. Allowed(v, ErrorPacket) BY DEF Allowed, ErrorPacket, Packet
<1>4. SeenAfter(Append(t, ErrorPacket)) = See(v, ErrorPacket) BY LastAppended
<1>5. Legal(Append(t, ErrorPacket)) BY <1>3, LegalAppended
<1> HIDE DEF v
<1>6. See(v, ErrorPacket) = [v EXCEPT !.stage = "error"] BY DEF See, ErrorPacket, Packet
<1>7. See(v, ErrorPacket).stage = "error" BY <1>2, <1>6 DEF ViewParts
<1> QED BY <1>4, <1>5, <1>7

\* One allowed packet after another
LEMMA MoreLegal ==
  ASSUME NEW t, IsSequence(t), NEW s, IsSequence(s), Legal(t \o s), NEW p,
         Allowed(SeenAfter(t \o s), p)
  PROVE  /\ IsSequence(Append(s, p)) /\ Legal(t \o Append(s, p))
         /\ SeenAfter(t \o Append(s, p)) = See(SeenAfter(t \o s), p)
<1>1. t \o Append(s, p) = Append(t \o s, p) BY AppendAside
<1>2. IsSequence(t \o s) /\ IsSequence(Append(s, p)) BY Concatenated, Appended
<1> QED BY <1>1, <1>2, LegalAppended, LastAppended

\* The packets of an answer that is whole are a message.
LEMMA WholeLegal ==
  ASSUME NEW t, IsSequence(t), Legal(t), SeenAfter(t) = Unseen, Anthropic
  PROVE  IsSequence(WholePackets) /\ Legal(t \o WholePackets)
<1> DEFINE p1 == Packet("message_start", 0, <<>>)
           p2 == Packet("block_start", 1, <<"text">>)
           p3 == Packet("delta", 1, <<"whole">>)
           p4 == Packet("block_stop", 1, <<>>)
           p5 == Packet("message_delta", 0, <<"end_turn">>)
           p6 == Packet("message_stop", 0, <<>>)
           s0 == <<>>
           s1 == Append(s0, p1)
           s2 == Append(s1, p2)
           s3 == Append(s2, p3)
           s4 == Append(s3, p4)
           s5 == Append(s4, p5)
           s6 == Append(s5, p6)
<1>0. WholePackets = s6 BY SixPackets DEF WholePackets
<1>1. 1 \in BlockSet
  <2>1. MaxChunks \in Nat \ {0} /\ Cardinality(ToolIndexes) \in Nat
    BY StreamAssumption, FS_CardinalityType
  <2> QED BY <2>1 DEF BlockSet
<1>2. t \o s0 = t /\ IsSequence(s0) BY EmptyAside, Empty
<1> DEFINE v0 == SeenAfter(t \o s0)
           v1 == SeenAfter(t \o s1)
           v2 == SeenAfter(t \o s2)
           v3 == SeenAfter(t \o s3)
           v4 == SeenAfter(t \o s4)
           v5 == SeenAfter(t \o s5)
<1>3. /\ v0.stage = "before" /\ v0.open = {} /\ v0.used = {} /\ DOMAIN v0 = ViewParts
  BY <1>2 DEF Unseen, ViewParts
<1>4. Legal(t \o s0) BY <1>2
<1> HIDE DEF v0
<1>5. Allowed(v0, p1) BY <1>3 DEF Allowed, Packet
<1>6. IsSequence(s1) /\ Legal(t \o s1) /\ v1 = See(v0, p1) BY <1>2, <1>4, <1>5, MoreLegal DEF v0
<1> HIDE DEF s1, v1
<1>7. v1 = [v0 EXCEPT !.stage = "message"] BY <1>6 DEF See, Packet
<1>8. v1.stage = "message" /\ v1.open = {} /\ v1.used = {} /\ DOMAIN v1 = ViewParts
  BY <1>3, <1>7 DEF ViewParts
<1>9. Allowed(v1, p2) BY <1>1, <1>8 DEF Allowed, Packet
<1>10. IsSequence(s2) /\ Legal(t \o s2) /\ v2 = See(v1, p2) BY <1>6, <1>9, MoreLegal DEF v1
<1> HIDE DEF s2, v2
<1>11. v2 = [v1 EXCEPT !.open = @ \cup {1}, !.used = @ \cup {1}] BY <1>10 DEF See, Packet
<1>12. v2.stage = "message" /\ v2.open = {1} /\ DOMAIN v2 = ViewParts
  BY <1>8, <1>11 DEF ViewParts
<1>13. Allowed(v2, p3) BY <1>1, <1>12 DEF Allowed, Packet
<1>14. IsSequence(s3) /\ Legal(t \o s3) /\ v3 = See(v2, p3) BY <1>10, <1>13, MoreLegal DEF v2
<1> HIDE DEF s3, v3
<1>15. v3 = [v2 EXCEPT !.filled = 1] BY <1>14 DEF See, Packet
<1>16. v3.stage = "message" /\ v3.open = {1} /\ DOMAIN v3 = ViewParts
  BY <1>12, <1>15 DEF ViewParts
<1>17. Allowed(v3, p4) BY <1>1, <1>16 DEF Allowed, Packet
<1>18. IsSequence(s4) /\ Legal(t \o s4) /\ v4 = See(v3, p4) BY <1>14, <1>17, MoreLegal DEF v3
<1> HIDE DEF s4, v4
<1>19. v4 = [v3 EXCEPT !.open = @ \ {1}, !.filled = IF @ = 1 THEN 0 ELSE @]
  BY <1>18 DEF See, Packet
<1>20. v4.stage = "message" /\ v4.open = {} /\ DOMAIN v4 = ViewParts
  BY <1>16, <1>19 DEF ViewParts
<1>21. Allowed(v4, p5) BY <1>20 DEF Allowed, Packet
<1>22. IsSequence(s5) /\ Legal(t \o s5) /\ v5 = See(v4, p5) BY <1>18, <1>21, MoreLegal DEF v4
<1> HIDE DEF s5, v5
<1>23. v5 = [v4 EXCEPT !.stage = "summed"] BY <1>22 DEF See, Packet
<1>24. v5.stage = "summed" BY <1>20, <1>23 DEF ViewParts
<1>25. Allowed(v5, p6) BY <1>24 DEF Allowed, Packet
<1>26. IsSequence(s6) /\ Legal(t \o s6) BY <1>22, <1>25, MoreLegal DEF v5
<1> QED BY <1>0, <1>26 DEF s5, s4, s3, s2, s1

\* An answer that has arrived is handed on, after the packets "before".
LEMMA Handed ==
  ASSUME PhaseKnown, request.stream, records = <<>>,
         NEW kind \in Kinds, NEW before, Handles(kind, before),
         request' = request, client' = client, bridged' => Anthropic,
         Watched => /\ IsSequence(client) /\ IsSequence(before)
                    /\ Legal(client \o before) /\ SeenAfter(client \o before) = Unseen
  PROVE  StreamInvariant'
<1>1. /\ upstream' = <<>> /\ choice' = FreshChoice
      /\ writer' = [FreshWriter EXCEPT !.refused = kind = "error", !.unread = kind = "unread",
                                      !.said = IF kind = "whole" THEN <<"whole">> ELSE <<>>]
  BY DEF Handles, NewAnswer
<1>2. /\ writer'.refused = (kind = "error") /\ writer'.unread = (kind = "unread")
      /\ writer'.out = <<>>
      /\ writer'.said = IF kind = "whole" THEN <<"whole">> ELSE <<>>
  BY <1>1 DEF FreshWriter
<1>3. Anthropic' = Anthropic /\ Watched' = Watched BY DEF Anthropic, Watched
<1>4. request' \in ClientRequests BY DEF PhaseKnown
<1>5. Watched => IsSequence(upstream') /\ Len(upstream') = 0 /\ 0 <= MaxChunks /\ Holds(choice')
  <2>1. Holds(FreshChoice) BY Empty DEF Holds, ChoiceParts, FreshChoice
  <2>2. 0 <= MaxChunks BY StreamAssumption
  <2> QED BY <1>1, <2>1, <2>2, Empty
<1>6. CASE ~Anthropic
  <2>1. GeminiHandles(kind) BY <1>6 DEF Handles
  <2>2. \/ phase' \in {"reading", "closing"} /\ records' = <<>>
        \/ phase' = "ended" /\ records' = <<"error">>
    BY <2>1, Recorded1 DEF GeminiHandles, Record
  <2>3. ~Watched' BY <1>3, <1>6 DEF Watched
  <2>4. Len(<<"error">>) = 1 /\ <<"error">> # <<"ok">> OBVIOUS
  <2> QED BY <1>3, <1>4, <1>6, <2>2, <2>3, <2>4
      DEF StreamInvariant, PhaseKnown, RecordKnown, RecordedOnce
<1>7. CASE Anthropic
  <2>1. AnthropicHandles(kind, before) BY <1>7 DEF Handles
  <2>2. Watched BY <1>7 DEF Watched
  <2> DEFINE t == client \o before
  <2>3. /\ IsSequence(t) /\ IsSequence(client) /\ IsSequence(before)
        /\ Legal(t) /\ SeenAfter(t) = Unseen
    BY <2>2, Concatenated
  <2>4. SeenAfter(t).stage = "before" BY <2>3 DEF Unseen
  <2>5. CASE kind = "stream"
    <3>1. phase' = "first" /\ outbox' = before /\ records' = <<>> BY <2>1, <2>5 DEF AnthropicHandles
    <3>2. writer' = [FreshWriter EXCEPT !.refused = FALSE, !.unread = FALSE, !.said = <<>>]
      BY <1>1, <2>5
    <3>3. DOMAIN writer' = WriterParts /\ Matches(writer', Unseen, 0) BY <3>2, FreshMatches
    <3>4. Yielded' = t BY <3>1 DEF Yielded
    <3>5. AnswerParts' BY <1>2, <1>5, <2>2, <2>3, <3>1 DEF AnswerParts
    <3>6. AnswerKnown'
      <4>1. 2 * Len(upstream') = 0 BY <1>5, <2>2
      <4> QED BY <2>3, <3>1, <3>3, <3>4, <4>1 DEF AnswerKnown
    <3> QED BY <1>3, <1>4, <1>7, <3>1, <3>5, <3>6
        DEF StreamInvariant, PhaseKnown, RecordKnown, RecordedOnce
  <2>6. CASE kind = "whole"
    <3>1. phase' = "replaying" /\ outbox' = before \o WholePackets /\ records' = <<"ok">>
      BY <2>1, <2>6, Recorded1 DEF AnthropicHandles, Record
    <3>2. IsSequence(WholePackets) /\ Legal(t \o WholePackets) BY <1>7, <2>3, WholeLegal
    <3>3. Yielded' = t \o WholePackets BY <2>3, <3>1, <3>2, Associative DEF Yielded
    <3>4. IsSequence(outbox') BY <2>3, <3>1, <3>2, Concatenated
    <3>5. AnswerParts' BY <1>2, <1>5, <2>2, <2>3, <3>4 DEF AnswerParts
    <3>6. AnswerKnown' BY <3>1, <3>2, <3>3 DEF AnswerKnown
    <3>7. writer'.said = <<"whole">> BY <1>2, <2>6
    <3> QED BY <1>3, <1>4, <1>7, <3>1, <3>5, <3>6, <3>7
        DEF StreamInvariant, PhaseKnown, RecordKnown, RecordedOnce
  <2>7. CASE kind \in {"hollow", "error"}
    <3>1. phase' = "replaying" /\ outbox' = Append(before, ErrorPacket)
      BY <2>1, <2>7 DEF AnthropicHandles
    <3>2. kind = "hollow" => records' = <<"malformed">>
      BY <2>1, Recorded1 DEF AnthropicHandles, Record
    <3>3. kind = "error" => records' = <<>> /\ writer'.refused BY <1>2, <2>1 DEF AnthropicHandles
    <3>4. Yielded' = Append(t, ErrorPacket) BY <2>3, <3>1, AppendAside DEF Yielded
    <3>5. Legal(Append(t, ErrorPacket)) BY <2>3, <2>4, ErrorLegal
    <3>6. IsSequence(outbox') BY <2>3, <3>1, Appended
    <3>7. AnswerParts' BY <1>2, <1>5, <2>2, <2>3, <3>6 DEF AnswerParts
    <3>8. AnswerKnown' BY <3>1, <3>4, <3>5 DEF AnswerKnown
    <3>9. /\ records' = <<"malformed">> \/ (records' = <<>> /\ writer'.refused)
          /\ records' # <<"ok">>
      BY <2>7, <3>2, <3>3
    <3> QED BY <1>3, <1>4, <1>7, <3>1, <3>7, <3>8, <3>9
        DEF StreamInvariant, PhaseKnown, RecordKnown, RecordedOnce
  <2>8. CASE kind = "unread"
    <3>1. phase' = "ended" /\ outbox' = <<>> /\ records' = <<>> BY <2>1, <2>8 DEF AnthropicHandles
    <3>2. writer'.unread BY <1>2, <2>8
    <3>3. AnswerParts' BY <1>2, <1>5, <2>2, <2>3, <3>1, Empty DEF AnswerParts
    <3>4. AnswerKnown' BY <3>1 DEF AnswerKnown
    <3>5. records' # <<"ok">> BY <3>1
    <3> QED BY <1>3, <1>4, <1>7, <3>1, <3>2, <3>3, <3>4, <3>5
        DEF StreamInvariant, PhaseKnown, RecordKnown, RecordedOnce
  <2> QED BY <2>1, <2>5, <2>6, <2>7, <2>8 DEF AnthropicHandles
<1> QED BY <1>6, <1>7

-----------------------------------------------------------------------------
(* The entry                                                                *)

LEMMA NothingYielded ==
  ASSUME StreamInvariant, phase \in {"opening", "waiting"}
  PROVE  /\ client = <<>> /\ outbox = <<>> /\ records = <<>>
         /\ IsSequence(client) /\ Legal(client) /\ SeenAfter(client) = Unseen /\ Seen = Unseen
<1>1. client = <<>> /\ outbox = <<>> /\ records = <<>>
  BY DEF StreamInvariant, PhaseKnown, RecordKnown
<1>2. IsSequence(client) /\ Legal(client) /\ SeenAfter(client) = Unseen
  BY <1>1, Empty, LegalNothing, LastOfNothing
<1>3. Seen = Unseen BY <1>2 DEF Seen, SeenAfter
<1> QED BY <1>1, <1>2, <1>3

LEMMA DelegationKept ==
  ASSUME StreamInvariant, phase \in {"opening", "waiting"}, request.stream,
         NEW kind \in Kinds, Handles(kind, <<>>), request' = request, client' = client,
         bridged' => Anthropic
  PROVE  StreamInvariant'
<1>1. client \o <<>> = client /\ IsSequence(<<>>) BY NothingYielded, EmptyAside, Empty
<1>2. /\ IsSequence(client) /\ IsSequence(<<>>)
      /\ Legal(client \o <<>>) /\ SeenAfter(client \o <<>>) = Unseen
  BY <1>1, NothingYielded
<1>3. PhaseKnown /\ records = <<>> BY NothingYielded DEF StreamInvariant
<1> QED BY <1>2, <1>3, Handed

LEMMA OpeningKept ==
  ASSUME StreamInvariant, NEW kind \in Kinds, OpenedInTime(kind)
  PROVE  StreamInvariant'
<1>1. phase = "opening" /\ request.stream /\ request' = request /\ bridged' = bridged
  BY DEF OpenedInTime
<1>2. CASE kind \in {"error", "none"}
  <2>1. FailOpening BY <1>2 DEF OpenedInTime
  <2>2. /\ phase' = "ended" /\ client' = <<ErrorPacket>> /\ records' = <<"failed">>
        /\ outbox' = outbox /\ upstream' = upstream /\ choice' = choice /\ writer' = writer
    BY <1>1, <2>1, NothingYielded, Recorded1 DEF FailOpening, Record, SameAnswer
  <2>3. IsSequence(client') BY <2>2, One
  <2>4. Len(records') = 1 /\ records' # <<"ok">> BY <2>2
  <2> QED BY <1>1, <2>2, <2>3, <2>4
      DEF StreamInvariant, PhaseKnown, RecordKnown, AnswerParts, AnswerKnown, RecordedOnce,
          Watched, Anthropic
<1>3. CASE kind \notin {"error", "none"}
  <2>1. Handles(kind, <<>>) /\ client' = client BY <1>3 DEF OpenedInTime
  <2>2. bridged' => Anthropic BY <1>1 DEF StreamInvariant, PhaseKnown
  <2> QED BY <1>1, <2>1, <2>2, DelegationKept
<1> QED BY <1>2, <1>3

LEMMA GraceKept ==
  ASSUME StreamInvariant, GraceElapses
  PROVE  StreamInvariant'
BY DEF StreamInvariant, PhaseKnown, RecordKnown, AnswerParts, AnswerKnown, RecordedOnce, Watched,
       Anthropic, Yielded, GraceElapses, SameAnswer

LEMMA WaitingKept ==
  ASSUME StreamInvariant, NEW kind \in Kinds, WaitingIsOver(kind)
  PROVE  StreamInvariant'
<1>1. phase = "waiting" /\ request' = request /\ client' = client BY DEF WaitingIsOver
<1>2. request.stream BY <1>1 DEF StreamInvariant, PhaseKnown
<1>3. CASE FailWaiting
  <2>1. /\ phase' = "failing" /\ outbox' = <<ErrorPacket>> /\ records' = <<>>
        /\ bridged' = bridged /\ upstream' = upstream /\ choice' = choice /\ writer' = writer
    BY <1>1, <1>3, NothingYielded DEF FailWaiting, SameAnswer
  <2>2. IsSequence(outbox') BY <2>1, One
  <2>3. Yielded' = Append(client, ErrorPacket)
    <3>1. client = <<>> /\ <<>> \o <<ErrorPacket>> = <<ErrorPacket>>
      BY <1>1, NothingYielded, One, EmptyAside
    <3>2. Append(<<>>, ErrorPacket) = <<ErrorPacket>> BY Recorded1
    <3> QED BY <1>1, <2>1, <3>1, <3>2 DEF Yielded
  <2>4. Legal(Append(client, ErrorPacket))
    <3>1. SeenAfter(client).stage = "before" BY <1>1, NothingYielded DEF Unseen
    <3> QED BY <1>1, <3>1, NothingYielded, ErrorLegal
  <2> QED BY <1>1, <1>2, <2>1, <2>2, <2>3, <2>4
      DEF StreamInvariant, PhaseKnown, RecordKnown, AnswerParts, AnswerKnown, RecordedOnce,
          Watched, Anthropic
<1>4. ASSUME NEW next \in Kinds, Delegate(next) PROVE StreamInvariant'
  <2>1. Handles(next, <<>>) /\ bridged' = Anthropic BY <1>4 DEF Delegate
  <2> QED BY <1>1, <1>2, <2>1, DelegationKept
<1>5. FailWaiting \/ \E next \in Kinds : Delegate(next) BY DEF WaitingIsOver
<1> QED BY <1>3, <1>4, <1>5

-----------------------------------------------------------------------------
(* The event stream                                                         *)

LEMMA ReadingKnown ==
  ASSUME StreamInvariant, phase \in {"first", "reading", "read"}
  PROVE  /\ request.stream /\ records = <<>>
         /\ Watched => /\ IsSequence(Yielded) /\ Legal(Yielded) /\ DOMAIN writer = WriterParts
                       /\ Len(upstream) \in Nat /\ 2 * Len(upstream) \in Nat
                       /\ 2 * Len(upstream) <= 2 * MaxChunks
                       /\ Matches(writer, SeenAfter(Yielded), 2 * Len(upstream))
<1>1. request.stream /\ records = <<>> BY DEF StreamInvariant, PhaseKnown, RecordKnown
<1>2. ASSUME Watched
      PROVE  /\ IsSequence(Yielded) /\ Legal(Yielded) /\ DOMAIN writer = WriterParts
             /\ Len(upstream) \in Nat /\ 2 * Len(upstream) \in Nat
             /\ 2 * Len(upstream) <= 2 * MaxChunks
             /\ Matches(writer, SeenAfter(Yielded), 2 * Len(upstream))
  <2>1. AnswerParts /\ AnswerKnown BY <1>2 DEF StreamInvariant
  <2>2. IsSequence(Yielded) BY <2>1, Concatenated DEF AnswerParts, Yielded
  <2>3. Len(upstream) \in Nat /\ Len(upstream) <= MaxChunks BY <2>1, Bounds DEF AnswerParts
  <2>4. MaxChunks \in Nat BY StreamAssumption
  <2>5. 2 * Len(upstream) \in Nat /\ 2 * Len(upstream) <= 2 * MaxChunks BY <2>3, <2>4
  <2> QED BY <2>1, <2>2, <2>3, <2>5 DEF AnswerKnown
<1> QED BY <1>1, <1>2

\* A chunk is normalized, the event written, and its packets yielded.
LEMMA ChunkKept ==
  ASSUME StreamInvariant, NEW chunk \in Chunks, ReadChunk(chunk)
  PROVE  StreamInvariant'
<1> DEFINE one == NormalizeChoice(choice, chunk)
           next == IF Kept(one.event) THEN Written(one.event) ELSE writer
           m == 2 * Len(upstream)
<1>1. /\ phase \in {"first", "reading"} /\ Len(upstream) < MaxChunks
      /\ upstream' = Append(upstream, chunk) /\ Fits(one.event) /\ choice' = one.choice
      /\ phase' \in {"read", "reading"}
      /\ writer' = [next EXCEPT !.out = <<>>] /\ outbox' = outbox \o next.out
      /\ request' = request /\ bridged' = bridged /\ client' = client /\ records' = records
  BY DEF ReadChunk, Reading
<1>2. request.stream /\ records = <<>> BY <1>1, ReadingKnown
<1>3. ASSUME Watched PROVE AnswerParts' /\ AnswerKnown'
  <2>1. /\ AnswerParts /\ IsSequence(Yielded) /\ Legal(Yielded) /\ DOMAIN writer = WriterParts
        /\ Len(upstream) \in Nat /\ m \in Nat /\ Matches(writer, SeenAfter(Yielded), m)
    BY <1>1, <1>3, ReadingKnown DEF StreamInvariant
  <2>2. Cleaned(one) BY <2>1, ChoiceNormalized DEF AnswerParts
  <2>3. Says(one.event) /\ Holds(choice') BY <1>1, <2>2 DEF Cleaned
  <2>4. \A k \in 1 .. Len(one.event.calls) : one.event.calls[k].index \in ToolIndexes
    <3>1. DOMAIN one.event.calls = 1 .. Len(one.event.calls) BY <2>3, Bounds DEF Says
    <3> QED BY <1>1, <3>1 DEF Fits
  <2>5. m + 1 < 2 * MaxChunks
    <3>1. MaxChunks \in Nat BY StreamAssumption
    <3> QED BY <1>1, <2>1, <3>1
  <2> HIDE DEF one
  <2>6. Writes(Yielded, next, m + 2)
    <3>1. CASE Kept(one.event)
      <4>1. next = AnthropicWrite(writer, one.event, Thinking)
        BY <1>3, <3>1 DEF Written, Watched
      <4> HIDE DEF next, m
      <4> QED BY <2>1, <2>3, <2>4, <2>5, <4>1, EventWritten DEF Says
    <3>2. CASE ~Kept(one.event)
      <4>1. next = writer BY <3>2
      <4>2. Yielded \o writer.out = Yielded /\ IsSequence(writer.out)
        BY <2>1, EmptyAside, Empty DEF AnswerParts
      <4>3. Writes(Yielded, next, m) BY <2>1, <4>1, <4>2 DEF Writes
      <4> HIDE DEF next, m
      <4>4. m + 1 \in Nat /\ (m + 1) + 1 = m + 2 BY <2>1
      <4>5. Writes(Yielded, next, m + 1) BY <2>1, <4>3, MoreBlocks
      <4>6. Writes(Yielded, next, (m + 1) + 1) BY <4>4, <4>5, MoreBlocks
      <4> QED BY <4>4, <4>6
    <3> QED BY <3>1, <3>2
  <2>7. IsSequence(next.out) /\ Legal(Yielded \o next.out) BY <2>6 DEF Writes
  <2>8. Yielded' = Yielded \o next.out /\ IsSequence(outbox')
    <3> DEFINE s == next.out
    <3>1. IsSequence(client) /\ IsSequence(outbox) /\ IsSequence(s) BY <2>1, <2>7 DEF AnswerParts
    <3>2. client' = client /\ outbox' = outbox \o s BY <1>1
    <3> HIDE DEF s
    <3>3. (client \o outbox) \o s = client \o (outbox \o s) BY <3>1, Associative
    <3>4. IsSequence(outbox \o s) BY <3>1, Concatenated
    <3> QED BY <3>2, <3>3, <3>4 DEF Yielded, s
  <2>9. /\ DOMAIN writer' = WriterParts /\ writer'.out = <<>>
        /\ Matches(writer', SeenAfter(Yielded \o next.out), m + 2)
    <3> HIDE DEF next
    <3>1. m + 2 \in Nat BY <2>1
    <3> QED BY <1>1, <2>6, <3>1, WriterEmptied
  <2>10. IsSequence(upstream') /\ Len(upstream') = Len(upstream) + 1
    BY <1>1, <2>1, Appended DEF AnswerParts
  <2>11. 2 * Len(upstream') = m + 2 /\ Len(upstream') <= MaxChunks
    <3>1. MaxChunks \in Nat BY StreamAssumption
    <3> QED BY <1>1, <2>1, <2>10, <3>1
  <2> HIDE DEF next, m
  <2>12. AnswerParts' BY <1>1, <2>1, <2>3, <2>8, <2>9, <2>10, <2>11 DEF AnswerParts
  <2>13. AnswerKnown' BY <1>1, <2>7, <2>8, <2>9, <2>11 DEF AnswerKnown
  <2> QED BY <2>12, <2>13
<1> HIDE DEF next, one
<1> QED BY <1>1, <1>2, <1>3
    DEF StreamInvariant, PhaseKnown, RecordKnown, RecordedOnce, Watched, Anthropic

LEMMA OtherKept ==
  ASSUME StreamInvariant, ReadOther
  PROVE  StreamInvariant'
<1>1. /\ phase \in {"first", "reading"} /\ phase' = "reading"
      /\ request' = request /\ bridged' = bridged /\ upstream' = upstream /\ choice' = choice
      /\ client' = client /\ records' = records
      /\ Anthropic => writer' = writer /\ outbox' = outbox
  BY DEF ReadOther, Reading
<1> QED BY <1>1
    DEF StreamInvariant, PhaseKnown, RecordKnown, AnswerParts, AnswerKnown, RecordedOnce,
        Watched, Anthropic, Yielded

LEMMA EndKept ==
  ASSUME StreamInvariant, StreamEnds
  PROVE  StreamInvariant'
<1>1. /\ phase \in {"first", "reading"} /\ phase' = "read"
      /\ request' = request /\ bridged' = bridged /\ upstream' = upstream /\ choice' = choice
      /\ client' = client /\ records' = records /\ writer' = writer /\ outbox' = outbox
  BY DEF StreamEnds, Reading, SameAnswer
<1> QED BY <1>1
    DEF StreamInvariant, PhaseKnown, RecordKnown, AnswerParts, AnswerKnown, RecordedOnce,
        Watched, Anthropic, Yielded

LEMMA FailureKept ==
  ASSUME StreamInvariant, ReadFails
  PROVE  StreamInvariant'
<1>1. /\ phase \in {"first", "reading"} /\ phase' = "ended" /\ outbox' = <<>>
      /\ request' = request /\ bridged' = bridged /\ upstream' = upstream /\ choice' = choice
      /\ client' = client /\ writer' = writer
  BY DEF ReadFails, Reading, SameAnswer
<1>2. records' = <<"error">> BY <1>1, ReadingKnown, Recorded1 DEF ReadFails, Record
<1>3. Len(records') = 1 /\ records' # <<"ok">> BY <1>2
<1> QED BY <1>1, <1>3, Empty
    DEF StreamInvariant, PhaseKnown, RecordKnown, AnswerParts, AnswerKnown, RecordedOnce,
        Watched, Anthropic

-----------------------------------------------------------------------------
(* The end of the stream                                                    *)

\* An answer without output ends with an error packet.
LEMMA ErrorYielded ==
  ASSUME StreamInvariant, AtEnd, Anthropic, ~writer.meant, phase' = "closing",
         outbox' = Append(outbox, ErrorPacket), Record("malformed"), SameAnswer,
         request' = request, client' = client, bridged' = bridged
  PROVE  StreamInvariant'
<1>1. phase = "read" BY DEF AtEnd
<1>2. request.stream /\ records = <<>> /\ Watched BY <1>1, ReadingKnown DEF Watched
<1>3. /\ AnswerParts /\ IsSequence(Yielded) /\ Legal(Yielded)
      /\ Matches(writer, SeenAfter(Yielded), 2 * Len(upstream))
  BY <1>1, <1>2, ReadingKnown DEF StreamInvariant
<1>4. /\ SeenAfter(Yielded).stage = "before" /\ writer.failed = FALSE /\ writer.refused = FALSE
  BY <1>3 DEF Matches
<1>5. Yielded' = Append(Yielded, ErrorPacket) BY <1>3, AppendAside DEF AnswerParts, Yielded
<1>6. Legal(Yielded') /\ SeenAfter(Yielded').stage = "error" BY <1>3, <1>4, <1>5, ErrorLegal
<1>7. records' = <<"malformed">> /\ records' # <<>> BY <1>2, Recorded1 DEF Record
<1>8. IsSequence(outbox') BY <1>3, Appended DEF AnswerParts
<1>9. upstream' = upstream /\ choice' = choice /\ writer' = writer BY DEF SameAnswer
<1>10. AnswerParts' BY <1>3, <1>8, <1>9 DEF AnswerParts
<1>11. AnswerKnown' BY <1>4, <1>6, <1>7, <1>9 DEF AnswerKnown
<1> QED BY <1>2, <1>7, <1>10, <1>11
    DEF StreamInvariant, PhaseKnown, RecordKnown, RecordedOnce, Anthropic

LEMMA FailoverKept ==
  ASSUME StreamInvariant, NEW kind \in Kinds, AnthropicFailover(kind)
  PROVE  StreamInvariant'
<1>1. AtEnd /\ Anthropic /\ ~writer.meant /\ request' = request /\ client' = client
  BY DEF AnthropicFailover
<1>2. CASE kind = "none"
  <2>1. /\ phase' = "closing" /\ outbox' = Append(outbox, ErrorPacket) /\ Record("malformed")
        /\ SameAnswer /\ bridged' = bridged
    BY <1>2 DEF AnthropicFailover
  <2> QED BY <1>1, <2>1, ErrorYielded
<1>3. CASE kind # "none"
  <2> DEFINE p == Packet("attempt", 0, <<>>)
             before == Append(outbox, p)
  <2>1. Handles(kind, before) BY <1>3 DEF AnthropicFailover
  <2>2. phase = "read" BY <1>1 DEF AtEnd
  <2>3. request.stream /\ records = <<>> /\ Watched BY <1>1, <2>2, ReadingKnown DEF Watched
  <2>4. /\ AnswerParts /\ IsSequence(Yielded) /\ Legal(Yielded)
        /\ Matches(writer, SeenAfter(Yielded), 2 * Len(upstream))
    BY <2>2, <2>3, ReadingKnown DEF StreamInvariant
  <2>5. SeenAfter(Yielded).stage = "before" BY <1>1, <2>4 DEF Matches
  <2>6. Allowed(SeenAfter(Yielded), p) BY <2>5 DEF Allowed, Packet
  <2>7. client \o before = Append(Yielded, p) BY <2>4, AppendAside DEF AnswerParts, Yielded
  <2>8. Legal(Append(Yielded, p)) BY <2>4, <2>6, LegalAppended
  <2>9. SeenAfter(Append(Yielded, p)) = Unseen
    <3>1. SeenAfter(Append(Yielded, p)) = See(SeenAfter(Yielded), p) BY <2>4, LastAppended
    <3>2. See(SeenAfter(Yielded), p) = Unseen BY DEF See, Packet
    <3> QED BY <3>1, <3>2
  <2>10. IsSequence(before) /\ IsSequence(client) BY <2>4, Appended DEF AnswerParts
  <2> HIDE DEF before
  <2>11. PhaseKnown BY DEF StreamInvariant
  <2> QED BY <1>1, <2>1, <2>3, <2>7, <2>8, <2>9, <2>10, <2>11, Handed
<1> QED BY <1>2, <1>3

LEMMA MalformedKept ==
  ASSUME StreamInvariant, AnthropicMalformed
  PROVE  StreamInvariant'
BY ErrorYielded DEF AnthropicMalformed

LEMMA ClosingKept ==
  ASSUME StreamInvariant, AnthropicCloses
  PROVE  StreamInvariant'
<1> DEFINE s == AnthropicClose(writer).out
           m == 2 * Len(upstream)
<1>1. /\ phase = "read" /\ Anthropic /\ writer.meant /\ phase' = "closing" /\ outbox' = outbox \o s
      /\ request' = request /\ bridged' = bridged /\ client' = client /\ records' = records
      /\ upstream' = upstream /\ choice' = choice /\ writer' = writer
  BY DEF AnthropicCloses, AtEnd, SameAnswer
<1>2. request.stream /\ records = <<>> /\ Watched BY <1>1, ReadingKnown DEF Watched
<1>3. /\ AnswerParts /\ IsSequence(Yielded) /\ Legal(Yielded) /\ DOMAIN writer = WriterParts
      /\ m \in Nat /\ m <= 2 * MaxChunks /\ Matches(writer, SeenAfter(Yielded), m)
  BY <1>1, <1>2, ReadingKnown DEF StreamInvariant
<1> HIDE DEF m
<1>4. writer.started /\ writer.failed = FALSE /\ writer.refused = FALSE BY <1>1, <1>3 DEF Matches
<1>5. IsSequence(s) /\ Legal(Yielded \o s) /\ SeenAfter(Yielded \o s).stage = "complete"
  BY <1>3, <1>4, MessageCloses
<1> HIDE DEF s
<1>6. Yielded' = Yielded \o s /\ IsSequence(outbox')
  <2>1. IsSequence(client) /\ IsSequence(outbox) /\ IsSequence(s) BY <1>3, <1>5 DEF AnswerParts
  <2>2. (client \o outbox) \o s = client \o (outbox \o s) BY <2>1, Associative
  <2>3. IsSequence(outbox \o s) BY <2>1, Concatenated
  <2> QED BY <1>1, <2>2, <2>3 DEF Yielded
<1>7. AnswerParts' BY <1>1, <1>3, <1>6 DEF AnswerParts
<1>8. AnswerKnown' BY <1>1, <1>2, <1>4, <1>5, <1>6 DEF AnswerKnown
<1> QED BY <1>1, <1>2, <1>7, <1>8
    DEF StreamInvariant, PhaseKnown, RecordKnown, RecordedOnce, Anthropic

LEMMA GeminiClosingKept ==
  ASSUME StreamInvariant, GeminiCloses
  PROVE  StreamInvariant'
<1>1. /\ phase = "read" /\ ~Anthropic /\ phase' = "closing"
      /\ request' = request /\ bridged' = bridged /\ records' = records
  BY DEF GeminiCloses, AtEnd
<1> QED BY <1>1
    DEF StreamInvariant, PhaseKnown, RecordKnown, RecordedOnce, Watched, Anthropic

LEMMA HandlerKept ==
  ASSUME StreamInvariant, HandlerEnds
  PROVE  StreamInvariant'
<1> DEFINE how == IF writer.failed \/ writer.refused THEN "error" ELSE "ok"
<1>1. /\ phase = "closing" /\ (bridged \/ outbox = <<>>)
      /\ phase' = (IF outbox = <<>> THEN "ended" ELSE "replaying")
      /\ records' = Append(records, how)
      /\ request' = request /\ bridged' = bridged /\ outbox' = outbox /\ client' = client
      /\ upstream' = upstream /\ choice' = choice /\ writer' = writer
  BY DEF HandlerEnds, Record, SameAnswer
<1>2. request.stream /\ request \in ClientRequests BY <1>1 DEF StreamInvariant, PhaseKnown
<1>3. /\ records = <<>> \/ (Anthropic /\ records = <<"malformed">>)
      /\ bridged => Anthropic
  BY <1>1 DEF StreamInvariant, PhaseKnown, RecordKnown
<1>4. /\ records = <<>> => records' = <<how>> /\ Len(records') = 1
      /\ records = <<"malformed">> => records' = <<"malformed", how>>
  BY <1>1, Recorded1, Recorded2
<1>5. ASSUME Anthropic
      PROVE  /\ AnswerParts /\ AnswerKnown /\ how = "ok"
             /\ records = <<>> => SeenAfter(Yielded).stage = "complete"
  <2>1. Watched BY <1>2, <1>5 DEF Watched
  <2>2. AnswerParts /\ AnswerKnown BY <2>1 DEF StreamInvariant
  <2> QED BY <1>1, <2>2 DEF AnswerKnown
<1> HIDE DEF how
<1>6. Anthropic => AnswerParts' /\ AnswerKnown'
  <2>1. Anthropic => AnswerParts' BY <1>1, <1>5 DEF AnswerParts
  <2>2. Anthropic => AnswerKnown' BY <1>1, <1>5 DEF AnswerKnown, Yielded
  <2> QED BY <2>1, <2>2
<1>7. Anthropic' = Anthropic /\ Watched' = Anthropic BY <1>1, <1>2 DEF Anthropic, Watched
<1>8. CASE outbox = <<>>
  <2>1. phase' = "ended" BY <1>1, <1>8
  <2>2. RecordedOnce'
    <3>1. records' = <<"ok">> /\ Anthropic => Seen'.stage = "complete"
      <4> SUFFICES ASSUME records' = <<"ok">>, Anthropic PROVE Seen'.stage = "complete" OBVIOUS
      <4>1. records = <<>>
        <5>1. <<"malformed", how>> # <<"ok">> OBVIOUS
        <5> QED BY <1>3, <1>4, <5>1
      <4>2. SeenAfter(Yielded).stage = "complete" /\ AnswerParts BY <1>5, <4>1
      <4>3. Yielded = client BY <1>8, <4>2, EmptyAside DEF AnswerParts, Yielded
      <4>4. Seen' = SeenAfter(client) BY <1>1, <1>2, <1>7 DEF Seen, SeenAfter
      <4> QED BY <4>2, <4>3, <4>4
    <3>2. \/ Len(records') = 1
          \/ records' = <<"malformed", "ok">> /\ Anthropic
      BY <1>3, <1>4, <1>5
    <3> QED BY <1>7, <2>1, <3>1, <3>2 DEF RecordedOnce
  <2> QED BY <1>1, <1>2, <1>3, <1>6, <1>7, <2>1, <2>2 DEF StreamInvariant, PhaseKnown, RecordKnown
<1>9. CASE outbox # <<>>
  <2>1. phase' = "replaying" /\ bridged /\ Anthropic BY <1>1, <1>3, <1>9
  <2>2. records' = <<"ok">> \/ records' = <<"malformed", "ok">> BY <1>3, <1>4, <1>5, <2>1
  <2> QED BY <1>1, <1>2, <1>6, <1>7, <2>1, <2>2
      DEF StreamInvariant, PhaseKnown, RecordKnown, RecordedOnce
<1> QED BY <1>8, <1>9

LEMMA WaitingEndKept ==
  ASSUME StreamInvariant, WaitingEnds
  PROVE  StreamInvariant'
<1>1. /\ phase = "failing" /\ phase' = "ended"
      /\ request' = request /\ bridged' = bridged /\ outbox' = outbox /\ client' = client
      /\ upstream' = upstream /\ choice' = choice /\ writer' = writer
  BY DEF WaitingEnds, SameAnswer
<1>2. records' = <<"failed">>
  BY <1>1, Recorded1 DEF WaitingEnds, Record, StreamInvariant, RecordKnown
<1>3. Len(records') = 1 /\ records' # <<"ok">> BY <1>2
<1> QED BY <1>1, <1>3
    DEF StreamInvariant, PhaseKnown, RecordKnown, AnswerParts, AnswerKnown, RecordedOnce,
        Watched, Anthropic

-----------------------------------------------------------------------------
(* The client                                                               *)

LEMMA DeliveryKept ==
  ASSUME StreamInvariant, Deliver
  PROVE  StreamInvariant'
<1>1. /\ phase \in {"replaying", "failing", "reading", "read", "closing"} /\ outbox # <<>>
      /\ client' = Append(client, Head(outbox)) /\ outbox' = Tail(outbox)
      /\ upstream' = upstream /\ choice' = choice /\ writer' = writer
      /\ request' = request /\ phase' = phase /\ bridged' = bridged /\ records' = records
  BY DEF Deliver, Sending, SameAnswer
<1>2. ASSUME Watched PROVE AnswerParts' /\ AnswerKnown'
  <2>1. AnswerParts /\ AnswerKnown BY <1>2 DEF StreamInvariant
  <2>2. IsSequence(client) /\ IsSequence(outbox) BY <2>1 DEF AnswerParts
  <2>3. client' \o outbox' = client \o outbox /\ IsSequence(outbox') BY <1>1, <2>2, Sent1
  <2>4. IsSequence(client') BY <1>1, <2>2, Appended
  <2>5. Yielded' = Yielded BY <2>3 DEF Yielded
  <2>6. AnswerParts' BY <1>1, <2>1, <2>3, <2>4 DEF AnswerParts
  <2>7. AnswerKnown' BY <1>1, <2>1, <2>5 DEF AnswerKnown
  <2> QED BY <2>6, <2>7
<1> QED BY <1>1, <1>2
    DEF StreamInvariant, PhaseKnown, RecordKnown, RecordedOnce, Watched, Anthropic

LEMMA ReplayKept ==
  ASSUME StreamInvariant, Replayed
  PROVE  StreamInvariant'
<1>1. /\ phase = "replaying" /\ phase' = "ended"
      /\ upstream' = upstream /\ choice' = choice /\ writer' = writer
      /\ request' = request /\ bridged' = bridged /\ records' = records
      /\ outbox' = outbox /\ client' = client
  BY DEF Replayed, SameAnswer
<1>2. /\ Anthropic
      /\ \/ records \in {<<"ok">>, <<"malformed">>, <<"malformed", "ok">>}
         \/ records = <<>> /\ writer.refused
      /\ records = <<"ok">> => bridged \/ writer.said = <<"whole">>
  BY <1>1 DEF StreamInvariant, RecordKnown
<1>3. records \in {<<"ok">>, <<"malformed">>} => Len(records) = 1 OBVIOUS
<1>4. RecordedOnce' BY <1>1, <1>2, <1>3 DEF RecordedOnce, Anthropic
<1> QED BY <1>1, <1>4
    DEF StreamInvariant, PhaseKnown, RecordKnown, AnswerParts, AnswerKnown, Watched, Anthropic

\* The packet that completes a message is sent when all blocks are closed.
LEMMA LastIsSummed ==
  ASSUME StreamInvariant, Watched, phase # "ended", LastYielded
  PROVE  SeenAfter(client).stage = "summed"
<1>1. IsSequence(client) /\ IsSequence(outbox) /\ Legal(client \o outbox)
  BY DEF StreamInvariant, AnswerParts, AnswerKnown, Yielded
<1>2. outbox # <<>> /\ Head(outbox).kind = "message_stop" BY DEF LastYielded, Watched
<1>3. Allowed(SeenAfter(client), Head(outbox)) BY <1>1, <1>2, LegalBefore
<1> QED BY <1>2, <1>3 DEF Allowed

LEMMA LeavingKept ==
  ASSUME StreamInvariant, ClientLeaves
  PROVE  StreamInvariant'
<1>1. /\ phase \in {"replaying", "waiting", "failing", "reading", "read", "closing"}
      /\ phase' = "ended" /\ outbox' = <<>>
      /\ upstream' = upstream /\ choice' = choice /\ writer' = writer
      /\ request' = request /\ bridged' = bridged /\ client' = client
  BY DEF ClientLeaves, SameAnswer
<1>2. Anthropic' = Anthropic /\ Watched' = Watched BY <1>1 DEF Anthropic, Watched
<1>3. request.stream BY <1>1 DEF StreamInvariant, PhaseKnown
<1>4. CASE phase = "replaying" /\ UNCHANGED <<records, partial>>
  <2>1. /\ Anthropic
        /\ \/ records \in {<<"ok">>, <<"malformed">>, <<"malformed", "ok">>}
           \/ records = <<>> /\ writer.refused
        /\ records = <<"ok">> => bridged \/ writer.said = <<"whole">>
    BY <1>4 DEF StreamInvariant, RecordKnown
  <2>2. records \in {<<"ok">>, <<"malformed">>} => Len(records) = 1 OBVIOUS
  <2>3. RecordedOnce' BY <1>1, <1>2, <1>4, <2>1, <2>2 DEF RecordedOnce
  <2> QED BY <1>1, <1>2, <2>3, Empty
      DEF StreamInvariant, PhaseKnown, RecordKnown, AnswerParts, AnswerKnown
<1>5. CASE phase \in {"waiting", "failing"} /\ Record("gone")
  <2>1. records' = <<"gone">>
    BY <1>5, Recorded1 DEF Record, StreamInvariant, RecordKnown
  <2>2. RecordedOnce'
    <3>1. Len(records') = 1 /\ records' # <<"ok">> BY <2>1
    <3> QED BY <3>1 DEF RecordedOnce
  <2> QED BY <1>1, <1>2, <2>2, Empty
      DEF StreamInvariant, PhaseKnown, RecordKnown, AnswerParts, AnswerKnown
<1>6. CASE phase \in {"reading", "read", "closing"} /\ RecordLeaving
  <2>1. /\ records = <<>> \/ (Anthropic /\ records = <<"malformed">>)
        /\ records = <<"malformed">> => phase = "closing"
    <3>1. <<"malformed">> # <<>> OBVIOUS
    <3> QED BY <1>6, <3>1 DEF StreamInvariant, RecordKnown
  <2>2. PICK how \in {"gone", "error", "ok"} :
            /\ records' = Append(records, how)
            /\ how = "ok" => LastYielded
            /\ how = "error" => writer.failed
    BY <1>6 DEF RecordLeaving, Record
  <2>3. /\ records = <<>> => records' = <<how>> /\ Len(records') = 1
        /\ records = <<"malformed">> => records' = <<"malformed", how>>
    BY <2>2, Recorded1, Recorded2
  <2>4. RecordedOnce'
    <3>1. records' = <<"ok">> /\ Anthropic => Seen'.stage = "summed"
      <4> SUFFICES ASSUME records' = <<"ok">>, Anthropic PROVE Seen'.stage = "summed" OBVIOUS
      <4>1. how = "ok"
        <5>1. <<"malformed", how>> # <<"ok">> /\ (<<how>> = <<"ok">> => how = "ok") OBVIOUS
        <5> QED BY <2>1, <2>3, <5>1
      <4>2. Watched BY <1>3 DEF Watched
      <4>3. SeenAfter(client).stage = "summed" BY <1>1, <2>2, <4>1, <4>2, LastIsSummed
      <4>4. Seen' = SeenAfter(client) BY <1>1, <1>2, <1>3 DEF Seen, SeenAfter
      <4> QED BY <4>3, <4>4
    <3>2. records = <<"malformed">> => how # "error"
      <4> SUFFICES ASSUME records = <<"malformed">> PROVE how # "error" OBVIOUS
      <4>1. Anthropic /\ phase = "closing"
        <5>1. <<"malformed">> # <<>> OBVIOUS
        <5> QED BY <2>1, <5>1
      <4>2. Watched BY <1>3, <4>1 DEF Watched
      <4>3. writer.failed = FALSE BY <4>1, <4>2 DEF StreamInvariant, AnswerKnown
      <4> QED BY <2>2, <4>3
    <3>3. \/ Len(records') = 1
          \/ records' \in {<<"malformed", "ok">>, <<"malformed", "gone">>} /\ Anthropic
      BY <2>1, <2>2, <2>3, <3>2
    <3> QED BY <1>2, <3>1, <3>3 DEF RecordedOnce
  <2> QED BY <1>1, <1>2, <2>4, Empty
      DEF StreamInvariant, PhaseKnown, RecordKnown, AnswerParts, AnswerKnown
<1> QED BY <1>4, <1>5, <1>6 DEF ClientLeaves

-----------------------------------------------------------------------------
(* A request that is not streamed                                           *)

LEMMA CollectingKept ==
  ASSUME StreamInvariant,
         \/ \E kind \in Kinds : Collect(kind) \/ CollectAgain(kind)
         \/ \E chunk \in Chunks : CollectChunk(chunk)
         \/ CollectEnds
  PROVE  StreamInvariant'
<1>1. /\ phase \in {"opening", "collecting", "collected"}
      /\ phase' \in {"collecting", "collected"} \/ (phase' = "ended" /\ writer'.unread)
      /\ phase = "opening" => ~request.stream
      /\ request' = request /\ bridged' = bridged /\ records' = records
  <2>1. ASSUME NEW kind \in Kinds,
               \/ writer' = [FreshWriter EXCEPT !.meant = kind = "whole",
                                !.unread = kind = "unread",
                                !.message.finish = IF kind = "whole" THEN "stop" ELSE None,
                                !.failed = kind \in {"error", "none"}]
               \/ writer' = [FreshWriter EXCEPT !.meant = kind = "whole",
                                !.unread = kind = "unread",
                                !.message.finish = IF kind = "whole" THEN "stop" ELSE None]
        PROVE  writer'.unread = (kind = "unread")
    BY <2>1 DEF FreshWriter
  <2>2. ASSUME NEW kind \in Kinds, Collect(kind) \/ CollectAgain(kind)
        PROVE  phase' \in {"collecting", "collected"} \/ (phase' = "ended" /\ writer'.unread)
    <3>1. writer'.unread = (kind = "unread") BY <2>1, <2>2 DEF Collect, CollectAgain
    <3>2. phase' = Collected(kind) BY <2>2 DEF Collect, CollectAgain
    <3> QED BY <3>1, <3>2 DEF Collected
  <2>3. /\ phase \in {"opening", "collecting", "collected"}
        /\ phase = "opening" => ~request.stream
        /\ request' = request /\ bridged' = bridged /\ records' = records
    BY DEF Collect, CollectAgain, CollectChunk, CollectEnds
  <2>4. (CollectEnds \/ \E chunk \in Chunks : CollectChunk(chunk))
           => phase' \in {"collecting", "collected"}
    BY DEF CollectChunk, CollectEnds
  <2> QED BY <2>2, <2>3, <2>4
<1>2. ~request.stream /\ records = <<>> BY <1>1 DEF StreamInvariant, PhaseKnown, RecordKnown
<1> QED BY <1>1, <1>2, SMTT(20)
    DEF StreamInvariant, PhaseKnown, RecordKnown, RecordedOnce, Watched, Anthropic

LEMMA AnswerKept ==
  ASSUME StreamInvariant, Answer
  PROVE  StreamInvariant'
<1>1. /\ phase = "collected" /\ phase' = "ended" /\ request' = request /\ bridged' = bridged
      /\ \E how \in {"failed", "malformed", "ok"} : records' = Append(records, how)
  BY DEF Answer, AnswerFailed, AnswerMalformed, AnswerWhole, Record
<1>2. ~request.stream /\ records = <<>> BY <1>1 DEF StreamInvariant, PhaseKnown, RecordKnown
<1>3. Len(records') = 1 BY <1>1, <1>2, Recorded1
<1> QED BY <1>1, <1>2, <1>3
    DEF StreamInvariant, PhaseKnown, RecordKnown, RecordedOnce, Watched, Anthropic

-----------------------------------------------------------------------------
(* Theorems                                                                 *)

LEMMA StreamStart == StreamInit => StreamInvariant
<1> SUFFICES ASSUME StreamInit PROVE StreamInvariant OBVIOUS
<1>1. /\ request \in ClientRequests /\ phase = "opening" /\ bridged = FALSE
      /\ upstream = <<>> /\ choice = FreshChoice /\ writer = FreshWriter
      /\ outbox = <<>> /\ client = <<>> /\ records = <<>>
  BY DEF StreamInit
<1>2. writer.out = <<>> BY <1>1 DEF FreshWriter
<1>3. Holds(choice) BY <1>1, Empty DEF Holds, ChoiceParts, FreshChoice
<1>4. Len(upstream) <= MaxChunks BY <1>1, Empty, StreamAssumption
<1>5. AnswerParts BY <1>1, <1>2, <1>3, <1>4, Empty DEF AnswerParts
<1>6. Legal(Yielded) BY <1>1, Empty, EmptyAside, LegalNothing DEF Yielded
<1>7. AnswerKnown BY <1>1, <1>6 DEF AnswerKnown
<1> QED BY <1>1, <1>5, <1>7 DEF StreamInvariant, PhaseKnown, RecordKnown, RecordedOnce

LEMMA StreamStep == StreamInvariant /\ [StreamNext]_streamVars => StreamInvariant'
<1> SUFFICES ASSUME StreamInvariant, [StreamNext]_streamVars PROVE StreamInvariant' OBVIOUS
<1>1. CASE UNCHANGED streamVars
  BY <1>1 DEF streamVars, StreamInvariant, PhaseKnown, RecordKnown, AnswerParts, AnswerKnown,
              RecordedOnce, Watched, Anthropic, Yielded, Seen
<1>2. ASSUME NEW kind \in Kinds, OpenedInTime(kind) PROVE StreamInvariant' BY <1>2, OpeningKept
<1>3. ASSUME NEW kind \in Kinds, WaitingIsOver(kind) PROVE StreamInvariant' BY <1>3, WaitingKept
<1>4. ASSUME NEW kind \in Kinds, AnthropicFailover(kind) PROVE StreamInvariant'
  BY <1>4, FailoverKept
<1>5. ASSUME NEW chunk \in Chunks, ReadChunk(chunk) PROVE StreamInvariant' BY <1>5, ChunkKept
<1>6. CASE \/ \E kind \in Kinds : Collect(kind) \/ CollectAgain(kind)
           \/ \E chunk \in Chunks : CollectChunk(chunk)
           \/ CollectEnds
  BY <1>6, CollectingKept
<1>7. CASE GraceElapses BY <1>7, GraceKept
<1>8. CASE ReadOther BY <1>8, OtherKept
<1>9. CASE StreamEnds BY <1>9, EndKept
<1>10. CASE ReadFails BY <1>10, FailureKept
<1>11. CASE AnthropicMalformed BY <1>11, MalformedKept
<1>12. CASE AnthropicCloses BY <1>12, ClosingKept
<1>13. CASE GeminiCloses BY <1>13, GeminiClosingKept
<1>14. CASE HandlerEnds BY <1>14, HandlerKept
<1>15. CASE WaitingEnds BY <1>15, WaitingEndKept
<1>16. CASE Deliver BY <1>16, DeliveryKept
<1>17. CASE Replayed BY <1>17, ReplayKept
<1>18. CASE ClientLeaves BY <1>18, LeavingKept
<1>19. CASE Answer BY <1>19, AnswerKept
<1> QED BY <1>1, <1>2, <1>3, <1>4, <1>5, <1>6, <1>7, <1>8, <1>9, <1>10, <1>11, <1>12, <1>13, <1>14,
           <1>15, <1>16, <1>17, <1>18, <1>19 DEF StreamNext

\* Whatever clients ask for and upstreams send, the answer is where its phase says
\* it is: nothing is recorded before its end except what is recorded before it is
\* sent, and every packet of a streamed answer of /v1/messages, sent or waiting to be
\* sent, is one the message allows after the packets before it, with the writer's
\* record of its blocks (server.py, anthropic_stream) the client's.
THEOREM StreamsKnown == StreamSpec => []StreamInvariant
BY StreamStart, StreamStep, PTL DEF StreamSpec

\* An answer of /v1/messages or :generateContent that has ended was recorded once; one of
\* /v1/messages twice where the events were malformed and its retry was handed on.  It was
\* not recorded at all in two cases: a further attempt of a stream of /v1/messages was
\* refused, or the JSON body of an answer could not be read where nothing catches the
\* exception (server.py:7022, 7301, 8257; the read at 8062 is recorded).  A stream of
\* packets recorded as "ok" alone was summed up to the client, unless it came whole or
\* from the bridge.
THEOREM AnswersRecordedOnce == StreamSpec => []RecordedOnce
<1>1. StreamInvariant => RecordedOnce BY DEF StreamInvariant
<1> QED BY <1>1, StreamsKnown, PTL

-----------------------------------------------------------------------------
(* The refinement                                                           *)

LEMMA SeenStart == StreamInit => Promise!Init
<1> SUFFICES ASSUME StreamInit PROVE Promise!Init OBVIOUS
<1>1. client = <<>> BY DEF StreamInit
<1>2. SeenAfter(client) = Unseen BY <1>1, LastOfNothing
<1>3. Seen = Unseen BY <1>2 DEF Seen, SeenAfter
<1> QED BY <1>3 DEF Promise!Init, Unseen

\* What the client has changes in three ways only.
LEMMA ClientChanges ==
  ASSUME StreamNext
  PROVE  /\ request' = request
         /\ \/ client' = client
            \/ Deliver
            \/ phase = "opening" /\ client' = <<ErrorPacket>>
            \/ phase = "collected"
<1>1. ASSUME NEW kind \in Kinds,
             \/ OpenedInTime(kind) \/ WaitingIsOver(kind) \/ AnthropicFailover(kind)
             \/ Collect(kind) \/ CollectAgain(kind)
      PROVE  /\ request' = request
             /\ client' = client \/ (phase = "opening" /\ client' = <<ErrorPacket>>)
  BY <1>1 DEF OpenedInTime, FailOpening, WaitingIsOver, AnthropicFailover, Collect, CollectAgain
<1>2. ASSUME NEW chunk \in Chunks, ReadChunk(chunk) \/ CollectChunk(chunk)
      PROVE  request' = request /\ client' = client
  BY <1>2 DEF ReadChunk, CollectChunk
<1>3. CASE \/ GraceElapses \/ ReadOther \/ StreamEnds \/ ReadFails \/ AnthropicMalformed
           \/ AnthropicCloses \/ GeminiCloses \/ HandlerEnds \/ WaitingEnds \/ Replayed
           \/ ClientLeaves \/ CollectEnds
  BY <1>3 DEF GraceElapses, ReadOther, StreamEnds, ReadFails, AnthropicMalformed, AnthropicCloses,
              GeminiCloses, HandlerEnds, WaitingEnds, Replayed, ClientLeaves, CollectEnds
<1>4. CASE Deliver BY <1>4 DEF Deliver
<1>5. CASE Answer BY <1>5 DEF Answer
<1> QED BY <1>1, <1>2, <1>3, <1>4, <1>5 DEF StreamNext

LEMMA SeenStep ==
  StreamInvariant /\ [StreamNext]_streamVars => [Promise!Next]_(Promise!vars)
<1> SUFFICES ASSUME StreamInvariant, [StreamNext]_streamVars
             PROVE  Promise!Next \/ Seen' = Seen
  BY DEF Promise!vars
<1>1. CASE UNCHANGED streamVars BY <1>1 DEF streamVars, Seen, Anthropic
<1>2. CASE StreamNext
  <2>1. request' = request BY <1>2, ClientChanges
  <2>2. Watched' = Watched BY <2>1 DEF Watched, Anthropic
  <2>3. CASE ~Watched BY <2>2, <2>3 DEF Seen, Watched
  <2>4. CASE client' = client BY <2>1, <2>4 DEF Seen, Anthropic
  <2>5. CASE Watched /\ client' # client
    <3>1. /\ AnswerParts /\ Seen = SeenAfter(client) /\ Seen' = SeenAfter(client')
          /\ IsSequence(client)
      BY <2>2, <2>5 DEF StreamInvariant, AnswerParts, Seen, SeenAfter, Watched
    <3>2. phase # "collected" BY <2>5 DEF StreamInvariant, PhaseKnown, Watched
    <3>3. PICK p : Allowed(SeenAfter(client), p) /\ client' = Append(client, p)
      <4>1. CASE Deliver
        <5>1. /\ outbox # <<>> /\ client' = Append(client, Head(outbox)) /\ phase # "ended"
          BY <4>1 DEF Deliver, Sending
        <5>2. IsSequence(outbox) /\ Legal(client \o outbox)
          BY <2>5, <5>1 DEF StreamInvariant, AnswerParts, AnswerKnown, Yielded
        <5>3. Allowed(SeenAfter(client), Head(outbox)) BY <3>1, <5>1, <5>2, LegalBefore
        <5> QED BY <5>1, <5>3
      <4>2. CASE phase = "opening" /\ client' = <<ErrorPacket>>
        <5>1. client = <<>> /\ SeenAfter(client) = Unseen BY <4>2, NothingYielded
        <5>2. client' = Append(client, ErrorPacket) BY <4>2, <5>1, Recorded1
        <5>3. Allowed(SeenAfter(client), ErrorPacket)
          BY <5>1 DEF Allowed, Unseen, ErrorPacket, Packet
        <5> QED BY <5>2, <5>3
      <4> QED BY <1>2, <2>5, <3>2, <4>1, <4>2, ClientChanges
    <3>4. Seen' = See(Seen, p) BY <3>1, <3>3, LastAppended
    <3>5. DOMAIN Seen = ViewParts
      <4>1. Len(client) \in 0 .. Len(client) BY <3>1, Bounds
      <4> QED BY <3>1, <4>1, ViewHasParts DEF SeenAfter
    <3>6. Promise!Next BY <3>1, <3>3, <3>4, <3>5, AllowedStep
    <3> QED BY <3>6
  <2> QED BY <2>3, <2>4, <2>5
<1> QED BY <1>1, <1>2

\* A client of /v1/messages sees what MessageStream promises, for any texts and calls
\* in any number of chunks: one message_start, blocks that are opened under the next
\* number, filled while they are open and closed, and then the end of the message with
\* all blocks closed, or an error, and nothing after either.
THEOREM MessagePromised == StreamSpec => ClientSees
<1>1. StreamSpec => []StreamInvariant BY StreamsKnown
<1> QED BY <1>1, SeenStart, SeenStep, PTL DEF StreamSpec, ClientSees, Promise!Spec

-----------------------------------------------------------------------------
(* Words                                                                    *)

\* The text s is where the text t begins.
Begins(s, t) ==
  /\ IsSequence(s) /\ IsSequence(t) /\ Len(s) <= Len(t)
  /\ \A k \in 1 .. Len(s) : s[k] = t[k]

LEMMA BeginsPrefix ==
  ASSUME NEW s, NEW t, Begins(s, t)
  PROVE  IsPrefix(s, t)
<1>1. Len(s) \in Nat /\ Len(t) \in Nat /\ Len(s) <= Len(t) BY Bounds DEF Begins
<1> DEFINE a == SubSeq(s, 1, Len(s))
           b == SubSeq(t, 1, Len(s))
<1>2. /\ 1 \in 1 .. (Len(s) + 1) /\ Len(s) \in (1 - 1) .. Len(s)
      /\ 1 \in 1 .. (Len(t) + 1) /\ Len(s) \in (1 - 1) .. Len(t)
      /\ Len(s) - 1 + 1 = Len(s)
  BY <1>1
<1>3. /\ IsSequence(a) /\ Len(a) = Len(s) - 1 + 1
      /\ \A k \in 1 .. (Len(s) - 1 + 1) : a[k] = s[1 + k - 1]
  BY <1>2, Part DEF Begins
<1>4. /\ IsSequence(b) /\ Len(b) = Len(s) - 1 + 1
      /\ \A k \in 1 .. (Len(s) - 1 + 1) : b[k] = t[1 + k - 1]
  BY <1>2, Part DEF Begins
<1> HIDE DEF a, b
<1>5. ASSUME NEW k \in 1 .. Len(a) PROVE a[k] = b[k]
  <2>1. k \in 1 .. Len(s) /\ 1 + k - 1 = k BY <1>1, <1>2, <1>3, <1>5
  <2>2. a[k] = s[k] BY <1>2, <1>3, <2>1
  <2>3. b[k] = t[k] BY <1>2, <1>4, <2>1
  <2>4. s[k] = t[k] BY <2>1 DEF Begins
  <2> QED BY <2>2, <2>3, <2>4
<1>6. a = b BY <1>2, <1>3, <1>4, <1>5, SameElements
<1> QED BY <1>1, <1>6 DEF IsPrefix, a, b

LEMMA BeginsSelf ==
  ASSUME NEW s, IsSequence(s)
  PROVE  Begins(s, s) /\ Begins(<<>>, s)
<1>1. Len(s) \in Nat BY Bounds
<1>2. Len(<<>>) = 0 /\ IsSequence(<<>>) BY Empty
<1>3. \A k \in 1 .. 0 : <<>>[k] = s[k] OBVIOUS
<1>4. Begins(<<>>, s) BY <1>1, <1>2, <1>3 DEF Begins
<1> QED BY <1>1, <1>4 DEF Begins

\* What begins a text begins the text that goes on.
LEMMA BeginsMore ==
  ASSUME NEW s, NEW t, Begins(s, t), NEW u, IsSequence(u)
  PROVE  Begins(s, t \o u)
<1>1. IsSequence(s) /\ IsSequence(t) /\ Len(s) <= Len(t) /\ \A k \in 1 .. Len(s) : s[k] = t[k]
  BY DEF Begins
<1>2. Len(s) \in Nat /\ Len(t) \in Nat /\ Len(u) \in Nat BY <1>1, Bounds
<1> DEFINE c == t \o u
<1>3. IsSequence(c) /\ Len(c) = Len(t) + Len(u) /\ \A k \in 1 .. Len(t) : c[k] = t[k]
  BY <1>1, Concatenated
<1> HIDE DEF c
<1>4. Len(s) <= Len(c) /\ \A k \in 1 .. Len(s) : s[k] = c[k] BY <1>1, <1>2, <1>3
<1>5. Begins(s, c) BY <1>1, <1>3, <1>4 DEF Begins
<1> QED BY <1>5 DEF c

\* A first part begins the whole, and what begins the second part goes on after the first.
LEMMA BeginsAside ==
  ASSUME NEW t, IsSequence(t), NEW s, NEW u, Begins(s, u)
  PROVE  Begins(t \o s, t \o u)
<1>1. IsSequence(s) /\ IsSequence(u) /\ Len(s) <= Len(u) /\ \A k \in 1 .. Len(s) : s[k] = u[k]
  BY DEF Begins
<1>2. Len(s) \in Nat /\ Len(t) \in Nat /\ Len(u) \in Nat BY <1>1, Bounds
<1> DEFINE a == t \o s
           b == t \o u
<1>3. /\ IsSequence(a) /\ Len(a) = Len(t) + Len(s)
      /\ \A k \in 1 .. Len(t) : a[k] = t[k]
      /\ \A k \in 1 .. Len(s) : a[Len(t) + k] = s[k]
  BY <1>1, Concatenated
<1>4. /\ IsSequence(b) /\ Len(b) = Len(t) + Len(u)
      /\ \A k \in 1 .. Len(t) : b[k] = t[k]
      /\ \A k \in 1 .. Len(u) : b[Len(t) + k] = u[k]
  BY <1>1, Concatenated
<1> HIDE DEF a, b
<1>5. ASSUME NEW k \in 1 .. Len(a) PROVE a[k] = b[k]
  <2>1. CASE k \in 1 .. Len(t) BY <1>3, <1>4, <2>1
  <2>2. CASE k \notin 1 .. Len(t)
    <3>1. k - Len(t) \in 1 .. Len(s) /\ Len(t) + (k - Len(t)) = k BY <1>2, <1>3, <2>2
    <3>2. k - Len(t) \in 1 .. Len(u) BY <1>1, <1>2, <3>1
    <3>3. a[k] = s[k - Len(t)] BY <1>3, <3>1
    <3>4. b[k] = u[k - Len(t)] BY <1>4, <3>1, <3>2
    <3> QED BY <1>1, <3>1, <3>3, <3>4
  <2> QED BY <2>1, <2>2
<1>6. Len(a) <= Len(b) BY <1>1, <1>2, <1>3, <1>4
<1>7. Begins(a, b) BY <1>3, <1>4, <1>5, <1>6 DEF Begins
<1> QED BY <1>7 DEF a, b

LEMMA BeginsWhole ==
  ASSUME NEW s, IsSequence(s), NEW t, IsSequence(t)
  PROVE  Begins(s, s \o t)
BY BeginsSelf, BeginsMore

LEMMA BeginsThrough ==
  ASSUME NEW s, NEW t, NEW u, Begins(s, t), Begins(t, u)
  PROVE  Begins(s, u)
<1>1. /\ IsSequence(s) /\ IsSequence(t) /\ IsSequence(u) /\ Len(s) <= Len(t) /\ Len(t) <= Len(u)
      /\ \A k \in 1 .. Len(s) : s[k] = t[k]
      /\ \A k \in 1 .. Len(t) : t[k] = u[k]
  BY DEF Begins
<1>2. Len(s) \in Nat /\ Len(t) \in Nat /\ Len(u) \in Nat BY <1>1, Bounds
<1>3. \A k \in 1 .. Len(s) : k \in 1 .. Len(t) BY <1>1, <1>2
<1>4. \A k \in 1 .. Len(s) : s[k] = u[k] BY <1>1, <1>3
<1>5. Len(s) <= Len(u) BY <1>1, <1>2, SMTT(20)
<1> QED BY <1>1, <1>4, <1>5 DEF Begins

\* A text is its beginning and its end.
LEMMA Split ==
  ASSUME NEW s, IsSequence(s), NEW n \in 0 .. Len(s)
  PROVE  /\ IsSequence(SubSeq(s, 1, n)) /\ IsSequence(SubSeq(s, n + 1, Len(s)))
         /\ SubSeq(s, 1, n) \o SubSeq(s, n + 1, Len(s)) = s
         /\ Len(SubSeq(s, 1, n)) = n /\ \A k \in 1 .. n : SubSeq(s, 1, n)[k] = s[k]
<1>1. Len(s) \in Nat BY Bounds
<1> DEFINE a == SubSeq(s, 1, n)
           b == SubSeq(s, n + 1, Len(s))
           c == a \o b
<1>2. /\ 1 \in 1 .. (Len(s) + 1) /\ n \in (1 - 1) .. Len(s)
      /\ n + 1 \in 1 .. (Len(s) + 1) /\ Len(s) \in ((n + 1) - 1) .. Len(s)
      /\ n - 1 + 1 = n /\ Len(s) - (n + 1) + 1 = Len(s) - n
  BY <1>1
<1>3. /\ IsSequence(a) /\ Len(a) = n - 1 + 1
      /\ \A k \in 1 .. (n - 1 + 1) : a[k] = s[1 + k - 1]
  BY <1>2, Part
<1>4. /\ IsSequence(b) /\ Len(b) = Len(s) - (n + 1) + 1
      /\ \A k \in 1 .. (Len(s) - (n + 1) + 1) : b[k] = s[(n + 1) + k - 1]
  BY <1>2, Part
<1> HIDE DEF a, b
<1>5. /\ IsSequence(c) /\ Len(c) = Len(a) + Len(b)
      /\ \A k \in 1 .. Len(a) : c[k] = a[k]
      /\ \A k \in 1 .. Len(b) : c[Len(a) + k] = b[k]
  <2>1. IsSequence(a) /\ IsSequence(b) BY <1>3, <1>4
  <2> QED BY <2>1, Concatenated
<1> HIDE DEF c
<1>6. ASSUME NEW k \in 1 .. n PROVE a[k] = s[k]
  <2>1. 1 + k - 1 = k OBVIOUS
  <2> QED BY <1>2, <1>3, <2>1
<1>7. ASSUME NEW k \in 1 .. Len(c) PROVE c[k] = s[k]
  <2>1. Len(c) = Len(s) BY <1>1, <1>2, <1>3, <1>4, <1>5
  <2>2. CASE k \in 1 .. n BY <1>2, <1>3, <1>5, <1>6, <2>2
  <2>3. CASE k \notin 1 .. n
    <3>1. k - n \in 1 .. (Len(s) - n) /\ n + (k - n) = k /\ (n + 1) + (k - n) - 1 = k
      BY <1>1, <2>1, <2>3
    <3>2. c[k] = b[k - n] BY <1>2, <1>3, <1>4, <1>5, <3>1
    <3>3. b[k - n] = s[k] BY <1>2, <1>4, <3>1
    <3> QED BY <3>2, <3>3
  <2> QED BY <2>2, <2>3
<1>8. Len(c) = Len(s) BY <1>1, <1>2, <1>3, <1>4, <1>5
<1>9. c = s BY <1>5, <1>7, <1>8, SameElements
<1> QED BY <1>2, <1>3, <1>4, <1>6, <1>9 DEF a, b, c

\* The words of a text are kept one by one.
LEMMA WordsDefined ==
  ASSUME NEW text, Len(text) \in Nat
  PROVE  \E f : /\ f[0] = <<>>
                /\ \A k \in 1 .. Len(text) : f[k] = Worded(f[k - 1], text[k])
                /\ Words(text) = f[Len(text)]
<1> DEFINE n == Len(text)
           Is(f, m) == f = [k \in 0 .. m |->
                             IF k = 0 THEN <<>>
                             ELSE Worded(f[k - 1], text[k])]
           T == {m \in Nat : \E f : Is(f, m)}
           after == CHOOSE f : f = [k \in 0 .. n |->
                                     IF k = 0 THEN <<>>
                                     ELSE Worded(f[k - 1], text[k])]
<1>1. 0 \in T
  <2> DEFINE g == [k \in 0 .. 0 |-> <<>>]
  <2>1. Is(g, 0) OBVIOUS
  <2> HIDE DEF g
  <2> QED BY <2>1
<1>2. ASSUME NEW m \in 1 .. n, m - 1 \in T PROVE m \in T
  <2>1. m \in Nat /\ m - 1 \in Nat OBVIOUS
  <2>2. PICK f : Is(f, m - 1) BY <1>2
  <2> DEFINE g == [k \in 0 .. m |-> IF k = m THEN Worded(f[m - 1], text[m]) ELSE f[k]]
             h == [k \in 0 .. m |->
                    IF k = 0 THEN <<>> ELSE Worded(g[k - 1], text[k])]
  <2>3. /\ f[0] = <<>>
        /\ \A k \in 1 .. (m - 1) : f[k] = Worded(f[k - 1], text[k])
    BY <2>1, <2>2
  <2>4. /\ g[m] = Worded(f[m - 1], text[m])
        /\ \A k \in 0 .. (m - 1) : g[k] = f[k]
    BY <2>1
  <2>5. ASSUME NEW k \in 0 .. m PROVE g[k] = h[k]
    <3>1. h[k] = IF k = 0 THEN <<>> ELSE Worded(g[k - 1], text[k]) OBVIOUS
    <3> HIDE DEF g, h
    <3>2. CASE k = 0 BY <2>1, <2>3, <2>4, <3>1, <3>2
    <3>3. CASE k = m /\ k # 0
      <4>1. g[k - 1] = f[k - 1] BY <2>1, <2>4, <3>3
      <4> QED BY <2>4, <3>1, <3>3, <4>1
    <3>4. CASE k \in 1 .. (m - 1)
      <4>1. g[k] = f[k] /\ g[k - 1] = f[k - 1] BY <2>1, <2>4, <3>4
      <4>2. k # 0 BY <3>4
      <4> QED BY <2>3, <3>1, <3>4, <4>1, <4>2
    <3> QED BY <2>1, <3>2, <3>3, <3>4
  <2>6. g = h BY <2>5
  <2>7. Is(g, m) BY <2>6
  <2> HIDE DEF g, h, Is
  <2> QED BY <2>1, <2>7
<1>3. \A m \in 0 .. n : m \in T
  <2> HIDE DEF T
  <2> QED BY <1>1, <1>2, Climb
<1>4. PICK f : Is(f, n) BY <1>3
<1>5. after = [k \in 0 .. n |->
                IF k = 0 THEN <<>> ELSE Worded(after[k - 1], text[k])] BY <1>4
<1>6. Words(text) = after[n] BY DEF Words, Worded
<1> HIDE DEF after
<1>7. after[0] = <<>> BY <1>5
<1>8. \A k \in 1 .. n : after[k] = Worded(after[k - 1], text[k]) BY <1>5
<1> QED BY <1>6, <1>7, <1>8

LEMMA WordsListed ==
  ASSUME NEW text, IsSequence(text)
  PROVE  IsSequence(Words(text))
<1>1. Len(text) \in Nat BY Bounds
<1>2. PICK f : /\ f[0] = <<>>
               /\ \A k \in 1 .. Len(text) : f[k] = Worded(f[k - 1], text[k])
               /\ Words(text) = f[Len(text)]
  BY <1>1, WordsDefined
<1> DEFINE T == {k \in Nat : IsSequence(f[k])}
<1>3. 0 \in T BY <1>2, Empty
<1>4. ASSUME NEW k \in 1 .. Len(text), k - 1 \in T PROVE k \in T
  <2>1. IsSequence(f[k - 1]) /\ k \in Nat BY <1>4
  <2>2. f[k] = Worded(f[k - 1], text[k]) BY <1>2
  <2>3. IsSequence(Append(f[k - 1], text[k])) BY <2>1, Appended
  <2> QED BY <2>1, <2>2, <2>3 DEF Worded
<1>5. \A k \in 0 .. Len(text) : k \in T
  <2> HIDE DEF T
  <2> QED BY <1>1, <1>3, <1>4, Climb
<1>6. Len(text) \in T BY <1>1, <1>5
<1> QED BY <1>2, <1>6

\* The words of two texts are the words of the one and then of the other.
LEMMA WordsAside ==
  ASSUME NEW s, IsSequence(s), NEW t, IsSequence(t)
  PROVE  Words(s \o t) = Words(s) \o Words(t)
<1> DEFINE c == s \o t
<1>1. Len(s) \in Nat /\ Len(t) \in Nat BY Bounds
<1>2. /\ IsSequence(c) /\ Len(c) = Len(s) + Len(t)
      /\ \A k \in 1 .. Len(s) : c[k] = s[k]
      /\ \A k \in 1 .. Len(t) : c[Len(s) + k] = t[k]
  BY Concatenated
<1> HIDE DEF c
<1>3. PICK f : /\ f[0] = <<>>
               /\ \A k \in 1 .. Len(s) : f[k] = Worded(f[k - 1], s[k])
               /\ Words(s) = f[Len(s)]
  BY <1>1, WordsDefined
<1>4. PICK g : /\ g[0] = <<>>
               /\ \A k \in 1 .. Len(t) : g[k] = Worded(g[k - 1], t[k])
               /\ Words(t) = g[Len(t)]
  BY <1>1, WordsDefined
<1>5. Len(c) \in Nat BY <1>2, Bounds
<1>6. PICK h : /\ h[0] = <<>>
               /\ \A k \in 1 .. Len(c) : h[k] = Worded(h[k - 1], c[k])
               /\ Words(c) = h[Len(c)]
  BY <1>5, WordsDefined
<1> DEFINE T == {k \in Nat : h[k] = f[k]}
<1>7. 0 \in T BY <1>3, <1>6
<1>8. ASSUME NEW k \in 1 .. Len(s), k - 1 \in T PROVE k \in T
  <2>1. k \in 1 .. Len(c) /\ k \in Nat /\ h[k - 1] = f[k - 1] BY <1>1, <1>2, <1>8
  <2>2. h[k] = Worded(h[k - 1], c[k]) /\ f[k] = Worded(f[k - 1], s[k]) BY <1>3, <1>6, <2>1
  <2> QED BY <1>2, <2>1, <2>2
<1>9. Len(s) \in T
  <2> HIDE DEF T
  <2>1. \A k \in 0 .. Len(s) : k \in T BY <1>1, <1>7, <1>8, Climb
  <2> QED BY <1>1, <2>1
<1> DEFINE U == {k \in Nat : h[Len(s) + k] = Words(s) \o g[k] /\ IsSequence(g[k])}
<1>10. 0 \in U
  <2>1. Words(s) \o <<>> = Words(s) BY WordsListed, EmptyAside
  <2>2. Len(s) + 0 = Len(s) BY <1>1
  <2> QED BY <1>3, <1>4, <1>9, <2>1, <2>2, Empty
<1>11. ASSUME NEW k \in 1 .. Len(t), k - 1 \in U PROVE k \in U
  <2>1. /\ Len(s) + k \in 1 .. Len(c) /\ (Len(s) + k) - 1 = Len(s) + (k - 1)
        /\ h[Len(s) + (k - 1)] = Words(s) \o g[k - 1] /\ IsSequence(g[k - 1]) /\ k \in Nat
    BY <1>1, <1>2, <1>11
  <2>2. h[Len(s) + k] = Worded(h[Len(s) + (k - 1)], c[Len(s) + k]) BY <1>6, <2>1
  <2>3. h[Len(s) + k] = Worded(Words(s) \o g[k - 1], t[k]) BY <1>2, <2>1, <2>2
  <2>4. g[k] = Worded(g[k - 1], t[k]) BY <1>4
  <2>5. /\ Words(s) \o Append(g[k - 1], t[k]) = Append(Words(s) \o g[k - 1], t[k])
        /\ IsSequence(Append(g[k - 1], t[k]))
    BY <2>1, WordsListed, AppendAside, Appended
  <2>6. h[Len(s) + k] = Words(s) \o g[k] /\ IsSequence(g[k])
    BY <2>1, <2>3, <2>4, <2>5 DEF Worded
  <2> QED BY <2>1, <2>6
<1>12. Len(t) \in U
  <2> HIDE DEF U
  <2>1. \A k \in 0 .. Len(t) : k \in U BY <1>1, <1>10, <1>11, Climb
  <2> QED BY <1>1, <2>1
<1> QED BY <1>2, <1>4, <1>6, <1>12 DEF c

\* The words of a text and one more token
LEMMA WordsMore ==
  ASSUME NEW s, IsSequence(s), NEW x
  PROVE  Words(Append(s, x)) = Worded(Words(s), x)
<1>1. IsSequence(<<x>>) /\ Len(<<x>>) = 1 /\ <<x>>[1] = x BY One
<1>2. s \o <<x>> = Append(s, x)
  <2>1. <<x>> = Append(<<>>, x) BY Recorded1
  <2>2. s \o Append(<<>>, x) = Append(s \o <<>>, x) BY Empty, AppendAside
  <2>3. s \o <<>> = s BY EmptyAside
  <2> QED BY <2>1, <2>2, <2>3
<1>3. PICK f : /\ f[0] = <<>>
               /\ \A k \in 1 .. 1 : f[k] = Worded(f[k - 1], <<x>>[k])
               /\ Words(<<x>>) = f[1]
  <2>1. Len(<<x>>) \in Nat BY <1>1
  <2> QED BY <1>1, <2>1, WordsDefined
<1>4. f[1] = Worded(<<>>, x)
  <2>1. 1 \in 1 .. 1 /\ 1 - 1 = 0 OBVIOUS
  <2> QED BY <1>1, <1>3, <2>1
<1>5. Words(<<x>>) = IF x \in AllWords THEN <<x>> ELSE <<>>
  <2>1. Append(<<>>, x) = <<x>> BY Recorded1
  <2> QED BY <1>3, <1>4, <2>1 DEF Worded
<1>6. Words(Append(s, x)) = Words(s) \o Words(<<x>>) BY <1>1, <1>2, WordsAside
<1>7. Words(s) \o <<>> = Words(s) BY WordsListed, EmptyAside
<1>8. Words(s) \o <<x>> = Append(Words(s), x)
  <2>1. <<x>> = Append(<<>>, x) BY Recorded1
  <2>2. Words(s) \o Append(<<>>, x) = Append(Words(s) \o <<>>, x)
    BY Empty, WordsListed, AppendAside
  <2> QED BY <1>7, <2>1, <2>2
<1> QED BY <1>5, <1>6, <1>7, <1>8 DEF Worded

\* A text without words has none.
LEMMA Wordless ==
  ASSUME NEW text, IsSequence(text), \A k \in 1 .. Len(text) : text[k] \notin AllWords
  PROVE  Words(text) = <<>>
<1>1. Len(text) \in Nat BY Bounds
<1>2. PICK f : /\ f[0] = <<>>
               /\ \A k \in 1 .. Len(text) : f[k] = Worded(f[k - 1], text[k])
               /\ Words(text) = f[Len(text)]
  BY <1>1, WordsDefined
<1> DEFINE T == {k \in Nat : f[k] = <<>>}
<1>3. 0 \in T BY <1>2
<1>4. ASSUME NEW k \in 1 .. Len(text), k - 1 \in T PROVE k \in T
  <2>1. f[k - 1] = <<>> /\ k \in Nat BY <1>4
  <2>2. f[k] = Worded(f[k - 1], text[k]) BY <1>2
  <2> QED BY <2>1, <2>2 DEF Worded
<1>5. \A k \in 0 .. Len(text) : k \in T
  <2> HIDE DEF T
  <2> QED BY <1>1, <1>3, <1>4, Climb
<1>6. Len(text) \in T BY <1>1, <1>5
<1> QED BY <1>2, <1>6

LEMMA SpecialTokens ==
  /\ Special \cap AllWords = {}
  /\ Blank \in Special /\ MarkerHead \in Special /\ MarkerTail \in Special
  /\ DsmlOpen \in Special /\ DsmlInvoke \in Special
  /\ "call" \in Special /\ "whole" \in Special /\ "empty" \in Special
<1> DEFINE U == UNION {Range(chunk.text) : chunk \in Chunks}
           V == UNION {Range(chunk.reason) : chunk \in Chunks}
<1>0. AllWords = U \ (Special \cup V) BY DEF AllWords
<1> HIDE DEF U, V
<1>1. Special \cap AllWords = {} BY <1>0
<1>2. /\ Blank \in Special /\ MarkerHead \in Special /\ MarkerTail \in Special
      /\ DsmlOpen \in Special /\ DsmlInvoke \in Special
      /\ "call" \in Special /\ "whole" \in Special /\ "empty" \in Special
  BY DEF Special
<1> QED BY <1>1, <1>2

LEMMA WordsOfNothing == Words(<<>>) = <<>>
<1>1. \A k \in 1 .. 0 : <<>>[k] \notin AllWords OBVIOUS
<1> QED BY <1>1, Empty, Wordless

LEMMA WordlessOne ==
  ASSUME NEW x \in Special
  PROVE  Words(<<x>>) = <<>> /\ IsSequence(<<x>>)
<1>1. IsSequence(<<x>>) /\ Len(<<x>>) = 1 /\ <<x>>[1] = x BY One
<1>2. \A k \in 1 .. 1 : <<x>>[k] \notin AllWords BY <1>1, SpecialTokens
<1> QED BY <1>1, <1>2, Wordless

LEMMA InvisibleWordless ==
  ASSUME NEW text, IsSequence(text), ~Visible(text)
  PROVE  Words(text) = <<>>
<1>1. DOMAIN text = 1 .. Len(text) BY Bounds
<1>2. \A k \in 1 .. Len(text) : text[k] = Blank BY <1>1 DEF Visible
<1>3. \A k \in 1 .. Len(text) : text[k] \notin AllWords BY <1>2, SpecialTokens
<1> QED BY <1>3, Wordless

\* Leaving out tokens that are no words keeps the words.
LEMMA WithoutWords ==
  ASSUME NEW text, IsSequence(text), NEW tokens, tokens \cap AllWords = {}
  PROVE  Words(Without(text, tokens)) = Words(text)
<1>1. Len(text) \in Nat BY Bounds
<1>2. PICK f : /\ f = [k \in 0 .. Len(text) |-> IF k = 0 THEN <<>>
                          ELSE Unless(tokens, f[k - 1], text[k])]
               /\ Without(text, tokens) = f[Len(text)]
  BY <1>1, WithoutDefined
<1>3. f[0] = <<>> BY <1>1, <1>2
<1>4. \A k \in 1 .. Len(text) :
          f[k] = Unless(tokens, f[k - 1], text[k])
  BY <1>1, <1>2
<1>5. PICK g : /\ g[0] = <<>>
               /\ \A k \in 1 .. Len(text) : g[k] = Worded(g[k - 1], text[k])
               /\ Words(text) = g[Len(text)]
  BY <1>1, WordsDefined
<1> DEFINE T == {k \in Nat : IsSequence(f[k]) /\ IsSequence(g[k]) /\ Words(f[k]) = g[k]}
<1>6. 0 \in T BY <1>3, <1>5, Empty, WordsOfNothing
<1>7. ASSUME NEW k \in 1 .. Len(text), k - 1 \in T PROVE k \in T
  <2> DEFINE x == text[k]
             p == f[k - 1]
             q == g[k - 1]
  <2>1. IsSequence(p) /\ IsSequence(q) /\ Words(p) = q /\ k \in Nat BY <1>7
  <2>2. f[k] = Unless(tokens, p, x) /\ g[k] = Worded(q, x) BY <1>4, <1>5
  <2> HIDE DEF x, p, q
  <2>3. /\ IsSequence(Append(p, x)) /\ IsSequence(Append(q, x)) BY <2>1, Appended
  <2>4. Words(Append(p, x)) = Worded(q, x) BY <2>1, WordsMore
  <2>5. CASE x \in tokens
    <3>1. f[k] = p /\ g[k] = q BY <2>2, <2>5 DEF Unless, Worded
    <3> QED BY <2>1, <3>1
  <2>6. CASE x \notin tokens
    <3>1. f[k] = Append(p, x) BY <2>2, <2>6 DEF Unless
    <3>2. IsSequence(g[k]) BY <2>1, <2>2, <2>3 DEF Worded
    <3> QED BY <2>1, <2>2, <2>3, <2>4, <3>1, <3>2
  <2> QED BY <2>5, <2>6
<1>8. \A k \in 0 .. Len(text) : k \in T
  <2> HIDE DEF T
  <2> QED BY <1>1, <1>6, <1>7, Climb
<1>9. Len(text) \in T BY <1>1, <1>8
<1> QED BY <1>2, <1>5, <1>9

\* How many leading blanks there are
LEMMA LeadingBound ==
  ASSUME NEW text, IsSequence(text)
  PROVE  /\ LeadingBlanks(text) \in 0 .. Len(text)
         /\ \A k \in 1 .. LeadingBlanks(text) : text[k] = Blank
<1> DEFINE n == Len(text)
           T == {k \in 0 .. n : k < n => text[k + 1] # Blank}
<1>1. n \in Nat BY Bounds
<1>2. T \subseteq Nat /\ n \in T BY <1>1
<1>3. PICK x \in T : \A y \in T : x <= y BY <1>2, LeastNat
<1>4. \A k \in 1 .. x : text[k] = Blank
  <2> TAKE k \in 1 .. x
  <2>1. k - 1 \in 0 .. n /\ k - 1 < n /\ k - 1 < x /\ (k - 1) + 1 = k BY <1>1, <1>3
  <2>2. k - 1 \notin T BY <1>2, <1>3, <2>1
  <2> QED BY <2>1, <2>2
<1>5. \E k \in 0 .. n : /\ \A j \in 1 .. k : text[j] = Blank
                        /\ k < n => text[k + 1] # Blank
  BY <1>3, <1>4
<1> QED BY <1>5 DEF LeadingBlanks

\* The leading blanks are no words.
LEMMA TrimmedWords ==
  ASSUME NEW text, IsSequence(text)
  PROVE  Words(Trimmed(text)) = Words(text)
<1> DEFINE n == LeadingBlanks(text)
           a == SubSeq(text, 1, n)
           b == SubSeq(text, n + 1, Len(text))
<1>1. n \in 0 .. Len(text) /\ \A k \in 1 .. n : text[k] = Blank BY LeadingBound
<1> HIDE DEF n
<1>2. /\ IsSequence(a) /\ IsSequence(b) /\ a \o b = text /\ Len(a) = n
      /\ \A k \in 1 .. n : a[k] = text[k]
  BY <1>1, Split
<1>3. Trimmed(text) = b BY DEF Trimmed, n
<1> HIDE DEF a, b
<1>4. Words(a) = <<>>
  <2>1. \A k \in 1 .. Len(a) : a[k] \notin AllWords BY <1>1, <1>2, SpecialTokens
  <2> QED BY <1>2, <2>1, Wordless
<1>5. Words(text) = Words(a) \o Words(b) BY <1>2, WordsAside
<1>6. <<>> \o Words(b) = Words(b) BY <1>2, WordsListed, EmptyAside
<1> QED BY <1>3, <1>4, <1>5, <1>6

-----------------------------------------------------------------------------
(* The words of a chunk                                                     *)

\* The calls leave the texts that wait alone, and a call once seen stays seen.
LEMMA CallKeepsText ==
  ASSUME NEW done, Holds(done.choice), NEW call, NEW finalizing
  PROVE  LET next == NormalizeCall(done, call, finalizing)
         IN  /\ next.choice.pending = done.choice.pending /\ next.choice.held = done.choice.held
             /\ done.choice.seen => next.choice.seen
<1> DEFINE tool == ToolAfter(done.choice.tools[call.index], call)
           args == ArgumentsOf(tool, finalizing)
           next == EmitCall(done, call, tool, args)
<1>1. NormalizeCall(done, call, finalizing) = next BY DEF NormalizeCall
<1> HIDE DEF tool, args
<1>2. /\ next.choice.pending = done.choice.pending /\ next.choice.held = done.choice.held
      /\ done.choice.seen => next.choice.seen
  BY DEF EmitCall, Holds, ChoiceParts, FreshChoice
<1> QED BY <1>1, <1>2

LEMMA CallsKeepText ==
  ASSUME NEW before, Holds(before), NEW calls, IsSequence(calls), NEW finalizing
  PROVE  LET next == NormalizeCalls(before, calls, finalizing).choice
         IN  /\ next.pending = before.pending /\ next.held = before.held
             /\ before.seen => next.seen
<1>1. Len(calls) \in Nat BY Bounds
<1>2. PICK f : /\ f = [k \in 0 .. Len(calls) |-> IF k = 0 THEN [choice |-> before, calls |-> <<>>]
                          ELSE NormalizeCall(f[k - 1], calls[k], finalizing)]
               /\ NormalizeCalls(before, calls, finalizing) = f[Len(calls)]
  BY <1>1, CallsNormalizedDefined
<1>3. f[0] = [choice |-> before, calls |-> <<>>] BY <1>1, <1>2
<1>4. \A k \in 1 .. Len(calls) : f[k] = NormalizeCall(f[k - 1], calls[k], finalizing)
  BY <1>1, <1>2
<1> DEFINE Same(c) == /\ Holds(c) /\ c.pending = before.pending /\ c.held = before.held
                      /\ before.seen => c.seen
           T == {k \in Nat : Same(f[k].choice) /\ IsSequence(f[k].calls)}
<1>5. 0 \in T BY <1>3, Empty
<1>6. ASSUME NEW k \in 1 .. Len(calls), k - 1 \in T PROVE k \in T
  <2>1. Same(f[k - 1].choice) /\ IsSequence(f[k - 1].calls) /\ k \in Nat BY <1>6
  <2>2. f[k] = NormalizeCall(f[k - 1], calls[k], finalizing) BY <1>4
  <2>3. Holds(f[k].choice) /\ IsSequence(f[k].calls) BY <2>1, <2>2, CallNormalized
  <2>4. Same(f[k].choice) BY <2>1, <2>2, <2>3, CallKeepsText
  <2> HIDE DEF Same
  <2> QED BY <2>1, <2>3, <2>4
<1>7. \A k \in 0 .. Len(calls) : k \in T
  <2> HIDE DEF T
  <2> QED BY <1>1, <1>5, <1>6, Climb
<1>8. Len(calls) \in T BY <1>1, <1>7
<1> QED BY <1>2, <1>8

LEMMA PendingKeepsText ==
  ASSUME NEW before, Holds(before)
  PROVE  LET next == FinalizePending(before).choice
         IN  /\ next.pending = before.pending /\ next.held = before.held
             /\ before.seen => next.seen
<1> DEFINE n == Cardinality(ToolIndexes)
<1>1. n \in Nat BY Indices
<1>2. PICK f : /\ f[0] = [choice |-> before, calls |-> <<>>]
               /\ \A k \in 1 .. n : f[k] = FinalizeCall(f[k - 1], k - 1)
               /\ FinalizePending(before) = f[n]
  BY <1>1, FinalizedDefined
<1> HIDE DEF n
<1> DEFINE Same(c) == /\ Holds(c) /\ c.pending = before.pending /\ c.held = before.held
                      /\ before.seen => c.seen
           T == {k \in Nat : Same(f[k].choice) /\ IsSequence(f[k].calls)}
<1>3. 0 \in T BY <1>2, Empty
<1>4. ASSUME NEW k \in 1 .. n, k - 1 \in T PROVE k \in T
  <2>1. Same(f[k - 1].choice) /\ IsSequence(f[k - 1].calls) /\ k \in Nat BY <1>4
  <2>2. f[k] = FinalizeCall(f[k - 1], k - 1) BY <1>2
  <2>3. CASE k - 1 \in Open(f[k - 1].choice)
    <3> DEFINE call == [index |-> k - 1, name |-> NoTool, args |-> None]
               finalizing == TRUE
    <3>1. f[k] = NormalizeCall(f[k - 1], call, finalizing) BY <2>2, <2>3 DEF FinalizeCall
    <3> HIDE DEF call, finalizing
    <3>2. Holds(f[k].choice) /\ IsSequence(f[k].calls) BY <2>1, <3>1, CallNormalized
    <3>3. /\ f[k].choice.pending = f[k - 1].choice.pending
          /\ f[k].choice.held = f[k - 1].choice.held
          /\ f[k - 1].choice.seen => f[k].choice.seen
      BY <2>1, <3>1, CallKeepsText
    <3>4. Same(f[k].choice) BY <2>1, <3>2, <3>3
    <3> HIDE DEF Same
    <3> QED BY <2>1, <3>2, <3>4
  <2>4. CASE k - 1 \notin Open(f[k - 1].choice)
    <3>1. f[k] = f[k - 1] BY <2>2, <2>4 DEF FinalizeCall
    <3> HIDE DEF Same
    <3> QED BY <2>1, <3>1
  <2> QED BY <2>3, <2>4
<1>5. \A k \in 0 .. n : k \in T
  <2> HIDE DEF T
  <2> QED BY <1>1, <1>3, <1>4, Climb
<1>6. n \in T BY <1>1, <1>5
<1> QED BY <1>2, <1>6

\* A text that is searched for blocks of calls keeps its words: those that go
\* on, and then those that wait.
LEMMA ExtractWords ==
  ASSUME NEW text, IsSequence(text), NEW finalizing
  PROVE  LET found == Extract(text, finalizing)
         IN  /\ Words(found.text) \o Words(found.tail) = Words(text)
             /\ finalizing => Words(found.text) = Words(text)
<1> DEFINE tags == {k \in DOMAIN text : text[k] \in {DsmlOpen, DsmlInvoke}}
           invokes == Cardinality({k \in tags : text[k] = DsmlInvoke})
           first == CHOOSE k \in tags : \A j \in tags : k <= j
<1>1. Len(text) \in Nat /\ DOMAIN text = 1 .. Len(text) BY Bounds
<1>2. CASE tags = {} \/ invokes > 0 \/ finalizing
  <2>1. Extract(text, finalizing) =
          [text |-> Without(text, {DsmlOpen, DsmlInvoke}), invokes |-> invokes, tail |-> <<>>]
    BY <1>2 DEF Extract
  <2> HIDE DEF invokes, tags
  <2>2. {DsmlOpen, DsmlInvoke} \cap AllWords = {} BY SpecialTokens
  <2>3. Words(Without(text, {DsmlOpen, DsmlInvoke})) = Words(text) BY <2>2, WithoutWords
  <2>4. Words(text) \o <<>> = Words(text) BY WordsListed, EmptyAside
  <2> DEFINE found == Extract(text, finalizing)
  <2>5. found.text = Without(text, {DsmlOpen, DsmlInvoke}) /\ found.tail = <<>> BY <2>1
  <2> HIDE DEF found
  <2>6. Words(found.text) = Words(text) BY <2>3, <2>5
  <2>7. Words(found.text) \o Words(found.tail) = Words(text) BY <2>4, <2>5, <2>6, WordsOfNothing
  <2> QED BY <2>6, <2>7 DEF found
<1>3. CASE ~(tags = {} \/ invokes > 0 \/ finalizing)
  <2>1. Extract(text, finalizing) =
          [text |-> SubSeq(text, 1, first - 1), invokes |-> 0,
           tail |-> SubSeq(text, first, Len(text))]
    BY <1>3 DEF Extract
  <2>2. tags \subseteq Nat /\ tags # {} BY <1>1, <1>3
  <2>3. \E k \in tags : \A j \in tags : k <= j
    <3> HIDE DEF tags
    <3> QED BY <2>2, LeastNat
  <2>4. first \in tags BY <2>3
  <2>5. first \in 1 .. Len(text) BY <1>1, <2>4
  <2>6. ~finalizing BY <1>3
  <2> HIDE DEF first, tags, invokes
  <2> DEFINE n == first - 1
  <2>7. n \in 0 .. Len(text) /\ n + 1 = first BY <1>1, <2>5
  <2> HIDE DEF n
  <2>8. /\ IsSequence(SubSeq(text, 1, n)) /\ IsSequence(SubSeq(text, n + 1, Len(text)))
        /\ SubSeq(text, 1, n) \o SubSeq(text, n + 1, Len(text)) = text
    BY <2>7, Split
  <2>9. Words(SubSeq(text, 1, n)) \o Words(SubSeq(text, n + 1, Len(text))) = Words(text)
    BY <2>8, WordsAside
  <2> QED BY <2>1, <2>6, <2>7, <2>9 DEF n
<1> QED BY <1>2, <1>3

\* A leading marker has no words.
LEMMA MarkerWords ==
  ASSUME NEW led, IsSequence(led), IsPrefix(<<MarkerHead, MarkerTail>>, led)
  PROVE  /\ IsSequence(SubSeq(led, 3, Len(led)))
         /\ Words(SubSeq(led, 3, Len(led))) = Words(led)
<1> DEFINE m == <<MarkerHead, MarkerTail>>
<1>1. IsSequence(m) /\ Len(m) = 2 /\ m[1] = MarkerHead /\ m[2] = MarkerTail
  <2>1. m = Append(<<MarkerHead>>, MarkerTail) BY Recorded2
  <2> DEFINE o == <<MarkerHead>>
  <2>2. IsSequence(o) /\ Len(o) = 1 /\ o[1] = MarkerHead BY One
  <2> HIDE DEF o
  <2> DEFINE p == Append(o, MarkerTail)
  <2>3. /\ IsSequence(p) /\ Len(p) = Len(o) + 1 /\ p[Len(o) + 1] = MarkerTail
        /\ \A k \in 1 .. Len(o) : p[k] = o[k]
    BY <2>2, Appended
  <2>4. m = p BY <2>1 DEF o
  <2> HIDE DEF p, m
  <2>5. 1 + 1 = 2 /\ 1 \in 1 .. 1 OBVIOUS
  <2> QED BY <2>2, <2>3, <2>4, <2>5
<1>2. Len(m) <= Len(led) /\ SubSeq(m, 1, Len(m)) = SubSeq(led, 1, Len(m)) BY DEF IsPrefix
<1> HIDE DEF m
<1>3. Len(led) \in Nat /\ 2 \in 0 .. Len(led) BY <1>1, <1>2, Bounds
<1> DEFINE a == SubSeq(led, 1, 2)
           b == SubSeq(led, 3, Len(led))
<1>4. IsSequence(a) /\ IsSequence(b) /\ a \o b = led /\ Len(a) = 2
  <2>1. 2 + 1 = 3 OBVIOUS
  <2> QED BY <1>3, <2>1, Split
<1>5. a[1] = MarkerHead /\ a[2] = MarkerTail
  <2>1. 2 \in 0 .. Len(m) /\ 1 \in 1 .. 2 /\ 2 \in 1 .. 2 BY <1>1
  <2>2. \A k \in 1 .. 2 : SubSeq(m, 1, 2)[k] = m[k] BY <1>1, <2>1, Split
  <2>3. SubSeq(m, 1, 2) = a BY <1>1, <1>2
  <2> QED BY <1>1, <2>1, <2>2, <2>3
<1> HIDE DEF a, b
<1>6. Words(a) = <<>>
  <2>1. \A k \in 1 .. Len(a) : k = 1 \/ k = 2 BY <1>4
  <2>2. \A k \in 1 .. Len(a) : a[k] \notin AllWords BY <1>5, <2>1, SpecialTokens
  <2> QED BY <1>4, <2>2, Wordless
<1>7. Words(led) = Words(a) \o Words(b) BY <1>4, WordsAside
<1>8. <<>> \o Words(b) = Words(b) BY <1>4, WordsListed, EmptyAside
<1> QED BY <1>4, <1>6, <1>7, <1>8 DEF b

\* The check of a leading marker passes every word on.
LEMMA ConsumedWords ==
  ASSUME NEW st, Cleaned(st), st.event.text = <<>>, NEW all, IsSequence(all)
  PROVE  LET next == TextGoesOn(st, all)
         IN  /\ Words(next.event.text) = Words(all) /\ Words(next.choice.pending) = <<>>
             /\ next.choice.held = st.choice.held /\ next.event.finish = st.event.finish
<1> DEFINE led == Trimmed(all)
           out(rest) == [choice |-> [st.choice EXCEPT !.pending = <<>>,
                                                      !.emitted = @ \/ Visible(rest)],
                         event |-> [st.event EXCEPT !.text = rest]]
<1>1. IsSequence(led) /\ Words(led) = Words(all) BY TrimmedVisible, TrimmedWords
<1> HIDE DEF led
<1>2. ASSUME NEW rest PROVE /\ out(rest).event.text = rest /\ out(rest).choice.pending = <<>>
                            /\ out(rest).choice.held = st.choice.held
                            /\ out(rest).event.finish = st.event.finish
  BY DEF Cleaned, Holds, ChoiceParts, FreshChoice, Says, EventParts
<1>3. CASE ~st.choice.emitted /\ led = <<MarkerHead>>
  <2> DEFINE s == [st EXCEPT !.choice.pending = all]
  <2>1. s.choice.pending = all /\ s.choice.held = st.choice.held /\ s.event = st.event
    BY DEF Cleaned, Holds, ChoiceParts, FreshChoice
  <2>2. TextGoesOn(st, all) = s BY <1>3 DEF TextGoesOn, ConsumeText, led
  <2> HIDE DEF s
  <2>3. Words(all) = <<>> BY <1>1, <1>3, SpecialTokens, WordlessOne
  <2> QED BY <2>1, <2>2, <2>3, WordsOfNothing
<1>4. CASE ~st.choice.emitted /\ led # <<MarkerHead>> /\ IsPrefix(<<MarkerHead, MarkerTail>>, led)
  <2> DEFINE part == SubSeq(led, 3, Len(led))
             rest == Trimmed(part)
  <2>1. IsSequence(part) /\ Words(part) = Words(led) BY <1>1, <1>4, MarkerWords
  <2>2. TextGoesOn(st, all) = out(rest) BY <1>4 DEF TextGoesOn, ConsumeText, led
  <2> HIDE DEF part
  <2>3. Words(rest) = Words(part) BY <2>1, TrimmedWords
  <2> HIDE DEF rest, out
  <2> QED BY <1>1, <1>2, <2>1, <2>2, <2>3, WordsOfNothing
<1>5. CASE /\ ~(~st.choice.emitted /\ led = <<MarkerHead>>)
           /\ ~(~st.choice.emitted /\ IsPrefix(<<MarkerHead, MarkerTail>>, led))
  <2>1. TextGoesOn(st, all) = out(all) BY <1>5 DEF TextGoesOn, ConsumeText, led
  <2> HIDE DEF out
  <2> QED BY <1>2, <2>1, WordsOfNothing
<1> QED BY <1>3, <1>4, <1>5

LEMMA SyntheticKeepText ==
  ASSUME NEW before, Holds(before), NEW count \in Nat
  PROVE  LET done == SyntheticCalls(before, count)
         IN  /\ Holds(done.choice) /\ IsSequence(done.calls)
             /\ done.choice.pending = before.pending /\ done.choice.held = before.held
             /\ before.seen => done.choice.seen
<1> DEFINE known == Cardinality(Known(before))
           first == IF known > before.synthetic THEN known ELSE before.synthetic
           d == [before EXCEPT !.synthetic = first + count]
           calls == [k \in 1 .. count |->
                       [index |-> first + k - 1, name |-> EagerTool, args |-> "whole"]]
           finalizing == TRUE
<1>1. SyntheticCalls(before, count) = NormalizeCalls(d, calls, finalizing) BY DEF SyntheticCalls
<1> HIDE DEF first, finalizing
<1>2. /\ DOMAIN d = ChoiceParts /\ d.pending = before.pending /\ d.held = before.held
      /\ d.seen = before.seen
  BY DEF Holds, ChoiceParts, FreshChoice
<1>3. Holds(d) BY <1>2 DEF Holds
<1>4. calls = [k \in 1 .. count |-> calls[k]] OBVIOUS
<1> HIDE DEF d, calls
<1>5. IsSequence(calls) BY <1>4, Listed
<1> DEFINE done == NormalizeCalls(d, calls, finalizing)
<1>6. Holds(done.choice) /\ IsSequence(done.calls) BY <1>3, <1>5, CallsNormalized
<1>7. /\ done.choice.pending = d.pending /\ done.choice.held = d.held
      /\ d.seen => done.choice.seen
  BY <1>3, <1>5, CallsKeepText
<1> HIDE DEF done
<1> QED BY <1>1, <1>2, <1>6, <1>7 DEF done

LEMMA TextStagedWords ==
  ASSUME NEW st, Cleaned(st), st.event.text = <<>>, Words(st.choice.pending) = <<>>,
         NEW chunk \in Chunks
  PROVE  LET next == TextStage(st, chunk)
         IN  /\ Words(next.event.text) \o Words(next.choice.held)
                  = Words(st.choice.held) \o Words(chunk.text)
             /\ Words(next.choice.pending) = <<>>
             /\ next.event.finish = st.event.finish
<1> DEFINE text == st.choice.held \o chunk.text
           finalizing == FALSE
           found == Extract(text, finalizing)
           c == [st.choice EXCEPT !.held = found.tail]
           done == SyntheticCalls(c, found.invokes)
           s == AddCalls(st, done)
<1>1. IsSequence(text) /\ Words(text) = Words(st.choice.held) \o Words(chunk.text)
  BY GivenCalls, Concatenated, WordsAside DEF Cleaned, Holds
<1>2. TextStage(st, chunk) = TextFound(s, found) BY DEF TextStage, TextExtracted
<1> HIDE DEF text, finalizing
<1>3. /\ IsSequence(found.text) /\ IsSequence(found.tail) /\ found.invokes \in Nat
      /\ Words(found.text) \o Words(found.tail) = Words(text)
  BY <1>1, ExtractFound, ExtractWords
<1> HIDE DEF found
<1>4. /\ Holds(c) /\ c.pending = st.choice.pending /\ c.held = found.tail
  <2>1. DOMAIN c = ChoiceParts /\ c.pending = st.choice.pending /\ c.held = found.tail
    BY DEF Cleaned, Holds, ChoiceParts, FreshChoice
  <2> HIDE DEF c
  <2> QED BY <1>3, <2>1 DEF Cleaned, Holds
<1> HIDE DEF c
<1>5. /\ Holds(done.choice) /\ IsSequence(done.calls)
      /\ done.choice.pending = c.pending /\ done.choice.held = c.held
  BY <1>3, <1>4, SyntheticKeepText
<1> HIDE DEF done
<1>6. Cleaned(s) BY <1>5, CallsAdded
<1>7. /\ s.choice = done.choice /\ s.event.text = <<>> /\ s.event.finish = st.event.finish
  BY DEF AddCalls, Cleaned, Says, EventParts
<1> HIDE DEF s
<1>8. CASE ~Visible(found.text)
  <2>1. TextStage(st, chunk) = s BY <1>2, <1>8 DEF TextFound
  <2>2. Words(found.text) = <<>> BY <1>3, <1>8, InvisibleWordless
  <2> QED BY <1>1, <1>3, <1>4, <1>5, <1>7, <2>1, <2>2, WordsOfNothing
<1>9. CASE Visible(found.text)
  <2> DEFINE all == s.choice.pending \o found.text
             next == TextGoesOn(s, all)
  <2>1. IsSequence(s.choice.pending) BY <1>6 DEF Cleaned, Holds
  <2>2. Words(s.choice.pending) = <<>> BY <1>4, <1>5, <1>7
  <2>3. IsSequence(all) /\ Words(all) = Words(s.choice.pending) \o Words(found.text)
    BY <1>3, <2>1, Concatenated, WordsAside
  <2>4. TextStage(st, chunk) = next BY <1>2, <1>9 DEF TextFound
  <2> HIDE DEF all
  <2>5. Words(all) = Words(found.text) BY <1>3, <2>2, <2>3, WordsListed, EmptyAside
  <2>6. /\ Words(next.event.text) = Words(all) /\ Words(next.choice.pending) = <<>>
        /\ next.choice.held = s.choice.held /\ next.event.finish = s.event.finish
    BY <1>6, <1>7, <2>3, ConsumedWords
  <2> HIDE DEF next
  <2>7. next.choice.held = found.tail BY <1>4, <1>5, <1>7, <2>6
  <2> QED BY <1>1, <1>3, <1>7, <2>4, <2>5, <2>6, <2>7
<1> QED BY <1>8, <1>9

\* The last stage passes on what waits, unless the answer is one of calls.
LEMMA FinishedWords ==
  ASSUME NEW st, Cleaned(st), NEW chunk \in Chunks
  PROVE  LET one == Finished(st, chunk)
             words == Words(st.event.text) \o Words(st.choice.held)
         IN  /\ Begins(Words(one.event.text), words)
             /\ one.event.finish = None /\ st.event.finish = None => one = st /\ chunk.finish = None
             /\ chunk.finish \in {"stop", "length", "error"} /\ ~one.choice.seen =>
                  Words(one.event.text) = words /\ one.event.finish # None
<1> DEFINE finish == FinishOf(st.choice, chunk)
           cleared == [st EXCEPT !.choice.held = <<>>, !.choice.pending = <<>>]
           finalizing == TRUE
           rest == Extract(st.choice.held, finalizing).text
           one == Finished(st, chunk)
           text == Words(st.event.text)
           held == Words(st.choice.held)
<1>1. one = IF finish = None THEN st
            ELSE IF finish = "tool_calls" THEN FinishWithCalls(cleared, chunk)
            ELSE FinishWithText(cleared, finish, rest)
  BY DEF Finished, FinishStage
<1>2. /\ finish = None => chunk.finish = None
      /\ chunk.finish \in {"stop", "length", "error"} /\ ~st.choice.seen =>
            finish \notin {None, "tool_calls"}
      /\ chunk.finish \in {"stop", "length", "error"} => finish # None
  BY DEF FinishOf, None
<1>3. /\ IsSequence(st.event.text) /\ IsSequence(st.choice.held)
      /\ IsSequence(text) /\ IsSequence(held)
  BY WordsListed DEF Cleaned, Holds, Says
<1>4. Begins(text, text \o held) BY <1>3, BeginsWhole
<1>5. /\ cleared.event = st.event /\ cleared.choice.seen = st.choice.seen /\ Holds(cleared.choice)
  <2> DEFINE c == [st.choice EXCEPT !.held = <<>>, !.pending = <<>>]
  <2>1. DOMAIN c = ChoiceParts /\ c.pending = <<>> /\ c.held = <<>> /\ c.seen = st.choice.seen
    BY DEF Cleaned, Holds, ChoiceParts, FreshChoice
  <2>2. cleared.choice = c /\ cleared.event = st.event BY DEF Cleaned
  <2> HIDE DEF c, cleared
  <2> QED BY <2>1, <2>2, Empty DEF Holds
<1>6. DOMAIN st.event = EventParts BY DEF Cleaned, Says
<1>7. IsSequence(rest) /\ Words(rest) = held
  <2>1. finalizing OBVIOUS
  <2> HIDE DEF finalizing
  <2> QED BY <1>3, <2>1, ExtractFound, ExtractWords
<1> HIDE DEF finish, cleared, finalizing, rest, one, text, held
<1>8. CASE finish = None
  <2>1. one = st BY <1>1, <1>8
  <2> QED BY <1>2, <1>4, <1>8, <2>1 DEF one, text, held
<1>9. CASE finish = "tool_calls"
  <2>1. one = FinishWithCalls(cleared, chunk) BY <1>1, <1>9 DEF None
  <2> DEFINE done == IF Given(chunk) = <<>> THEN [choice |-> cleared.choice, calls |-> <<>>]
                     ELSE FinalizePending(cleared.choice)
             calls == IF done.calls # <<>> THEN done.calls ELSE cleared.event.calls
             fallback == WholeCalls(chunk.message)
  <2>2. one = IF calls = <<>> /\ fallback # <<>>
              THEN [choice |-> [done.choice EXCEPT !.seen = TRUE],
                    event |-> [cleared.event EXCEPT !.calls = fallback, !.finish = "tool_calls"]]
              ELSE [choice |-> done.choice,
                    event |-> [cleared.event EXCEPT !.calls = calls,
                                   !.finish = IF done.choice.seen THEN "tool_calls" ELSE "stop"]]
    BY <2>1 DEF FinishWithCalls, CallsCompleted
  <2>3. Holds(done.choice) /\ (cleared.choice.seen => done.choice.seen)
    <3>1. CASE Given(chunk) = <<>> BY <1>5, <3>1
    <3>2. CASE Given(chunk) # <<>>
      <4>1. done = FinalizePending(cleared.choice) BY <3>2
      <4> HIDE DEF done
      <4> QED BY <1>5, <4>1, PendingFinalized, PendingKeepsText
    <3> QED BY <3>1, <3>2
  <2> HIDE DEF done, calls, fallback
  <2>4. one.event.text = st.event.text /\ one.event.finish # None
    BY <1>5, <1>6, <2>2 DEF EventParts, None
  <2>5. done.choice.seen => one.choice.seen
    BY <2>2, <2>3 DEF Holds, ChoiceParts, FreshChoice
  <2>6. st.choice.seen => one.choice.seen BY <1>5, <2>3, <2>5
  <2> QED BY <1>2, <1>4, <1>9, <2>4, <2>6 DEF one, text, held
<1>10. CASE finish \notin {None, "tool_calls"}
  <2>1. one = FinishWithText(cleared, finish, rest) BY <1>1, <1>10
  <2>2. one.event.finish = finish /\ one.event.text = IF Visible(rest) THEN st.event.text \o rest
                                                      ELSE st.event.text
    BY <1>5, <1>6, <2>1 DEF FinishWithText, EventParts
  <2>3. Words(one.event.text) = text \o held
    <3>1. CASE Visible(rest) BY <1>3, <1>7, <2>2, <3>1, WordsAside DEF text
    <3>2. CASE ~Visible(rest)
      <4>1. held = <<>> BY <1>7, <3>2, InvisibleWordless
      <4> QED BY <1>3, <2>2, <3>2, <4>1, EmptyAside DEF text
    <3> QED BY <3>1, <3>2
  <2>4. IsSequence(text \o held) BY <1>3, Concatenated
  <2>5. Begins(Words(one.event.text), text \o held) BY <2>3, <2>4, BeginsSelf
  <2>6. one.event.finish # None BY <1>10, <2>2
  <2> QED BY <2>3, <2>5, <2>6 DEF one, text, held
<1> QED BY <1>8, <1>9, <1>10

\* What a chunk says: of the words that waited and its own a first part goes
\* on; the rest waits while the answer is not finished; and an answer finished
\* by other than calls leaves nothing behind.
LEMMA NormalizedWords ==
  ASSUME NEW before, Holds(before), Words(before.pending) = <<>>, NEW chunk \in Chunks
  PROVE  LET one == NormalizeChoice(before, chunk)
             words == Words(before.held) \o Words(chunk.text)
         IN  /\ Begins(Words(one.event.text), words)
             /\ one.event.finish = None =>
                  /\ Words(one.event.text) \o Words(one.choice.held) = words
                  /\ Words(one.choice.pending) = <<>> /\ chunk.finish = None
             /\ chunk.finish \in {"stop", "length", "error"} /\ ~one.choice.seen =>
                  Words(one.event.text) = words /\ one.event.finish # None
<1> DEFINE event == [text |-> <<>>, reason |-> <<>>, role |-> chunk.role, calls |-> <<>>,
                     finish |-> None]
           a == [choice |-> before, event |-> event]
           b == CallsStage(a, chunk)
           c == TextStage(b, chunk)
           d == ReasonStage(c, chunk)
           one == Finished(d, chunk)
           words == Words(before.held) \o Words(chunk.text)
<1>1. Cleaned(a)
  <2>1. Says(event) BY Empty DEF Says, EventParts
  <2> QED BY <2>1 DEF Cleaned
<1>2. NormalizeChoice(before, chunk) = one BY DEF NormalizeChoice
<1>3. a.choice = before /\ a.event.text = <<>> /\ a.event.finish = None OBVIOUS
<1> HIDE DEF a
<1>4. Cleaned(b) BY <1>1, CallsStaged
<1>5. /\ b.event.text = <<>> /\ b.event.finish = None
      /\ b.choice.held = before.held /\ Words(b.choice.pending) = <<>>
  <2>1. CASE Given(chunk) = <<>> BY <1>3, <2>1 DEF CallsStage
  <2>2. CASE Given(chunk) # <<>>
    <3> DEFINE e == [a.choice EXCEPT !.pending = <<>>]
               finalizing == FALSE
               done == NormalizeCalls(e, Given(chunk), finalizing)
    <3>1. b = AddCalls(a, done) BY <2>2 DEF CallsStage
    <3>2. DOMAIN e = ChoiceParts /\ e.pending = <<>> /\ e.held = before.held
      BY <1>1, <1>3 DEF Cleaned, Holds, ChoiceParts, FreshChoice
    <3> HIDE DEF e, finalizing
    <3>3. Holds(e) BY <1>1, <1>3, <3>2, Empty DEF Cleaned, Holds
    <3>4. done.choice.pending = e.pending /\ done.choice.held = e.held
      BY <3>3, GivenCalls, CallsKeepText
    <3> HIDE DEF done
    <3>5. b.choice = done.choice /\ b.event.text = a.event.text /\ b.event.finish = a.event.finish
      BY <1>1, <3>1 DEF AddCalls, Cleaned, Says, EventParts
    <3> QED BY <1>3, <3>2, <3>4, <3>5, WordsOfNothing
  <2> QED BY <2>1, <2>2
<1> HIDE DEF b
<1>6. Cleaned(c) BY <1>4, TextStaged
<1>7. /\ Words(c.event.text) \o Words(c.choice.held) = words
      /\ Words(c.choice.pending) = <<>> /\ c.event.finish = None
  BY <1>4, <1>5, TextStagedWords
<1> HIDE DEF c
<1>8. Cleaned(d) BY <1>6, ReasonStaged
<1>9. /\ d.event.text = c.event.text /\ d.event.finish = c.event.finish
      /\ d.choice.held = c.choice.held /\ d.choice.pending = c.choice.pending
  BY <1>6 DEF ReasonStage, Cleaned, Holds, ChoiceParts, FreshChoice, Says, EventParts
<1> HIDE DEF d, words
<1>10. Words(d.event.text) \o Words(d.choice.held) = words BY <1>7, <1>9
<1>11. /\ Begins(Words(one.event.text), words)
       /\ one.event.finish = None => one = d /\ chunk.finish = None
       /\ chunk.finish \in {"stop", "length", "error"} /\ ~one.choice.seen =>
            Words(one.event.text) = words /\ one.event.finish # None
  <2>1. d.event.finish = None BY <1>7, <1>9
  <2> QED BY <1>8, <1>10, <2>1, FinishedWords
<1> HIDE DEF one
<1>12. one.event.finish = None =>
         /\ Words(one.event.text) \o Words(one.choice.held) = words
         /\ Words(one.choice.pending) = <<>> /\ chunk.finish = None
  BY <1>7, <1>9, <1>10, <1>11
<1> QED BY <1>2, <1>11, <1>12 DEF words

-----------------------------------------------------------------------------
(* What is read                                                             *)

\* What was sent is made chunk by chunk.
LEMMA SentDefined ==
  ASSUME NEW chunks, Len(chunks) \in Nat
  PROVE  \E f : /\ f[0] = <<>>
                /\ \A k \in 1 .. Len(chunks) : f[k] = With(f[k - 1], chunks[k])
                /\ Sent(chunks) = f[Len(chunks)]
<1> DEFINE n == Len(chunks)
           Is(f, m) == f = [k \in 0 .. m |->
                             IF k = 0 THEN <<>>
                             ELSE With(f[k - 1], chunks[k])]
           T == {m \in Nat : \E f : Is(f, m)}
           after == CHOOSE f : f = [k \in 0 .. n |->
                                     IF k = 0 THEN <<>>
                                     ELSE With(f[k - 1], chunks[k])]
<1>1. 0 \in T
  <2> DEFINE g == [k \in 0 .. 0 |-> <<>>]
  <2>1. Is(g, 0) OBVIOUS
  <2> HIDE DEF g
  <2> QED BY <2>1
<1>2. ASSUME NEW m \in 1 .. n, m - 1 \in T PROVE m \in T
  <2>1. m \in Nat /\ m - 1 \in Nat OBVIOUS
  <2>2. PICK f : Is(f, m - 1) BY <1>2
  <2> DEFINE g == [k \in 0 .. m |-> IF k = m THEN With(f[m - 1], chunks[m]) ELSE f[k]]
             h == [k \in 0 .. m |->
                    IF k = 0 THEN <<>> ELSE With(g[k - 1], chunks[k])]
  <2>3. /\ f[0] = <<>>
        /\ \A k \in 1 .. (m - 1) : f[k] = With(f[k - 1], chunks[k])
    BY <2>1, <2>2
  <2>4. /\ g[m] = With(f[m - 1], chunks[m])
        /\ \A k \in 0 .. (m - 1) : g[k] = f[k]
    BY <2>1
  <2>5. ASSUME NEW k \in 0 .. m PROVE g[k] = h[k]
    <3>1. h[k] = IF k = 0 THEN <<>> ELSE With(g[k - 1], chunks[k]) OBVIOUS
    <3> HIDE DEF g, h
    <3>2. CASE k = 0 BY <2>1, <2>3, <2>4, <3>1, <3>2
    <3>3. CASE k = m /\ k # 0
      <4>1. g[k - 1] = f[k - 1] BY <2>1, <2>4, <3>3
      <4> QED BY <2>4, <3>1, <3>3, <4>1
    <3>4. CASE k \in 1 .. (m - 1)
      <4>1. g[k] = f[k] /\ g[k - 1] = f[k - 1] BY <2>1, <2>4, <3>4
      <4>2. k # 0 BY <3>4
      <4> QED BY <2>3, <3>1, <3>4, <4>1, <4>2
    <3> QED BY <2>1, <3>2, <3>3, <3>4
  <2>6. g = h BY <2>5
  <2>7. Is(g, m) BY <2>6
  <2> HIDE DEF g, h, Is
  <2> QED BY <2>1, <2>7
<1>3. \A m \in 0 .. n : m \in T
  <2> HIDE DEF T
  <2> QED BY <1>1, <1>2, Climb
<1>4. PICK f : Is(f, n) BY <1>3
<1>5. after = [k \in 0 .. n |->
                IF k = 0 THEN <<>> ELSE With(after[k - 1], chunks[k])] BY <1>4
<1>6. Sent(chunks) = after[n] BY DEF Sent
<1> HIDE DEF after
<1>7. after[0] = <<>> BY <1>5
<1>8. \A k \in 1 .. n : after[k] = With(after[k - 1], chunks[k]) BY <1>5
<1> QED BY <1>6, <1>7, <1>8

\* What was sent, and one more chunk
LEMMA SentMore ==
  ASSUME NEW s, IsSequence(s), NEW chunk
  PROVE  Sent(Append(s, chunk)) = Sent(s) \o Words(chunk.text)
<1> DEFINE t == Append(s, chunk)
<1>1. Len(s) \in Nat BY Bounds
<1>2. /\ IsSequence(t) /\ Len(t) = Len(s) + 1 /\ t[Len(s) + 1] = chunk
      /\ \A k \in 1 .. Len(s) : t[k] = s[k]
  BY Appended
<1> HIDE DEF t
<1>3. PICK f : /\ f[0] = <<>>
               /\ \A k \in 1 .. Len(s) : f[k] = With(f[k - 1], s[k])
               /\ Sent(s) = f[Len(s)]
  BY <1>1, SentDefined
<1>4. Len(t) \in Nat BY <1>1, <1>2
<1>5. PICK g : /\ g[0] = <<>>
               /\ \A k \in 1 .. Len(t) : g[k] = With(g[k - 1], t[k])
               /\ Sent(t) = g[Len(t)]
  BY <1>4, SentDefined
<1> DEFINE T == {k \in Nat : g[k] = f[k]}
<1>6. 0 \in T BY <1>3, <1>5
<1>7. ASSUME NEW k \in 1 .. Len(s), k - 1 \in T PROVE k \in T
  <2>1. k \in 1 .. Len(t) /\ k \in Nat /\ g[k - 1] = f[k - 1] BY <1>1, <1>2, <1>7
  <2>2. g[k] = With(g[k - 1], t[k]) /\ f[k] = With(f[k - 1], s[k]) BY <1>3, <1>5, <2>1
  <2> QED BY <1>2, <2>1, <2>2
<1>8. g[Len(s)] = f[Len(s)]
  <2>1. \A k \in 0 .. Len(s) : k \in T
    <3> HIDE DEF T
    <3> QED BY <1>1, <1>6, <1>7, Climb
  <2> QED BY <1>1, <2>1
<1>9. Len(t) \in 1 .. Len(t) /\ Len(t) - 1 = Len(s) BY <1>1, <1>2
<1>10. Sent(t) = With(Sent(s), chunk) BY <1>2, <1>3, <1>5, <1>8, <1>9
<1> QED BY <1>10 DEF With, t

LEMMA SentNothing == Sent(<<>>) = <<>>
<1>1. Len(<<>>) \in Nat /\ Len(<<>>) = 0 BY Empty
<1>2. PICK f : f[0] = <<>> /\ Sent(<<>>) = f[Len(<<>>)] BY <1>1, SentDefined
<1> QED BY <1>1, <1>2

\* What is read after each packet is made from what was read before it.
LEMMA ReadingsDefined ==
  ASSUME NEW packets, Len(packets) \in Nat
  PROVE  \E f : /\ f[0] = <<>>
                /\ \A k \in 1 .. Len(packets) : f[k] = Read(f[k - 1], packets[k])
                /\ Readings(packets) = f
<1> DEFINE n == Len(packets)
           Is(f, m) == f = [k \in 0 .. m |->
                             IF k = 0 THEN <<>>
                             ELSE Read(f[k - 1], packets[k])]
           T == {m \in Nat : \E f : Is(f, m)}
           after == CHOOSE f : f = [k \in 0 .. n |->
                                     IF k = 0 THEN <<>>
                                     ELSE Read(f[k - 1], packets[k])]
<1>1. 0 \in T
  <2> DEFINE g == [k \in 0 .. 0 |-> <<>>]
  <2>1. Is(g, 0) OBVIOUS
  <2> HIDE DEF g
  <2> QED BY <2>1
<1>2. ASSUME NEW m \in 1 .. n, m - 1 \in T PROVE m \in T
  <2>1. m \in Nat /\ m - 1 \in Nat OBVIOUS
  <2>2. PICK f : Is(f, m - 1) BY <1>2
  <2> DEFINE g == [k \in 0 .. m |-> IF k = m THEN Read(f[m - 1], packets[m]) ELSE f[k]]
             h == [k \in 0 .. m |->
                    IF k = 0 THEN <<>> ELSE Read(g[k - 1], packets[k])]
  <2>3. /\ f[0] = <<>>
        /\ \A k \in 1 .. (m - 1) : f[k] = Read(f[k - 1], packets[k])
    BY <2>1, <2>2
  <2>4. /\ g[m] = Read(f[m - 1], packets[m])
        /\ \A k \in 0 .. (m - 1) : g[k] = f[k]
    BY <2>1
  <2>5. ASSUME NEW k \in 0 .. m PROVE g[k] = h[k]
    <3>1. h[k] = IF k = 0 THEN <<>> ELSE Read(g[k - 1], packets[k]) OBVIOUS
    <3> HIDE DEF g, h
    <3>2. CASE k = 0 BY <2>1, <2>3, <2>4, <3>1, <3>2
    <3>3. CASE k = m /\ k # 0
      <4>1. g[k - 1] = f[k - 1] BY <2>1, <2>4, <3>3
      <4> QED BY <2>4, <3>1, <3>3, <4>1
    <3>4. CASE k \in 1 .. (m - 1)
      <4>1. g[k] = f[k] /\ g[k - 1] = f[k - 1] BY <2>1, <2>4, <3>4
      <4>2. k # 0 BY <3>4
      <4> QED BY <2>3, <3>1, <3>4, <4>1, <4>2
    <3> QED BY <2>1, <3>2, <3>3, <3>4
  <2>6. g = h BY <2>5
  <2>7. Is(g, m) BY <2>6
  <2> HIDE DEF g, h, Is
  <2> QED BY <2>1, <2>7
<1>3. \A m \in 0 .. n : m \in T
  <2> HIDE DEF T
  <2> QED BY <1>1, <1>2, Climb
<1>4. PICK f : Is(f, n) BY <1>3
<1>5. after = [k \in 0 .. n |->
                IF k = 0 THEN <<>> ELSE Read(after[k - 1], packets[k])] BY <1>4
<1>6. Readings(packets) = after BY DEF Readings
<1> HIDE DEF after
<1>7. after[0] = <<>> BY <1>5
<1>8. \A k \in 1 .. n : after[k] = Read(after[k - 1], packets[k]) BY <1>5
<1> QED BY <1>6, <1>7, <1>8

LEMMA ReadingsStep ==
  ASSUME NEW s, IsSequence(s)
  PROVE  /\ Readings(s)[0] = <<>>
         /\ \A k \in 1 .. Len(s) : Readings(s)[k] = Read(Readings(s)[k - 1], s[k])
<1>1. Len(s) \in Nat BY Bounds
<1>2. PICK f : /\ f[0] = <<>>
               /\ \A k \in 1 .. Len(s) : f[k] = Read(f[k - 1], s[k])
               /\ Readings(s) = f
  BY <1>1, ReadingsDefined
<1> QED BY <1>2

\* Two sequences that begin alike are read alike that far.
LEMMA SameReadings ==
  ASSUME NEW s, IsSequence(s), NEW t, IsSequence(t), NEW n \in Nat, n <= Len(s), n <= Len(t),
         \A k \in 1 .. n : s[k] = t[k]
  PROVE  \A k \in 0 .. n : Readings(s)[k] = Readings(t)[k]
<1> DEFINE T == {k \in Nat : Readings(s)[k] = Readings(t)[k]}
<1>1. Len(s) \in Nat /\ Len(t) \in Nat BY Bounds
<1>2. 0 \in T BY ReadingsStep
<1>3. ASSUME NEW k \in 1 .. n, k - 1 \in T PROVE k \in T
  <2>1. k \in 1 .. Len(s) /\ k \in 1 .. Len(t) /\ s[k] = t[k] /\ k \in Nat BY <1>1
  <2>2. /\ Readings(s)[k] = Read(Readings(s)[k - 1], s[k])
        /\ Readings(t)[k] = Read(Readings(t)[k - 1], t[k])
    BY <2>1, ReadingsStep
  <2> QED BY <1>3, <2>1, <2>2
<1>4. \A k \in 0 .. n : k \in T
  <2> HIDE DEF T
  <2> QED BY <1>2, <1>3, Climb
<1> QED BY <1>4

LEMMA ReadingsBefore ==
  ASSUME NEW s, IsSequence(s), NEW t, IsSequence(t)
  PROVE  \A k \in 0 .. Len(s) : Readings(s \o t)[k] = Readings(s)[k]
<1> DEFINE c == s \o t
<1>1. Len(s) \in Nat /\ Len(t) \in Nat BY Bounds
<1>2. /\ IsSequence(c) /\ Len(c) = Len(s) + Len(t)
      /\ \A k \in 1 .. Len(s) : c[k] = s[k]
  BY Concatenated
<1> HIDE DEF c
<1>3. Len(s) <= Len(c) BY <1>1, <1>2
<1>4. \A k \in 0 .. Len(s) : Readings(c)[k] = Readings(s)[k] BY <1>1, <1>2, <1>3, SameReadings
<1> QED BY <1>4 DEF c

\* What is read at the end
LastRead(packets) == Readings(packets)[Len(packets)]

LEMMA LastReadMore ==
  ASSUME NEW s, IsSequence(s), NEW p
  PROVE  /\ LastRead(Append(s, p)) = Read(LastRead(s), p)
         /\ \A k \in 0 .. Len(s) : Readings(Append(s, p))[k] = Readings(s)[k]
<1> DEFINE t == Append(s, p)
<1>1. Len(s) \in Nat BY Bounds
<1>2. /\ IsSequence(t) /\ Len(t) = Len(s) + 1 /\ t[Len(s) + 1] = p
      /\ \A k \in 1 .. Len(s) : t[k] = s[k]
  BY Appended
<1> HIDE DEF t
<1>3. \A k \in 0 .. Len(s) : Readings(t)[k] = Readings(s)[k] BY <1>1, <1>2, SameReadings
<1>4. Readings(t)[Len(t)] = Read(Readings(t)[Len(t) - 1], t[Len(t)])
  <2>1. Len(t) \in 1 .. Len(t) BY <1>1, <1>2
  <2> QED BY <1>2, <2>1, ReadingsStep
<1>5. Len(t) - 1 = Len(s) BY <1>1, <1>2
<1>6. LastRead(t) = Read(LastRead(s), p) BY <1>1, <1>2, <1>3, <1>4, <1>5 DEF LastRead
<1> QED BY <1>3, <1>6 DEF t

LEMMA NothingRead == LastRead(<<>>) = <<>> /\ \A k \in 0 .. 0 : Readings(<<>>)[k] = <<>>
BY Empty, ReadingsStep DEF LastRead

\* Packets that say words, and never more than was sent
Speaks(s, words, sent) ==
  /\ IsSequence(s) /\ \A k \in 0 .. Len(s) : Begins(Readings(s)[k], sent)
  /\ LastRead(s) = words

LEMMA SpeaksOn ==
  ASSUME NEW s, NEW words, NEW sent, Speaks(s, words, sent), NEW p, Begins(Read(words, p), sent)
  PROVE  Speaks(Append(s, p), Read(words, p), sent)
<1> DEFINE t == Append(s, p)
<1>1. IsSequence(s) /\ Len(s) \in Nat /\ LastRead(s) = words BY Bounds DEF Speaks
<1>2. IsSequence(t) /\ Len(t) = Len(s) + 1 BY <1>1, Appended
<1>3. LastRead(t) = Read(words, p) /\ \A k \in 0 .. Len(s) : Readings(t)[k] = Readings(s)[k]
  BY <1>1, LastReadMore
<1> HIDE DEF t
<1>4. ASSUME NEW k \in 0 .. Len(t) PROVE Begins(Readings(t)[k], sent)
  <2>1. CASE k = Len(t) BY <1>3, <2>1 DEF LastRead
  <2>2. CASE k # Len(t)
    <3>1. k \in 0 .. Len(s) BY <1>1, <1>2, <2>2
    <3> QED BY <1>3, <3>1 DEF Speaks
  <2> QED BY <2>1, <2>2
<1> QED BY <1>2, <1>3, <1>4 DEF Speaks, t

LEMMA SpokenText ==
  ASSUME NEW s, NEW words, NEW sent, Speaks(s, words, sent)
  PROVE  IsSequence(words) /\ IsSequence(sent) /\ Begins(words, sent)
<1>1. Len(s) \in 0 .. Len(s) BY Bounds DEF Speaks
<1>2. Begins(words, sent) BY <1>1 DEF Speaks, LastRead
<1> QED BY <1>2 DEF Begins

\* More may have been sent than was said.
LEMMA SpeaksLess ==
  ASSUME NEW s, NEW words, NEW sent, Speaks(s, words, sent), NEW u, IsSequence(u)
  PROVE  Speaks(s, words, sent \o u)
<1>1. \A k \in 0 .. Len(s) : Begins(Readings(s)[k], sent \o u) BY BeginsMore DEF Speaks
<1> QED BY <1>1 DEF Speaks

\* The packets that complete an answer
Stops(p) == p.kind \in {"message_stop", "last_chunk"}

-----------------------------------------------------------------------------
(* What an event says to an Anthropic client                                *)

\* The packets of a writer, after those of t, say words and complete nothing; the
\* answer merged so far and whether it means anything are those of the writer v.
Utters(t, w, v, words, sent) ==
  /\ DOMAIN w = WriterParts /\ IsSequence(w.out)
  /\ \A k \in 1 .. Len(w.out) : ~Stops(w.out[k])
  /\ w.message = v.message /\ w.meant = v.meant
  /\ Speaks(t \o w.out, words, sent)

LEMMA EmitUtters ==
  ASSUME NEW t, IsSequence(t), NEW w, NEW v, NEW words, NEW sent, Utters(t, w, v, words, sent),
         NEW p, ~Stops(p), Begins(Read(words, p), sent)
  PROVE  Utters(t, Emit(w, p), v, Read(words, p), sent)
<1> DEFINE e == Emit(w, p)
           o == Append(w.out, p)
<1>1. /\ DOMAIN w = WriterParts /\ IsSequence(w.out) /\ Len(w.out) \in Nat
      /\ \A k \in 1 .. Len(w.out) : ~Stops(w.out[k])
      /\ w.message = v.message /\ w.meant = v.meant
  BY Bounds DEF Utters
<1>2. /\ DOMAIN e = WriterParts /\ e.out = o /\ e.message = w.message /\ e.meant = w.meant
  BY <1>1 DEF Emit, WriterParts, FreshWriter
<1> HIDE DEF e
<1>3. /\ IsSequence(o) /\ Len(o) = Len(w.out) + 1 /\ o[Len(w.out) + 1] = p
      /\ \A k \in 1 .. Len(w.out) : o[k] = w.out[k]
  BY <1>1, Appended
<1>4. t \o o = Append(t \o w.out, p) BY <1>1, AppendAside
<1> HIDE DEF o
<1>5. \A k \in 1 .. Len(o) : ~Stops(o[k])
  <2> TAKE k \in 1 .. Len(o)
  <2>1. k \in 1 .. Len(w.out) \/ k = Len(w.out) + 1 BY <1>1, <1>3
  <2> QED BY <1>1, <1>3, <2>1
<1>6. Speaks(t \o o, Read(words, p), sent) BY <1>4, SpeaksOn DEF Utters
<1> QED BY <1>1, <1>2, <1>3, <1>5, <1>6 DEF Utters, e

\* A packet without words
Wordlessly(p) ==
  \/ p.kind \in {"message_start", "block_start", "block_stop", "message_delta", "error"}
  \/ p.kind \in {"delta", "chunk"} /\ Words(p.value) = <<>>

LEMMA WordlessRead ==
  ASSUME NEW words, IsSequence(words), NEW p, Wordlessly(p)
  PROVE  ~Stops(p) /\ Read(words, p) = words
<1>1. words \o <<>> = words BY EmptyAside
<1> QED BY <1>1 DEF Wordlessly, Read, Stops

LEMMA EmitQuiet ==
  ASSUME NEW t, IsSequence(t), NEW w, NEW v, NEW words, NEW sent, Utters(t, w, v, words, sent),
         NEW p, Wordlessly(p)
  PROVE  Utters(t, Emit(w, p), v, words, sent)
<1>1. IsSequence(words) /\ Begins(words, sent) BY SpokenText DEF Utters
<1>2. ~Stops(p) /\ Read(words, p) = words BY <1>1, WordlessRead
<1>3. Begins(Read(words, p), sent) BY <1>1, <1>2
<1>4. Utters(t, Emit(w, p), v, Read(words, p), sent) BY <1>2, <1>3, EmitUtters
<1> QED BY <1>2, <1>4

\* What a writer utters depends on its packets.
LEMMA UttersAlike ==
  ASSUME NEW t, NEW w, NEW v, NEW words, NEW sent, Utters(t, w, v, words, sent),
         NEW c, DOMAIN c = WriterParts, c.out = w.out, c.message = w.message, c.meant = w.meant
  PROVE  Utters(t, c, v, words, sent)
BY DEF Utters

LEMMA TextClosesQuietly ==
  ASSUME NEW t, IsSequence(t), NEW w, NEW v, NEW words, NEW sent, Utters(t, w, v, words, sent)
  PROVE  Utters(t, CloseText(w), v, words, sent)
<1> DEFINE p == Packet("block_stop", w.text, <<>>)
           e == Emit(w, p)
           c == [e EXCEPT !.text = 0]
<1>1. CASE w.text = 0 BY <1>1 DEF CloseText
<1>2. CASE w.text # 0
  <2>1. Wordlessly(p) BY DEF Wordlessly, Packet
  <2>2. Utters(t, e, v, words, sent) BY <2>1, EmitQuiet
  <2>3. CloseText(w) = c BY <1>2 DEF CloseText
  <2> HIDE DEF e
  <2>4. DOMAIN c = WriterParts /\ c.out = e.out /\ c.message = e.message /\ c.meant = e.meant
    BY <2>2 DEF Utters, WriterParts, FreshWriter
  <2> HIDE DEF c
  <2> QED BY <2>2, <2>3, <2>4, UttersAlike
<1> QED BY <1>1, <1>2

LEMMA ThinkingClosesQuietly ==
  ASSUME NEW t, IsSequence(t), NEW w, NEW v, NEW words, NEW sent, Utters(t, w, v, words, sent)
  PROVE  Utters(t, CloseThinking(w), v, words, sent)
<1> DEFINE p == Packet("block_stop", w.thinking, <<>>)
           e == Emit(w, p)
           c == [e EXCEPT !.thinking = 0]
<1>1. CASE w.thinking = 0 BY <1>1 DEF CloseThinking
<1>2. CASE w.thinking # 0
  <2>1. Wordlessly(p) BY DEF Wordlessly, Packet
  <2>2. Utters(t, e, v, words, sent) BY <2>1, EmitQuiet
  <2>3. CloseThinking(w) = c BY <1>2 DEF CloseThinking
  <2> HIDE DEF e
  <2>4. DOMAIN c = WriterParts /\ c.out = e.out /\ c.message = e.message /\ c.meant = e.meant
    BY <2>2 DEF Utters, WriterParts, FreshWriter
  <2> HIDE DEF c
  <2> QED BY <2>2, <2>3, <2>4, UttersAlike
<1> QED BY <1>1, <1>2

LEMMA TextOpensQuietly ==
  ASSUME NEW t, IsSequence(t), NEW w, NEW v, NEW words, NEW sent, Utters(t, w, v, words, sent)
  PROVE  Utters(t, OpenText(w), v, words, sent)
<1> DEFINE p == Packet("block_start", w.next, <<"text">>)
           e == Emit(w, p)
           c == [e EXCEPT !.text = w.next, !.next = @ + 1]
<1>1. CASE w.text # 0 BY <1>1 DEF OpenText
<1>2. CASE w.text = 0
  <2>1. Wordlessly(p) BY DEF Wordlessly, Packet
  <2>2. Utters(t, e, v, words, sent) BY <2>1, EmitQuiet
  <2>3. OpenText(w) = c BY <1>2 DEF OpenText
  <2> HIDE DEF e
  <2>4. DOMAIN c = WriterParts /\ c.out = e.out /\ c.message = e.message /\ c.meant = e.meant
    BY <2>2 DEF Utters, WriterParts, FreshWriter
  <2> HIDE DEF c
  <2> QED BY <2>2, <2>3, <2>4, UttersAlike
<1> QED BY <1>1, <1>2

LEMMA ThinkingOpensQuietly ==
  ASSUME NEW t, IsSequence(t), NEW w, NEW v, NEW words, NEW sent, Utters(t, w, v, words, sent)
  PROVE  Utters(t, OpenThinking(w), v, words, sent)
<1> DEFINE p == Packet("block_start", w.next, <<"thinking">>)
           e == Emit(w, p)
           c == [e EXCEPT !.thinking = w.next, !.next = @ + 1]
<1>1. CASE w.thinking # 0 BY <1>1 DEF OpenThinking
<1>2. CASE w.thinking = 0
  <2>1. Wordlessly(p) BY DEF Wordlessly, Packet
  <2>2. Utters(t, e, v, words, sent) BY <2>1, EmitQuiet
  <2>3. OpenThinking(w) = c BY <1>2 DEF OpenThinking
  <2> HIDE DEF e
  <2>4. DOMAIN c = WriterParts /\ c.out = e.out /\ c.message = e.message /\ c.meant = e.meant
    BY <2>2 DEF Utters, WriterParts, FreshWriter
  <2> HIDE DEF c
  <2> QED BY <2>2, <2>3, <2>4, UttersAlike
<1> QED BY <1>1, <1>2

LEMMA ToolOpensQuietly ==
  ASSUME NEW t, IsSequence(t), NEW w, NEW v, NEW words, NEW sent, Utters(t, w, v, words, sent),
         NEW index
  PROVE  Utters(t, OpenTool(w, index), v, words, sent)
<1> DEFINE p == Packet("block_start", w.next, <<"tool">>)
           e == Emit(w, p)
           c == [e EXCEPT !.tools[index] = w.next, !.next = @ + 1]
<1>1. CASE w.tools[index] # 0 BY <1>1 DEF OpenTool
<1>2. CASE w.tools[index] = 0
  <2>1. Wordlessly(p) BY DEF Wordlessly, Packet
  <2>2. Utters(t, e, v, words, sent) BY <2>1, EmitQuiet
  <2>3. OpenTool(w, index) = c BY <1>2 DEF OpenTool
  <2> HIDE DEF e
  <2>4. DOMAIN c = WriterParts /\ c.out = e.out /\ c.message = e.message /\ c.meant = e.meant
    BY <2>2 DEF Utters, WriterParts, FreshWriter
  <2> HIDE DEF c
  <2> QED BY <2>2, <2>3, <2>4, UttersAlike
<1> QED BY <1>1, <1>2

\* The message starts with the first event that means something.
LEMMA MessageStartsQuietly ==
  ASSUME NEW t, IsSequence(t), NEW w, NEW words, NEW sent, Utters(t, w, w, words, sent),
         NEW event, NEW thinking
  PROVE  LET b == StartMessage(w, event, thinking)
         IN  /\ Utters(t, b, b, words, sent) /\ b.message = w.message
             /\ (w.started => w.meant) /\ ~b.meant => ~w.meant /\ ~Means(event, thinking)
<1> DEFINE p == Packet("message_start", 0, <<>>)
           e == Emit(w, p)
           c == [e EXCEPT !.meant = TRUE, !.started = TRUE]
<1>1. CASE w.started \/ ~Means(event, thinking) BY <1>1 DEF StartMessage
<1>2. CASE ~(w.started \/ ~Means(event, thinking))
  <2>1. Wordlessly(p) BY DEF Wordlessly, Packet
  <2>2. Utters(t, e, w, words, sent) BY <2>1, EmitQuiet
  <2>3. StartMessage(w, event, thinking) = c BY <1>2 DEF StartMessage
  <2> HIDE DEF e
  <2>4. DOMAIN c = WriterParts /\ c.out = e.out /\ c.message = e.message /\ c.meant = TRUE
    BY <2>2 DEF Utters, WriterParts, FreshWriter
  <2> HIDE DEF c
  <2>5. Utters(t, c, c, words, sent) BY <2>2, <2>4 DEF Utters
  <2>6. c.message = w.message BY <2>2, <2>4 DEF Utters
  <2> QED BY <2>3, <2>4, <2>5, <2>6
<1> QED BY <1>1, <1>2

LEMMA ReasonIsQuiet ==
  ASSUME NEW t, IsSequence(t), NEW w, NEW v, NEW words, NEW sent, Utters(t, w, v, words, sent),
         NEW reason, NEW thinking, Words(reason) = <<>>
  PROVE  Utters(t, WriteReason(w, reason, thinking), v, words, sent)
<1> DEFINE a == CloseText(w)
           b == OpenThinking(a)
           p == Packet("delta", b.thinking, reason)
<1>1. CASE ~thinking \/ reason = <<>> BY <1>1 DEF WriteReason
<1>2. CASE ~(~thinking \/ reason = <<>>)
  <2>1. Utters(t, a, v, words, sent) BY TextClosesQuietly
  <2>2. WriteReason(w, reason, thinking) = Emit(b, p) BY <1>2 DEF WriteReason, FillThinking
  <2> HIDE DEF a
  <2>3. Utters(t, b, v, words, sent) BY <2>1, ThinkingOpensQuietly
  <2>4. Wordlessly(p) BY DEF Wordlessly, Packet
  <2> HIDE DEF b, p
  <2> QED BY <2>2, <2>3, <2>4, EmitQuiet
<1> QED BY <1>1, <1>2

LEMMA TextIsUttered ==
  ASSUME NEW t, IsSequence(t), NEW w, NEW v, NEW words, NEW sent, Utters(t, w, v, words, sent),
         NEW text, IsSequence(text), Begins(words \o Words(text), sent)
  PROVE  Utters(t, WriteText(w, text), v, words \o Words(text), sent)
<1> DEFINE a == CloseThinking(w)
           b == OpenText(a)
           p == Packet("delta", b.text, text)
           e == Emit(b, p)
           c == [e EXCEPT !.said = @ \o text]
<1>1. CASE text = <<>>
  <2>1. words \o Words(text) = words
    <3>1. IsSequence(words) BY SpokenText DEF Utters
    <3> QED BY <1>1, <3>1, WordsOfNothing, EmptyAside
  <2> QED BY <1>1, <2>1 DEF WriteText
<1>2. CASE text # <<>>
  <2>1. Utters(t, a, v, words, sent) BY ThinkingClosesQuietly
  <2>2. WriteText(w, text) = c BY <1>2 DEF WriteText, FillText
  <2> HIDE DEF a
  <2>3. Utters(t, b, v, words, sent) BY <2>1, TextOpensQuietly
  <2>4. ~Stops(p) /\ Read(words, p) = words \o Words(text) BY DEF Stops, Read, Packet
  <2> HIDE DEF b, p
  <2>5. Begins(Read(words, p), sent) BY <2>4
  <2>6. Utters(t, e, v, words \o Words(text), sent) BY <2>3, <2>4, <2>5, EmitUtters
  <2> HIDE DEF e
  <2>7. DOMAIN c = WriterParts /\ c.out = e.out /\ c.message = e.message /\ c.meant = e.meant
    BY <2>6 DEF Utters, WriterParts, FreshWriter
  <2> HIDE DEF c
  <2> QED BY <2>2, <2>6, <2>7, UttersAlike
<1> QED BY <1>1, <1>2

\* What there may be to say of a call's arguments
Args == {None, "whole", "empty"}

LEMMA CallIsQuiet ==
  ASSUME NEW t, IsSequence(t), NEW w, NEW v, NEW words, NEW sent, Utters(t, w, v, words, sent),
         NEW call, call.args \in Args
  PROVE  Utters(t, WriteCall(w, call), v, words, sent)
<1> DEFINE a == CloseThinking(w)
           b == CloseText(a)
           c == OpenTool(b, call.index)
           p == Packet("delta", c.tools[call.index], <<call.args>>)
<1>1. Utters(t, a, v, words, sent) BY ThinkingClosesQuietly
<1>2. WriteCall(w, call) = IF call.args = None THEN c ELSE Emit(c, p)
  BY DEF WriteCall, FillTool
<1> HIDE DEF a
<1>3. Utters(t, b, v, words, sent) BY <1>1, TextClosesQuietly
<1> HIDE DEF b
<1>4. Utters(t, c, v, words, sent) BY <1>3, ToolOpensQuietly
<1>5. CASE call.args = None BY <1>2, <1>4, <1>5
<1>6. CASE call.args # None
  <2>1. call.args \in Special BY <1>6, SpecialTokens DEF Args
  <2>2. Words(<<call.args>>) = <<>> BY <2>1, WordlessOne
  <2>3. Wordlessly(p) BY <2>2 DEF Wordlessly, Packet
  <2> HIDE DEF c, p
  <2> QED BY <1>2, <1>4, <1>6, <2>3, EmitQuiet
<1> QED BY <1>5, <1>6

LEMMA CallsAreQuiet ==
  ASSUME NEW t, IsSequence(t), NEW w, NEW v, NEW words, NEW sent, Utters(t, w, v, words, sent),
         NEW calls, IsSequence(calls), \A k \in 1 .. Len(calls) : calls[k].args \in Args
  PROVE  Utters(t, WriteCalls(w, calls), v, words, sent)
<1>1. Len(calls) \in Nat BY Bounds
<1>2. PICK f : /\ f = [k \in 0 .. Len(calls) |-> IF k = 0 THEN w ELSE WriteCall(f[k - 1], calls[k])]
               /\ WriteCalls(w, calls) = f[Len(calls)]
  BY <1>1, WriteCallsDefined
<1>3. f[0] = w BY <1>1, <1>2
<1>4. \A k \in 1 .. Len(calls) : f[k] = WriteCall(f[k - 1], calls[k]) BY <1>1, <1>2
<1> DEFINE T == {k \in Nat : Utters(t, f[k], v, words, sent)}
<1>5. 0 \in T BY <1>3
<1>6. ASSUME NEW k \in 1 .. Len(calls), k - 1 \in T PROVE k \in T
  <2>1. Utters(t, f[k - 1], v, words, sent) /\ k \in Nat BY <1>6
  <2>2. f[k] = WriteCall(f[k - 1], calls[k]) /\ calls[k].args \in Args BY <1>4
  <2>3. Utters(t, f[k], v, words, sent) BY <2>1, <2>2, CallIsQuiet
  <2> QED BY <2>1, <2>3
<1>7. \A k \in 0 .. Len(calls) : k \in T
  <2> HIDE DEF T
  <2> QED BY <1>1, <1>5, <1>6, Climb
<1>8. Len(calls) \in T BY <1>1, <1>7
<1> QED BY <1>2, <1>8

\* An event says its text, and until it means something it says nothing.
LEMMA EventUttered ==
  ASSUME NEW t, IsSequence(t), NEW w, DOMAIN w = WriterParts, NEW words, NEW sent,
         Speaks(t, words, sent), NEW event, NEW thinking,
         IsSequence(event.text), IsSequence(event.calls), Words(event.reason) = <<>>,
         \A k \in 1 .. Len(event.calls) : event.calls[k].args \in Args,
         Begins(words \o Words(event.text), sent)
  PROVE  LET n == AnthropicWrite(w, event, thinking)
         IN  /\ DOMAIN n = WriterParts /\ IsSequence(n.out)
             /\ \A k \in 1 .. Len(n.out) : ~Stops(n.out[k])
             /\ n.message = Aggregate(w.message, event)
             /\ Speaks(t \o n.out, words \o Words(event.text), sent)
             /\ (w.started => w.meant) /\ ~n.meant => ~w.meant /\ ~Means(event, thinking)
<1> DEFINE a == [w EXCEPT !.out = <<>>, !.message = Aggregate(@, event)]
           b == StartMessage(a, event, thinking)
           c == WriteReason(b, event.reason, thinking)
           d == WriteText(c, event.text)
           e == WriteCalls(d, event.calls)
           g == WriteStop(e, event.finish)
           more == words \o Words(event.text)
<1>1. /\ Utters(t, a, a, words, sent) /\ a.message = Aggregate(w.message, event)
      /\ a.meant = w.meant /\ a.started = w.started
  <2>1. /\ DOMAIN a = WriterParts /\ a.out = <<>> /\ a.message = Aggregate(w.message, event)
        /\ a.meant = w.meant /\ a.started = w.started
    BY DEF WriterParts, FreshWriter
  <2> HIDE DEF a
  <2>2. t \o a.out = t /\ IsSequence(a.out) /\ Len(a.out) = 0 BY <2>1, EmptyAside, Empty
  <2>3. \A k \in 1 .. 0 : ~Stops(a.out[k]) OBVIOUS
  <2> QED BY <2>1, <2>2, <2>3 DEF Utters
<1> HIDE DEF a
<1>2. /\ Utters(t, b, b, words, sent) /\ b.message = a.message
      /\ (a.started => a.meant) /\ ~b.meant => ~a.meant /\ ~Means(event, thinking)
  BY <1>1, MessageStartsQuietly
<1> HIDE DEF b
<1>3. Utters(t, c, b, words, sent) BY <1>2, ReasonIsQuiet
<1> HIDE DEF c
<1>4. Utters(t, d, b, more, sent) BY <1>3, TextIsUttered
<1> HIDE DEF d
<1>5. Utters(t, e, b, more, sent) BY <1>4, CallsAreQuiet
<1> HIDE DEF e, more
<1>6. Utters(t, g, b, more, sent)
  <2>1. CASE event.finish = None BY <1>5, <2>1 DEF WriteStop
  <2>2. CASE event.finish # None
    <3> DEFINE s == [e EXCEPT !.stop = StopReason(event.finish)]
    <3>1. g = s BY <2>2 DEF WriteStop
    <3>2. DOMAIN s = WriterParts /\ s.out = e.out /\ s.message = e.message /\ s.meant = e.meant
      BY <1>5 DEF Utters, WriterParts, FreshWriter
    <3> HIDE DEF s, g
    <3> QED BY <1>5, <3>1, <3>2, UttersAlike
  <2> QED BY <2>1, <2>2
<1>7. AnthropicWrite(w, event, thinking) = g BY DEF AnthropicWrite, a, b, c, d, e
<1> HIDE DEF g
<1> QED BY <1>1, <1>2, <1>6, <1>7 DEF Utters, more

-----------------------------------------------------------------------------
(* The calls of an event                                                    *)

\* Calls whose arguments, if any, are whole or empty
Argued(calls) == IsSequence(calls) /\ \A k \in 1 .. Len(calls) : calls[k].args \in Args

LEMMA ArguedNothing == Argued(<<>>)
<1>1. \A k \in 1 .. 0 : <<>>[k].args \in Args OBVIOUS
<1> QED BY <1>1, Empty DEF Argued

LEMMA ArguedMore ==
  ASSUME NEW calls, Argued(calls), NEW call, call.args \in Args
  PROVE  Argued(Append(calls, call))
<1> DEFINE c == Append(calls, call)
<1>1. /\ IsSequence(c) /\ Len(c) = Len(calls) + 1 /\ c[Len(calls) + 1] = call
      /\ \A k \in 1 .. Len(calls) : c[k] = calls[k]
  BY Appended DEF Argued
<1>2. Len(calls) \in Nat BY Bounds DEF Argued
<1> HIDE DEF c
<1>3. \A k \in 1 .. Len(c) : k \in 1 .. Len(calls) \/ k = Len(calls) + 1 BY <1>1, <1>2
<1>4. \A k \in 1 .. Len(c) : c[k].args \in Args BY <1>1, <1>3 DEF Argued
<1> QED BY <1>1, <1>4 DEF Argued, c

LEMMA ArguedAside ==
  ASSUME NEW calls, Argued(calls), NEW more, Argued(more)
  PROVE  Argued(calls \o more)
<1> DEFINE c == calls \o more
<1>1. /\ IsSequence(c) /\ Len(c) = Len(calls) + Len(more)
      /\ \A k \in 1 .. Len(calls) : c[k] = calls[k]
      /\ \A k \in 1 .. Len(more) : c[Len(calls) + k] = more[k]
  BY Concatenated DEF Argued
<1>2. Len(calls) \in Nat /\ Len(more) \in Nat BY Bounds DEF Argued
<1> HIDE DEF c
<1>3. ASSUME NEW k \in 1 .. Len(c) PROVE c[k].args \in Args
  <2>1. CASE k \in 1 .. Len(calls) BY <1>1, <2>1 DEF Argued
  <2>2. CASE k \notin 1 .. Len(calls)
    <3>1. k - Len(calls) \in 1 .. Len(more) /\ Len(calls) + (k - Len(calls)) = k
      BY <1>1, <1>2, <2>2
    <3>2. c[k] = more[k - Len(calls)] BY <1>1, <3>1
    <3> QED BY <3>1, <3>2 DEF Argued
  <2> QED BY <2>1, <2>2
<1> QED BY <1>1, <1>3 DEF Argued, c

\* The state after each call, from the first on
LEMMA CallsStepwise ==
  ASSUME NEW before, NEW calls, NEW finalizing, Len(calls) \in Nat
  PROVE  \E f : /\ f[0] = [choice |-> before, calls |-> <<>>]
                /\ \A k \in 1 .. Len(calls) : f[k] = NormalizeCall(f[k - 1], calls[k], finalizing)
                /\ NormalizeCalls(before, calls, finalizing) = f[Len(calls)]
<1>1. PICK f : /\ f = [k \in 0 .. Len(calls) |->
                         IF k = 0 THEN [choice |-> before, calls |-> <<>>]
                         ELSE NormalizeCall(f[k - 1], calls[k], finalizing)]
               /\ NormalizeCalls(before, calls, finalizing) = f[Len(calls)]
  BY CallsNormalizedDefined
<1>2. f[0] = [choice |-> before, calls |-> <<>>] BY <1>1
<1>3. \A k \in 1 .. Len(calls) : f[k] = NormalizeCall(f[k - 1], calls[k], finalizing) BY <1>1
<1> QED BY <1>1, <1>2, <1>3

LEMMA CallArgued ==
  ASSUME NEW done, Argued(done.calls), NEW call, NEW finalizing
  PROVE  Argued(NormalizeCall(done, call, finalizing).calls)
<1> DEFINE tool == ToolAfter(done.choice.tools[call.index], call)
           args == ArgumentsOf(tool, finalizing)
           next == EmitCall(done, call, tool, args)
<1>1. NormalizeCall(done, call, finalizing) = next BY DEF NormalizeCall
<1>2. args \in Args BY DEF ArgumentsOf, Args
<1> HIDE DEF tool, args
<1>3. \/ next.calls = done.calls
      \/ \E a \in {args, None} : next.calls = Append(done.calls, [index |-> call.index, args |-> a])
  BY DEF EmitCall
<1> HIDE DEF next
<1>4. CASE next.calls = done.calls BY <1>1, <1>4
<1>5. ASSUME NEW a \in {args, None},
             next.calls = Append(done.calls, [index |-> call.index, args |-> a])
      PROVE  Argued(next.calls)
  <2> DEFINE r == [index |-> call.index, args |-> a]
  <2>1. r.args \in Args BY <1>2 DEF Args
  <2> HIDE DEF r
  <2>2. Argued(Append(done.calls, r)) BY <2>1, ArguedMore
  <2> QED BY <1>5, <2>2 DEF r
<1> QED BY <1>1, <1>3, <1>4, <1>5

LEMMA CallsArgued ==
  ASSUME NEW before, NEW calls, IsSequence(calls), NEW finalizing
  PROVE  Argued(NormalizeCalls(before, calls, finalizing).calls)
<1>1. Len(calls) \in Nat BY Bounds
<1>2. PICK f : /\ f[0] = [choice |-> before, calls |-> <<>>]
               /\ \A k \in 1 .. Len(calls) : f[k] = NormalizeCall(f[k - 1], calls[k], finalizing)
               /\ NormalizeCalls(before, calls, finalizing) = f[Len(calls)]
  BY <1>1, CallsStepwise
<1> DEFINE T == {k \in Nat : Argued(f[k].calls)}
<1>5. 0 \in T BY <1>2, ArguedNothing
<1>6. ASSUME NEW k \in 1 .. Len(calls), k - 1 \in T PROVE k \in T
  <2>1. Argued(f[k - 1].calls) /\ k \in Nat BY <1>6
  <2>2. f[k] = NormalizeCall(f[k - 1], calls[k], finalizing) BY <1>2
  <2>3. Argued(f[k].calls) BY <2>1, <2>2, CallArgued
  <2> QED BY <2>1, <2>3
<1>7. \A k \in 0 .. Len(calls) : k \in T
  <2> HIDE DEF T
  <2> QED BY <1>1, <1>5, <1>6, Climb
<1>8. Len(calls) \in T BY <1>1, <1>7
<1> QED BY <1>2, <1>8

LEMMA PendingArgued ==
  ASSUME NEW before
  PROVE  Argued(FinalizePending(before).calls)
<1> DEFINE n == Cardinality(ToolIndexes)
<1>1. n \in Nat BY Indices
<1>2. PICK f : /\ f[0] = [choice |-> before, calls |-> <<>>]
               /\ \A k \in 1 .. n : f[k] = FinalizeCall(f[k - 1], k - 1)
               /\ FinalizePending(before) = f[n]
  BY <1>1, FinalizedDefined
<1> HIDE DEF n
<1> DEFINE T == {k \in Nat : Argued(f[k].calls)}
<1>3. 0 \in T BY <1>2, ArguedNothing
<1>4. ASSUME NEW k \in 1 .. n, k - 1 \in T PROVE k \in T
  <2>1. Argued(f[k - 1].calls) /\ k \in Nat BY <1>4
  <2>2. f[k] = FinalizeCall(f[k - 1], k - 1) BY <1>2
  <2>3. Argued(f[k].calls) BY <2>1, <2>2, CallArgued DEF FinalizeCall
  <2> QED BY <2>1, <2>3
<1>5. \A k \in 0 .. n : k \in T
  <2> HIDE DEF T
  <2> QED BY <1>1, <1>3, <1>4, Climb
<1>6. n \in T BY <1>1, <1>5
<1> QED BY <1>2, <1>6

LEMMA WholeCallsArgued ==
  ASSUME NEW message, IsSequence(message)
  PROVE  Argued(WholeCalls(message))
<1>1. Len(message) \in Nat BY Bounds
<1>2. PICK f : /\ f[0] = <<>>
               /\ \A k \in 1 .. Len(message) : f[k] = WholeCall(f[k - 1], message[k])
               /\ WholeCalls(message) = f[Len(message)]
  BY <1>1, WholeCallsDefined
<1> DEFINE T == {k \in Nat : Argued(f[k])}
<1>3. 0 \in T BY <1>2, ArguedNothing
<1>4. ASSUME NEW k \in 1 .. Len(message), k - 1 \in T PROVE k \in T
  <2>1. Argued(f[k - 1]) /\ k \in Nat BY <1>4
  <2>2. f[k] = WholeCall(f[k - 1], message[k]) BY <1>2
  <2> DEFINE r == [index |-> message[k].index, args |-> "whole"]
  <2>3. r.args \in Args BY DEF Args
  <2>4. f[k] = f[k - 1] \/ f[k] = Append(f[k - 1], r) BY <2>2 DEF WholeCall
  <2> HIDE DEF r
  <2> QED BY <2>1, <2>3, <2>4, ArguedMore
<1>5. \A k \in 0 .. Len(message) : k \in T
  <2> HIDE DEF T
  <2> QED BY <1>1, <1>3, <1>4, Climb
<1>6. Len(message) \in T BY <1>1, <1>5
<1> QED BY <1>2, <1>6

\* The thoughts of an event are those of its chunk, and its calls' arguments are
\* whole or empty.
LEMMA NormalizedEvent ==
  ASSUME NEW before, Holds(before), NEW chunk \in Chunks
  PROVE  LET event == NormalizeChoice(before, chunk).event
         IN  event.reason = chunk.reason /\ Argued(event.calls)
<1> DEFINE event == [text |-> <<>>, reason |-> <<>>, role |-> chunk.role, calls |-> <<>>,
                     finish |-> None]
           a == [choice |-> before, event |-> event]
           b == CallsStage(a, chunk)
           c == TextStage(b, chunk)
           d == ReasonStage(c, chunk)
           finish == FinishOf(d.choice, chunk)
           cleared == [d EXCEPT !.choice.held = <<>>, !.choice.pending = <<>>]
           rest == Extract(d.choice.held, TRUE).text
           one == Finished(d, chunk)
<1>1. Cleaned(a) /\ Argued(a.event.calls)
  <2>1. Says(event) BY Empty DEF Says, EventParts
  <2> QED BY <2>1, ArguedNothing DEF Cleaned
<1>2. NormalizeChoice(before, chunk) = one BY DEF NormalizeChoice
<1> HIDE DEF a
<1>3. Cleaned(b) BY <1>1, CallsStaged
<1>4. Argued(b.event.calls)
  <2>1. CASE Given(chunk) = <<>> BY <1>1, <2>1 DEF CallsStage
  <2>2. CASE Given(chunk) # <<>>
    <3> DEFINE e == [a.choice EXCEPT !.pending = <<>>]
               finalizing == FALSE
               done == NormalizeCalls(e, Given(chunk), finalizing)
    <3>1. b = AddCalls(a, done) BY <2>2 DEF CallsStage
    <3> HIDE DEF e, finalizing
    <3>2. Argued(done.calls) BY GivenCalls, CallsArgued
    <3> HIDE DEF done
    <3>3. b.event.calls = a.event.calls \o done.calls
      <4> HIDE DEF b
      <4>1. DOMAIN a.event = EventParts BY <1>1 DEF Cleaned, Says
      <4>2. b.event = [a.event EXCEPT !.calls = @ \o done.calls] BY <3>1 DEF AddCalls
      <4> QED BY <4>1, <4>2 DEF EventParts
    <3> QED BY <1>1, <3>2, <3>3, ArguedAside
  <2> QED BY <2>1, <2>2
<1> HIDE DEF b
<1>5. Cleaned(c) BY <1>3, TextStaged
<1>6. Argued(c.event.calls)
  <2> DEFINE text == b.choice.held \o chunk.text
             finalizing == FALSE
             found == Extract(text, finalizing)
             e == [b.choice EXCEPT !.held = found.tail]
             done == SyntheticCalls(e, found.invokes)
             s == AddCalls(b, done)
             all == s.choice.pending \o found.text
  <2>1. c = TextFound(s, found) BY DEF TextStage, TextExtracted
  <2>2. IsSequence(text) BY <1>3, GivenCalls, Concatenated DEF Cleaned, Holds
  <2> HIDE DEF text, finalizing
  <2>3. IsSequence(found.tail) /\ found.invokes \in Nat BY <2>2, ExtractFound
  <2> HIDE DEF found
  <2>4. Argued(done.calls)
    <3> DEFINE known == Cardinality(Known(e))
               first == IF known > e.synthetic THEN known ELSE e.synthetic
               g == [e EXCEPT !.synthetic = first + found.invokes]
               calls == [k \in 1 .. found.invokes |->
                           [index |-> first + k - 1, name |-> EagerTool, args |-> "whole"]]
    <3>1. done = NormalizeCalls(g, calls, TRUE) BY DEF SyntheticCalls
    <3> HIDE DEF first
    <3>2. calls = [k \in 1 .. found.invokes |-> calls[k]] OBVIOUS
    <3> HIDE DEF g, calls
    <3>3. IsSequence(calls) BY <2>3, <3>2, Listed
    <3> HIDE DEF done
    <3> QED BY <3>1, <3>3, CallsArgued
  <2> HIDE DEF done
  <2>5. s.event.calls = b.event.calls \o done.calls /\ DOMAIN s.event = EventParts
    BY <1>3 DEF AddCalls, Cleaned, Says, EventParts
  <2>6. Argued(s.event.calls) BY <1>4, <2>4, <2>5, ArguedAside
  <2>7. DOMAIN s = {"choice", "event"} BY DEF AddCalls
  <2> HIDE DEF s
  <2>8. c.event.calls = s.event.calls
    <3>1. CASE ~Visible(found.text) BY <2>1, <3>1 DEF TextFound
    <3>2. CASE Visible(found.text)
      <4> DEFINE led == Trimmed(all)
      <4>1. c = ConsumeText(s, all, led) BY <2>1, <3>2 DEF TextFound, TextGoesOn
      <4> HIDE DEF all, led
      <4>2. CASE ~s.choice.emitted /\ led = <<MarkerHead>>
        <5>1. c = [s EXCEPT !.choice.pending = all] BY <4>1, <4>2 DEF ConsumeText
        <5> QED BY <2>7, <5>1
      <4>3. ASSUME NEW r, c.event = [s.event EXCEPT !.text = r] PROVE c.event.calls = s.event.calls
        BY <2>5, <4>3 DEF EventParts
      <4>4. CASE ~(~s.choice.emitted /\ led = <<MarkerHead>>)
        <5> DEFINE r1 == Trimmed(SubSeq(led, 3, Len(led)))
        <5>1. c.event \in {[s.event EXCEPT !.text = r1], [s.event EXCEPT !.text = all]}
          BY <4>1, <4>4 DEF ConsumeText
        <5> QED BY <4>3, <5>1
      <4> QED BY <4>2, <4>4
    <3> QED BY <3>1, <3>2
  <2> QED BY <2>6, <2>8
<1> HIDE DEF c
<1>7. Cleaned(d) BY <1>5, ReasonStaged
<1>8. d.event.calls = c.event.calls /\ d.event.reason = chunk.reason
  BY <1>5 DEF ReasonStage, Cleaned, Says, EventParts
<1> HIDE DEF d
<1>9. one = IF finish = None THEN d
            ELSE IF finish = "tool_calls" THEN FinishWithCalls(cleared, chunk)
            ELSE FinishWithText(cleared, finish, rest)
  BY DEF Finished, FinishStage
<1>10. cleared.event = d.event /\ DOMAIN d.event = EventParts
  BY <1>7 DEF Cleaned, Says
<1> HIDE DEF finish, cleared, rest, one
<1>11. Argued(d.event.calls) BY <1>6, <1>8
<1>12. FinishWithText(cleared, finish, rest).event.calls = d.event.calls
       /\ FinishWithText(cleared, finish, rest).event.reason = d.event.reason
  BY <1>10 DEF FinishWithText, EventParts
<1>13. FinishWithCalls(cleared, chunk).event.reason = d.event.reason
       /\ Argued(FinishWithCalls(cleared, chunk).event.calls)
  <2> DEFINE done == IF Given(chunk) = <<>> THEN [choice |-> cleared.choice, calls |-> <<>>]
                     ELSE FinalizePending(cleared.choice)
             calls == IF done.calls # <<>> THEN done.calls ELSE cleared.event.calls
             fallback == WholeCalls(chunk.message)
             f == FinishWithCalls(cleared, chunk)
  <2>1. f = IF calls = <<>> /\ fallback # <<>>
            THEN [choice |-> [done.choice EXCEPT !.seen = TRUE],
                  event |-> [cleared.event EXCEPT !.calls = fallback, !.finish = "tool_calls"]]
            ELSE [choice |-> done.choice,
                  event |-> [cleared.event EXCEPT !.calls = calls,
                                 !.finish = IF done.choice.seen THEN "tool_calls" ELSE "stop"]]
    BY DEF FinishWithCalls, CallsCompleted
  <2>2. Argued(done.calls) BY PendingArgued, ArguedNothing
  <2> HIDE DEF done, f
  <2>3. Argued(calls) /\ Argued(fallback) BY <1>10, <1>11, <2>2, GivenCalls, WholeCallsArgued
  <2> HIDE DEF calls, fallback
  <2>4. f.event.reason = d.event.reason /\ f.event.calls \in {calls, fallback}
    BY <1>10, <2>1 DEF EventParts
  <2> QED BY <2>3, <2>4 DEF f
<1>14. one.event.reason = d.event.reason /\ Argued(one.event.calls)
  BY <1>9, <1>11, <1>12, <1>13
<1> QED BY <1>2, <1>8, <1>14

\* The deltas of calls are merged one by one.
LEMMA MergedDefined ==
  ASSUME NEW merged, NEW calls, Len(calls) \in Nat
  PROVE  \E f : /\ f[0] = merged
                /\ \A k \in 1 .. Len(calls) : f[k] = MergeCall(f[k - 1], calls[k])
                /\ MergeCalls(merged, calls) = f[Len(calls)]
<1> DEFINE n == Len(calls)
           Is(f, m) == f = [k \in 0 .. m |->
                             IF k = 0 THEN merged
                             ELSE MergeCall(f[k - 1], calls[k])]
           T == {m \in Nat : \E f : Is(f, m)}
           after == CHOOSE f : f = [k \in 0 .. n |->
                                     IF k = 0 THEN merged
                                     ELSE MergeCall(f[k - 1], calls[k])]
<1>1. 0 \in T
  <2> DEFINE g == [k \in 0 .. 0 |-> merged]
  <2>1. Is(g, 0) OBVIOUS
  <2> HIDE DEF g
  <2> QED BY <2>1
<1>2. ASSUME NEW m \in 1 .. n, m - 1 \in T PROVE m \in T
  <2>1. m \in Nat /\ m - 1 \in Nat OBVIOUS
  <2>2. PICK f : Is(f, m - 1) BY <1>2
  <2> DEFINE g == [k \in 0 .. m |-> IF k = m THEN MergeCall(f[m - 1], calls[m]) ELSE f[k]]
             h == [k \in 0 .. m |->
                    IF k = 0 THEN merged ELSE MergeCall(g[k - 1], calls[k])]
  <2>3. /\ f[0] = merged
        /\ \A k \in 1 .. (m - 1) : f[k] = MergeCall(f[k - 1], calls[k])
    BY <2>1, <2>2
  <2>4. /\ g[m] = MergeCall(f[m - 1], calls[m])
        /\ \A k \in 0 .. (m - 1) : g[k] = f[k]
    BY <2>1
  <2>5. ASSUME NEW k \in 0 .. m PROVE g[k] = h[k]
    <3>1. h[k] = IF k = 0 THEN merged ELSE MergeCall(g[k - 1], calls[k]) OBVIOUS
    <3> HIDE DEF g, h
    <3>2. CASE k = 0 BY <2>1, <2>3, <2>4, <3>1, <3>2
    <3>3. CASE k = m /\ k # 0
      <4>1. g[k - 1] = f[k - 1] BY <2>1, <2>4, <3>3
      <4> QED BY <2>4, <3>1, <3>3, <4>1
    <3>4. CASE k \in 1 .. (m - 1)
      <4>1. g[k] = f[k] /\ g[k - 1] = f[k - 1] BY <2>1, <2>4, <3>4
      <4>2. k # 0 BY <3>4
      <4> QED BY <2>3, <3>1, <3>4, <4>1, <4>2
    <3> QED BY <2>1, <3>2, <3>3, <3>4
  <2>6. g = h BY <2>5
  <2>7. Is(g, m) BY <2>6
  <2> HIDE DEF g, h, Is
  <2> QED BY <2>1, <2>7
<1>3. \A m \in 0 .. n : m \in T
  <2> HIDE DEF T
  <2> QED BY <1>1, <1>2, Climb
<1>4. PICK f : Is(f, n) BY <1>3
<1>5. after = [k \in 0 .. n |->
                IF k = 0 THEN merged ELSE MergeCall(after[k - 1], calls[k])] BY <1>4
<1>6. MergeCalls(merged, calls) = after[n] BY DEF MergeCalls
<1> HIDE DEF after
<1>7. after[0] = merged BY <1>5
<1>8. \A k \in 1 .. n : after[k] = MergeCall(after[k - 1], calls[k]) BY <1>5
<1> QED BY <1>6, <1>7, <1>8

\* The arguments a client is told of, merged index by index
ArgsTold(calls) == calls \in [ToolIndexes -> Seq({"whole", "empty"})]

LEMMA MergedTold ==
  ASSUME NEW merged, ArgsTold(merged), NEW calls, Argued(calls),
         \A k \in 1 .. Len(calls) : calls[k].index \in ToolIndexes
  PROVE  ArgsTold(MergeCalls(merged, calls))
<1>1. Len(calls) \in Nat BY Bounds DEF Argued
<1>2. PICK f : /\ f[0] = merged
               /\ \A k \in 1 .. Len(calls) : f[k] = MergeCall(f[k - 1], calls[k])
               /\ MergeCalls(merged, calls) = f[Len(calls)]
  BY <1>1, MergedDefined
<1> DEFINE T == {k \in Nat : ArgsTold(f[k])}
<1>3. 0 \in T BY <1>2
<1>4. ASSUME NEW k \in 1 .. Len(calls), k - 1 \in T PROVE k \in T
  <2>1. ArgsTold(f[k - 1]) /\ k \in Nat BY <1>4
  <2> DEFINE call == calls[k]
  <2>2. f[k] = MergeCall(f[k - 1], call) /\ call.index \in ToolIndexes BY <1>2
  <2>3. call.args \in Args BY DEF Argued
  <2> HIDE DEF call
  <2>4. CASE call.args = None BY <2>1, <2>2, <2>4 DEF MergeCall
  <2>5. CASE call.args # None
    <3>1. call.args \in {"whole", "empty"} BY <2>3, <2>5 DEF Args
    <3>2. Append(f[k - 1][call.index], call.args) \in Seq({"whole", "empty"})
      BY <2>1, <2>2, <3>1 DEF ArgsTold
    <3>3. f[k] = [f[k - 1] EXCEPT ![call.index] = Append(f[k - 1][call.index], call.args)]
      BY <2>2, <2>5 DEF MergeCall
    <3>4. ArgsTold(f[k]) BY <2>1, <2>2, <3>2, <3>3 DEF ArgsTold
    <3> QED BY <2>1, <3>4
  <2> QED BY <2>1, <2>4, <2>5
<1>5. \A k \in 0 .. Len(calls) : k \in T
  <2> HIDE DEF T
  <2> QED BY <1>1, <1>3, <1>4, Climb
<1>6. Len(calls) \in T BY <1>1, <1>5
<1> QED BY <1>2, <1>6

\* A merged answer
Merged(message) ==
  /\ DOMAIN message = {"text", "calls", "finish"}
  /\ IsSequence(message.text) /\ ArgsTold(message.calls)

LEMMA MergedNothing == Merged(EmptyMessage)
<1>1. ArgsTold([i \in ToolIndexes |-> <<>>]) BY DEF ArgsTold
<1> QED BY <1>1, Empty DEF Merged, EmptyMessage

LEMMA Aggregated ==
  ASSUME NEW message, Merged(message), NEW event, IsSequence(event.text), Argued(event.calls),
         \A k \in 1 .. Len(event.calls) : event.calls[k].index \in ToolIndexes
  PROVE  LET m == Aggregate(message, event)
         IN  Merged(m) /\ m.text = message.text \o event.text
<1>1. IsSequence(message.text \o event.text) BY Concatenated DEF Merged
<1>2. ArgsTold(MergeCalls(message.calls, event.calls)) BY MergedTold DEF Merged
<1> QED BY <1>1, <1>2 DEF Aggregate, Merged

\* The parts of the calls are put together index by index.
LEMMA CallPartsDefined ==
  ASSUME NEW message, Cardinality(ToolIndexes) \in Nat
  PROVE  \E f : /\ f[0] = <<>>
                /\ \A k \in 1 .. Cardinality(ToolIndexes) :
                     f[k] = CallPart(f[k - 1], message.calls[k - 1])
                /\ CallParts(message) = f[Cardinality(ToolIndexes)]
<1> DEFINE n == Cardinality(ToolIndexes)
           Is(f, m) == f = [k \in 0 .. m |->
                             IF k = 0 THEN <<>>
                             ELSE CallPart(f[k - 1], message.calls[k - 1])]
           T == {m \in Nat : \E f : Is(f, m)}
           after == CHOOSE f : f = [k \in 0 .. n |->
                                     IF k = 0 THEN <<>>
                                     ELSE CallPart(f[k - 1], message.calls[k - 1])]
<1>1. 0 \in T
  <2> DEFINE g == [k \in 0 .. 0 |-> <<>>]
  <2>1. Is(g, 0) OBVIOUS
  <2> HIDE DEF g
  <2> QED BY <2>1
<1>2. ASSUME NEW m \in 1 .. n, m - 1 \in T PROVE m \in T
  <2>1. m \in Nat /\ m - 1 \in Nat OBVIOUS
  <2>2. PICK f : Is(f, m - 1) BY <1>2
  <2> DEFINE g == [k \in 0 .. m |->
                    IF k = m THEN CallPart(f[m - 1], message.calls[m - 1]) ELSE f[k]]
             h == [k \in 0 .. m |->
                    IF k = 0 THEN <<>> ELSE CallPart(g[k - 1], message.calls[k - 1])]
  <2>3. /\ f[0] = <<>>
        /\ \A k \in 1 .. (m - 1) : f[k] = CallPart(f[k - 1], message.calls[k - 1])
    BY <2>1, <2>2
  <2>4. /\ g[m] = CallPart(f[m - 1], message.calls[m - 1])
        /\ \A k \in 0 .. (m - 1) : g[k] = f[k]
    BY <2>1
  <2>5. ASSUME NEW k \in 0 .. m PROVE g[k] = h[k]
    <3>1. h[k] = IF k = 0 THEN <<>> ELSE CallPart(g[k - 1], message.calls[k - 1]) OBVIOUS
    <3> HIDE DEF g, h
    <3>2. CASE k = 0 BY <2>1, <2>3, <2>4, <3>1, <3>2
    <3>3. CASE k = m /\ k # 0
      <4>1. g[k - 1] = f[k - 1] BY <2>1, <2>4, <3>3
      <4> QED BY <2>4, <3>1, <3>3, <4>1
    <3>4. CASE k \in 1 .. (m - 1)
      <4>1. g[k] = f[k] /\ g[k - 1] = f[k - 1] BY <2>1, <2>4, <3>4
      <4>2. k # 0 BY <3>4
      <4> QED BY <2>3, <3>1, <3>4, <4>1, <4>2
    <3> QED BY <2>1, <3>2, <3>3, <3>4
  <2>6. g = h BY <2>5
  <2>7. Is(g, m) BY <2>6
  <2> HIDE DEF g, h, Is
  <2> QED BY <2>1, <2>7
<1>3. \A m \in 0 .. n : m \in T
  <2> HIDE DEF T
  <2> QED BY <1>1, <1>2, Climb
<1>4. PICK f : Is(f, n) BY <1>3
<1>5. after = [k \in 0 .. n |->
                IF k = 0 THEN <<>> ELSE CallPart(after[k - 1], message.calls[k - 1])] BY <1>4
<1>6. CallParts(message) = after[n] BY DEF CallParts
<1> HIDE DEF after
<1>7. after[0] = <<>> BY <1>5
<1>8. \A k \in 1 .. n : after[k] = CallPart(after[k - 1], message.calls[k - 1]) BY <1>5
<1> QED BY <1>6, <1>7, <1>8

\* The parts of calls have no words.
LEMMA CallPartsWordless ==
  ASSUME NEW message, ArgsTold(message.calls)
  PROVE  IsSequence(CallParts(message)) /\ Words(CallParts(message)) = <<>>
<1> DEFINE n == Cardinality(ToolIndexes)
<1>1. n \in Nat /\ ToolIndexes = 0 .. (n - 1) BY Indices
<1>2. PICK f : /\ f[0] = <<>>
               /\ \A k \in 1 .. n : f[k] = CallPart(f[k - 1], message.calls[k - 1])
               /\ CallParts(message) = f[n]
  BY <1>1, CallPartsDefined
<1> HIDE DEF n
<1> DEFINE T == {k \in Nat : IsSequence(f[k]) /\ Words(f[k]) = <<>>}
<1>3. 0 \in T BY <1>2, Empty, WordsOfNothing
<1>4. ASSUME NEW k \in 1 .. n, k - 1 \in T PROVE k \in T
  <2> DEFINE args == message.calls[k - 1]
             head == f[k - 1] \o <<"call">>
  <2>1. IsSequence(f[k - 1]) /\ Words(f[k - 1]) = <<>> /\ k \in Nat BY <1>4
  <2>2. f[k] = CallPart(f[k - 1], args) BY <1>2
  <2>3. args \in Seq({"whole", "empty"})
    <3>1. k - 1 \in ToolIndexes BY <1>1
    <3> QED BY <3>1 DEF ArgsTold
  <2> HIDE DEF args
  <2>4. IsSequence(args) /\ DOMAIN args = 1 .. Len(args) BY <2>3, OfSet
  <2>5. Words(args) = <<>>
    <3>1. \A j \in 1 .. Len(args) : args[j] \in {"whole", "empty"} BY <2>3, <2>4
    <3>2. \A j \in 1 .. Len(args) : args[j] \notin AllWords BY <3>1, SpecialTokens
    <3> QED BY <2>4, <3>2, Wordless
  <2>6. IsSequence(<<"call">>) /\ Words(<<"call">>) = <<>> BY SpecialTokens, WordlessOne
  <2>7. IsSequence(head) /\ Words(head) = <<>> \o <<>>
    BY <2>1, <2>6, Concatenated, WordsAside
  <2>8. f[k] = f[k - 1] \/ f[k] = head \o args BY <2>2 DEF CallPart
  <2> HIDE DEF head
  <2>9. <<>> \o <<>> = <<>> BY Empty, EmptyAside
  <2>10. IsSequence(head \o args) /\ Words(head \o args) = <<>>
    BY <2>4, <2>5, <2>7, <2>9, Concatenated, WordsAside
  <2> QED BY <2>1, <2>8, <2>10
<1>5. \A k \in 0 .. n : k \in T
  <2> HIDE DEF T
  <2> QED BY <1>1, <1>3, <1>4, Climb
<1>6. n \in T BY <1>1, <1>5
<1> QED BY <1>2, <1>6

\* A Gemini client reads the text of an event at once, and whatever the last packet has.
LEMMA EventTold ==
  ASSUME NEW t, IsSequence(t), NEW w, DOMAIN w = WriterParts, NEW words, NEW sent,
         Speaks(t, words, sent), NEW event, IsSequence(event.text),
         ArgsTold(Aggregate(w.message, event).calls), Begins(words \o Words(event.text), sent)
  PROVE  LET n == GeminiWrite(w, event)
         IN  /\ DOMAIN n = WriterParts /\ IsSequence(n.out)
             /\ n.message = Aggregate(w.message, event)
             /\ Speaks(t \o n.out, words \o Words(event.text), sent)
             /\ \A k \in 1 .. Len(n.out) : Stops(n.out[k]) =>
                  event.finish # None /\ Len(t) + k = Len(t \o n.out)
<1> DEFINE a == [w EXCEPT !.out = <<>>, !.message = Aggregate(@, event)]
           calls == IF event.finish = None \/ a.callsSent THEN <<>> ELSE CallParts(a.message)
           value == event.text \o calls
           p == Packet(IF event.finish = None THEN "chunk" ELSE "last_chunk", 0, value)
           e == Emit(a, p)
           g == [e EXCEPT !.said = @ \o event.text, !.callsSent = @ \/ calls # <<>>]
           n == GeminiWrite(w, event)
<1>1. DOMAIN a = WriterParts /\ a.out = <<>> /\ a.message = Aggregate(w.message, event)
  BY DEF WriterParts, FreshWriter
<1>2. n = IF value = <<>> /\ event.finish = None THEN a ELSE g
  BY DEF GeminiWrite, GeminiMerged, GeminiParts
<1> HIDE DEF a
<1>3. IsSequence(calls) /\ Words(calls) = <<>>
  BY <1>1, Empty, WordsOfNothing, CallPartsWordless
<1> HIDE DEF calls
<1>4. IsSequence(value) /\ Words(value) = Words(event.text)
  <2>1. IsSequence(value) /\ Words(value) = Words(event.text) \o <<>>
    BY <1>3, Concatenated, WordsAside
  <2>2. Words(event.text) \o <<>> = Words(event.text) BY WordsListed, EmptyAside
  <2> QED BY <2>1, <2>2
<1> HIDE DEF value, n
<1>5. IsSequence(words) BY SpokenText
<1>6. CASE value = <<>> /\ event.finish = None
  <2>1. n = a BY <1>2, <1>6
  <2>2. words \o Words(event.text) = words BY <1>4, <1>5, <1>6, WordsOfNothing, EmptyAside
  <2>3. t \o a.out = t /\ IsSequence(a.out) /\ Len(a.out) = 0 BY <1>1, EmptyAside, Empty
  <2>4. \A k \in 1 .. Len(a.out) : FALSE BY <2>3
  <2> QED BY <1>1, <2>1, <2>2, <2>3, <2>4 DEF n
<1>7. CASE ~(value = <<>> /\ event.finish = None)
  <2>1. n = g BY <1>2, <1>7
  <2> DEFINE o == Append(<<>>, p)
  <2>2. DOMAIN e = WriterParts /\ e.out = o /\ e.message = a.message
    BY <1>1 DEF Emit, WriterParts, FreshWriter
  <2> HIDE DEF e
  <2>3. DOMAIN g = WriterParts /\ g.out = o /\ g.message = a.message
    BY <2>2 DEF WriterParts, FreshWriter
  <2> HIDE DEF p
  <2>4. IsSequence(o) /\ Len(o) = 1 /\ o[1] = p
    <3>1. o = <<p>> BY Recorded1
    <3> QED BY <3>1, One
  <2>5. t \o o = Append(t, p) BY Empty, AppendAside, EmptyAside
  <2>6. Read(words, p) = words \o Words(event.text) /\ (Stops(p) => event.finish # None)
    BY <1>4 DEF Read, Packet, Stops, p
  <2> HIDE DEF g, o
  <2>7. Speaks(t \o o, words \o Words(event.text), sent) BY <2>5, <2>6, SpeaksOn
  <2>8. Len(t \o o) = Len(t) + 1
    <3>1. Len(t \o o) = Len(t) + Len(o) BY <2>4, Concatenated
    <3> QED BY <2>4, <3>1
  <2>9. \A k \in 1 .. Len(o) : k = 1 /\ o[k] = p BY <2>4
  <2> QED BY <1>1, <2>1, <2>3, <2>4, <2>6, <2>7, <2>8, <2>9 DEF n
<1> QED BY <1>6, <1>7

-----------------------------------------------------------------------------
(* Packets that change nothing of what is read                              *)

Mute(p) ==
  p.kind # "attempt" /\ (p.kind \in {"delta", "chunk", "last_chunk"} => Words(p.value) = <<>>)

LEMMA MuteRead ==
  ASSUME NEW words, IsSequence(words), NEW p, Mute(p)
  PROVE  Read(words, p) = words
<1>1. words \o <<>> = words BY EmptyAside
<1> QED BY <1>1 DEF Mute, Read

LEMMA MuteSpeaks ==
  ASSUME NEW t, NEW words, NEW sent, Speaks(t, words, sent), NEW o, IsSequence(o),
         \A k \in 1 .. Len(o) : Mute(o[k])
  PROVE  /\ Speaks(t \o o, words, sent)
         /\ \A k \in 0 .. Len(o) : Readings(t \o o)[Len(t) + k] = words
<1> DEFINE c == t \o o
           T == {k \in Nat : Readings(c)[Len(t) + k] = words}
<1>0. IsSequence(t) /\ LastRead(t) = words BY DEF Speaks
<1>1. Len(t) \in Nat /\ Len(o) \in Nat BY <1>0, Bounds
<1>2. /\ IsSequence(c) /\ Len(c) = Len(t) + Len(o)
      /\ \A k \in 1 .. Len(o) : c[Len(t) + k] = o[k]
  BY <1>0, Concatenated
<1>3. \A k \in 0 .. Len(t) : Readings(c)[k] = Readings(t)[k] BY <1>0, ReadingsBefore
<1>4. IsSequence(words) /\ Begins(words, sent) BY SpokenText
<1> HIDE DEF c
<1>5. 0 \in T
  <2>1. Len(t) + 0 = Len(t) /\ Len(t) \in 0 .. Len(t) BY <1>1
  <2> QED BY <1>0, <1>3, <2>1 DEF LastRead
<1>6. ASSUME NEW k \in 1 .. Len(o), k - 1 \in T PROVE k \in T
  <2>1. /\ Len(t) + k \in 1 .. Len(c) /\ (Len(t) + k) - 1 = Len(t) + (k - 1) /\ k \in Nat
        /\ Readings(c)[Len(t) + (k - 1)] = words
    BY <1>1, <1>2, <1>6
  <2>2. Readings(c)[Len(t) + k] = Read(Readings(c)[Len(t) + (k - 1)], o[k])
    BY <1>2, <2>1, ReadingsStep
  <2>3. Mute(o[k]) OBVIOUS
  <2>4. Read(words, o[k]) = words BY <1>4, <2>3, MuteRead
  <2> QED BY <2>1, <2>2, <2>4
<1>7. \A k \in 0 .. Len(o) : Readings(c)[Len(t) + k] = words
  <2>1. \A k \in 0 .. Len(o) : k \in T
    <3> HIDE DEF T
    <3> QED BY <1>1, <1>5, <1>6, Climb
  <2> QED BY <2>1
<1>8. ASSUME NEW k \in 0 .. Len(c) PROVE Begins(Readings(c)[k], sent)
  <2>1. CASE k \in 0 .. Len(t) BY <1>3, <2>1 DEF Speaks
  <2>2. CASE k \notin 0 .. Len(t)
    <3>1. k - Len(t) \in 0 .. Len(o) /\ Len(t) + (k - Len(t)) = k BY <1>1, <1>2, <2>2
    <3>2. Readings(c)[k] = words BY <1>7, <3>1
    <3> QED BY <1>4, <3>2
  <2> QED BY <2>1, <2>2
<1>9. LastRead(c) = words
  <2>1. Len(o) \in 0 .. Len(o) BY <1>1
  <2> QED BY <1>2, <1>7, <2>1 DEF LastRead
<1>10. Speaks(c, words, sent) BY <1>2, <1>8, <1>9 DEF Speaks
<1> QED BY <1>7, <1>10 DEF c

LEMMA SpeaksAtFirst ==
  ASSUME NEW t, IsSequence(t), NEW o, IsSequence(o), NEW words, NEW sent,
         Speaks(t \o o, words, sent)
  PROVE  Speaks(t, LastRead(t), sent)
<1> DEFINE c == t \o o
<1>1. Len(t) \in Nat /\ Len(o) \in Nat /\ Len(c) = Len(t) + Len(o) BY Bounds, Concatenated
<1>2. \A k \in 0 .. Len(t) : Readings(c)[k] = Readings(t)[k] BY ReadingsBefore
<1>3. \A k \in 0 .. Len(c) : Begins(Readings(c)[k], sent) BY DEF Speaks
<1> HIDE DEF c
<1>4. \A k \in 0 .. Len(t) : k \in 0 .. Len(c) BY <1>1
<1>5. \A k \in 0 .. Len(t) : Begins(Readings(t)[k], sent) BY <1>2, <1>3, <1>4
<1> QED BY <1>5 DEF Speaks

LEMMA SpeaksNothing == Speaks(<<>>, <<>>, <<>>)
<1>1. IsSequence(<<>>) /\ Len(<<>>) = 0 BY Empty
<1>2. \A k \in 0 .. 0 : Begins(Readings(<<>>)[k], <<>>) BY <1>1, NothingRead, BeginsSelf
<1> QED BY <1>1, <1>2, NothingRead DEF Speaks

\* What begins nothing is nothing.
LEMMA SpeaksOfNothing ==
  ASSUME NEW s, NEW words, Speaks(s, words, <<>>)
  PROVE  words = <<>>
<1>1. IsSequence(words) /\ Begins(words, <<>>) BY SpokenText
<1>2. Len(words) \in Nat /\ Len(words) <= Len(<<>>) BY <1>1, Bounds DEF Begins
<1>3. Len(words) = 0 BY <1>2, Empty
<1> QED BY <1>1, <1>3, Bounds

\* No packet completes an answer; or where one does, all that was sent was read.
NoStops(s) == \A k \in 1 .. Len(s) : ~Stops(s[k])
Aired(s, sent) == \A k \in 1 .. Len(s) : Stops(s[k]) => Readings(s)[k] = sent

LEMMA NoStopsAside ==
  ASSUME NEW s, IsSequence(s), NoStops(s), NEW t, IsSequence(t), NoStops(t)
  PROVE  NoStops(s \o t)
<1> DEFINE c == s \o t
<1>1. /\ Len(s) \in Nat /\ Len(t) \in Nat /\ Len(c) = Len(s) + Len(t)
      /\ \A k \in 1 .. Len(s) : c[k] = s[k]
      /\ \A k \in 1 .. Len(t) : c[Len(s) + k] = t[k]
  BY Bounds, Concatenated
<1> HIDE DEF c
<1>2. ASSUME NEW k \in 1 .. Len(c) PROVE ~Stops(c[k])
  <2>1. CASE k \in 1 .. Len(s) BY <1>1, <2>1 DEF NoStops
  <2>2. CASE k \notin 1 .. Len(s)
    <3>1. k - Len(s) \in 1 .. Len(t) /\ Len(s) + (k - Len(s)) = k BY <1>1, <2>2
    <3>2. c[k] = t[k - Len(s)] BY <1>1, <3>1
    <3> QED BY <3>1, <3>2 DEF NoStops
  <2> QED BY <2>1, <2>2
<1> QED BY <1>2 DEF NoStops, c

LEMMA AiredAside ==
  ASSUME NEW s, IsSequence(s), NEW sent, Aired(s, sent), NEW t, IsSequence(t),
         \A k \in 1 .. Len(t) : Stops(t[k]) => Readings(s \o t)[Len(s) + k] = sent
  PROVE  Aired(s \o t, sent)
<1> DEFINE c == s \o t
<1>1. /\ Len(s) \in Nat /\ Len(t) \in Nat /\ Len(c) = Len(s) + Len(t)
      /\ \A k \in 1 .. Len(s) : c[k] = s[k]
      /\ \A k \in 1 .. Len(t) : c[Len(s) + k] = t[k]
  BY Bounds, Concatenated
<1>2. \A k \in 0 .. Len(s) : Readings(c)[k] = Readings(s)[k] BY ReadingsBefore
<1>3. \A k \in 1 .. Len(t) : Stops(t[k]) => Readings(c)[Len(s) + k] = sent OBVIOUS
<1> HIDE DEF c
<1>4. ASSUME NEW k \in 1 .. Len(c), Stops(c[k]) PROVE Readings(c)[k] = sent
  <2>1. CASE k \in 1 .. Len(s)
    <3>1. k \in 0 .. Len(s) BY <2>1
    <3> QED BY <1>1, <1>2, <1>4, <2>1, <3>1 DEF Aired
  <2>2. CASE k \notin 1 .. Len(s)
    <3>1. k - Len(s) \in 1 .. Len(t) /\ Len(s) + (k - Len(s)) = k BY <1>1, <2>2
    <3>2. c[k] = t[k - Len(s)] BY <1>1, <3>1
    <3> QED BY <1>3, <1>4, <3>1, <3>2
  <2> QED BY <2>1, <2>2
<1> QED BY <1>4 DEF Aired, c

LEMMA AiredAtFirst ==
  ASSUME NEW s, IsSequence(s), NEW t, IsSequence(t), NEW sent, Aired(s \o t, sent)
  PROVE  Aired(s, sent)
<1> DEFINE c == s \o t
<1>1. /\ Len(s) \in Nat /\ Len(t) \in Nat /\ Len(c) = Len(s) + Len(t)
      /\ \A k \in 1 .. Len(s) : c[k] = s[k]
  BY Bounds, Concatenated
<1>2. \A k \in 0 .. Len(s) : Readings(c)[k] = Readings(s)[k] BY ReadingsBefore
<1>3. \A k \in 1 .. Len(c) : Stops(c[k]) => Readings(c)[k] = sent BY DEF Aired
<1> HIDE DEF c
<1>4. \A k \in 1 .. Len(s) : k \in 1 .. Len(c) /\ k \in 0 .. Len(s) BY <1>1
<1> QED BY <1>1, <1>2, <1>3, <1>4 DEF Aired

\* The packets that end a message: they say nothing, start and fill no block.
EndsMessage(p) == p.kind \in {"block_stop", "message_delta", "message_stop"}

LEMMA EndsMute ==
  ASSUME NEW p, EndsMessage(p)
  PROVE  Mute(p)
BY DEF EndsMessage, Mute

Closing(w) ==
  /\ DOMAIN w = WriterParts /\ IsSequence(w.out) /\ \A k \in 1 .. Len(w.out) : EndsMessage(w.out[k])

LEMMA EmitCloses ==
  ASSUME NEW w, Closing(w), NEW p, EndsMessage(p)
  PROVE  Closing(Emit(w, p)) /\ Emit(w, p).tools = w.tools /\ Emit(w, p).next = w.next
<1> DEFINE e == Emit(w, p)
           o == Append(w.out, p)
<1>1. DOMAIN w = WriterParts /\ IsSequence(w.out) /\ Len(w.out) \in Nat BY Bounds DEF Closing
<1>2. DOMAIN e = WriterParts /\ e.out = o /\ e.tools = w.tools /\ e.next = w.next
  BY <1>1 DEF Emit, WriterParts, FreshWriter
<1> HIDE DEF e
<1>3. /\ IsSequence(o) /\ Len(o) = Len(w.out) + 1 /\ o[Len(w.out) + 1] = p
      /\ \A k \in 1 .. Len(w.out) : o[k] = w.out[k]
  BY <1>1, Appended
<1> HIDE DEF o
<1>4. ASSUME NEW k \in 1 .. Len(o) PROVE EndsMessage(o[k])
  <2>1. k \in 1 .. Len(w.out) \/ k = Len(w.out) + 1 BY <1>1, <1>3
  <2> QED BY <1>3, <2>1 DEF Closing
<1> QED BY <1>2, <1>3, <1>4 DEF Closing, e

LEMMA ClosingEnds ==
  ASSUME NEW w, DOMAIN w = WriterParts, w.next - 1 \in Nat
  PROVE  Closing(AnthropicClose(w))
<1> DEFINE a == [w EXCEPT !.out = <<>>]
           b == CloseText(a)
           c == CloseThinking(b)
           d == CloseTools(c)
<1>1. Closing(a) /\ a.next = w.next
  <2>1. DOMAIN a = WriterParts /\ a.out = <<>> /\ a.next = w.next BY DEF WriterParts, FreshWriter
  <2>2. \A k \in 1 .. 0 : EndsMessage(a.out[k]) OBVIOUS
  <2> HIDE DEF a
  <2> QED BY <2>1, <2>2, Empty DEF Closing
<1> HIDE DEF a
<1>2. Closing(b) /\ b.next = a.next
  <2> DEFINE p == Packet("block_stop", a.text, <<>>)
             e == Emit(a, p)
             f == [e EXCEPT !.text = 0]
  <2>1. CASE a.text = 0 BY <1>1, <2>1 DEF CloseText
  <2>2. CASE a.text # 0
    <3>1. EndsMessage(p) BY DEF EndsMessage, Packet
    <3>2. Closing(e) /\ e.next = a.next BY <1>1, <3>1, EmitCloses
    <3>3. b = f BY <2>2 DEF CloseText
    <3> HIDE DEF e, b
    <3>4. DOMAIN f = WriterParts /\ f.out = e.out /\ f.next = e.next
      BY <3>2 DEF Closing, WriterParts, FreshWriter
    <3> QED BY <3>2, <3>3, <3>4 DEF Closing
  <2> QED BY <2>1, <2>2
<1> HIDE DEF b
<1>3. Closing(c) /\ c.next = b.next
  <2> DEFINE p == Packet("block_stop", b.thinking, <<>>)
             e == Emit(b, p)
             f == [e EXCEPT !.thinking = 0]
  <2>1. CASE b.thinking = 0 BY <1>2, <2>1 DEF CloseThinking
  <2>2. CASE b.thinking # 0
    <3>1. EndsMessage(p) BY DEF EndsMessage, Packet
    <3>2. Closing(e) /\ e.next = b.next BY <1>2, <3>1, EmitCloses
    <3>3. c = f BY <2>2 DEF CloseThinking
    <3> HIDE DEF e, c
    <3>4. DOMAIN f = WriterParts /\ f.out = e.out /\ f.next = e.next
      BY <3>2 DEF Closing, WriterParts, FreshWriter
    <3> QED BY <3>2, <3>3, <3>4 DEF Closing
  <2> QED BY <2>1, <2>2
<1> HIDE DEF c
<1>4. Closing(d)
  <2>1. c.next - 1 \in Nat BY <1>1, <1>2, <1>3
  <2>2. PICK f : /\ f = [k \in 0 .. (c.next - 1) |-> IF k = 0 THEN c ELSE CloseTool(f[k - 1], k)]
                 /\ CloseTools(c) = f[c.next - 1]
    BY <2>1, CloseToolsDefined
  <2> DEFINE n == c.next - 1
             T == {k \in Nat : Closing(f[k])}
  <2>3. f[0] = c /\ \A k \in 1 .. n : f[k] = CloseTool(f[k - 1], k) BY <2>1, <2>2
  <2>4. 0 \in T BY <1>3, <2>3
  <2> HIDE DEF n
  <2>5. ASSUME NEW k \in 1 .. n, k - 1 \in T PROVE k \in T
    <3>1. n \in Nat BY <2>1 DEF n
    <3>2. Closing(f[k - 1]) /\ k \in Nat BY <2>5, <3>1
    <3> DEFINE p == Packet("block_stop", k, <<>>)
    <3>3. f[k] = f[k - 1] \/ f[k] = Emit(f[k - 1], p) BY <2>3 DEF CloseTool
    <3>4. EndsMessage(p) BY DEF EndsMessage, Packet
    <3> HIDE DEF p
    <3> QED BY <3>2, <3>3, <3>4, EmitCloses
  <2>6. n \in T
    <3>1. n \in Nat BY <2>1 DEF n
    <3> HIDE DEF T
    <3>2. \A k \in 0 .. n : k \in T BY <2>4, <2>5, <3>1, Climb
    <3> QED BY <3>1, <3>2
  <2> QED BY <2>2, <2>6 DEF n
<1> HIDE DEF d
<1>5. Closing(EndMessage(d))
  <2> DEFINE stop == IF ToolBlocks(d) # {} /\ d.stop = "end_turn" THEN "tool_use" ELSE d.stop
             p == Packet("message_delta", 0, <<stop>>)
             q == Packet("message_stop", 0, <<>>)
  <2>1. EndMessage(d) = Emit(Emit(d, p), q) BY DEF EndMessage
  <2> HIDE DEF stop
  <2>2. EndsMessage(p) /\ EndsMessage(q) BY DEF EndsMessage, Packet
  <2> HIDE DEF p, q
  <2>3. Closing(Emit(d, p)) BY <1>4, <2>2, EmitCloses
  <2> QED BY <2>1, <2>2, <2>3, EmitCloses
<1> QED BY <1>5 DEF AnthropicClose, a, b, c, d

-----------------------------------------------------------------------------
(* The invariant of the text                                                *)

\* The last chunk did not finish the text.
Unfinished == upstream # <<>> => upstream[Len(upstream)].finish \notin {"stop", "length", "error"}

\* The text is finished, and not by calls.
SpokenOut == ~Unfinished /\ ~choice.seen

\* The queues are sequences, the choice holds texts, and the writer has its fields.
TextParts ==
  /\ IsSequence(client) /\ IsSequence(outbox) /\ IsSequence(upstream) /\ Holds(choice)
  /\ DOMAIN writer = WriterParts /\ Merged(writer.message) /\ writer.out = <<>>
  /\ phase \in {"opening", "waiting"} => upstream = <<>> /\ choice = FreshChoice

\* A streamed answer says no more than was sent; while it is read, what was said and
\* what is held back is all that was sent, and no packet has completed it.
TextStreamed ==
  /\ Speaks(Yielded, LastRead(Yielded), Sent(upstream))
  /\ phase \in {"first", "reading"} =>
       /\ LastRead(Yielded) \o Words(choice.held) = Sent(upstream)
       /\ Words(choice.pending) = <<>> /\ Unfinished
  /\ phase \in {"first", "reading"} \/ (phase = "read" /\ Anthropic) => NoStops(Yielded)
  /\ Anthropic /\ phase \in {"first", "reading", "read"} /\ ~writer.meant =>
       Speaks(Yielded, <<>>, <<>>)
  /\ SpokenOut =>
       /\ phase = "read" => LastRead(Yielded) = Sent(upstream)
       /\ Aired(Yielded, Sent(upstream))

\* The same of an answer that is collected
TextCollected ==
  /\ outbox = <<>> /\ (phase # "ended" => client = <<>>) /\ NoStops(client)
  /\ Begins(Words(writer.message.text), Sent(upstream))
  /\ phase = "collecting" =>
       /\ Words(writer.message.text) \o Words(choice.held) = Sent(upstream)
       /\ Words(choice.pending) = <<>> /\ Unfinished
  /\ phase = "collected" /\ SpokenOut => Words(writer.message.text) = Sent(upstream)

TextInvariant == TextParts /\ IF request.stream THEN TextStreamed ELSE TextCollected

LEMMA YieldedMore ==
  ASSUME IsSequence(client), IsSequence(outbox), NEW o, IsSequence(o),
         client' = client, outbox' = outbox \o o
  PROVE  Yielded' = Yielded \o o /\ IsSequence(outbox') /\ IsSequence(Yielded)
<1>1. (client \o outbox) \o o = client \o (outbox \o o) BY Associative
<1>2. IsSequence(client \o outbox) /\ IsSequence(outbox \o o) BY Concatenated
<1> QED BY <1>1, <1>2 DEF Yielded

LEMMA MuteOne ==
  ASSUME NEW p, Mute(p)
  PROVE  IsSequence(<<p>>) /\ \A k \in 1 .. Len(<<p>>) : Mute(<<p>>[k])
<1>1. IsSequence(<<p>>) /\ Len(<<p>>) = 1 /\ <<p>>[1] = p BY One
<1> QED BY <1>1

LEMMA MuteAppended ==
  ASSUME NEW t, NEW words, NEW sent, Speaks(t, words, sent), NEW p, Mute(p)
  PROVE  Speaks(Append(t, p), words, sent)
<1>1. IsSequence(words) BY SpokenText
<1>2. Read(words, p) = words BY <1>1, MuteRead
<1>3. Begins(Read(words, p), sent) BY <1>2, SpokenText
<1>4. Speaks(Append(t, p), Read(words, p), sent) BY <1>3, SpeaksOn
<1> QED BY <1>2, <1>4

LEMMA StopsAppended ==
  ASSUME NEW t, IsSequence(t), NEW p, ~Stops(p)
  PROVE  /\ NoStops(t) => NoStops(Append(t, p))
         /\ \A sent : Aired(t, sent) => Aired(Append(t, p), sent)
<1>1. Append(t, p) = t \o <<p>>
  <2>1. <<p>> = Append(<<>>, p) BY Recorded1
  <2>2. t \o Append(<<>>, p) = Append(t \o <<>>, p) BY Empty, AppendAside
  <2> QED BY <2>1, <2>2, EmptyAside
<1>2. IsSequence(<<p>>) /\ Len(<<p>>) = 1 /\ <<p>>[1] = p BY One
<1> DEFINE o == <<p>>
<1>3. IsSequence(o) /\ \A k \in 1 .. Len(o) : ~Stops(o[k]) BY <1>2
<1>4. Append(t, p) = t \o o BY <1>1
<1> HIDE DEF o
<1>5. NoStops(t) => NoStops(t \o o) BY <1>3, NoStopsAside DEF NoStops
<1>6. \A sent : Aired(t, sent) => Aired(t \o o, sent) BY <1>3, AiredAside
<1> QED BY <1>4, <1>5, <1>6

LEMMA FreshText ==
  /\ DOMAIN FreshWriter = WriterParts /\ Merged(FreshWriter.message) /\ FreshWriter.out = <<>>
  /\ FreshWriter.message.text = <<>>
  /\ Holds(FreshChoice) /\ Words(FreshChoice.held) = <<>> /\ Words(FreshChoice.pending) = <<>>
<1>1. FreshWriter.message = EmptyMessage /\ EmptyMessage.text = <<>>
  BY DEF FreshWriter, EmptyMessage
<1>2. FreshChoice.held = <<>> /\ FreshChoice.pending = <<>> BY DEF FreshChoice
<1>3. Holds(FreshChoice) BY <1>2, Empty DEF Holds, ChoiceParts
<1>4. FreshWriter.out = <<>> BY DEF FreshWriter
<1> QED BY <1>1, <1>2, <1>3, <1>4, MergedNothing, WordsOfNothing DEF WriterParts

\* An answer in its last phases: what it yields is all that is to be known.
LEMMA TextLeft ==
  ASSUME request.stream, request' = request,
         phase' \notin {"opening", "waiting", "first", "reading", "read"},
         upstream' = upstream, choice' = choice,
         IsSequence(upstream), Holds(choice), IsSequence(client'), IsSequence(outbox'),
         DOMAIN writer' = WriterParts, Merged(writer'.message), writer'.out = <<>>,
         Speaks(Yielded', LastRead(Yielded'), Sent(upstream)),
         SpokenOut => Aired(Yielded', Sent(upstream))
  PROVE  TextInvariant'
<1>1. TextParts' BY DEF TextParts
<1>2. SpokenOut' = SpokenOut BY DEF SpokenOut, Unfinished
<1>3. TextStreamed' BY <1>2 DEF TextStreamed
<1> QED BY <1>1, <1>3 DEF TextInvariant

LEMMA WholeMute ==
  IsSequence(WholePackets) /\ \A k \in 1 .. Len(WholePackets) : Mute(WholePackets[k])
<1>0. Words(<<"whole">>) = <<>> BY SpecialTokens, WordlessOne
<1>1. CASE Anthropic
  <2> DEFINE s == WholePackets
             a == Packet("message_start", 0, <<>>)
             b == Packet("block_start", 1, <<"text">>)
             c == Packet("delta", 1, <<"whole">>)
             d == Packet("block_stop", 1, <<>>)
             e == Packet("message_delta", 0, <<"end_turn">>)
             f == Packet("message_stop", 0, <<>>)
  <2>1. s = <<a, b, c, d, e, f>> BY <1>1 DEF WholePackets
  <2>2. Mute(a) /\ Mute(b) /\ Mute(d) /\ Mute(e) /\ Mute(f) BY DEF Mute, Packet
  <2>3. Mute(c) BY <1>0 DEF Mute, Packet
  <2> HIDE DEF s, a, b, c, d, e, f
  <2>4. s \in Seq({a, b, c, d, e, f}) BY <2>1
  <2>5. \A p \in {a, b, c, d, e, f} : Mute(p) BY <2>2, <2>3
  <2>6. IsSequence(s) BY <2>4, OfSet
  <2>7. \A k \in 1 .. Len(s) : s[k] \in {a, b, c, d, e, f} BY <2>4
  <2>8. \A k \in 1 .. Len(s) : Mute(s[k]) BY <2>5, <2>7
  <2> QED BY <2>6, <2>8 DEF s
<1>2. CASE ~Anthropic
  <2> DEFINE p == Packet("chunk", 0, <<"whole">>)
  <2>1. WholePackets = <<p>> BY <1>2 DEF WholePackets
  <2>2. Mute(p) BY <1>0 DEF Mute, Packet
  <2> HIDE DEF p
  <2> QED BY <2>1, <2>2, MuteOne
<1> QED BY <1>1, <1>2

LEMMA ErrorMute ==
  /\ Mute(ErrorPacket) /\ ~Stops(ErrorPacket)
  /\ Mute(Packet("chunk", 0, <<>>)) /\ ~Stops(Packet("chunk", 0, <<>>))
  /\ Mute(Packet("attempt", 0, <<>>)) = FALSE /\ ~Stops(Packet("attempt", 0, <<>>))
BY WordsOfNothing DEF Mute, Stops, ErrorPacket, Packet

\* An answer that has arrived is handed on, after the packets "before".
LEMMA TextHanded ==
  ASSUME request.stream, IsSequence(client), NEW kind \in Kinds, NEW before, IsSequence(before),
         Handles(kind, before), request' = request, client' = client,
         Speaks(client \o before, <<>>, <<>>), NoStops(client \o before),
         ~Anthropic => before = <<>> /\ outbox = <<>>
  PROVE  TextInvariant'
<1> DEFINE t == client \o before
<1>1. /\ upstream' = <<>> /\ choice' = FreshChoice
      /\ writer' = [FreshWriter EXCEPT !.refused = kind = "error", !.unread = kind = "unread",
                                      !.said = IF kind = "whole" THEN <<"whole">> ELSE <<>>]
  BY DEF Handles, NewAnswer
<1>2. DOMAIN writer' = WriterParts /\ writer'.message = FreshWriter.message /\ writer'.out = <<>>
  BY <1>1 DEF FreshWriter, WriterParts
<1>3. Sent(upstream') = <<>> /\ IsSequence(upstream') BY <1>1, SentNothing, Empty
<1>4. Unfinished' /\ ~SpokenOut' BY <1>1 DEF Unfinished, SpokenOut
<1>5. IsSequence(t) /\ Speaks(t, <<>>, <<>>) /\ LastRead(t) = <<>> BY DEF Speaks
<1>6. \/ /\ phase' \in {"first", "reading"} /\ Yielded' = t /\ IsSequence(outbox')
      \/ /\ phase' \in {"replaying", "closing", "ended"} /\ IsSequence(outbox')
         /\ Speaks(Yielded', <<>>, <<>>)
  <2> DEFINE o == Packet("chunk", 0, <<>>)
  <2>0. Speaks(client, <<>>, <<>>)
    <3>1. Speaks(client, LastRead(client), <<>>) BY <1>5, SpeaksAtFirst
    <3>2. Begins(LastRead(client), <<>>) BY <3>1, SpokenText
    <3>3. IsSequence(LastRead(client)) /\ Len(LastRead(client)) = 0
      <4>1. Len(LastRead(client)) \in Nat /\ Len(LastRead(client)) <= 0
        BY <3>2, Bounds, Empty DEF Begins
      <4> QED BY <3>2, <4>1 DEF Begins
    <3>4. LastRead(client) = <<>>
      <4>1. \A k \in 1 .. Len(LastRead(client)) : LastRead(client)[k] = <<>>[k] BY <3>3
      <4> QED BY <3>3, <4>1, Empty, SameElements
    <3> QED BY <3>1, <3>4
  <2>1. CASE Anthropic
    <3>1. AnthropicHandles(kind, before) BY <2>1 DEF Handles
    <3>2. \/ phase' = "first" /\ outbox' = before
          \/ phase' = "replaying" /\ outbox' = before \o WholePackets
          \/ phase' = "replaying" /\ outbox' = Append(before, ErrorPacket)
          \/ phase' = "ended" /\ outbox' = <<>>
      BY <3>1 DEF AnthropicHandles
    <3>3. CASE outbox' = before \o WholePackets
      <4>0. /\ (client \o before) \o WholePackets = client \o (before \o WholePackets)
            /\ IsSequence(before \o WholePackets)
        <5> DEFINE w == WholePackets
        <5>1. IsSequence(w) BY WholeMute
        <5> HIDE DEF w
        <5>2. (client \o before) \o w = client \o (before \o w) BY <5>1, Associative
        <5>3. IsSequence(before \o w) BY <5>1, Concatenated
        <5> QED BY <5>2, <5>3 DEF w
      <4>1. Yielded' = t \o WholePackets /\ IsSequence(outbox')
        BY <3>3, <4>0 DEF Yielded
      <4>2. Speaks(t \o WholePackets, <<>>, <<>>) BY <1>5, WholeMute, MuteSpeaks
      <4> QED BY <3>2, <3>3, <4>1, <4>2 DEF Yielded
    <3>4. CASE outbox' = Append(before, ErrorPacket)
      <4>1. Yielded' = Append(t, ErrorPacket) /\ IsSequence(outbox')
        BY <3>4, AppendAside, Appended DEF Yielded
      <4>2. Speaks(Append(t, ErrorPacket), <<>>, <<>>) BY <1>5, ErrorMute, MuteAppended
      <4> QED BY <3>2, <4>1, <4>2 DEF Yielded
    <3>5. CASE phase' = "ended" /\ outbox' = <<>>
      <4>1. Yielded' = client /\ IsSequence(outbox') BY <3>5, Empty, EmptyAside DEF Yielded
      <4> QED BY <2>0, <3>5, <4>1
    <3> QED BY <3>2, <3>3, <3>4, <3>5 DEF Yielded
  <2>2. CASE ~Anthropic
    <3>1. GeminiHandles(kind) BY <2>2 DEF Handles
    <3>2. \/ phase' = "reading" /\ outbox' = before
          \/ phase' = "closing" /\ outbox' = WholePackets
          \/ phase' = "closing" /\ outbox' = <<o>>
          \/ phase' = "ended" /\ outbox' = <<>>
      BY <2>2, <3>1 DEF GeminiHandles
    <3>3. before = <<>> /\ t = client BY <2>2, EmptyAside
    <3>4. CASE outbox' = WholePackets
      <4>1. Speaks(t \o WholePackets, <<>>, <<>>) BY <1>5, WholeMute, MuteSpeaks
      <4> QED BY <3>2, <3>3, <3>4, <4>1, WholeMute DEF Yielded
    <3>5. CASE outbox' = <<o>>
      <4>1. Mute(o) BY ErrorMute
      <4> HIDE DEF o
      <4>2. IsSequence(<<o>>) /\ \A k \in 1 .. Len(<<o>>) : Mute(<<o>>[k]) BY <4>1, MuteOne
      <4>3. Speaks(t \o <<o>>, <<>>, <<>>) BY <1>5, <4>2, MuteSpeaks
      <4> QED BY <3>2, <3>3, <3>5, <4>2, <4>3 DEF Yielded
    <3>6. CASE phase' = "ended" /\ outbox' = <<>>
      <4>1. Yielded' = client /\ IsSequence(outbox') BY <3>6, Empty, EmptyAside DEF Yielded
      <4> QED BY <2>0, <3>6, <4>1
    <3> QED BY <3>2, <3>3, <3>4, <3>5, <3>6 DEF Yielded
  <2> QED BY <2>1, <2>2
<1>7. /\ Speaks(Yielded', <<>>, <<>>) /\ LastRead(Yielded') = <<>> /\ IsSequence(outbox')
      /\ phase' \in {"first", "reading", "replaying", "closing", "ended"}
      /\ phase' \in {"first", "reading"} => NoStops(Yielded')
  BY <1>5, <1>6 DEF Speaks
<1>8. TextParts' BY <1>1, <1>2, <1>3, <1>7, FreshText DEF TextParts
<1>9. TextStreamed'
  <2>1. <<>> \o Words(choice'.held) = <<>> BY <1>1, FreshText, Empty, EmptyAside
  <2> QED BY <1>1, <1>3, <1>4, <1>7, <2>1, FreshText DEF TextStreamed
<1> QED BY <1>8, <1>9 DEF TextInvariant

LEMMA TextOpening ==
  ASSUME StreamInvariant, TextInvariant, NEW kind \in Kinds,
         OpenedInTime(kind) \/ WaitingIsOver(kind)
  PROVE  TextInvariant'
<1>1. /\ phase \in {"opening", "waiting"} /\ request' = request
  BY DEF OpenedInTime, WaitingIsOver
<1>2. request.stream BY <1>1 DEF OpenedInTime, StreamInvariant, PhaseKnown, WaitingIsOver
<1>3. client = <<>> /\ outbox = <<>> /\ IsSequence(client) BY <1>1, NothingYielded
<1>4. /\ upstream = <<>> /\ IsSequence(upstream) /\ Holds(choice) /\ DOMAIN writer = WriterParts
      /\ Merged(writer.message) /\ writer.out = <<>>
  BY <1>1 DEF TextInvariant, TextParts
<1>5. ASSUME NEW next \in Kinds, Handles(next, <<>>), client' = client PROVE TextInvariant'
  <2>1. client \o <<>> = <<>> /\ IsSequence(<<>>) BY <1>3, Empty, EmptyAside
  <2>2. NoStops(<<>>) BY Empty DEF NoStops
  <2> QED BY <1>1, <1>2, <1>3, <1>5, <2>1, <2>2, SpeaksNothing, TextHanded
<1>6. ASSUME \/ client' = <<ErrorPacket>> /\ outbox' = <<>>
             \/ client' = <<>> /\ outbox' = <<ErrorPacket>>,
             phase' \in {"failing", "ended"}, SameAnswer
      PROVE  TextInvariant'
  <2> DEFINE o == <<ErrorPacket>>
  <2>1. IsSequence(o) /\ \A k \in 1 .. Len(o) : Mute(o[k]) BY MuteOne, ErrorMute
  <2>2. /\ (client' = o /\ outbox' = <<>>) \/ (client' = <<>> /\ outbox' = o)
        /\ upstream' = upstream /\ choice' = choice /\ writer' = writer
    BY <1>6 DEF SameAnswer
  <2> HIDE DEF o
  <2>3. Yielded' = o BY <2>1, <2>2, EmptyAside DEF Yielded
  <2>4. Speaks(<<>> \o o, <<>>, <<>>) BY <2>1, SpeaksNothing, MuteSpeaks
  <2>5. Speaks(o, <<>>, <<>>) /\ LastRead(o) = <<>> BY <2>1, <2>4, EmptyAside DEF Speaks
  <2>6. Sent(upstream) = <<>> /\ ~SpokenOut BY <1>4, SentNothing DEF SpokenOut, Unfinished
  <2>7. IsSequence(client') /\ IsSequence(outbox') BY <2>1, <2>2, Empty
  <2> QED BY <1>1, <1>2, <1>4, <1>6, <2>2, <2>3, <2>5, <2>6, <2>7, TextLeft
<1>7. CASE OpenedInTime(kind)
  <2>1. CASE kind \in {"error", "none"}
    <3>1. FailOpening BY <1>7, <2>1 DEF OpenedInTime
    <3> QED BY <1>3, <1>6, <3>1 DEF FailOpening
  <2>2. CASE kind \notin {"error", "none"}
    <3>1. Handles(kind, <<>>) /\ client' = client BY <1>7, <2>2 DEF OpenedInTime
    <3> QED BY <1>5, <3>1
  <2> QED BY <2>1, <2>2
<1>8. CASE WaitingIsOver(kind)
  <2>1. client' = client BY <1>8 DEF WaitingIsOver
  <2>2. CASE FailWaiting BY <1>3, <1>6, <2>1, <2>2 DEF FailWaiting
  <2>3. ASSUME NEW next \in Kinds, Delegate(next) PROVE TextInvariant'
    BY <1>5, <2>1, <2>3 DEF Delegate
  <2> QED BY <1>8, <2>2, <2>3 DEF WaitingIsOver
<1> QED BY <1>7, <1>8

LEMMA TextWaiting ==
  ASSUME TextInvariant, GraceElapses
  PROVE  TextInvariant'
<1>1. /\ phase = "opening" /\ request.stream /\ phase' = "waiting" /\ request' = request
      /\ upstream' = upstream /\ choice' = choice /\ writer' = writer
      /\ outbox' = outbox /\ client' = client
  BY DEF GraceElapses, SameAnswer
<1>2. TextParts' BY <1>1 DEF TextInvariant, TextParts
<1>3. TextStreamed'
  BY <1>1 DEF TextInvariant, TextStreamed, Yielded, SpokenOut, Unfinished
<1> QED BY <1>1, <1>2, <1>3 DEF TextInvariant

\* A chunk is heard: what its event says follows what was said, as the words of the chunk
\* follow those that upstream sent.
LEMMA ChunkHeard ==
  ASSUME TextInvariant, request.stream, phase \in {"first", "reading"}, NEW chunk \in Chunks,
         Fits(NormalizeChoice(choice, chunk).event)
  PROVE  LET one == NormalizeChoice(choice, chunk)
             event == one.event
             more == Sent(Append(upstream, chunk))
         IN  /\ Says(event) /\ Holds(one.choice) /\ Argued(event.calls)
             /\ Words(event.reason) = <<>>
             /\ \A k \in 1 .. Len(event.calls) : event.calls[k].index \in ToolIndexes
             /\ Merged(Aggregate(writer.message, event))
             /\ Begins(LastRead(Yielded) \o Words(event.text), more)
             /\ Speaks(Yielded, LastRead(Yielded), more)
             /\ Yielded = client \o outbox /\ IsSequence(Yielded)
<1> DEFINE one == NormalizeChoice(choice, chunk)
           event == one.event
           said == LastRead(Yielded)
           sent == Sent(upstream)
           more == Sent(Append(upstream, chunk))
           heard == Words(choice.held) \o Words(chunk.text)
<1>1. /\ IsSequence(client) /\ IsSequence(outbox) /\ IsSequence(upstream) /\ Holds(choice)
      /\ Merged(writer.message)
      /\ Speaks(Yielded, said, sent) /\ said \o Words(choice.held) = sent
      /\ Words(choice.pending) = <<>>
  BY DEF TextInvariant, TextParts, TextStreamed
<1>2. Cleaned(one) BY <1>1, ChoiceNormalized
<1>3. Says(event) /\ Holds(one.choice) /\ IsSequence(event.text) BY <1>2 DEF Cleaned, Says
<1>4. event.reason = chunk.reason /\ Argued(event.calls) BY <1>1, NormalizedEvent
<1>5. Begins(Words(event.text), heard) BY <1>1, NormalizedWords
<1>6. IsSequence(chunk.text) /\ IsSequence(chunk.reason) BY StreamAssumption
<1>7. Words(event.reason) = <<>>
  <2>1. \A k \in 1 .. Len(chunk.reason) : chunk.reason[k] \notin AllWords
    <3> TAKE k \in 1 .. Len(chunk.reason)
    <3>1. DOMAIN chunk.reason = 1 .. Len(chunk.reason) BY <1>6, Bounds
    <3>2. chunk.reason[k] \in Range(chunk.reason) BY <3>1 DEF Range
    <3> DEFINE U == UNION {Range(c.text) : c \in Chunks}
               V == UNION {Range(c.reason) : c \in Chunks}
    <3>3. AllWords = U \ (Special \cup V) BY DEF AllWords
    <3>4. chunk.reason[k] \in V BY <3>2
    <3> HIDE DEF U, V
    <3> QED BY <3>3, <3>4
  <2>2. Words(chunk.reason) = <<>> BY <1>6, <2>1, Wordless
  <2> QED BY <1>4, <2>2
<1>8. \A k \in 1 .. Len(event.calls) : event.calls[k].index \in ToolIndexes
  <2>1. IsSequence(event.calls) BY <1>3 DEF Says
  <2>2. DOMAIN event.calls = 1 .. Len(event.calls) BY <2>1, Bounds
  <2> QED BY <2>2 DEF Fits
<1>9. Merged(Aggregate(writer.message, event)) BY <1>1, <1>3, <1>4, <1>8, Aggregated
<1>10. /\ IsSequence(said) /\ IsSequence(sent)
       /\ IsSequence(Words(choice.held)) /\ IsSequence(Words(chunk.text))
       /\ IsSequence(Words(event.text)) /\ IsSequence(heard)
  BY <1>1, <1>3, <1>5, <1>6, SpokenText, WordsListed DEF Begins, Holds
<1>11. more = sent \o Words(chunk.text) BY <1>1, SentMore
<1>12. more = said \o heard
  <2>1. (said \o Words(choice.held)) \o Words(chunk.text) = said \o heard BY <1>10, Associative
  <2> QED BY <1>1, <1>11, <2>1
<1>13. Begins(said \o Words(event.text), more) BY <1>5, <1>10, <1>12, BeginsAside
<1>14. Speaks(Yielded, said, more)
  <2> HIDE DEF more, sent
  <2> QED BY <1>1, <1>10, <1>11, SpeaksLess
<1>15. Yielded = client \o outbox /\ IsSequence(Yielded) BY <1>1, Concatenated DEF Yielded
<1> QED BY <1>3, <1>4, <1>7, <1>8, <1>9, <1>13, <1>14, <1>15

LEMMA TextChunk ==
  ASSUME StreamInvariant, TextInvariant, NEW chunk \in Chunks, ReadChunk(chunk)
  PROVE  TextInvariant'
<1> DEFINE one == NormalizeChoice(choice, chunk)
           event == one.event
           next == IF Kept(event) THEN Written(event) ELSE writer
           o == next.out
           said == LastRead(Yielded)
           sent == Sent(upstream)
           more == Sent(Append(upstream, chunk))
<1>1. /\ phase \in {"first", "reading"}
      /\ upstream' = Append(upstream, chunk) /\ Fits(event) /\ choice' = one.choice
      /\ phase' = (IF event.finish # None THEN "read" ELSE "reading")
      /\ writer' = [next EXCEPT !.out = <<>>] /\ outbox' = outbox \o o
      /\ request' = request /\ client' = client
  BY DEF ReadChunk, Reading
<1>2. request.stream BY <1>1, ReadingKnown
<1>3. /\ IsSequence(client) /\ IsSequence(outbox) /\ IsSequence(upstream) /\ Holds(choice)
      /\ DOMAIN writer = WriterParts /\ Merged(writer.message) /\ writer.out = <<>>
      /\ Speaks(Yielded, said, sent) /\ said \o Words(choice.held) = sent
      /\ Words(choice.pending) = <<>> /\ NoStops(Yielded)
      /\ Anthropic /\ ~writer.meant => Speaks(Yielded, <<>>, <<>>)
  BY <1>1, <1>2 DEF TextInvariant, TextParts, TextStreamed
<1>4. /\ Says(event) /\ Holds(one.choice) /\ Argued(event.calls) /\ Words(event.reason) = <<>>
      /\ \A k \in 1 .. Len(event.calls) : event.calls[k].index \in ToolIndexes
      /\ Merged(Aggregate(writer.message, event))
      /\ Begins(said \o Words(event.text), more) /\ Speaks(Yielded, said, more)
      /\ Yielded = client \o outbox /\ IsSequence(Yielded)
  BY <1>1, <1>2, ChunkHeard
<1>5. Says(event) /\ Holds(choice') /\ IsSequence(event.text) BY <1>1, <1>4 DEF Says
<1>6. Argued(event.calls) BY <1>4
<1> DEFINE heard == Words(choice.held) \o Words(chunk.text)
<1>7. /\ Begins(Words(event.text), heard)
      /\ event.finish = None =>
           /\ Words(event.text) \o Words(choice'.held) = heard
           /\ Words(choice'.pending) = <<>> /\ chunk.finish = None
      /\ chunk.finish \in {"stop", "length", "error"} /\ ~choice'.seen =>
           Words(event.text) = heard /\ event.finish # None
  <2>1. choice' = one.choice BY <1>1
  <2> QED BY <1>3, <2>1, NormalizedWords
<1>8. IsSequence(chunk.text) BY StreamAssumption
<1>9. Words(event.reason) = <<>> BY <1>4
<1>10. Merged(Aggregate(writer.message, event)) BY <1>4
<1>12. /\ IsSequence(said) /\ IsSequence(sent)
       /\ IsSequence(Words(choice.held)) /\ IsSequence(Words(chunk.text))
       /\ IsSequence(Words(event.text)) /\ IsSequence(heard)
  BY <1>3, <1>5, <1>7, <1>8, SpokenText, WordsListed DEF Begins, Holds
<1>13. more = said \o heard /\ IsSequence(more)
  <2>1. more = sent \o Words(chunk.text) BY <1>3, SentMore
  <2>2. (said \o Words(choice.held)) \o Words(chunk.text) = said \o heard BY <1>12, Associative
  <2> QED BY <1>3, <1>12, <2>1, <2>2, Concatenated
<1>14. Begins(said \o Words(event.text), more) BY <1>4
<1>15. Speaks(Yielded, said, more) BY <1>4
<1>16. Yielded = client \o outbox /\ IsSequence(Yielded) BY <1>4
<1> HIDE DEF one, event, heard, said, sent, more
<1>17. /\ DOMAIN next = WriterParts /\ IsSequence(o) /\ Merged(next.message)
       /\ Speaks(Yielded \o o, said \o Words(event.text), more)
       /\ Anthropic \/ event.finish = None => NoStops(Yielded \o o)
       /\ \A k \in 1 .. Len(o) : Stops(o[k]) =>
            event.finish # None /\ Len(Yielded) + k = Len(Yielded \o o)
       /\ Anthropic /\ ~next.meant => Speaks(Yielded \o o, <<>>, <<>>)
  <2>1. CASE Kept(event) /\ Anthropic
    <3> DEFINE n == AnthropicWrite(writer, event, Thinking)
    <3>1. next = n BY <2>1 DEF Written
    <3>2. /\ IsSequence(event.text) /\ IsSequence(event.calls) /\ Words(event.reason) = <<>>
          /\ \A k \in 1 .. Len(event.calls) : event.calls[k].args \in Args
      BY <1>5, <1>6, <1>9 DEF Argued
    <3>3. /\ DOMAIN n = WriterParts /\ IsSequence(n.out)
          /\ \A k \in 1 .. Len(n.out) : ~Stops(n.out[k])
          /\ n.message = Aggregate(writer.message, event)
          /\ Speaks(Yielded \o n.out, said \o Words(event.text), more)
          /\ (writer.started => writer.meant) /\ ~n.meant =>
                ~writer.meant /\ ~Means(event, Thinking)
      BY <1>3, <1>14, <1>15, <1>16, <3>2, EventUttered
    <3>4. ~n.meant => Speaks(Yielded \o n.out, <<>>, <<>>)
      <4> SUFFICES ASSUME ~n.meant PROVE Speaks(Yielded \o n.out, <<>>, <<>>) OBVIOUS
      <4>1. writer.started => writer.meant
        <5>1. Watched BY <1>2, <2>1 DEF Watched
        <5>2. Matches(writer, SeenAfter(Yielded), 2 * Len(upstream)) BY <1>1, <5>1, ReadingKnown
        <5> QED BY <5>2 DEF Matches
      <4>2. ~writer.meant /\ ~Means(event, Thinking) BY <3>3, <4>1
      <4>3. event.text = <<>> BY <1>5, <4>2 DEF Means, Says
      <4>4. Words(event.text) = <<>> /\ <<>> \o <<>> = <<>>
        BY <4>3, WordsOfNothing, Empty, EmptyAside
      <4>5. Speaks(Yielded, <<>>, <<>>) BY <1>3, <2>1, <4>2
      <4>6. Begins(<<>> \o Words(event.text), <<>>) BY <4>4, Empty, BeginsSelf
      <4> DEFINE nothing == <<>>
      <4>7. Speaks(Yielded, nothing, nothing) /\ Begins(nothing \o Words(event.text), nothing)
        BY <4>5, <4>6
      <4>8. nothing \o Words(event.text) = nothing BY <4>4
      <4> HIDE DEF nothing, n
      <4>9. Speaks(Yielded \o n.out, nothing \o Words(event.text), nothing)
        BY <1>3, <1>16, <3>2, <4>7, EventUttered DEF n
      <4> QED BY <4>8, <4>9 DEF nothing
    <3> HIDE DEF n
    <3>5. NoStops(n.out) BY <3>3 DEF NoStops
    <3>6. NoStops(Yielded \o n.out) BY <1>3, <1>16, <3>3, <3>5, NoStopsAside
    <3> HIDE DEF next
    <3> QED BY <1>10, <3>1, <3>3, <3>4, <3>6
  <2>2. CASE Kept(event) /\ ~Anthropic
    <3> DEFINE n == GeminiWrite(writer, event)
    <3>1. next = n BY <2>2 DEF Written
    <3>2. ArgsTold(Aggregate(writer.message, event).calls) BY <1>10 DEF Merged
    <3>3. /\ DOMAIN n = WriterParts /\ IsSequence(n.out)
          /\ n.message = Aggregate(writer.message, event)
          /\ Speaks(Yielded \o n.out, said \o Words(event.text), more)
          /\ \A k \in 1 .. Len(n.out) : Stops(n.out[k]) =>
               event.finish # None /\ Len(Yielded) + k = Len(Yielded \o n.out)
      <4>1. DOMAIN writer = WriterParts BY <1>3
      <4>2. IsSequence(Yielded) BY <1>16
      <4>3. IsSequence(event.text) BY <1>5
      <4> HIDE DEF n
      <4> QED BY <1>14, <1>15, <3>2, <4>1, <4>2, <4>3, EventTold DEF n
    <3> HIDE DEF n
    <3>4. event.finish = None => NoStops(n.out) BY <3>3 DEF NoStops
    <3>5. event.finish = None => NoStops(Yielded \o n.out)
      BY <1>3, <1>16, <3>3, <3>4, NoStopsAside
    <3> HIDE DEF next
    <3> QED BY <1>10, <2>2, <3>1, <3>3, <3>5
  <2>3. CASE ~Kept(event)
    <3>1. next = writer /\ o = <<>> /\ Yielded \o <<>> = Yielded BY <1>3, <1>16, <2>3, EmptyAside
    <3>2. event.text = <<>> BY <2>3 DEF Kept
    <3>3. said \o Words(event.text) = said BY <1>12, <3>2, WordsOfNothing, EmptyAside
    <3>4. IsSequence(o) /\ Len(o) = 0 BY <3>1, Empty
    <3>5. Yielded \o o = Yielded BY <3>1
    <3>6. next.message = writer.message /\ DOMAIN next = WriterParts BY <1>3, <3>1
    <3>7. next.meant = writer.meant BY <3>1
    <3> HIDE DEF next
    <3> QED BY <1>3, <1>15, <3>3, <3>4, <3>5, <3>6, <3>7
  <2> QED BY <2>1, <2>2, <2>3
<1>18. /\ DOMAIN writer' = WriterParts /\ writer'.out = <<>> /\ writer'.message = next.message
       /\ writer'.meant = next.meant
  <2>1. DOMAIN next = WriterParts /\ writer' = [next EXCEPT !.out = <<>>] BY <1>1, <1>17
  <2> HIDE DEF next
  <2> QED BY <2>1 DEF WriterParts, FreshWriter
<1> HIDE DEF next, o
<1>19. Yielded' = Yielded \o o /\ IsSequence(outbox') BY <1>1, <1>3, <1>17, YieldedMore
<1>20. LastRead(Yielded') = said \o Words(event.text) BY <1>17, <1>19 DEF Speaks
<1>21. Sent(upstream') = more BY <1>1 DEF more
<1>22. /\ IsSequence(upstream') /\ upstream' # <<>> /\ upstream'[Len(upstream')] = chunk
  <2>1. /\ IsSequence(upstream') /\ Len(upstream') = Len(upstream) + 1
        /\ upstream'[Len(upstream) + 1] = chunk
    BY <1>1, <1>3, Appended
  <2>2. Len(upstream) \in Nat BY <1>3, Bounds
  <2>3. Len(upstream') # 0 BY <2>1, <2>2
  <2> QED BY <2>1, <2>3, Bounds
<1>23. TextParts'
  BY <1>1, <1>3, <1>5, <1>17, <1>18, <1>19, <1>22 DEF TextParts
<1>24. event.finish = None =>
         /\ LastRead(Yielded') \o Words(choice'.held) = Sent(upstream')
         /\ Words(choice'.pending) = <<>> /\ Unfinished'
  <2> SUFFICES ASSUME event.finish = None
               PROVE  /\ LastRead(Yielded') \o Words(choice'.held) = Sent(upstream')
                      /\ Words(choice'.pending) = <<>> /\ Unfinished'
    OBVIOUS
  <2>1. /\ Words(event.text) \o Words(choice'.held) = heard
        /\ Words(choice'.pending) = <<>> /\ chunk.finish = None
    BY <1>7
  <2>2. IsSequence(Words(choice'.held)) BY <1>5, WordsListed DEF Holds
  <2>3. (said \o Words(event.text)) \o Words(choice'.held) = said \o heard
    <3> DEFINE a == Words(event.text)
               b == Words(choice'.held)
    <3>1. IsSequence(said) /\ IsSequence(a) /\ IsSequence(b) BY <1>12, <2>2
    <3>2. a \o b = heard BY <2>1
    <3> HIDE DEF a, b
    <3>3. (said \o a) \o b = said \o (a \o b) BY <3>1, Associative
    <3> QED BY <3>2, <3>3 DEF a, b
  <2>4. Unfinished' BY <1>22, <2>1 DEF Unfinished, None
  <2> QED BY <1>13, <1>20, <1>21, <2>1, <2>3, <2>4
<1>25. ASSUME SpokenOut'
       PROVE  LastRead(Yielded') = Sent(upstream') /\ Aired(Yielded', Sent(upstream'))
  <2>1. chunk.finish \in {"stop", "length", "error"} /\ ~choice'.seen
    BY <1>22, <1>25 DEF SpokenOut, Unfinished
  <2>2. Words(event.text) = heard BY <1>7, <2>1
  <2>3. LastRead(Yielded') = more BY <1>13, <1>20, <2>2
  <2>4. Aired(Yielded, more) BY <1>3 DEF Aired, NoStops
  <2>5. \A k \in 1 .. Len(o) : Stops(o[k]) => Readings(Yielded \o o)[Len(Yielded) + k] = more
    BY <1>17, <1>19, <2>3 DEF LastRead
  <2>6. Aired(Yielded \o o, more) BY <1>16, <1>17, <2>4, <2>5, AiredAside
  <2> QED BY <1>19, <1>21, <2>3, <2>6
<1>26. TextStreamed'
  <2>1. Speaks(Yielded', LastRead(Yielded'), Sent(upstream')) BY <1>17, <1>19, <1>20, <1>21
  <2>2. Anthropic' = Anthropic BY <1>1 DEF Anthropic
  <2>3. phase' \in {"first", "reading"} => event.finish = None BY <1>1
  <2>4. phase' \in {"first", "reading"} \/ (phase' = "read" /\ Anthropic') => NoStops(Yielded')
    BY <1>17, <1>19, <2>2, <2>3
  <2>5. Anthropic' /\ ~writer'.meant => Speaks(Yielded', <<>>, <<>>)
    BY <1>17, <1>18, <1>19, <2>2
  <2> QED BY <1>24, <1>25, <2>1, <2>3, <2>4, <2>5 DEF TextStreamed
<1> QED BY <1>1, <1>2, <1>23, <1>26 DEF TextInvariant

\* What is known of a streamed answer
LEMMA TextKnown ==
  ASSUME StreamInvariant, TextInvariant,
         request.stream \/ phase \in {"first", "reading", "read", "closing", "replaying", "failing"}
  PROVE  /\ request.stream /\ TextStreamed
         /\ IsSequence(client) /\ IsSequence(outbox) /\ IsSequence(upstream) /\ Holds(choice)
         /\ DOMAIN writer = WriterParts /\ Merged(writer.message) /\ writer.out = <<>>
         /\ IsSequence(Yielded)
<1>1. request.stream BY DEF StreamInvariant, PhaseKnown
<1> QED BY <1>1, Concatenated DEF TextInvariant, TextParts, Yielded

LEMMA TextOther ==
  ASSUME StreamInvariant, TextInvariant, ReadOther \/ StreamEnds
  PROVE  TextInvariant'
<1> DEFINE p == Packet("chunk", 0, <<>>)
<1>1. /\ phase \in {"first", "reading"}
      /\ phase' = "reading" \/ (phase' = "read" /\ outbox' = outbox /\ writer' = writer)
      /\ request' = request /\ upstream' = upstream /\ choice' = choice /\ client' = client
      /\ outbox' = outbox \/ (~Anthropic /\ outbox' = Append(outbox, p))
      /\ writer' \in {writer, [writer EXCEPT !.failed = TRUE], [writer EXCEPT !.any = TRUE]}
      /\ Anthropic => writer' = writer
  BY DEF ReadOther, StreamEnds, Reading, SameAnswer
<1>2. /\ request.stream /\ TextStreamed
      /\ IsSequence(client) /\ IsSequence(outbox) /\ IsSequence(upstream) /\ Holds(choice)
      /\ DOMAIN writer = WriterParts /\ Merged(writer.message) /\ writer.out = <<>>
      /\ IsSequence(Yielded)
  BY <1>1, TextKnown
<1>3. /\ DOMAIN writer' = WriterParts /\ Merged(writer'.message) /\ writer'.out = <<>>
  BY <1>1, <1>2 DEF WriterParts, FreshWriter
<1>4. Mute(p) /\ ~Stops(p) BY ErrorMute
<1> HIDE DEF p
<1>5. /\ Yielded' = Yielded \/ (~Anthropic /\ Yielded' = Append(Yielded, p))
      /\ IsSequence(outbox')
  <2>1. client \o Append(outbox, p) = Append(client \o outbox, p) /\ IsSequence(Append(outbox, p))
    BY <1>2, AppendAside, Appended
  <2>2. CASE outbox' = outbox BY <1>1, <1>2, <2>2 DEF Yielded
  <2>3. CASE ~Anthropic /\ outbox' = Append(outbox, p) BY <1>1, <2>1, <2>3 DEF Yielded
  <2> QED BY <1>1, <2>2, <2>3
<1>6. /\ Speaks(Yielded, LastRead(Yielded), Sent(upstream))
      /\ LastRead(Yielded) \o Words(choice.held) = Sent(upstream)
      /\ Words(choice.pending) = <<>> /\ Unfinished /\ NoStops(Yielded)
      /\ Anthropic /\ ~writer.meant => Speaks(Yielded, <<>>, <<>>)
  BY <1>1, <1>2 DEF TextStreamed
<1>7. /\ Speaks(Yielded', LastRead(Yielded), Sent(upstream)) /\ NoStops(Yielded')
      /\ LastRead(Yielded') = LastRead(Yielded)
  <2> DEFINE a == LastRead(Yielded)
             b == Sent(upstream)
  <2>1. Speaks(Yielded, a, b) BY <1>6
  <2> HIDE DEF a, b
  <2>2. Speaks(Append(Yielded, p), a, b) BY <1>4, <2>1, MuteAppended
  <2>3. NoStops(Append(Yielded, p)) BY <1>2, <1>4, <1>6, StopsAppended
  <2>4. Speaks(Yielded', a, b) BY <1>5, <2>1, <2>2
  <2>5. LastRead(Yielded') = a BY <2>4 DEF Speaks
  <2> QED BY <1>5, <1>6, <2>3, <2>4, <2>5 DEF a, b
<1>8. TextParts' BY <1>1, <1>2, <1>3, <1>5 DEF TextParts
<1>9. Unfinished' /\ ~SpokenOut' BY <1>1, <1>6 DEF Unfinished, SpokenOut
<1>10. Anthropic' = Anthropic /\ (Anthropic /\ ~writer'.meant => Speaks(Yielded', <<>>, <<>>))
  BY <1>1, <1>5, <1>6 DEF Anthropic
<1>11. TextStreamed' BY <1>1, <1>6, <1>7, <1>9, <1>10 DEF TextStreamed
<1> QED BY <1>1, <1>2, <1>8, <1>11 DEF TextInvariant

\* A handler that is left: what waits is lost.
LEMMA TextDropped ==
  ASSUME StreamInvariant, TextInvariant, ReadFails \/ ClientLeaves
  PROVE  TextInvariant'
<1>1. /\ phase' = "ended" /\ outbox' = <<>> /\ SameAnswer /\ request' = request /\ client' = client
      /\ phase \in {"first", "reading", "replaying", "waiting", "failing", "read", "closing"}
  BY DEF ReadFails, ClientLeaves, Reading
<1>2. request.stream BY <1>1 DEF StreamInvariant, PhaseKnown
<1>3. /\ TextStreamed
      /\ IsSequence(client) /\ IsSequence(outbox) /\ IsSequence(upstream) /\ Holds(choice)
      /\ DOMAIN writer = WriterParts /\ Merged(writer.message) /\ writer.out = <<>>
  BY <1>2, TextKnown
<1>4. Yielded' = client BY <1>1, <1>3, EmptyAside DEF Yielded
<1>5. Speaks(client, LastRead(client), Sent(upstream))
  <2>1. Speaks(client \o outbox, LastRead(Yielded), Sent(upstream))
    BY <1>3 DEF TextStreamed, Yielded
  <2> QED BY <1>3, <2>1, SpeaksAtFirst
<1>6. SpokenOut => Aired(client, Sent(upstream))
  <2>1. SpokenOut => Aired(client \o outbox, Sent(upstream)) BY <1>3 DEF TextStreamed, Yielded
  <2> QED BY <1>3, <2>1, AiredAtFirst
<1>7. upstream' = upstream /\ choice' = choice /\ writer' = writer BY <1>1 DEF SameAnswer
<1> QED BY <1>1, <1>2, <1>3, <1>4, <1>5, <1>6, <1>7, Empty, TextLeft

\* An answer without output ends with an error packet.
LEMMA TextError ==
  ASSUME StreamInvariant, TextInvariant, phase = "read", phase' = "closing",
         request' = request, client' = client, upstream' = upstream, choice' = choice,
         outbox' = Append(outbox, ErrorPacket),
         DOMAIN writer' = WriterParts, Merged(writer'.message), writer'.out = <<>>
  PROVE  TextInvariant'
<1>1. /\ request.stream /\ TextStreamed
      /\ IsSequence(client) /\ IsSequence(outbox) /\ IsSequence(upstream) /\ Holds(choice)
      /\ IsSequence(Yielded)
  BY TextKnown
<1>2. Yielded' = Append(Yielded, ErrorPacket) /\ IsSequence(outbox') /\ IsSequence(client')
  BY <1>1, AppendAside, Appended DEF Yielded
<1> DEFINE a == LastRead(Yielded)
           b == Sent(upstream)
<1>3. Speaks(Yielded, a, b) /\ (SpokenOut => Aired(Yielded, b)) BY <1>1 DEF TextStreamed
<1> HIDE DEF a, b
<1>4. Speaks(Yielded', a, b) BY <1>2, <1>3, ErrorMute, MuteAppended
<1>5. LastRead(Yielded') = a BY <1>4 DEF Speaks
<1>6. SpokenOut => Aired(Yielded', b) BY <1>1, <1>2, <1>3, ErrorMute, StopsAppended
<1>7. /\ Speaks(Yielded', LastRead(Yielded'), Sent(upstream))
      /\ SpokenOut => Aired(Yielded', Sent(upstream))
  BY <1>4, <1>5, <1>6 DEF b
<1>8. phase' \notin {"opening", "waiting", "first", "reading", "read"} OBVIOUS
<1> QED BY <1>1, <1>2, <1>7, <1>8, TextLeft

LEMMA TextFailover ==
  ASSUME StreamInvariant, TextInvariant, NEW kind \in Kinds,
         AnthropicFailover(kind) \/ AnthropicMalformed
  PROVE  TextInvariant'
<1>1. /\ phase = "read" /\ Anthropic /\ ~writer.meant /\ request' = request /\ client' = client
  BY DEF AnthropicFailover, AnthropicMalformed, AtEnd
<1>2. /\ request.stream /\ TextStreamed
      /\ IsSequence(client) /\ IsSequence(outbox) /\ IsSequence(upstream) /\ Holds(choice)
      /\ DOMAIN writer = WriterParts /\ Merged(writer.message) /\ writer.out = <<>>
      /\ IsSequence(Yielded)
  BY <1>1, TextKnown
<1>3. Speaks(Yielded, <<>>, <<>>) /\ NoStops(Yielded) BY <1>1, <1>2 DEF TextStreamed
<1>4. CASE phase' = "closing" /\ outbox' = Append(outbox, ErrorPacket) /\ SameAnswer
  BY <1>1, <1>2, <1>4, TextError DEF SameAnswer
<1>5. ASSUME Handles(kind, Append(outbox, Packet("attempt", 0, <<>>))) PROVE TextInvariant'
  <2> DEFINE p == Packet("attempt", 0, <<>>)
             before == Append(outbox, p)
  <2>1. client \o before = Append(Yielded, p) /\ IsSequence(before)
    BY <1>2, AppendAside, Appended DEF Yielded
  <2>2. ~Stops(p) BY ErrorMute
  <2>3. Read(<<>>, p) = <<>> BY DEF Read, Packet
  <2>4. Begins(Read(<<>>, p), <<>>) BY <2>3, Empty, BeginsSelf
  <2>5. Handles(kind, before) BY <1>5
  <2> HIDE DEF before, p
  <2>6. Speaks(Append(Yielded, p), Read(<<>>, p), <<>>) BY <1>3, <2>4, SpeaksOn
  <2>7. Speaks(client \o before, <<>>, <<>>) BY <2>1, <2>3, <2>6
  <2>8. NoStops(client \o before) BY <1>2, <1>3, <2>1, <2>2, StopsAppended
  <2> QED BY <1>1, <1>2, <2>1, <2>5, <2>7, <2>8, TextHanded
<1> QED BY <1>4, <1>5 DEF AnthropicFailover, AnthropicMalformed

LEMMA TextClosing ==
  ASSUME StreamInvariant, TextInvariant, AnthropicCloses
  PROVE  TextInvariant'
<1> DEFINE o == AnthropicClose(writer).out
           a == LastRead(Yielded)
           b == Sent(upstream)
<1>1. /\ phase = "read" /\ Anthropic /\ phase' = "closing" /\ outbox' = outbox \o o
      /\ request' = request /\ client' = client
      /\ upstream' = upstream /\ choice' = choice /\ writer' = writer
  BY DEF AnthropicCloses, AtEnd, SameAnswer
<1>2. /\ request.stream /\ TextStreamed
      /\ IsSequence(client) /\ IsSequence(outbox) /\ IsSequence(upstream) /\ Holds(choice)
      /\ DOMAIN writer = WriterParts /\ Merged(writer.message) /\ writer.out = <<>>
      /\ IsSequence(Yielded)
  BY <1>1, TextKnown
<1>3. writer.next - 1 \in Nat
  <2>1. Watched BY <1>1, <1>2 DEF Watched
  <2>2. Matches(writer, SeenAfter(Yielded), 2 * Len(upstream)) BY <1>1, <2>1, ReadingKnown
  <2>3. writer.next \in Nat \ {0} BY <2>2 DEF Matches
  <2> QED BY <2>3
<1>4. IsSequence(o) /\ \A k \in 1 .. Len(o) : Mute(o[k])
  <2>1. IsSequence(o) /\ \A k \in 1 .. Len(o) : EndsMessage(o[k])
    BY <1>2, <1>3, ClosingEnds DEF Closing
  <2> HIDE DEF o
  <2> QED BY <2>1, EndsMute
<1>5. /\ Speaks(Yielded, a, b) /\ NoStops(Yielded) /\ (SpokenOut => a = b)
  BY <1>1, <1>2 DEF TextStreamed
<1> HIDE DEF o, a, b
<1>6. Yielded' = Yielded \o o /\ IsSequence(outbox') BY <1>1, <1>2, <1>4, YieldedMore
<1>7. /\ Speaks(Yielded \o o, a, b)
      /\ \A k \in 0 .. Len(o) : Readings(Yielded \o o)[Len(Yielded) + k] = a
  BY <1>4, <1>5, MuteSpeaks
<1>8. LastRead(Yielded') = a BY <1>6, <1>7 DEF Speaks
<1>9. SpokenOut => Aired(Yielded', b)
  <2> SUFFICES ASSUME SpokenOut PROVE Aired(Yielded \o o, b) BY <1>6
  <2>1. Aired(Yielded, b) BY <1>5 DEF Aired, NoStops
  <2>2. Len(o) \in Nat BY <1>4, Bounds
  <2>3. \A k \in 1 .. Len(o) : Readings(Yielded \o o)[Len(Yielded) + k] = b BY <1>5, <1>7, <2>2
  <2> QED BY <1>2, <1>4, <2>1, <2>3, AiredAside
<1>10. /\ Speaks(Yielded', LastRead(Yielded'), Sent(upstream))
       /\ SpokenOut => Aired(Yielded', Sent(upstream))
  BY <1>6, <1>7, <1>8, <1>9 DEF b
<1>11. phase' \notin {"opening", "waiting", "first", "reading", "read"} BY <1>1
<1>12. /\ IsSequence(client') /\ DOMAIN writer' = WriterParts
       /\ Merged(writer'.message) /\ writer'.out = <<>>
  BY <1>1, <1>2
<1> QED BY <1>1, <1>2, <1>6, <1>10, <1>11, <1>12, TextLeft

\* The same packets, in other hands
LEMMA TextSame ==
  ASSUME StreamInvariant, TextInvariant, Yielded' = Yielded,
         request' = request, upstream' = upstream, choice' = choice, writer' = writer,
         IsSequence(client'), IsSequence(outbox'),
         \/ phase' = phase
         \/ phase' \in {"closing", "replaying", "ended"}, request.stream
  PROVE  TextInvariant'
<1>1. /\ TextStreamed /\ IsSequence(upstream) /\ Holds(choice)
      /\ DOMAIN writer = WriterParts /\ Merged(writer.message) /\ writer.out = <<>>
  BY TextKnown
<1>2. TextParts' BY <1>1 DEF TextInvariant, TextParts
<1>3. Anthropic' = Anthropic /\ SpokenOut' = SpokenOut /\ Unfinished' = Unfinished
  BY DEF Anthropic, SpokenOut, Unfinished
<1>4. TextStreamed' BY <1>1, <1>3 DEF TextStreamed
<1> QED BY <1>2, <1>4 DEF TextInvariant

LEMMA TextGeminiClosing ==
  ASSUME StreamInvariant, TextInvariant, GeminiCloses
  PROVE  TextInvariant'
<1>1. /\ phase = "read" /\ ~Anthropic /\ phase' = "closing" /\ (bridged \/ outbox = <<>>)
      /\ outbox' = (IF writer.any THEN outbox ELSE <<ErrorPacket>>)
      /\ writer' = [writer EXCEPT !.failed = @ \/ ~writer.any]
      /\ request' = request /\ client' = client /\ upstream' = upstream /\ choice' = choice
  BY DEF GeminiCloses, AtEnd
<1>2. /\ request.stream /\ TextStreamed
      /\ IsSequence(client) /\ IsSequence(outbox) /\ IsSequence(upstream) /\ Holds(choice)
      /\ DOMAIN writer = WriterParts /\ Merged(writer.message) /\ writer.out = <<>>
  BY <1>1, TextKnown
<1>3. DOMAIN writer' = WriterParts /\ Merged(writer'.message) /\ writer'.out = <<>>
  BY <1>1, <1>2 DEF WriterParts, FreshWriter
<1>4. outbox = <<>> BY <1>1 DEF StreamInvariant, PhaseKnown
<1>5. CASE writer.any
  <2>1. Yielded' = Yielded /\ outbox' = outbox BY <1>1, <1>5 DEF Yielded
  <2>2. phase' \notin {"opening", "waiting", "first", "reading", "read"} BY <1>1
  <2>3. /\ Speaks(Yielded, LastRead(Yielded), Sent(upstream))
        /\ SpokenOut => Aired(Yielded, Sent(upstream))
    BY <1>2 DEF TextStreamed
  <2> QED BY <1>1, <1>2, <1>3, <2>1, <2>2, <2>3, TextLeft
<1>6. CASE ~writer.any
  <2>1. outbox' = Append(outbox, ErrorPacket) BY <1>1, <1>4, <1>6, Recorded1
  <2> QED BY <1>1, <1>3, <2>1, TextError
<1> QED BY <1>5, <1>6

LEMMA TextEnding ==
  ASSUME StreamInvariant, TextInvariant, HandlerEnds \/ WaitingEnds \/ Replayed \/ Deliver
  PROVE  TextInvariant'
<1>1. /\ phase \in {"first", "reading", "read", "closing", "replaying", "failing"}
      /\ request' = request /\ upstream' = upstream /\ choice' = choice /\ writer' = writer
      /\ phase' = phase \/ phase' \in {"closing", "replaying", "ended"}
      /\ \/ client' = client /\ outbox' = outbox
         \/ outbox # <<>> /\ client' = Append(client, Head(outbox)) /\ outbox' = Tail(outbox)
  BY DEF HandlerEnds, WaitingEnds, Replayed, Deliver, Sending, SameAnswer
<1>2. request.stream /\ IsSequence(client) /\ IsSequence(outbox) BY <1>1, TextKnown
<1>3. Yielded' = Yielded /\ IsSequence(client') /\ IsSequence(outbox')
  <2>1. CASE client' = client /\ outbox' = outbox BY <1>2, <2>1 DEF Yielded
  <2>2. CASE outbox # <<>> /\ client' = Append(client, Head(outbox)) /\ outbox' = Tail(outbox)
    <3>1. client' \o outbox' = client \o outbox /\ IsSequence(outbox') BY <1>2, <2>2, Sent1
    <3>2. IsSequence(client') BY <1>2, <2>2, Appended
    <3> QED BY <3>1, <3>2 DEF Yielded
  <2> QED BY <1>1, <2>1, <2>2
<1> QED BY <1>1, <1>2, <1>3, TextSame

-----------------------------------------------------------------------------
(* The text of an answer that is collected                                  *)

LEMMA TextCollectStart ==
  ASSUME StreamInvariant, TextInvariant, NEW kind \in Kinds, Collect(kind) \/ CollectAgain(kind)
  PROVE  TextInvariant'
<1>1. /\ phase \in {"opening", "collected"} /\ phase' \in {"collecting", "collected", "ended"}
      /\ phase = "opening" => ~request.stream
      /\ request' = request /\ outbox' = outbox /\ client' = client
      /\ upstream' = <<>> \/ (phase = "opening" /\ upstream' = upstream)
      /\ choice' = FreshChoice \/ (phase = "opening" /\ choice' = choice)
      /\ \/ writer' = [FreshWriter EXCEPT !.meant = kind = "whole", !.unread = kind = "unread",
                           !.message.finish = IF kind = "whole" THEN "stop" ELSE None,
                           !.failed = kind \in {"error", "none"}]
         \/ writer' = [FreshWriter EXCEPT !.meant = kind = "whole", !.unread = kind = "unread",
                           !.message.finish = IF kind = "whole" THEN "stop" ELSE None]
  BY DEF Collect, CollectAgain, Collected
<1>2. ~request.stream BY <1>1 DEF StreamInvariant, PhaseKnown
<1>3. TextParts /\ TextCollected BY <1>2 DEF TextInvariant
<1>4. upstream' = <<>> /\ choice' = FreshChoice
  BY <1>1, <1>3 DEF TextParts
<1>5. /\ DOMAIN writer' = WriterParts /\ writer'.out = <<>> /\ writer'.message.text = <<>>
      /\ Merged(writer'.message)
  <2> DEFINE finish == IF kind = "whole" THEN "stop" ELSE None
             e == [EmptyMessage EXCEPT !.finish = finish]
  <2>1. e.text = <<>> /\ e.calls = EmptyMessage.calls /\ DOMAIN e = {"text", "calls", "finish"}
    BY DEF EmptyMessage
  <2>2. DOMAIN writer' = WriterParts /\ writer'.out = <<>> /\ writer'.message = e
    BY <1>1 DEF WriterParts, FreshWriter
  <2> HIDE DEF e
  <2>3. Merged(e) BY <2>1, MergedNothing, Empty DEF Merged
  <2> QED BY <2>1, <2>2, <2>3
<1>6. outbox' = <<>> /\ client' = <<>> /\ IsSequence(<<>>)
  BY <1>1, <1>3, Empty DEF TextCollected
<1>7. TextParts' BY <1>1, <1>4, <1>5, <1>6, FreshText DEF TextParts
<1>8. Sent(upstream') = <<>> /\ Unfinished' /\ ~SpokenOut'
  BY <1>4, SentNothing DEF Unfinished, SpokenOut
<1>9. Words(writer'.message.text) = <<>> /\ Begins(<<>>, <<>>) /\ <<>> \o <<>> = <<>>
  BY <1>5, WordsOfNothing, Empty, BeginsSelf, EmptyAside
<1>10. NoStops(client') BY <1>6, Empty DEF NoStops
<1>11. TextCollected' BY <1>4, <1>6, <1>8, <1>9, <1>10, FreshText DEF TextCollected
<1> QED BY <1>1, <1>2, <1>7, <1>11 DEF TextInvariant

LEMMA TextCollectChunk ==
  ASSUME StreamInvariant, TextInvariant, NEW chunk \in Chunks, CollectChunk(chunk)
  PROVE  TextInvariant'
<1> DEFINE one == NormalizeChoice(choice, chunk)
           event == one.event
           said == Words(writer.message.text)
           sent == Sent(upstream)
           heard == Words(choice.held) \o Words(chunk.text)
           more == Sent(Append(upstream, chunk))
<1>1. /\ phase = "collecting"
      /\ upstream' = Append(upstream, chunk) /\ Fits(event) /\ choice' = one.choice
      /\ phase' = (IF event.finish # None THEN "collected" ELSE "collecting")
      /\ writer' = IF Kept(event)
                   THEN [writer EXCEPT !.message = Aggregate(@, event),
                                       !.meant = @ \/ Means(event, FALSE)]
                   ELSE writer
      /\ outbox' = outbox /\ request' = request /\ client' = client
  BY DEF CollectChunk
<1>2. ~request.stream BY <1>1 DEF StreamInvariant, PhaseKnown
<1>3. /\ TextCollected
      /\ IsSequence(client) /\ IsSequence(outbox) /\ IsSequence(upstream) /\ Holds(choice)
      /\ DOMAIN writer = WriterParts /\ Merged(writer.message) /\ writer.out = <<>>
  BY <1>2 DEF TextInvariant, TextParts
<1>4. /\ said \o Words(choice.held) = sent /\ Begins(said, sent)
      /\ Words(choice.pending) = <<>> /\ outbox = <<>> /\ client = <<>>
  BY <1>1, <1>3 DEF TextCollected
<1>5. Cleaned(one) BY <1>3, ChoiceNormalized
<1>6. Says(event) /\ Holds(choice') /\ IsSequence(event.text) BY <1>1, <1>5 DEF Cleaned, Says
<1>7. Argued(event.calls) BY <1>3, NormalizedEvent
<1>8. /\ Begins(Words(event.text), heard)
      /\ event.finish = None =>
           /\ Words(event.text) \o Words(choice'.held) = heard
           /\ Words(choice'.pending) = <<>> /\ chunk.finish = None
      /\ chunk.finish \in {"stop", "length", "error"} /\ ~choice'.seen =>
           Words(event.text) = heard /\ event.finish # None
  <2>1. choice' = one.choice BY <1>1
  <2> QED BY <1>3, <1>4, <2>1, NormalizedWords
<1>9. IsSequence(chunk.text) BY StreamAssumption
<1>10. \A k \in 1 .. Len(event.calls) : event.calls[k].index \in ToolIndexes
  <2>1. IsSequence(event.calls) BY <1>6 DEF Says
  <2>2. DOMAIN event.calls = 1 .. Len(event.calls) BY <2>1, Bounds
  <2> QED BY <1>1, <2>2 DEF Fits
<1>11. /\ Merged(Aggregate(writer.message, event))
       /\ Aggregate(writer.message, event).text = writer.message.text \o event.text
  BY <1>3, <1>6, <1>7, <1>10, Aggregated
<1>12. /\ IsSequence(said) /\ IsSequence(sent)
       /\ IsSequence(Words(choice.held)) /\ IsSequence(Words(chunk.text))
       /\ IsSequence(Words(event.text)) /\ IsSequence(heard)
  BY <1>3, <1>4, <1>6, <1>8, <1>9, WordsListed DEF Begins, Holds
<1>13. more = said \o heard /\ IsSequence(more)
  <2>1. more = sent \o Words(chunk.text) BY <1>3, SentMore
  <2>2. (said \o Words(choice.held)) \o Words(chunk.text) = said \o heard BY <1>12, Associative
  <2> QED BY <1>4, <1>12, <2>1, <2>2, Concatenated
<1>14. Begins(said \o Words(event.text), more) BY <1>8, <1>12, <1>13, BeginsAside
<1>15. /\ DOMAIN writer' = WriterParts /\ writer'.out = <<>> /\ Merged(writer'.message)
       /\ Words(writer'.message.text) = said \o Words(event.text)
  <2>1. CASE Kept(event)
    <3> DEFINE m == Aggregate(writer.message, event)
    <3>1. /\ DOMAIN writer' = WriterParts /\ writer'.out = <<>> /\ writer'.message = m
      BY <1>1, <1>3, <2>1 DEF WriterParts, FreshWriter
    <3>2. Words(writer.message.text \o event.text) = said \o Words(event.text)
      BY <1>3, <1>6, WordsAside DEF Merged
    <3> QED BY <1>11, <3>1, <3>2
  <2>2. CASE ~Kept(event)
    <3>1. event.text = <<>> /\ writer' = writer BY <1>1, <2>2 DEF Kept
    <3>2. said \o Words(event.text) = said BY <1>12, <3>1, WordsOfNothing, EmptyAside
    <3> QED BY <1>3, <3>1, <3>2
  <2> QED BY <2>1, <2>2
<1> HIDE DEF one, event
<1>16. /\ IsSequence(upstream') /\ upstream' # <<>> /\ upstream'[Len(upstream')] = chunk
  <2>1. /\ IsSequence(upstream') /\ Len(upstream') = Len(upstream) + 1
        /\ upstream'[Len(upstream) + 1] = chunk
    BY <1>1, <1>3, Appended
  <2>2. Len(upstream) \in Nat BY <1>3, Bounds
  <2>3. Len(upstream') # 0 BY <2>1, <2>2
  <2> QED BY <2>1, <2>3, Bounds
<1>17. Sent(upstream') = more BY <1>1
<1> HIDE DEF said, sent, heard, more
<1>18. TextParts' BY <1>1, <1>3, <1>6, <1>15, <1>16 DEF TextParts
<1>19. event.finish = None =>
         /\ Words(writer'.message.text) \o Words(choice'.held) = Sent(upstream')
         /\ Words(choice'.pending) = <<>> /\ Unfinished'
  <2> SUFFICES ASSUME event.finish = None
               PROVE  /\ Words(writer'.message.text) \o Words(choice'.held) = Sent(upstream')
                      /\ Words(choice'.pending) = <<>> /\ Unfinished'
    OBVIOUS
  <2>1. /\ Words(event.text) \o Words(choice'.held) = heard
        /\ Words(choice'.pending) = <<>> /\ chunk.finish = None
    BY <1>8
  <2>2. IsSequence(Words(choice'.held)) BY <1>6, WordsListed DEF Holds
  <2>3. (said \o Words(event.text)) \o Words(choice'.held) = said \o heard
    <3> DEFINE a == Words(event.text)
               b == Words(choice'.held)
    <3>1. IsSequence(said) /\ IsSequence(a) /\ IsSequence(b) BY <1>12, <2>2
    <3>2. a \o b = heard BY <2>1
    <3> HIDE DEF a, b
    <3>3. (said \o a) \o b = said \o (a \o b) BY <3>1, Associative
    <3> QED BY <3>2, <3>3 DEF a, b
  <2>4. Unfinished' BY <1>16, <2>1 DEF Unfinished, None
  <2> QED BY <1>13, <1>15, <1>17, <2>1, <2>3, <2>4
<1>20. ASSUME SpokenOut' PROVE Words(writer'.message.text) = Sent(upstream')
  <2>1. chunk.finish \in {"stop", "length", "error"} /\ ~choice'.seen
    BY <1>16, <1>20 DEF SpokenOut, Unfinished
  <2>2. Words(event.text) = heard BY <1>8, <2>1
  <2> QED BY <1>13, <1>15, <1>17, <2>2
<1>21. TextCollected'
  <2>1. Begins(Words(writer'.message.text), Sent(upstream')) BY <1>14, <1>15, <1>17
  <2>2. outbox' = <<>> /\ client' = <<>> /\ NoStops(client') BY <1>1, <1>3, <1>4 DEF TextCollected
  <2>3. phase' = "collecting" => event.finish = None BY <1>1
  <2> QED BY <1>19, <1>20, <2>1, <2>2, <2>3 DEF TextCollected
<1> QED BY <1>1, <1>2, <1>18, <1>21 DEF TextInvariant

LEMMA TextCollectEnd ==
  ASSUME StreamInvariant, TextInvariant, CollectEnds \/ Answer
  PROVE  TextInvariant'
<1>1. /\ phase \in {"collecting", "collected"}
      /\ request' = request /\ outbox' = outbox
      /\ upstream' = upstream /\ choice' = choice /\ writer' = writer
      /\ \/ phase = "collecting" /\ phase' = "collected" /\ client' = client
         \/ /\ phase' = "ended"
            /\ \E p \in {ErrorPacket, Packet("whole", 0, <<>>)} : client' = <<p>>
  BY DEF CollectEnds, Answer, AnswerFailed, AnswerMalformed, AnswerWhole, SameAnswer
<1>2. ~request.stream BY <1>1 DEF StreamInvariant, PhaseKnown
<1>3. /\ TextCollected
      /\ IsSequence(client) /\ IsSequence(outbox) /\ IsSequence(upstream) /\ Holds(choice)
      /\ DOMAIN writer = WriterParts /\ Merged(writer.message) /\ writer.out = <<>>
  BY <1>2 DEF TextInvariant, TextParts
<1>4. IsSequence(client') /\ NoStops(client')
  <2>1. CASE client' = client BY <1>3, <2>1 DEF TextCollected
  <2>2. ASSUME NEW p \in {ErrorPacket, Packet("whole", 0, <<>>)}, client' = <<p>>
        PROVE  IsSequence(client') /\ NoStops(client')
    <3>1. ~Stops(p) BY <2>2 DEF Stops, ErrorPacket, Packet
    <3>2. IsSequence(<<p>>) /\ Len(<<p>>) = 1 /\ <<p>>[1] = p BY One
    <3> QED BY <2>2, <3>1, <3>2 DEF NoStops
  <2> QED BY <1>1, <2>1, <2>2
<1>5. TextParts' BY <1>1, <1>3, <1>4 DEF TextParts
<1>6. SpokenOut' = SpokenOut BY <1>1 DEF SpokenOut, Unfinished
<1>7. phase = "collecting" => ~SpokenOut BY <1>3 DEF TextCollected, SpokenOut
<1>8. TextCollected' BY <1>1, <1>3, <1>4, <1>6, <1>7 DEF TextCollected
<1> QED BY <1>1, <1>2, <1>5, <1>8 DEF TextInvariant

-----------------------------------------------------------------------------
(* The text of an answer is kept.                                           *)

LEMMA TextStart == StreamInit => TextInvariant
<1> SUFFICES ASSUME StreamInit PROVE TextInvariant OBVIOUS
<1>1. /\ request \in ClientRequests /\ phase = "opening"
      /\ upstream = <<>> /\ choice = FreshChoice /\ writer = FreshWriter
      /\ outbox = <<>> /\ client = <<>>
  BY DEF StreamInit
<1>2. TextParts BY <1>1, FreshText, Empty DEF TextParts
<1>3. Sent(upstream) = <<>> /\ ~SpokenOut BY <1>1, SentNothing DEF SpokenOut, Unfinished
<1>4. Yielded = <<>> BY <1>1, Empty, EmptyAside DEF Yielded
<1>5. TextStreamed BY <1>1, <1>3, <1>4, SpeaksNothing, NothingRead DEF TextStreamed
<1>6. TextCollected
  <2>1. NoStops(<<>>) BY Empty DEF NoStops
  <2>2. Words(writer.message.text) = <<>> /\ Begins(<<>>, <<>>)
    BY <1>1, FreshText, WordsOfNothing, Empty, BeginsSelf
  <2> QED BY <1>1, <1>3, <2>1, <2>2 DEF TextCollected
<1> QED BY <1>2, <1>5, <1>6 DEF TextInvariant

LEMMA TextStep == StreamInvariant /\ TextInvariant /\ [StreamNext]_streamVars => TextInvariant'
<1> SUFFICES ASSUME StreamInvariant, TextInvariant, [StreamNext]_streamVars PROVE TextInvariant'
  OBVIOUS
<1>1. CASE UNCHANGED streamVars
  <2>1. /\ request' = request /\ phase' = phase /\ upstream' = upstream /\ choice' = choice
        /\ writer' = writer /\ outbox' = outbox /\ client' = client
    BY <1>1 DEF streamVars
  <2> QED BY <2>1 DEF TextInvariant, TextParts, TextStreamed, TextCollected, SpokenOut, Unfinished,
                      Yielded, Anthropic
<1>2. ASSUME NEW kind \in Kinds, OpenedInTime(kind) \/ WaitingIsOver(kind) PROVE TextInvariant'
  BY <1>2, TextOpening
<1>3. ASSUME NEW kind \in Kinds, AnthropicFailover(kind) PROVE TextInvariant'
  BY <1>3, TextFailover
<1>4. CASE AnthropicMalformed
  <2>1. "none" \in Kinds BY DEF Kinds
  <2> QED BY <1>4, <2>1, TextFailover
<1>5. ASSUME NEW chunk \in Chunks, ReadChunk(chunk) PROVE TextInvariant' BY <1>5, TextChunk
<1>6. ASSUME NEW kind \in Kinds, Collect(kind) \/ CollectAgain(kind) PROVE TextInvariant'
  BY <1>6, TextCollectStart
<1>7. ASSUME NEW chunk \in Chunks, CollectChunk(chunk) PROVE TextInvariant'
  BY <1>7, TextCollectChunk
<1>8. CASE CollectEnds \/ Answer BY <1>8, TextCollectEnd
<1>9. CASE GraceElapses BY <1>9, TextWaiting
<1>10. CASE ReadOther \/ StreamEnds BY <1>10, TextOther
<1>11. CASE ReadFails \/ ClientLeaves BY <1>11, TextDropped
<1>12. CASE AnthropicCloses BY <1>12, TextClosing
<1>13. CASE GeminiCloses BY <1>13, TextGeminiClosing
<1>14. CASE HandlerEnds \/ WaitingEnds \/ Replayed \/ Deliver BY <1>14, TextEnding
<1> QED BY <1>1, <1>2, <1>3, <1>4, <1>5, <1>6, <1>7, <1>8, <1>9, <1>10, <1>11, <1>12, <1>13, <1>14
    DEF StreamNext

\* Whatever upstream sends in whatever chunks: while an answer is read, the words that were
\* yielded and the words that are held back are, in this order, the words that were sent; no
\* packet before that said others, and none has completed the answer.
THEOREM TextsKnown == StreamSpec => []TextInvariant
<1>1. StreamSpec => []StreamInvariant BY StreamsKnown
<1> QED BY <1>1, TextStart, TextStep, PTL DEF StreamSpec

LEMMA TextIsKept == StreamInvariant /\ TextInvariant => TextKept
<1> SUFFICES ASSUME StreamInvariant, TextInvariant PROVE TextKept OBVIOUS
<1> DEFINE done == /\ WholeAnswerSent /\ upstream # <<>>
                   /\ upstream[Len(upstream)].finish \in {"stop", "length", "error"} /\ ~choice.seen
<1>1. IsSequence(client) /\ IsSequence(outbox) BY DEF TextInvariant, TextParts
<1>2. Len(client) \in Nat /\ (client # <<>> => Len(client) \in 1 .. Len(client)) BY <1>1, Bounds
<1>3. done => SpokenOut BY DEF SpokenOut, Unfinished
<1>4. CASE request.stream
  <2>1. /\ Arrived = LastRead(client) /\ TextStreamed BY <1>4 DEF Arrived, LastRead, TextInvariant
  <2>2. Speaks(client, LastRead(client), Sent(upstream))
    <3>1. Speaks(client \o outbox, LastRead(Yielded), Sent(upstream))
      BY <2>1 DEF TextStreamed, Yielded
    <3> QED BY <1>1, <3>1, SpeaksAtFirst
  <2>3. IsPrefix(Arrived, Sent(upstream)) BY <2>1, <2>2, SpokenText, BeginsPrefix
  <2>4. SpokenOut => Aired(client, Sent(upstream))
    <3>1. SpokenOut => Aired(client \o outbox, Sent(upstream)) BY <2>1 DEF TextStreamed, Yielded
    <3> QED BY <1>1, <3>1, AiredAtFirst
  <2>5. phase # "collected" BY <1>4 DEF StreamInvariant, PhaseKnown
  <2>6. done => Arrived = Sent(upstream)
    <3> SUFFICES ASSUME done PROVE Arrived = Sent(upstream) OBVIOUS
    <3>1. client # <<>> /\ Stops(client[Len(client)])
      BY <2>5 DEF WholeAnswerSent, Stops
    <3> QED BY <1>2, <1>3, <2>1, <2>4, <3>1 DEF Aired, LastRead
  <2> HIDE DEF done
  <2> QED BY <2>3, <2>6 DEF TextKept, done
<1>5. CASE ~request.stream
  <2>1. Arrived = Words(writer.message.text) /\ TextCollected BY <1>5 DEF Arrived, TextInvariant
  <2>2. IsPrefix(Arrived, Sent(upstream)) BY <2>1, BeginsPrefix DEF TextCollected
  <2>3. done => Arrived = Sent(upstream)
    <3> SUFFICES ASSUME done PROVE Arrived = Sent(upstream) OBVIOUS
    <3>1. phase = "collected"
      <4>1. ~(client # <<>> /\ Stops(client[Len(client)])) BY <1>2, <2>1 DEF TextCollected, NoStops
      <4> QED BY <4>1 DEF WholeAnswerSent, Stops
    <3> QED BY <1>3, <2>1, <3>1 DEF TextCollected
  <2> HIDE DEF done
  <2> QED BY <2>2, <2>3 DEF TextKept, done
<1> QED BY <1>4, <1>5

\* A text reaches the client of /v1/messages or :generateContent in its order and without gaps,
\* for any text in any chunks, with halves of markers and blocks of tool calls anywhere in
\* it; and when the answer is complete, and was not finished by calls, all of it did.
THEOREM TextsKept == StreamSpec => []TextKept
BY StreamsKnown, TextsKnown, TextIsKept, PTL

===============================================================================
