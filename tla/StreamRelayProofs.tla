--------------------------- MODULE StreamRelayProofs ---------------------------
(***************************************************************************)
(* Theorems about a streamed answer, for any number of routes, attempts    *)
(* and lines, hence for stacks of generators of any depth.                 *)
(***************************************************************************)
EXTENDS StreamRelay, TLAPS

-----------------------------------------------------------------------------
(* Types *)

Raised == {"no", "exit", "gone", "error"}
Packets == [id : Ids, kind : Packet]
Records == [full : BOOLEAN, error : Errors, gone : BOOLEAN]

LEMMA SpentType ==
  ASSUME NEW spent \in Spents, NEW b \in Budgets, CanFailover(spent, b)
  PROVE  Spend(spent, b) \in Spents
BY RelayAssumption DEF Spents, CanFailover, Spend, Unspent

LEMMA UnspentType == Unspent \in Spents /\ NoCall \in Calls /\ NoCall.id = 0 /\ NoCall.answer = "none"
BY RelayAssumption DEF Unspent, Spents, NoCall, Calls, Answer, Ids

LEMMA YieldType ==
  ASSUME TypeOK, NEW id \in Ids, NEW kinds \in Seq(Packet), Yield(id, kinds)
  PROVE  sent' \in Seq(Packets) /\ raised' \in Raised
<1> DEFINE more == [i \in 1..Len(kinds) |-> [id |-> id, kind |-> kinds[i]]]
<1>1. more \in Seq(Packets)
  <2>1. \A i \in 1..Len(kinds) : [id |-> id, kind |-> kinds[i]] \in Packets BY DEF Packets
  <2> QED BY <2>1
<1>2. sent \in Seq(Packets) /\ raised \in Raised BY DEF TypeOK, Packets, Raised
<1>3. sent' = sent \o more \/ sent' = sent BY DEF Yield
<1>4. raised' \in {raised, "exit"} BY DEF Yield
<1> HIDE DEF more
<1>5. sent \o more \in Seq(Packets) BY <1>1, <1>2
<1>6. sent' \in Seq(Packets) BY <1>2, <1>3, <1>5
<1>7. raised' \in Raised BY <1>2, <1>4 DEF Raised
<1> QED BY <1>6, <1>7

LEMMA FinishRecordType ==
  ASSUME TypeOK, NEW error \in Errors, NEW gone \in BOOLEAN, FinishRecord(error, gone)
  PROVE  record' \in [active : BOOLEAN, finished : Seq(Records)]
BY DEF TypeOK, FinishRecord, Records

LEMMA ExecuteType ==
  ASSUME TypeOK, NEW answer, NEW spent \in Spents, NEW stream \in BOOLEAN, NEW hint \in Ids,
         Execute(answer, spent, stream, hint)
  PROVE  /\ tried' \in Ids /\ opening' \in Calls /\ told' \in [Attempts -> Ids]
         /\ Opened(answer) \subseteq Attempts
<1>1. tried + 1 \in Attempts BY RelayAssumption DEF Execute, TypeOK, Ids, Attempts
<1>2. tried + 1 \in Ids BY <1>1 DEF Attempts, Ids
<1>3. tried' \in Ids BY <1>2 DEF Execute
<1>4. opening' \in Calls BY <1>2 DEF Execute, Calls, Answer
<1>5. told' \in [Attempts -> Ids] BY <1>1 DEF Execute, TypeOK
<1>6. Opened(answer) \subseteq Attempts BY <1>1 DEF Opened
<1> QED BY <1>3, <1>4, <1>5, <1>6

LEMMA TopType ==
  ASSUME TypeOK, frames # <<>>
  PROVE  Top \in Frames /\ Len(frames) \in Nat \ {0} /\ Top = frames[Len(frames)]
BY DEF TypeOK, Top, Last

\* The stack below the top.
LEMMA FrontFacts ==
  ASSUME frames \in Seq(Frames), frames # <<>>
  PROVE  /\ Front(frames) \in Seq(Frames) /\ Len(Front(frames)) = Len(frames) - 1
         /\ \A i \in 1..(Len(frames) - 1) : Front(frames)[i] = frames[i]
<1>1. Len(frames) - 1 \in Nat /\ Len(frames) - 1 <= Len(frames) OBVIOUS
<1>2. Front(frames) = [i \in 1..(Len(frames) - 1) |-> frames[i]] BY <1>1 DEF Front
<1>3. \A i \in 1..(Len(frames) - 1) : frames[i] \in Frames BY <1>1
<1> QED BY <1>1, <1>2, <1>3

\* The stack after the generator below the top was resumed.
LEMMA ReturningFacts ==
  ASSUME NEW rest \in Seq(Frames), rest # <<>>
  PROVE  /\ Returning(rest) # <<>> /\ Len(Returning(rest)) = Len(rest)
         /\ \A i \in 1..(Len(rest) - 1) : Returning(rest)[i] = rest[i]
         /\ Returning(rest)[Len(rest)] = [rest[Len(rest)] EXCEPT !.pc = "closing"]
<1>1. Len(rest) \in Nat \ {0} OBVIOUS
<1> QED BY <1>1 DEF Returning

LEMMA ReturningTop ==
  ASSUME NEW rest \in Seq(Frames), rest # <<>>, frames' = Returning(rest)
  PROVE  /\ frames' # <<>> /\ Len(frames') = Len(rest)
         /\ Top' = [rest[Len(rest)] EXCEPT !.pc = "closing"] /\ Top'.pc = "closing"
<1>1. /\ frames' # <<>> /\ Len(frames') = Len(rest)
      /\ Top' = [rest[Len(rest)] EXCEPT !.pc = "closing"]
  BY ReturningFacts DEF Top, Last
<1>2. rest[Len(rest)] \in Frames OBVIOUS
<1> QED BY <1>1, <1>2 DEF Frames

\* Replacing the top of the stack.
LEMMA SetTopFacts ==
  ASSUME frames \in Seq(Frames), frames # <<>>, NEW f \in Frames, SetTop(f)
  PROVE  /\ frames' \in Seq(Frames) /\ frames' # <<>> /\ Len(frames') = Len(frames)
         /\ Top' = f
         /\ \A i \in 1..(Len(frames) - 1) : frames'[i] = frames[i]
BY DEF SetTop, Top, Last

TypeParts ==
  /\ phase \in {"idle", "connecting", "waiting", "relaying", "over"}
  /\ wrapped \in BOOLEAN /\ cancelled \in BOOLEAN
  /\ background \in Answer \cup {"idle", "running"}
  /\ opening \in Calls
  /\ frames \in Seq(Frames)
  /\ raised \in Raised
  /\ client \in {"here", "gone"}
  /\ sent \in Seq(Packets)
  /\ tried \in Ids
  /\ open \subseteq Attempts
  /\ told \in [Attempts -> Ids]
  /\ record \in [active : BOOLEAN, finished : Seq(Records)]
  /\ stored \in Ids
  /\ cached \subseteq Attempts

LEMMA TypeIsParts == TypeOK <=> TypeParts
BY DEF TypeOK, TypeParts, Raised, Packets, Records

LEMMA TypeIsPartsNext == TypeOK' <=> TypeParts'
BY TypeIsParts, PTL

LEMMA KindsType ==
  /\ <<"beat">> \in Seq(Packet) /\ <<"error">> \in Seq(Packet) /\ <<"done">> \in Seq(Packet)
  /\ <<"body">> \in Seq(Packet) /\ <<"bare">> \in Seq(Packet)
  /\ <<"error", "done">> \in Seq(Packet) /\ <<"text", "done">> \in Seq(Packet)
  /\ <<"finish", "done">> \in Seq(Packet)
BY DEF Packet, Line

LEMMA InitTypes == Init => TypeOK
<1> SUFFICES ASSUME Init PROVE TypeParts BY TypeIsParts
<1>1. /\ frames \in Seq(Frames) /\ sent \in Seq(Packets)
      /\ record \in [active : BOOLEAN, finished : Seq(Records)]
  BY DEF Init
<1>2. told \in [Attempts -> Ids] /\ stored \in Ids /\ tried \in Ids /\ cached \subseteq Attempts
  BY RelayAssumption DEF Init, Ids
<1>3. opening \in Calls BY UnspentType DEF Init
<1> QED BY <1>1, <1>2, <1>3 DEF TypeParts, Init, Raised

LEMMA FirstCallType == TypeOK /\ background \in Answer => FirstCall \in Calls
<1>1. 1 \in Ids BY RelayAssumption DEF Ids
<1> QED BY <1>1, UnspentType DEF FirstCall, Calls, NoCall

LEMMA OpenedFirst == \A answer : tried = 0 => Opened(answer) \subseteq Attempts
BY RelayAssumption DEF Opened, Attempts

\* No attempt was made before the background execution has an answer.
Early == background \in {"idle", "running"} => tried = 0

LEMMA ConnectType == ASSUME TypeOK, Early, Connect PROVE TypeOK'
<1> SUFFICES TypeParts' BY TypeIsPartsNext
<1>0. TypeParts BY TypeIsParts
<1> USE KindsType
<1>z. 0 \in Ids /\ 1 \in Ids BY RelayAssumption DEF Ids
<1>1. CASE Start BY <1>0, <1>1 DEF Start, TypeParts
<1>2. ASSUME NEW answer \in Answer, Publish(answer) PROVE TypeParts'
  <2>1. tried' \in Ids BY <1>2, <1>z DEF Publish
  <2>2. open' \subseteq Attempts BY <1>2, OpenedFirst DEF Publish, Early
  <2> QED BY <1>0, <1>2, <2>1, <2>2 DEF Publish, TypeParts
<1>3. CASE Ready
  <2>1. CASE background \in Responses
    <3>1. opening' \in Calls BY <1>3, <2>1, FirstCallType DEF Ready, Published
    <3>2. record' \in [active : BOOLEAN, finished : Seq(Records)]
      BY <1>0, <1>3, <2>1 DEF Ready, TypeParts
    <3> QED BY <1>0, <1>3, <2>1, <3>1, <3>2 DEF Ready, TypeParts
  <2>2. CASE background \notin Responses
    <3>1. PICK r \in Records : record' = [active |-> FALSE, finished |-> <<r>>]
      BY <1>3, <2>2 DEF Ready, Records, Errors
    <3>2. <<r>> \in Seq(Records) OBVIOUS
    <3>3. /\ [id |-> 0, kind |-> "text"] \in Packets /\ [id |-> 0, kind |-> "done"] \in Packets
          /\ [id |-> 0, kind |-> "body"] \in Packets
      BY <1>z DEF Packets, Packet, Line
    <3>4. sent' \in Seq(Packets)
      <4>1. CASE background = "cached"
        <5>1. sent' = <<[id |-> 0, kind |-> "text"], [id |-> 0, kind |-> "done"]>>
          BY <1>3, <2>2, <4>1 DEF Ready
        <5> QED BY <3>3, <5>1
      <4>2. CASE background # "cached"
        <5>1. sent' = <<[id |-> 0, kind |-> "body"]>> BY <1>3, <2>2, <4>2 DEF Ready
        <5> QED BY <3>3, <5>1
      <4> QED BY <4>1, <4>2
    <3> QED BY <1>0, <1>3, <2>2, <3>1, <3>2, <3>4 DEF Ready, TypeParts
  <2> QED BY <2>1, <2>2
<1>4. CASE GraceOver
  <2>1. record' \in [active : BOOLEAN, finished : Seq(Records)]
    BY <1>0, <1>4 DEF GraceOver, TypeParts
  <2> QED BY <1>0, <1>4, <2>1 DEF GraceOver, TypeParts
<1>5. CASE WaitBeat
  <2>1. sent' \in Seq(Packets) /\ raised' \in Raised BY <1>5, <1>z, YieldType DEF WaitBeat
  <2> QED BY <1>0, <1>5, <2>1 DEF WaitBeat, TypeParts
<1>6. CASE WaitOver
  <2>1. CASE opening' = FirstCall /\ UNCHANGED <<tried, open, told>>
    <3>1. opening' \in Calls BY <1>6, <2>1, FirstCallType DEF WaitOver, Published
    <3> QED BY <1>0, <1>6, <2>1, <3>1 DEF WaitOver, TypeParts
  <2>2. ASSUME CanFailover(Unspent, "cut"), NEW answer \in Responses,
               Execute(answer, Spend(Unspent, "cut"), TRUE, 0), open' = open \cup Opened(answer)
        PROVE  TypeParts'
    <3>1. Spend(Unspent, "cut") \in Spents BY <2>2, UnspentType, SpentType DEF Budgets
    <3>2. /\ tried' \in Ids /\ opening' \in Calls /\ told' \in [Attempts -> Ids]
          /\ Opened(answer) \subseteq Attempts
      BY <1>z, <2>2, <3>1, ExecuteType
    <3> QED BY <1>0, <1>6, <2>2, <3>2 DEF WaitOver, TypeParts
  <2> QED BY <1>6, <2>1, <2>2 DEF WaitOver
<1>7. CASE WaitFailed
  <2>1. sent' \in Seq(Packets) /\ raised' \in Raised BY <1>7, <1>z, YieldType DEF WaitFailed
  <2>2. record' \in [active : BOOLEAN, finished : Seq(Records)]
    <3>1. (IF raised' = "exit" THEN "client_gone" ELSE "exception") \in Errors BY DEF Errors
    <3> QED BY <1>7, <3>1, FinishRecordType DEF WaitFailed
  <2> QED BY <1>0, <1>7, <2>1, <2>2 DEF WaitFailed, TypeParts
<1>8. CASE WaitExit
  <2>1. record' \in [active : BOOLEAN, finished : Seq(Records)]
    BY <1>8, FinishRecordType DEF WaitExit, Errors
  <2> QED BY <1>0, <1>8, <2>1 DEF WaitExit, TypeParts
<1> QED BY <1>1, <1>2, <1>3, <1>4, <1>5, <1>6, <1>7, <1>8 DEF Connect

LEMMA RespondType ==
  ASSUME TypeOK, NEW kinds \in {<<"body">>, <<"text", "done">>}, NEW ok \in BOOLEAN,
         Respond(kinds, ok), phase = "relaying"
  PROVE  /\ opening' \in Calls /\ frames' \in Seq(Frames) /\ sent' \in Seq(Packets)
         /\ raised' \in Raised /\ phase' \in {"relaying", "over"}
<1> DEFINE bare == IF kinds = <<"body">> THEN <<"bare">> ELSE kinds
<1> USE KindsType
<1>1. opening' \in Calls BY UnspentType DEF Respond
<1>2. opening.id \in Ids /\ kinds \in Seq(Packet) /\ bare \in Seq(Packet)
  BY DEF TypeOK, Calls
<1>3. CASE frames # <<>>
  <2> DEFINE f == [Top EXCEPT !.pc = IF raised' = "no" THEN "closing" ELSE "inner"]
  <2>1. Yield(opening.id, bare) /\ SetTop(f) /\ UNCHANGED phase BY <1>3 DEF Respond
  <2>2. f \in Frames BY <1>3, TopType DEF Frames, Pcs
  <2>3. frames \in Seq(Frames) BY DEF TypeOK
  <2> HIDE DEF bare, f
  <2>4. frames' \in Seq(Frames) BY <1>3, <2>1, <2>2, <2>3, SetTopFacts
  <2> QED BY <1>1, <1>2, <2>1, <2>4, YieldType
<1>4. CASE frames = <<>> /\ wrapped
  <2> DEFINE all == IF ok THEN bare ELSE <<"error", "done">>
  <2>1. Yield(opening.id, all) /\ phase' = "over" /\ UNCHANGED frames
    BY <1>4 DEF Respond
  <2>2. all \in Seq(Packet) BY <1>2
  <2> HIDE DEF bare, all
  <2> QED BY <1>1, <1>2, <2>1, <2>2, YieldType DEF TypeOK
<1>5. CASE frames = <<>> /\ ~wrapped
  <2>1. /\ sent' = [i \in 1..Len(kinds) |-> [id |-> opening.id, kind |-> kinds[i]]]
        /\ phase' = "over" /\ UNCHANGED <<frames, raised>>
    BY <1>5 DEF Respond
  <2>2. \A i \in 1..Len(kinds) : [id |-> opening.id, kind |-> kinds[i]] \in Packets
    BY <1>2 DEF Packets
  <2>3. sent' \in Seq(Packets) BY <1>2, <2>1, <2>2
  <2> QED BY <1>1, <2>1, <2>3 DEF TypeOK, Raised
<1> QED BY <1>3, <1>4, <1>5

\* The steps up to the returned response are those of an answer that came.
LEMMA OpenGuards ==
  ASSUME TypeOK, Open
  PROVE  phase = "relaying" /\ raised = "no" /\ opening.id \in Attempts /\ opening # NoCall
<1>1. phase = "relaying" /\ raised = "no" /\ opening.id # 0
  BY DEF Open, OpenRefused, OpenBody, RetryBlank, RefuseBlank, Unusable, RetrySilent,
         RefuseSilent, OpenBroken, OpenStream, Opening
<1>2. opening.id \in Attempts BY <1>1 DEF TypeOK, Calls, Ids, Attempts
<1> QED BY <1>1, <1>2 DEF NoCall

LEMMA OpenType == ASSUME TypeOK, Open PROVE TypeOK'
<1> SUFFICES TypeParts' BY TypeIsPartsNext
<1>0. TypeParts BY TypeIsParts
<1> USE KindsType
<1>z. 0 \in Ids BY RelayAssumption DEF Ids
<1>g. phase = "relaying" /\ raised = "no" /\ opening.id \in Attempts /\ opening \in Calls
  BY OpenGuards DEF TypeOK
<1>1. ASSUME NEW error \in Errors, NEW gone \in BOOLEAN, FinishRecord(error, gone),
             NEW kinds \in {<<"body">>, <<"text", "done">>}, NEW ok \in BOOLEAN,
             Respond(kinds, ok),
             open' \subseteq open, cached' \subseteq cached \cup {opening.id}, stored' \in {0, stored},
             UNCHANGED <<wrapped, background, cancelled, client, tried, told>>
      PROVE  TypeParts'
  <2>1. record' \in [active : BOOLEAN, finished : Seq(Records)] BY <1>1, FinishRecordType
  <2>2. /\ opening' \in Calls /\ frames' \in Seq(Frames) /\ sent' \in Seq(Packets)
        /\ raised' \in Raised /\ phase' \in {"relaying", "over"}
    BY <1>1, <1>g, RespondType
  <2> QED BY <1>0, <1>1, <1>z, <1>g, <2>1, <2>2 DEF TypeParts
<1>2. ASSUME NEW answer \in Responses, NEW b \in Budgets, NEW stream \in BOOLEAN,
             CanFailover(opening.spent, b), Execute(answer, Spend(opening.spent, b), stream, 0),
             open' = Replace(opening.id, answer),
             UNCHANGED <<phase, wrapped, background, cancelled, frames, raised, client, sent,
                         record, stored, cached>>
      PROVE  TypeParts'
  <2>1. Spend(opening.spent, b) \in Spents BY <1>2, <1>g, SpentType DEF Calls
  <2>2. /\ tried' \in Ids /\ opening' \in Calls /\ told' \in [Attempts -> Ids]
        /\ Opened(answer) \subseteq Attempts
    BY <1>2, <1>z, <2>1, ExecuteType
  <2> QED BY <1>0, <1>2, <2>2 DEF TypeParts, Replace
<1>3. CASE OpenRefused BY <1>1, <1>3 DEF OpenRefused, Errors
<1>4. CASE OpenBody
  <2>1. PICK kinds \in {<<"body">>, <<"text", "done">>} : Respond(kinds, TRUE)
    BY <1>4 DEF OpenBody
  <2> QED BY <1>1, <1>4, <2>1 DEF OpenBody, Errors
<1>5. CASE RetryBlank BY <1>2, <1>5 DEF RetryBlank, Budgets
<1>6. CASE RefuseBlank BY <1>1, <1>6 DEF RefuseBlank, Errors
<1>7. CASE RetrySilent BY <1>2, <1>7 DEF RetrySilent, Budgets
<1>8. CASE RefuseSilent BY <1>1, <1>8 DEF RefuseSilent, Errors
<1>9. CASE OpenBroken BY <1>0, <1>9, UnspentType DEF OpenBroken, TypeParts, Raised
<1>10. CASE OpenStream
  <2>1. NoFrame(opening) \in Frames
    BY <1>g, RelayAssumption DEF NoFrame, Frames, Calls, Errors, Pcs
  <2>2. Append(frames, NoFrame(opening)) \in Seq(Frames) BY <1>0, <2>1 DEF TypeParts
  <2> QED BY <1>0, <1>10, <2>2, UnspentType DEF OpenStream, TypeParts
<1> QED BY <1>3, <1>4, <1>5, <1>6, <1>7, <1>8, <1>9, <1>10 DEF Open

\* What the steps of a generator do to the type of its frame.
LEMMA FrameTypes ==
  ASSUME NEW f \in Frames
  PROVE  /\ \A p \in Pcs : [f EXCEPT !.pc = p] \in Frames
         /\ \A p \in Pcs : [f EXCEPT !.done = TRUE, !.pc = p] \in Frames
         /\ \A p \in Pcs : [f EXCEPT !.delegated = TRUE, !.pc = p] \in Frames
         /\ \A p \in Pcs : [f EXCEPT !.error = "empty", !.pc = p] \in Frames
         /\ \A p \in Pcs : [f EXCEPT !.error = "empty", !.delegated = TRUE, !.pc = p] \in Frames
         /\ Caught(f) \in Frames /\ Left(f) \in Frames
         /\ f.id \in Ids /\ f.spent \in Spents /\ f.held \in Seq(Line)
<1>1. /\ \A p \in Pcs : [f EXCEPT !.pc = p] \in Frames
      /\ \A p \in Pcs : [f EXCEPT !.done = TRUE, !.pc = p] \in Frames
      /\ \A p \in Pcs : [f EXCEPT !.delegated = TRUE, !.pc = p] \in Frames
  BY DEF Frames
<1>2. "empty" \in Errors /\ "cut" \in Errors /\ "client_gone" \in Errors BY DEF Errors
<1>3. /\ \A p \in Pcs : [f EXCEPT !.error = "empty", !.pc = p] \in Frames
      /\ \A p \in Pcs : [f EXCEPT !.error = "empty", !.delegated = TRUE, !.pc = p] \in Frames
  BY <1>2 DEF Frames
<1>4. "failed" \in Pcs /\ "closing" \in Pcs BY DEF Pcs
<1>5. Caught(f) \in Frames BY <1>2, <1>4 DEF Frames, Caught
<1>6. Left(f) \in Frames BY <1>2, <1>4 DEF Frames, Left
<1>7. f.id \in Ids /\ f.spent \in Spents /\ f.held \in Seq(Line)
  BY DEF Frames, Attempts, Ids
<1> QED BY <1>1, <1>3, <1>5, <1>6, <1>7

LEMMA LineType ==
  ASSUME TypeOK, NEW kind \in Line, ReadLine(kind)
  PROVE  frames' \in Seq(Frames) /\ sent' \in Seq(Packets) /\ raised' \in Raised
<1> DEFINE f == [Top EXCEPT !.output = @ \/ kind = "text", !.lines = @ + 1,
                            !.pc = IF kind = "finish" THEN "checking" ELSE @]
           g == [f EXCEPT !.held = <<>>]
           k == [f EXCEPT !.held = Append(@, kind)]
<1>1. frames \in Seq(Frames) /\ frames # <<>> /\ Top \in Frames /\ Top.lines < MaxLines
  BY TopType DEF TypeOK, ReadLine, Running
<1>2. f \in Frames
  <2>1. (Top.output \/ kind = "text") \in BOOLEAN OBVIOUS
  <2>2. Top.lines + 1 \in 0..MaxLines BY <1>1, RelayAssumption DEF Frames
  <2>3. (IF kind = "finish" THEN "checking" ELSE Top.pc) \in Pcs BY <1>1 DEF Frames, Pcs
  <2> QED BY <1>1, <2>1, <2>2, <2>3 DEF Frames
<1>3. f.held \in Seq(Line) /\ f.id \in Ids BY <1>2, FrameTypes
<1>4. IF Forwards(f) THEN Yield(f.id, f.held \o <<kind>>) /\ SetTop(g)
                     ELSE SetTop(k) /\ UNCHANGED <<sent, raised>>
  BY DEF ReadLine
<1> HIDE DEF f
<1>5. g \in Frames /\ k \in Frames
  <2>1. <<>> \in Seq(Line) /\ Append(f.held, kind) \in Seq(Line) BY <1>3
  <2> QED BY <1>2, <2>1 DEF Frames
<1>6. f.held \o <<kind>> \in Seq(Packet)
  <2>1. f.held \in Seq(Packet) /\ <<kind>> \in Seq(Packet)
    BY <1>3 DEF Packet
  <2> QED BY <2>1
<1> HIDE DEF g, k
<1>7. CASE Forwards(f) BY <1>1, <1>3, <1>4, <1>5, <1>6, <1>7, SetTopFacts, YieldType
<1>8. CASE ~Forwards(f) BY <1>1, <1>4, <1>5, <1>8, SetTopFacts DEF TypeOK, Raised, Packets
<1> QED BY <1>7, <1>8

LEMMA RelayType == ASSUME TypeOK, Relay PROVE TypeOK'
<1> SUFFICES TypeParts' BY TypeIsPartsNext
<1>0. TypeParts BY TypeIsParts
<1> USE KindsType
<1>z. 0 \in Ids BY RelayAssumption DEF Ids
<1>g. frames # <<>> /\ frames \in Seq(Frames) /\ Top \in Frames
  <2>1. frames # <<>>
    BY DEF Relay, ReadBeat, ReadLine, ReadDone, ReadEnd, ReadCut, ReadReset, RetryEmpty, Check, End,
           RetryCut, GiveUp, Unwind, Finally, Running
  <2> QED BY <2>1, TopType DEF TypeOK
<1>i. Top.id \in Ids /\ Top.id \in Attempts /\ Top.spent \in Spents
  BY <1>g, FrameTypes DEF Frames
<1>p. /\ "closing" \in Pcs /\ "inner" \in Pcs /\ "ending" \in Pcs /\ "checking" \in Pcs
      /\ "failed" \in Pcs
  BY DEF Pcs
<1>1. ASSUME NEW f \in Frames, SetTop(f) PROVE frames' \in Seq(Frames)
  BY <1>1, <1>g, SetTopFacts
<1>2. ASSUME NEW kinds \in Seq(Packet), Yield(Top.id, kinds)
      PROVE  sent' \in Seq(Packets) /\ raised' \in Raised
  BY <1>2, <1>i, YieldType
<1>3. ASSUME NEW answer \in Responses, NEW b \in Budgets, CanFailover(Top.spent, b),
             NEW hint \in Ids, Execute(answer, Spend(Top.spent, b), TRUE, hint)
      PROVE  /\ tried' \in Ids /\ opening' \in Calls /\ told' \in [Attempts -> Ids]
             /\ Opened(answer) \subseteq Attempts
  <2>1. Spend(Top.spent, b) \in Spents BY <1>3, <1>i, SpentType
  <2> QED BY <1>3, <2>1, ExecuteType
<1>4. CASE ReadBeat
  BY <1>0, <1>2, <1>4 DEF ReadBeat, TypeParts
<1>5. ASSUME NEW kind \in Line, ReadLine(kind) PROVE TypeParts'
  <2>1. frames' \in Seq(Frames) /\ sent' \in Seq(Packets) /\ raised' \in Raised
    BY <1>5, LineType
  <2> QED BY <1>0, <1>5, <2>1 DEF ReadLine, TypeParts
<1>6. CASE ReadDone
  <2>1. frames' \in Seq(Frames) BY <1>1, <1>6, <1>g, <1>p, FrameTypes DEF ReadDone
  <2>2. sent' \in Seq(Packets) /\ raised' \in Raised
    BY <1>0, <1>2, <1>6 DEF ReadDone, TypeParts
  <2> QED BY <1>0, <1>6, <2>1, <2>2 DEF ReadDone, TypeParts
<1>7. CASE ReadEnd
  <2>1. frames' \in Seq(Frames) BY <1>1, <1>7, <1>g, <1>p, FrameTypes DEF ReadEnd
  <2> QED BY <1>0, <1>7, <2>1 DEF ReadEnd, TypeParts
<1>8. CASE ReadCut
  <2>1. frames' \in Seq(Frames) BY <1>1, <1>8, <1>g, FrameTypes DEF ReadCut
  <2>2. stored' \in Ids BY <1>0, <1>8, <1>i DEF ReadCut, Save, TypeParts
  <2> QED BY <1>0, <1>8, <2>1, <2>2 DEF ReadCut, TypeParts
<1>9. CASE ReadReset
  <2>1. frames' \in Seq(Frames) BY <1>1, <1>9, <1>g, FrameTypes DEF ReadReset
  <2> QED BY <1>0, <1>9, <2>1 DEF ReadReset, TypeParts, Raised
<1>10. CASE RetryEmpty
  <2>1. frames' \in Seq(Frames) BY <1>1, <1>10, <1>g, <1>p, FrameTypes DEF RetryEmpty
  <2>2. PICK answer \in Responses : /\ Execute(answer, Spend(Top.spent, "empty"), TRUE, 0)
                                    /\ open' = Replace(Top.id, answer)
    BY <1>10 DEF RetryEmpty
  <2>3. /\ tried' \in Ids /\ opening' \in Calls /\ told' \in [Attempts -> Ids]
        /\ Opened(answer) \subseteq Attempts
    BY <1>3, <1>10, <1>z, <2>2 DEF RetryEmpty, Budgets
  <2> QED BY <1>0, <1>10, <2>1, <2>2, <2>3 DEF RetryEmpty, Replace, TypeParts
<1>11. CASE Check
  <2>1. frames' \in Seq(Frames) BY <1>1, <1>11, <1>g, <1>p, FrameTypes DEF Check
  <2>2. sent' \in Seq(Packets) /\ raised' \in Raised
    BY <1>0, <1>2, <1>11 DEF Check, TypeParts
  <2> QED BY <1>0, <1>11, <2>1, <2>2 DEF Check, TypeParts
<1>12. CASE End
  <2>1. frames' \in Seq(Frames) BY <1>1, <1>12, <1>g, <1>p, FrameTypes DEF End
  <2>2. sent' \in Seq(Packets) /\ raised' \in Raised BY <1>2, <1>12 DEF End
  <2> QED BY <1>0, <1>12, <2>1, <2>2 DEF End, TypeParts
<1>13. CASE RetryCut
  <2>1. frames' \in Seq(Frames) BY <1>1, <1>13, <1>g, <1>p, FrameTypes DEF RetryCut
  <2> DEFINE hint == IF Top.output THEN Top.id ELSE 0
  <2>2. PICK answer \in Responses : /\ Execute(answer, Spend(Top.spent, "cut"), TRUE, hint)
                                    /\ open' = open \cup Opened(answer)
    BY <1>13 DEF RetryCut
  <2>h. hint \in Ids BY <1>z, <1>i
  <2> HIDE DEF hint
  <2>3. /\ tried' \in Ids /\ opening' \in Calls /\ told' \in [Attempts -> Ids]
        /\ Opened(answer) \subseteq Attempts
    BY <1>3, <1>13, <2>2, <2>h DEF RetryCut, Budgets
  <2> QED BY <1>0, <1>13, <2>1, <2>2, <2>3 DEF RetryCut, TypeParts
<1>14. CASE GiveUp
  <2>1. frames' \in Seq(Frames) BY <1>1, <1>14, <1>g, <1>p, FrameTypes DEF GiveUp
  <2>2. sent' \in Seq(Packets) /\ raised' \in Raised BY <1>2, <1>14 DEF GiveUp
  <2> QED BY <1>0, <1>14, <2>1, <2>2 DEF GiveUp, TypeParts
<1>15. CASE Unwind
  <2>1. PICK f \in Frames : SetTop(f) BY <1>15, <1>g, <1>p, FrameTypes DEF Unwind
  <2>2. frames' \in Seq(Frames) BY <1>1, <2>1
  <2>3. stored' \in Ids /\ raised' \in Raised
    BY <1>0, <1>15, <1>i DEF Unwind, Save, TypeParts, Raised
  <2>4. open' \subseteq Attempts BY <1>0, <1>15 DEF Unwind, TypeParts
  <2> QED BY <1>0, <1>15, <2>2, <2>3, <2>4 DEF Unwind, TypeParts
<1>16. CASE Finally
  <2>1. record' \in [active : BOOLEAN, finished : Seq(Records)]
    BY <1>16, <1>g, FinishRecordType DEF Finally, Frames
  <2>2. Front(frames) \in Seq(Frames) BY <1>g DEF Front
  <2>3. Front(frames) # <<>> => Returning(Front(frames)) \in Seq(Frames)
    <3>1. ASSUME Front(frames) # <<>> PROVE Returning(Front(frames)) \in Seq(Frames)
      <4> DEFINE s == Front(frames)
      <4>1. Len(s) \in Nat \ {0} /\ s[Len(s)] \in Frames BY <2>2, <3>1
      <4>2. [s[Len(s)] EXCEPT !.pc = "closing"] \in Frames BY <1>p, <4>1, FrameTypes
      <4>3. Returning(s) = [s EXCEPT ![Len(s)] = [s[Len(s)] EXCEPT !.pc = "closing"]]
        BY DEF Returning
      <4> HIDE DEF s
      <4> QED BY <2>2, <4>1, <4>2, <4>3 DEF s
    <3> QED BY <3>1
  <2>4. frames' \in Seq(Frames) BY <1>16, <2>2, <2>3 DEF Finally
  <2>5. cached' \subseteq Attempts BY <1>0, <1>16, <1>i DEF Finally, TypeParts
  <2>6. stored' \in Ids BY <1>0, <1>16, <1>i, <1>z DEF Finally, Save, TypeParts
  <2>7. open' \subseteq Attempts BY <1>0, <1>16 DEF Finally, TypeParts
  <2>8. phase' \in {"over", phase} /\ cancelled' \in BOOLEAN
    BY <1>0, <1>16 DEF Finally, TypeParts
  <2> QED BY <1>0, <1>16, <2>1, <2>4, <2>5, <2>6, <2>7, <2>8 DEF Finally, TypeParts
<1> QED BY <1>4, <1>5, <1>6, <1>7, <1>8, <1>9, <1>10, <1>11, <1>12, <1>13, <1>14, <1>15, <1>16
        DEF Relay

-----------------------------------------------------------------------------
(* Control *)

\* The generators run while the request is relayed, which waits for the answer of the
\* background execution; an answer that is being opened is one that came.
Control ==
  /\ Early
  /\ background \in {"idle", "running"} => phase # "relaying"
  /\ phase = "idle" => background = "idle"
  /\ phase \in {"idle", "connecting"} => raised = "no"
  /\ phase # "relaying" => frames = <<>> /\ opening = NoCall
  /\ opening # NoCall => raised = "no" /\ opening.answer \in Responses

LEMMA ConnectControl == ASSUME TypeOK, Control, Connect PROVE Control'
<1> USE DEF Control, Early, Answer, Responses
<1>1. CASE Start BY <1>1 DEF Start
<1>2. CASE \E answer \in Answer : Publish(answer) BY <1>2 DEF Publish
<1>3. CASE Ready
  <2>1. background \in Responses => FirstCall.answer \in Responses BY DEF FirstCall, NoCall
  <2> QED BY <1>3, <2>1 DEF Ready, Published
<1>4. CASE GraceOver BY <1>4 DEF GraceOver
<1>5. CASE WaitBeat BY <1>5 DEF WaitBeat
<1>6. CASE WaitOver
  <2>1. background \in Responses => FirstCall.answer \in Responses BY DEF FirstCall, NoCall
  <2> QED BY <1>6, <2>1 DEF WaitOver, Execute, Published
<1>7. CASE WaitFailed BY <1>7 DEF WaitFailed
<1>8. CASE WaitExit BY <1>8 DEF WaitExit
<1> QED BY <1>1, <1>2, <1>3, <1>4, <1>5, <1>6, <1>7, <1>8 DEF Connect

\* The end of a call of proxy_response, and an execution that answered.
LEMMA RespondControl ==
  ASSUME Control, phase = "relaying", raised = "no", UNCHANGED <<background, tried>>,
         NEW kinds, NEW ok, Respond(kinds, ok)
  PROVE  Control'
<1>1. opening' = NoCall BY DEF Respond
<1>2. \/ phase' = phase
      \/ phase' = "over" /\ frames' = <<>>
  BY DEF Respond
<1> QED BY <1>1, <1>2 DEF Control, Early

LEMMA ExecuteControl ==
  ASSUME Control, phase = "relaying", raised = "no", UNCHANGED <<background, phase, raised>>,
         NEW answer, NEW spent, NEW stream, NEW hint, Execute(answer, spent, stream, hint)
  PROVE  Control'
<1>1. opening'.answer = answer /\ answer \in Responses BY DEF Execute
<1> QED BY <1>1 DEF Control, Early

LEMMA OpenControl == ASSUME TypeOK, Control, Open PROVE Control'
<1>1. phase = "relaying" /\ raised = "no" BY OpenGuards
<1>2. UNCHANGED background
  BY DEF Open, OpenRefused, OpenBody, RetryBlank, RefuseBlank, RetrySilent, RefuseSilent,
         OpenBroken, OpenStream
<1>3. CASE OpenRefused \/ OpenBody \/ RefuseBlank \/ RefuseSilent
  BY <1>1, <1>2, <1>3, RespondControl DEF OpenRefused, OpenBody, RefuseBlank, RefuseSilent
<1>4. CASE RetryBlank \/ RetrySilent
  BY <1>1, <1>2, <1>4, ExecuteControl DEF RetryBlank, RetrySilent
<1>5. CASE OpenBroken \/ OpenStream
  BY <1>1, <1>2, <1>5 DEF OpenBroken, OpenStream, Control, Early
<1> QED BY <1>3, <1>4, <1>5 DEF Open

LEMMA RelayControl == ASSUME TypeOK, Control, Relay PROVE Control'
<1>1. phase = "relaying"
  BY DEF Control, Relay, ReadBeat, ReadLine, ReadDone, ReadEnd, ReadCut, ReadReset, RetryEmpty,
         Check, End, RetryCut, GiveUp, Unwind, Finally, Running
<1>2. UNCHANGED background
  BY DEF Relay, ReadBeat, ReadLine, ReadDone, ReadEnd, ReadCut, ReadReset, RetryEmpty,
         Check, End, RetryCut, GiveUp, Unwind, Finally
<1>3. CASE RetryEmpty \/ RetryCut
  BY <1>1, <1>2, <1>3, ExecuteControl DEF RetryEmpty, RetryCut, Running
<1>4. CASE Finally
  <2>1. opening' = NoCall /\ tried' = tried BY <1>4 DEF Finally
  <2>2. CASE Front(frames) = <<>>
    BY <1>1, <1>2, <1>4, <2>1, <2>2 DEF Finally, Control, Early
  <2>3. CASE Front(frames) # <<>>
    BY <1>1, <1>2, <1>4, <2>1, <2>3 DEF Finally, Control, Early
  <2> QED BY <2>2, <2>3
<1>5. ASSUME ~RetryEmpty, ~RetryCut, ~Finally
      PROVE  opening' = NoCall /\ tried' = tried /\ phase' = phase
  BY <1>5 DEF Relay, ReadBeat, ReadLine, ReadDone, ReadEnd, ReadCut, ReadReset, Check, End, GiveUp,
              Unwind, Running
<1> QED BY <1>1, <1>2, <1>3, <1>4, <1>5 DEF Control, Early

LEMMA NextControl == TypeOK /\ Control /\ [Next]_vars => TypeOK' /\ Control'
<1> SUFFICES ASSUME TypeOK, Control, [Next]_vars PROVE TypeOK' /\ Control' OBVIOUS
<1>1. CASE Leave \/ Over \/ UNCHANGED vars
  <2>1. /\ client' \in {client, "gone"}
        /\ UNCHANGED <<phase, wrapped, background, cancelled, opening, frames, raised, sent,
                       tried, open, told, record, stored, cached>>
    BY <1>1 DEF Leave, Over, vars
  <2> QED BY <2>1, TypeIsParts, TypeIsPartsNext DEF TypeParts, Control, Early
<1> QED BY <1>1, ConnectType, OpenType, RelayType, ConnectControl, OpenControl, RelayControl
        DEF Next, Control

LEMMA ControlHolds == Spec => [](TypeOK /\ Control)
<1>1. Init => TypeOK /\ Control BY InitTypes DEF Init, Control, Early
<1> QED BY <1>1, NextControl, PTL DEF Spec

\* The variables keep their types, and no failover budget is overdrawn, however deep
\* the failovers are nested.
THEOREM TypeCorrect == Spec => []TypeOK
BY ControlHolds, PTL

\* Once the relay takes the client for gone, no handler of a generator on the stack
\* catches that, and no other route is asked.
THEOREM ExitPasses == Spec => ExitEndsAttempts
<1>1. TypeOK /\ Control /\ [Next]_vars =>
        [phase = "relaying" /\ raised \in {"exit", "gone"} =>
           raised' = raised /\ tried' = tried]_vars
  <2> SUFFICES ASSUME TypeOK, Control, Next, phase = "relaying", raised \in {"exit", "gone"}
               PROVE  raised' = raised /\ tried' = tried
    OBVIOUS
  <2>1. CASE Connect
    BY <2>1 DEF Connect, Start, Publish, Ready, GraceOver, WaitBeat, WaitOver, WaitFailed, WaitExit,
                Control
  <2>2. CASE Leave \/ Over BY <2>2 DEF Leave, Over, vars
  <2>3. ~Open BY OpenGuards
  <2>4. CASE Relay
    <3>1. Unwind \/ Finally
      BY <2>4 DEF Relay, ReadBeat, ReadLine, ReadDone, ReadEnd, ReadCut, ReadReset, RetryEmpty,
                  Check, End, RetryCut, GiveUp, Running
    <3> QED BY <3>1 DEF Unwind, Finally, Passing
  <2> QED BY <2>1, <2>2, <2>3, <2>4 DEF Next
<1> QED BY <1>1, ControlHolds, PTL DEF Spec, ExitEndsAttempts

-----------------------------------------------------------------------------
(* One upstream stream at a time *)

\* Only the attempt that is being opened, or that the top generator reads, may have
\* an open stream; before there is one, the answer of the background execution.
Held ==
  /\ opening # NoCall =>
       open \subseteq (IF opening.answer \in Streams THEN {opening.id} ELSE {})
  /\ opening = NoCall /\ frames # <<>> =>
       open \subseteq (IF Top.pc \in {"failed", "inner"} THEN {} ELSE {Top.id})
  /\ opening = NoCall /\ frames = <<>> =>
       open \subseteq (IF background \in Streams THEN {1} ELSE {})

LEMMA ExecuteOpens ==
  ASSUME NEW answer, NEW spent, NEW stream, NEW hint, tried \in Ids,
         Execute(answer, spent, stream, hint)
  PROVE  opening' # NoCall /\ opening'.id = tried + 1 /\ opening'.answer = answer
<1>1. opening'.answer = answer /\ opening'.id = tried + 1 BY DEF Execute
<1>2. opening' # NoCall BY <1>1 DEF NoCall, Ids
<1> QED BY <1>1, <1>2

LEMMA ExecuteHeld ==
  ASSUME NEW answer, NEW spent, NEW stream, NEW hint, tried \in Ids,
         Execute(answer, spent, stream, hint), open' \subseteq Opened(answer)
  PROVE  Held'
<1> QED BY ExecuteOpens DEF Held, Opened

LEMMA ConnectHeld == ASSUME TypeOK, Control, Held, Connect PROVE Held'
<1>0. FirstCall.answer = background /\ FirstCall.id = 1 /\ FirstCall # NoCall
  <2>1. FirstCall.answer = background /\ FirstCall.id = 1 BY DEF FirstCall, NoCall
  <2>2. NoCall.id = 0 BY DEF NoCall
  <2> QED BY <2>1, <2>2
<1>1. CASE Start BY <1>1 DEF Start, Control, Early, Held, Streams
<1>2. ASSUME NEW answer \in Answer, Publish(answer) PROVE Held'
  <2>1. tried = 0 /\ frames = <<>> /\ opening = NoCall BY <1>2 DEF Publish, Control, Early
  <2>2. frames' = <<>> /\ opening' = NoCall /\ background' = answer BY <1>2, <2>1 DEF Publish
  <2>3. open' \subseteq (IF answer \in Streams THEN {1} ELSE {})
    BY <1>2, <2>1 DEF Publish, Opened
  <2> QED BY <2>2, <2>3 DEF Held
<1>3. CASE Ready
  <2>1. frames = <<>> /\ opening = NoCall /\ frames' = frames /\ open' = open
        /\ background' = background
    BY <1>3 DEF Ready, Control
  <2>2. opening' = FirstCall \/ opening' = NoCall BY <1>3, <2>1 DEF Ready
  <2> QED BY <1>0, <2>1, <2>2 DEF Held
<1>4. CASE WaitOver
  <2>1. frames = <<>> /\ opening = NoCall /\ frames' = frames /\ background' = background
    BY <1>4 DEF WaitOver, Control
  <2>2. CASE opening' = FirstCall /\ UNCHANGED open BY <1>0, <2>1, <2>2 DEF Held
  <2>3. ASSUME background \in {"refused", "none", "cached"},
               NEW answer \in Responses, NEW spent, Execute(answer, spent, TRUE, 0),
               open' = open \cup Opened(answer)
        PROVE  Held'
    <3>1. open = {} BY <2>1, <2>3 DEF Held, Streams
    <3> QED BY <2>3, <3>1, ExecuteHeld DEF TypeOK
  <2> QED BY <1>4, <2>2, <2>3 DEF WaitOver
<1>5. CASE GraceOver \/ WaitBeat \/ WaitFailed \/ WaitExit
  BY <1>5 DEF GraceOver, WaitBeat, WaitFailed, WaitExit, Control, Held
<1> QED BY <1>1, <1>2, <1>3, <1>4, <1>5 DEF Connect

LEMMA OpenHeld == ASSUME TypeOK, Control, Held, Open PROVE Held'
<1>0. opening # NoCall /\ opening.id \in Attempts /\ frames \in Seq(Frames)
  BY OpenGuards DEF TypeOK
<1>1. open \subseteq (IF opening.answer \in Streams THEN {opening.id} ELSE {}) BY <1>0 DEF Held
<1>2. open' = {} /\ opening' = NoCall => Held' BY DEF Held
<1>3. CASE OpenRefused
  BY <1>1, <1>2, <1>3 DEF OpenRefused, Opening, Respond, Streams
<1>4. CASE OpenBody \/ RefuseBlank \/ RefuseSilent
  BY <1>1, <1>2, <1>4 DEF OpenBody, RefuseBlank, RefuseSilent, Respond
<1>5. CASE RetryBlank
  <2>1. PICK answer, spent :
           /\ answer \in Responses /\ Execute(answer, spent, FALSE, 0)
           /\ open' = Replace(opening.id, answer)
    BY <1>5 DEF RetryBlank
  <2>2. open' \subseteq Opened(answer) BY <1>1, <2>1 DEF Replace
  <2> QED BY <2>1, <2>2, ExecuteHeld DEF TypeOK
<1>6. CASE RetrySilent
  <2>1. PICK answer, spent :
           /\ answer \in Responses /\ Execute(answer, spent, TRUE, 0)
           /\ open' = Replace(opening.id, answer)
    BY <1>6 DEF RetrySilent
  <2>2. open' \subseteq Opened(answer) BY <1>1, <2>1 DEF Replace
  <2> QED BY <2>1, <2>2, ExecuteHeld DEF TypeOK
<1>7. CASE OpenBroken BY <1>1, <1>2, <1>7 DEF OpenBroken, Opening, Streams
<1>8. CASE OpenStream
  <2>1. opening' = NoCall /\ frames' = Append(frames, NoFrame(opening)) /\ open' = open
    BY <1>8 DEF OpenStream
  <2>2. frames' # <<>> /\ Top' = NoFrame(opening) BY <1>0, <2>1 DEF Top, Last
  <2>3. Top'.id = opening.id /\ Top'.pc = "reading" BY <2>2 DEF NoFrame
  <2> QED BY <1>1, <2>1, <2>2, <2>3 DEF Held
<1> QED BY <1>3, <1>4, <1>5, <1>6, <1>7, <1>8 DEF Open

\* A step of a generator is one of the top frame, which is not waiting for a call.
LEMMA RelayGuards ==
  ASSUME TypeOK, Control, Relay
  PROVE  /\ phase = "relaying" /\ opening = NoCall /\ frames # <<>>
         /\ frames \in Seq(Frames) /\ Top \in Frames
<1>1. opening = NoCall /\ frames # <<>>
  BY DEF Relay, ReadBeat, ReadLine, ReadDone, ReadEnd, ReadCut, ReadReset, RetryEmpty, Check, End,
         RetryCut, GiveUp, Unwind, Finally, Running
<1> QED BY <1>1, TopType DEF TypeOK, Control

LEMMA RelayHeld == ASSUME TypeOK, Control, Held, Relay PROVE Held'
<1>g. /\ opening = NoCall /\ frames # <<>> /\ frames \in Seq(Frames) /\ Top \in Frames
      /\ open \subseteq (IF Top.pc \in {"failed", "inner"} THEN {} ELSE {Top.id})
  BY RelayGuards DEF Held
<1>p. /\ "closing" \in Pcs /\ "inner" \in Pcs /\ "ending" \in Pcs /\ "checking" \in Pcs
  BY DEF Pcs
<1>1. ASSUME NEW f \in Frames, SetTop(f), f.id = Top.id, opening' = NoCall,
             open' \subseteq (IF f.pc \in {"failed", "inner"} THEN {} ELSE {Top.id})
      PROVE  Held'
  <2>1. frames' # <<>> /\ Top' = f BY <1>1, <1>g, SetTopFacts
  <2> QED BY <1>1, <2>1 DEF Held
<1>2. CASE ReadBeat BY <1>2, <1>g DEF ReadBeat, Held, Top
<1>3. ASSUME NEW kind \in Line, ReadLine(kind) PROVE Held'
  <2> DEFINE f == [Top EXCEPT !.output = @ \/ kind = "text", !.lines = @ + 1,
                              !.pc = IF kind = "finish" THEN "checking" ELSE @]
             g == [f EXCEPT !.held = <<>>]
             k == [f EXCEPT !.held = Append(@, kind)]
  <2>1. SetTop(g) \/ SetTop(k) BY <1>3 DEF ReadLine
  <2>2. frames' # <<>> /\ Top'.id = Top.id /\ Top'.pc \notin {"failed", "inner"}
    <3>1. /\ g.id = Top.id /\ g.pc \notin {"failed", "inner"}
          /\ k.id = Top.id /\ k.pc \notin {"failed", "inner"}
      BY <1>3, <1>g DEF ReadLine, Running, Frames
    <3> HIDE DEF f, g, k
    <3>2. frames' # <<>> /\ (Top' = g \/ Top' = k) BY <1>g, <2>1 DEF SetTop, Top, Last
    <3> QED BY <3>1, <3>2
  <2>3. opening' = NoCall /\ open' \subseteq {Top.id} BY <1>3, <1>g DEF ReadLine
  <2> QED BY <2>2, <2>3 DEF Held
<1>f. \A p \in Pcs : /\ [Top EXCEPT !.pc = p].id = Top.id /\ [Top EXCEPT !.pc = p].pc = p
                   /\ [Top EXCEPT !.done = TRUE, !.pc = p].id = Top.id
                   /\ [Top EXCEPT !.done = TRUE, !.pc = p].pc = p
                   /\ [Top EXCEPT !.error = "empty", !.pc = p].id = Top.id
                   /\ [Top EXCEPT !.error = "empty", !.pc = p].pc = p
  BY <1>g DEF Frames
<1>4. CASE ReadDone
  <2>1. PICK f \in Frames : SetTop(f) /\ f.id = Top.id /\ f.pc \in {"closing", "checking"}
    <3>1. CASE Top.output BY <1>4, <1>g, <1>p, <1>f, <3>1, FrameTypes DEF ReadDone
    <3>2. CASE ~Top.output BY <1>4, <1>g, <1>p, <1>f, <3>2, FrameTypes DEF ReadDone
    <3> QED BY <3>1, <3>2
  <2>2. open' = {} /\ opening' = NoCall BY <1>4, <1>g DEF ReadDone
  <2> QED BY <1>1, <2>1, <2>2
<1>5. CASE ReadEnd \/ Check \/ End \/ GiveUp
  <2>1. PICK f \in Frames : SetTop(f) /\ f.id = Top.id /\ f.pc \in {"checking", "ending", "closing"}
    <3>1. CASE ReadEnd BY <1>g, <1>p, <1>f, <3>1, FrameTypes DEF ReadEnd
    <3>2. CASE Check BY <1>g, <1>p, <1>f, <3>2, FrameTypes DEF Check
    <3>3. CASE End BY <1>g, <1>p, <1>f, <3>3, FrameTypes DEF End
    <3>4. CASE GiveUp BY <1>g, <1>p, <1>f, <3>4, FrameTypes DEF GiveUp
    <3> QED BY <1>5, <3>1, <3>2, <3>3, <3>4
  <2>2. open' = open /\ opening' = NoCall BY <1>5, <1>g DEF ReadEnd, Check, End, GiveUp
  <2> QED BY <1>1, <1>g, <2>1, <2>2
<1>6. CASE ReadCut
  <2>1. Caught(Top) \in Frames /\ Caught(Top).id = Top.id BY <1>g, FrameTypes DEF Caught, Frames
  <2> QED BY <1>1, <1>6, <1>g, <2>1 DEF ReadCut
<1>7. CASE ReadReset
  <2>1. Left(Top) \in Frames /\ Left(Top).id = Top.id /\ Left(Top).pc = "closing"
    BY <1>g, FrameTypes DEF Left, Frames
  <2> QED BY <1>1, <1>7, <1>g, <2>1 DEF ReadReset
<1>8. CASE RetryEmpty
  <2>1. PICK answer \in Responses : /\ Execute(answer, Spend(Top.spent, "empty"), TRUE, 0)
                                    /\ open' = Replace(Top.id, answer)
    BY <1>8 DEF RetryEmpty
  <2>2. open' \subseteq Opened(answer) BY <1>g, <2>1 DEF Replace
  <2> QED BY <2>1, <2>2, ExecuteHeld DEF TypeOK
<1>9. CASE RetryCut
  <2>1. PICK answer \in Responses :
           /\ Execute(answer, Spend(Top.spent, "cut"), TRUE, IF Top.output THEN Top.id ELSE 0)
           /\ open' = open \cup Opened(answer)
    BY <1>9 DEF RetryCut
  <2>2. open' \subseteq Opened(answer) BY <1>9, <1>g, <2>1 DEF RetryCut, Running
  <2> QED BY <2>1, <2>2, ExecuteHeld DEF TypeOK
<1>10. CASE Unwind
  <2>0. opening' = NoCall BY <1>10 DEF Unwind
  <2>1. /\ Caught(Top) \in Frames /\ Caught(Top).id = Top.id
        /\ Left(Top) \in Frames /\ Left(Top).id = Top.id /\ Left(Top).pc = "closing"
    BY <1>g, FrameTypes DEF Caught, Left, Frames
  <2>2. CASE Top.handler
    <3>1. SetTop([Top EXCEPT !.pc = "closing"]) BY <1>10, <2>2 DEF Unwind
    <3>2. open' \subseteq {Top.id} BY <1>10, <1>g, <2>2 DEF Unwind
    <3>3. [Top EXCEPT !.pc = "closing"] \in Frames BY <1>g, <1>p, FrameTypes
    <3> QED BY <1>1, <1>p, <1>f, <2>0, <3>1, <3>2, <3>3
  <2>3. CASE ~Top.handler
    <3>1. SetTop(Caught(Top)) \/ SetTop(Left(Top)) BY <1>10, <2>3 DEF Unwind
    <3>2. open' = {} BY <1>10, <1>g, <2>3 DEF Unwind
    <3> QED BY <1>1, <2>0, <2>1, <3>1, <3>2
  <2> QED BY <2>2, <2>3
<1>11. CASE Finally
  <2>1. open' = {} BY <1>11, <1>g DEF Finally
  <2>2. opening' = NoCall BY <1>11 DEF Finally
  <2> QED BY <2>1, <2>2 DEF Held
<1> QED BY <1>2, <1>3, <1>4, <1>5, <1>6, <1>7, <1>8, <1>9, <1>10, <1>11 DEF Relay

LEMMA HeldHolds == Spec => []Held
<1>1. Init => Held BY DEF Init, Held, NoCall
<1>2. TypeOK /\ Control /\ Held /\ [Next]_vars => Held'
  <2> SUFFICES ASSUME TypeOK, Control, Held, [Next]_vars PROVE Held' OBVIOUS
  <2>1. CASE Leave \/ Over \/ UNCHANGED vars
    BY <2>1 DEF Leave, Over, vars, Held, Top
  <2> QED BY <2>1, ConnectHeld, OpenHeld, RelayHeld DEF Next
<1> QED BY <1>1, <1>2, ControlHolds, PTL DEF Spec

\* A request holds one upstream stream at a time, whatever route it fails over to, and
\* however deep its generators are nested.
THEOREM StreamsOne == Spec => []OneStream
<1>1. TypeOK /\ Control /\ Held => OneStream BY DEF Held, OneStream
<1> QED BY <1>1, ControlHolds, HeldHolds, PTL

-----------------------------------------------------------------------------
(* What the client sees of an attempt *)

\* What a yield adds to the packets the client received.
LEMMA YieldFacts ==
  ASSUME TypeOK, NEW id \in Ids, NEW kinds \in Seq(Packet), Yield(id, kinds)
  PROVE  /\ client # "here" => sent' = sent
         /\ client = "here" =>
              /\ raised' = raised
              /\ Len(sent') = Len(sent) + Len(kinds)
              /\ \A i \in 1..Len(sent) : sent'[i] = sent[i]
              /\ \A i \in 1..Len(kinds) : sent'[Len(sent) + i] = [id |-> id, kind |-> kinds[i]]
<1> DEFINE more == [i \in 1..Len(kinds) |-> [id |-> id, kind |-> kinds[i]]]
<1>1. more \in Seq(Packets) /\ Len(more) = Len(kinds)
  <2>1. \A i \in 1..Len(kinds) : [id |-> id, kind |-> kinds[i]] \in Packets BY DEF Packets
  <2> QED BY <2>1
<1>2. \A i \in 1..Len(kinds) : more[i] = [id |-> id, kind |-> kinds[i]] OBVIOUS
<1>3. client = "here" => sent' = sent \o more /\ raised' = raised BY DEF Yield
<1>4. client # "here" => sent' = sent BY DEF Yield
<1>5. sent \in Seq(Packets) BY DEF TypeOK, Packets
<1> HIDE DEF more
<1>6. /\ Len(sent \o more) = Len(sent) + Len(kinds)
      /\ \A i \in 1..Len(sent) : (sent \o more)[i] = sent[i]
      /\ \A i \in 1..Len(kinds) : (sent \o more)[Len(sent) + i] = more[i]
  BY <1>1, <1>5
<1> QED BY <1>2, <1>3, <1>4, <1>6

TextIn(s, a) == \E j \in 1..Len(s) : s[j].id = a /\ s[j].kind = "text"

\* Every generator that had output sent a line of it to a client that stayed.
Seen ==
  /\ EmptyUnseen
  /\ client = "here" => \A i \in 1..Len(frames) : frames[i].output => TextIn(sent, frames[i].id)

\* Lines of an attempt follow its text, or bring it.
LEMMA YieldSeen ==
  ASSUME TypeOK, EmptyUnseen, NEW id \in Ids, NEW kinds \in Seq(Packet), Yield(id, kinds),
         \A i \in 1..Len(kinds) : kinds[i] \in Line =>
           (client = "here" => TextIn(sent, id)) \/ \E k \in 1..Len(kinds) : kinds[k] = "text"
  PROVE  /\ EmptyUnseen'
         /\ \A a : TextIn(sent, a) => TextIn(sent', a)
         /\ client = "here" => \A k \in 1..Len(kinds) : kinds[k] = "text" => TextIn(sent', id)
<1>1. CASE client # "here" BY <1>1, YieldFacts DEF EmptyUnseen
<1>2. CASE client = "here"
  <2>0. /\ Len(sent) \in Nat /\ Len(kinds) \in Nat
        /\ Len(sent') = Len(sent) + Len(kinds)
        /\ \A i \in 1..Len(sent) : sent'[i] = sent[i]
        /\ \A i \in 1..Len(kinds) : sent'[Len(sent) + i] = [id |-> id, kind |-> kinds[i]]
    BY <1>2, YieldFacts DEF TypeOK
  <2>1. ASSUME NEW a, TextIn(sent, a) PROVE TextIn(sent', a)
    <3>1. PICK j \in 1..Len(sent) : sent[j].id = a /\ sent[j].kind = "text" BY <2>1 DEF TextIn
    <3>2. j \in 1..Len(sent') /\ sent'[j] = sent[j] BY <2>0
    <3> QED BY <3>1, <3>2 DEF TextIn
  <2>2. ASSUME NEW k \in 1..Len(kinds), kinds[k] = "text" PROVE TextIn(sent', id)
    <3>1. Len(sent) + k \in 1..Len(sent') BY <2>0
    <3>2. sent'[Len(sent) + k] = [id |-> id, kind |-> kinds[k]] BY <2>0
    <3>3. sent'[Len(sent) + k].id = id /\ sent'[Len(sent) + k].kind = "text" BY <2>2, <3>2
    <3> QED BY <3>1, <3>3 DEF TextIn
  <2>3. ASSUME NEW i \in 1..Len(sent'), sent'[i].kind \in Line PROVE TextIn(sent', sent'[i].id)
    <3>1. CASE i \in 1..Len(sent)
      <4>1. sent[i].kind \in Line /\ sent'[i].id = sent[i].id BY <2>0, <2>3, <3>1
      <4>2. TextIn(sent, sent[i].id) BY <3>1, <4>1 DEF EmptyUnseen, TextIn
      <4> QED BY <2>1, <4>1, <4>2
    <3>2. CASE i \notin 1..Len(sent)
      <4>1. PICK k \in 1..Len(kinds) : i = Len(sent) + k
        <5>1. i - Len(sent) \in 1..Len(kinds) /\ i = Len(sent) + (i - Len(sent)) BY <2>0, <3>2
        <5> QED BY <5>1
      <4>2. sent'[i] = [id |-> id, kind |-> kinds[k]] BY <2>0, <4>1
      <4>3. sent'[i].id = id /\ kinds[k] \in Line BY <2>3, <4>2
      <4> QED BY <1>2, <2>1, <2>2, <4>3
    <3> QED BY <3>1, <3>2
  <2> QED BY <2>1, <2>2, <2>3 DEF EmptyUnseen, TextIn
<1> QED BY <1>1, <1>2

\* A step that sends this way, and after which the generators with output are those
\* that had some.
LEMMA SeenKept ==
  ASSUME Seen, EmptyUnseen', client' \in {client, "gone"},
         \A a : TextIn(sent, a) => TextIn(sent', a),
         \A i \in 1..Len(frames') : frames'[i].output =>
           \E j \in 1..Len(frames) : frames[j].output /\ frames[j].id = frames'[i].id
  PROVE  Seen'
<1> SUFFICES ASSUME client' = "here", NEW i \in 1..Len(frames'), frames'[i].output
             PROVE  TextIn(sent', frames'[i].id)
  BY DEF Seen
<1>1. PICK j \in 1..Len(frames) : frames[j].output /\ frames[j].id = frames'[i].id OBVIOUS
<1>2. TextIn(sent, frames[j].id) BY <1>1 DEF Seen
<1> QED BY <1>1, <1>2

\* A step that leaves the packets or sends some without text to an attempt that had none.
LEMMA SeenSent ==
  ASSUME TypeOK, Seen, client' \in {client, "gone"},
         \/ sent' = sent
         \/ \E id \in Ids, kinds \in Seq(Packet) :
              /\ Yield(id, kinds)
              /\ \A i \in 1..Len(kinds) : kinds[i] \in Line =>
                   \/ \E j \in 1..Len(frames) : frames[j].output /\ frames[j].id = id
                   \/ \E k \in 1..Len(kinds) : kinds[k] = "text",
         \A i \in 1..Len(frames') : frames'[i].output =>
           \E j \in 1..Len(frames) : frames[j].output /\ frames[j].id = frames'[i].id
  PROVE  Seen'
<1>1. CASE sent' = sent BY <1>1, SeenKept DEF Seen, EmptyUnseen
<1>2. ASSUME NEW id \in Ids, NEW kinds \in Seq(Packet), Yield(id, kinds),
             \A i \in 1..Len(kinds) : kinds[i] \in Line =>
               \/ \E j \in 1..Len(frames) : frames[j].output /\ frames[j].id = id
               \/ \E k \in 1..Len(kinds) : kinds[k] = "text"
      PROVE  Seen'
  <2>1. \A i \in 1..Len(kinds) : kinds[i] \in Line =>
          (client = "here" => TextIn(sent, id)) \/ \E k \in 1..Len(kinds) : kinds[k] = "text"
    BY <1>2 DEF Seen
  <2>2. EmptyUnseen' /\ \A a : TextIn(sent, a) => TextIn(sent', a)
    BY <1>2, <2>1, YieldSeen DEF Seen
  <2> QED BY <2>2, SeenKept
<1> QED BY <1>1, <1>2

LEMMA NoLines ==
  /\ \A i \in 1..Len(<<"beat">>) : <<"beat">>[i] \notin Line
  /\ \A i \in 1..Len(<<"error">>) : <<"error">>[i] \notin Line
  /\ \A i \in 1..Len(<<"done">>) : <<"done">>[i] \notin Line
  /\ \A i \in 1..Len(<<"body">>) : <<"body">>[i] \notin Line
  /\ \A i \in 1..Len(<<"bare">>) : <<"bare">>[i] \notin Line
  /\ \A i \in 1..Len(<<"error", "done">>) : <<"error", "done">>[i] \notin Line
BY DEF Line

LEMMA ConnectSeen == ASSUME TypeOK, Control, Seen, Connect PROVE Seen'
<1>z. 0 \in Ids BY RelayAssumption DEF Ids
<1>1. frames' = frames /\ client' = client
  BY DEF Connect, Start, Publish, Ready, GraceOver, WaitBeat, WaitOver, WaitFailed, WaitExit
<1>2. CASE sent' = sent BY <1>1, <1>2, SeenSent
<1>3. CASE WaitBeat
  <2>1. Yield(0, <<"beat">>) BY <1>3 DEF WaitBeat
  <2> QED BY <1>1, <1>z, <2>1, NoLines, KindsType, SeenSent
<1>4. CASE WaitFailed
  <2>1. Yield(0, <<"error", "done">>) BY <1>4 DEF WaitFailed
  <2> QED BY <1>1, <1>z, <2>1, NoLines, KindsType, SeenSent
<1>5. CASE Ready /\ sent' # sent
  <2>1. frames' = <<>> BY <1>1, <1>5 DEF Ready, Control
  <2>2. \/ sent' = <<[id |-> 0, kind |-> "text"], [id |-> 0, kind |-> "done"]>>
        \/ sent' = <<[id |-> 0, kind |-> "body"]>>
    BY <1>5 DEF Ready
  <2>3. CASE sent' = <<[id |-> 0, kind |-> "body"]>>
    BY <2>1, <2>3 DEF Seen, EmptyUnseen, Line
  <2>4. CASE sent' = <<[id |-> 0, kind |-> "text"], [id |-> 0, kind |-> "done"]>>
    <3>1. Len(sent') = 2 /\ sent'[1] = [id |-> 0, kind |-> "text"]
          /\ sent'[2] = [id |-> 0, kind |-> "done"]
      BY <2>4
    <3>2. EmptyUnseen' BY <3>1 DEF EmptyUnseen, Line
    <3> QED BY <2>1, <3>2 DEF Seen
  <2> QED BY <2>2, <2>3, <2>4
<1> QED BY <1>2, <1>3, <1>4, <1>5
        DEF Connect, Start, Publish, Ready, GraceOver, WaitBeat, WaitOver, WaitFailed, WaitExit

\* The response of a nested call has text of its own, or no line at all.
LEMMA RespondSeen ==
  ASSUME TypeOK, Seen, client' = client, opening.id \in Attempts, NEW ok \in BOOLEAN,
         NEW kinds \in {<<"body">>, <<"text", "done">>}, Respond(kinds, ok)
  PROVE  Seen'
<1> DEFINE bare == IF kinds = <<"body">> THEN <<"bare">> ELSE kinds
<1>i. opening.id \in Ids BY DEF Attempts, Ids
<1>1. /\ bare \in Seq(Packet)
      /\ (\E k \in 1..Len(bare) : bare[k] = "text") \/ \A i \in 1..Len(bare) : bare[i] \notin Line
  <2>1. CASE kinds = <<"body">> BY <2>1, NoLines, KindsType
  <2>2. CASE kinds = <<"text", "done">>
    <3>1. bare = <<"text", "done">> BY <2>2
    <3>2. 1 \in 1..Len(bare) /\ bare[1] = "text" BY <3>1
    <3> QED BY <3>1, <3>2, KindsType
  <2> QED BY <2>1, <2>2
<1>2. CASE frames # <<>>
  <2> DEFINE f == [Top EXCEPT !.pc = IF raised' = "no" THEN "closing" ELSE "inner"]
  <2>1. Yield(opening.id, bare) /\ SetTop(f) BY <1>2 DEF Respond
  <2>2. f \in Frames /\ f.id = Top.id /\ f.output = Top.output
    BY <1>2, TopType DEF Frames, Pcs
  <2>3. frames \in Seq(Frames) /\ Top = frames[Len(frames)] BY <1>2, TopType DEF TypeOK
  <2> HIDE DEF f
  <2>4. \A i \in 1..Len(frames') : frames'[i].id = frames[i].id /\ frames'[i].output = frames[i].output
    BY <1>2, <2>1, <2>2, <2>3 DEF SetTop
  <2>5. Len(frames') = Len(frames) BY <1>2, <2>1, <2>2, <2>3, SetTopFacts
  <2> HIDE DEF bare
  <2> QED BY <1>i, <1>1, <2>1, <2>4, <2>5, SeenSent
<1>3. CASE frames = <<>> /\ wrapped
  <2> DEFINE all == IF ok THEN bare ELSE <<"error", "done">>
  <2>1. Yield(opening.id, all) /\ frames' = frames BY <1>3 DEF Respond
  <2>2. /\ all \in Seq(Packet)
        /\ (\E k \in 1..Len(all) : all[k] = "text") \/ \A i \in 1..Len(all) : all[i] \notin Line
    BY <1>1, NoLines, KindsType
  <2> HIDE DEF all, bare
  <2> QED BY <1>i, <2>1, <2>2, SeenSent
<1>4. CASE frames = <<>> /\ ~wrapped
  <2>1. /\ sent' = [i \in 1..Len(kinds) |-> [id |-> opening.id, kind |-> kinds[i]]]
        /\ frames' = <<>>
    BY <1>4 DEF Respond
  <2>2. /\ Len(sent') = Len(kinds) /\ Len(kinds) \in Nat
        /\ \A i \in 1..Len(kinds) : sent'[i] = [id |-> opening.id, kind |-> kinds[i]]
    BY <2>1, KindsType
  <2>3. (\E k \in 1..Len(kinds) : kinds[k] = "text") \/ \A i \in 1..Len(kinds) : kinds[i] \notin Line
    BY NoLines
  <2>4. ASSUME NEW i \in 1..Len(sent')
        PROVE  sent'[i].id = opening.id /\ sent'[i].kind = kinds[i]
    <3>1. sent'[i] = [id |-> opening.id, kind |-> kinds[i]] BY <2>2
    <3> QED BY <3>1
  <2> HIDE DEF bare
  <2>5. EmptyUnseen' BY <2>2, <2>3, <2>4 DEF EmptyUnseen
  <2> QED BY <2>1, <2>5 DEF Seen
<1> QED BY <1>2, <1>3, <1>4

LEMMA OpenSeen == ASSUME TypeOK, Control, Seen, Open PROVE Seen'
<1>0. opening.id \in Attempts /\ client' = client /\ frames \in Seq(Frames)
  BY OpenGuards
     DEF Open, OpenRefused, OpenBody, RetryBlank, RefuseBlank, RetrySilent, RefuseSilent, OpenBroken,
         OpenStream, TypeOK
<1>1. CASE OpenRefused \/ RefuseBlank \/ RefuseSilent
  BY <1>0, <1>1, RespondSeen DEF OpenRefused, RefuseBlank, RefuseSilent
<1>2. CASE OpenBody
  <2>1. PICK kinds \in {<<"body">>, <<"text", "done">>} : Respond(kinds, TRUE)
    BY <1>2 DEF OpenBody
  <2> QED BY <1>0, <2>1, RespondSeen
<1>3. CASE RetryBlank \/ RetrySilent \/ OpenBroken
  BY <1>0, <1>3, SeenSent DEF RetryBlank, RetrySilent, OpenBroken
<1>4. CASE OpenStream
  <2>1. frames' = Append(frames, NoFrame(opening)) /\ sent' = sent BY <1>4 DEF OpenStream
  <2>2. ~NoFrame(opening).output BY DEF NoFrame
  <2> HIDE DEF NoFrame
  <2>3. \A i \in 1..Len(frames') : frames'[i].output =>
          i \in 1..Len(frames) /\ frames'[i] = frames[i]
    BY <1>0, <2>1, <2>2
  <2> QED BY <1>0, <2>1, <2>3, SeenSent
<1> QED BY <1>1, <1>2, <1>3, <1>4 DEF Open

\* A change of the top frame that keeps its number and what it has sent.
LEMMA TopOutputs ==
  ASSUME TypeOK, frames # <<>>, NEW f \in Frames, SetTop(f), f.id = Top.id, f.output = Top.output
  PROVE  \A i \in 1..Len(frames') : frames'[i].output =>
           \E j \in 1..Len(frames) : frames[j].output /\ frames[j].id = frames'[i].id
<1>1. frames \in Seq(Frames) /\ Top = frames[Len(frames)] BY TopType DEF TypeOK
<1>2. /\ Len(frames') = Len(frames) /\ Len(frames) \in Nat \ {0} /\ Top' = f
      /\ frames'[Len(frames)] = f
      /\ \A i \in 1..(Len(frames) - 1) : frames'[i] = frames[i]
  <2>1. Len(frames) \in Nat \ {0} BY TopType
  <2>2. frames'[Len(frames)] = f BY <1>1, <2>1 DEF SetTop
  <2> QED BY <1>1, <2>1, <2>2, SetTopFacts
<1> TAKE i \in 1..Len(frames')
<1>3. CASE i = Len(frames) BY <1>1, <1>2, <1>3
<1>4. CASE i # Len(frames) BY <1>2, <1>4
<1> QED BY <1>3, <1>4

SameOutput(f, g) == g \in Frames /\ g.id = f.id /\ g.output = f.output

LEMMA FrameFields ==
  ASSUME NEW f \in Frames
  PROVE  /\ \A p \in Pcs : SameOutput(f, [f EXCEPT !.pc = p])
         /\ \A p \in Pcs : SameOutput(f, [f EXCEPT !.done = TRUE, !.pc = p])
         /\ \A p \in Pcs : SameOutput(f, [f EXCEPT !.delegated = TRUE, !.pc = p])
         /\ \A p \in Pcs : SameOutput(f, [f EXCEPT !.error = "empty", !.pc = p])
         /\ \A p \in Pcs : SameOutput(f, [f EXCEPT !.error = "empty", !.delegated = TRUE, !.pc = p])
         /\ SameOutput(f, Caught(f)) /\ SameOutput(f, Left(f))
<1>1. \A p \in Pcs : /\ SameOutput(f, [f EXCEPT !.pc = p])
                     /\ SameOutput(f, [f EXCEPT !.done = TRUE, !.pc = p])
                     /\ SameOutput(f, [f EXCEPT !.delegated = TRUE, !.pc = p])
  <2> TAKE p \in Pcs
  <2> DEFINE g == [f EXCEPT !.pc = p]
             h == [f EXCEPT !.done = TRUE, !.pc = p]
             k == [f EXCEPT !.delegated = TRUE, !.pc = p]
  <2>1. g \in Frames /\ h \in Frames /\ k \in Frames BY FrameTypes
  <2>2. /\ g.id = f.id /\ g.output = f.output /\ h.id = f.id /\ h.output = f.output
        /\ k.id = f.id /\ k.output = f.output
    BY DEF Frames
  <2> QED BY <2>1, <2>2 DEF SameOutput
<1>2. \A p \in Pcs :
         /\ SameOutput(f, [f EXCEPT !.error = "empty", !.pc = p])
         /\ SameOutput(f, [f EXCEPT !.error = "empty", !.delegated = TRUE, !.pc = p])
  <2> TAKE p \in Pcs
  <2> DEFINE g == [f EXCEPT !.error = "empty", !.pc = p]
             h == [f EXCEPT !.error = "empty", !.delegated = TRUE, !.pc = p]
  <2>1. g \in Frames /\ h \in Frames BY FrameTypes
  <2>2. g.id = f.id /\ g.output = f.output /\ h.id = f.id /\ h.output = f.output BY DEF Frames
  <2> QED BY <2>1, <2>2 DEF SameOutput
<1>3. SameOutput(f, Caught(f)) /\ SameOutput(f, Left(f))
  <2>1. /\ Caught(f).id = f.id /\ Caught(f).output = f.output
        /\ Left(f).id = f.id /\ Left(f).output = f.output
    BY DEF Frames, Caught, Left
  <2> QED BY <2>1, FrameTypes DEF SameOutput
<1> QED BY <1>1, <1>2, <1>3

LEMMA LineSeen ==
  ASSUME TypeOK, Seen, frames # <<>>, NEW kind \in Line, ReadLine(kind)
  PROVE  Seen'
<1> DEFINE f == [Top EXCEPT !.output = @ \/ kind = "text", !.lines = @ + 1,
                            !.pc = IF kind = "finish" THEN "checking" ELSE @]
           g == [f EXCEPT !.held = <<>>]
           k == [f EXCEPT !.held = Append(@, kind)]
           kinds == f.held \o <<kind>>
<1>1. frames \in Seq(Frames) /\ Top \in Frames /\ Top = frames[Len(frames)]
      /\ Len(frames) \in Nat \ {0}
  BY TopType DEF TypeOK
<1>2. /\ f.id = Top.id /\ f.held = Top.held /\ f.output = (Top.output \/ kind = "text")
      /\ g.id = f.id /\ g.output = f.output /\ k.id = f.id /\ k.output = f.output
  BY <1>1 DEF Frames
<1>3. f.id \in Ids /\ f.held \in Seq(Line) BY <1>1, <1>2, FrameTypes
<1>4. IF f.output THEN Yield(f.id, kinds) /\ SetTop(g)
                  ELSE SetTop(k) /\ UNCHANGED <<sent, raised>>
  BY DEF ReadLine, Forwards
<1>c. client' = client BY DEF ReadLine
<1> HIDE DEF f, g, k
<1>5. CASE ~f.output
  <2>1. sent' = sent /\ SetTop(k) /\ ~k.output BY <1>2, <1>4, <1>5
  <2>2. \A i \in 1..Len(frames') : frames'[i].output => i \in 1..Len(frames) /\ frames'[i] = frames[i]
    BY <1>1, <2>1 DEF SetTop
  <2> QED BY <1>c, <2>1, <2>2, SeenSent
<1>6. CASE f.output
  <2>1. Yield(f.id, kinds) /\ SetTop(g) BY <1>4, <1>6
  <2>2. /\ kinds \in Seq(Packet) /\ Len(kinds) \in 1..Len(kinds) /\ kinds[Len(kinds)] = kind
    <3>1. f.held \in Seq(Packet) /\ <<kind>> \in Seq(Packet) BY <1>3 DEF Packet
    <3> QED BY <3>1
  <2>3. /\ client = "here" => TextIn(sent, f.id) \/ \E i \in 1..Len(kinds) : kinds[i] = "text"
    <3>1. CASE kind = "text" BY <2>2, <3>1
    <3>2. CASE kind # "text"
      <4>1. frames[Len(frames)].output /\ frames[Len(frames)].id = f.id
        BY <1>1, <1>2, <1>6, <3>2
      <4> QED BY <1>1, <4>1 DEF Seen
    <3> QED BY <3>1, <3>2
  <2> HIDE DEF kinds
  <2>4. /\ EmptyUnseen' /\ \A a : TextIn(sent, a) => TextIn(sent', a)
        /\ client = "here" => \A i \in 1..Len(kinds) : kinds[i] = "text" => TextIn(sent', f.id)
    BY <1>3, <2>1, <2>2, <2>3, YieldSeen DEF Seen
  <2>5. client = "here" => TextIn(sent', f.id) BY <2>3, <2>4
  <2>6. ASSUME NEW i \in 1..Len(frames'), frames'[i].output, client' = "here"
        PROVE  TextIn(sent', frames'[i].id)
    <3>1. /\ Len(frames') = Len(frames) /\ frames'[Len(frames)] = g
          /\ i # Len(frames) => frames'[i] = frames[i]
      BY <1>1, <2>1 DEF SetTop
    <3>2. CASE i = Len(frames) BY <1>2, <1>c, <2>5, <2>6, <3>1, <3>2
    <3>3. CASE i # Len(frames)
      <4>1. TextIn(sent, frames[i].id) BY <1>c, <2>6, <3>1, <3>3 DEF Seen
      <4> QED BY <2>4, <3>1, <3>3, <4>1
    <3> QED BY <3>2, <3>3
  <2> QED BY <2>4, <2>6 DEF Seen
<1> QED BY <1>5, <1>6

\* The top frame after a line was read.
LEMMA LineTop ==
  ASSUME TypeOK, frames # <<>>, NEW kind \in Line, ReadLine(kind)
  PROVE  \E f \in Frames :
           /\ SetTop(f) /\ f.id = Top.id /\ f.error = Top.error /\ f.delegated = Top.delegated
           /\ f.handler = Top.handler /\ f.pc \in {"reading", "checking"}
<1> DEFINE f == [Top EXCEPT !.output = @ \/ kind = "text", !.lines = @ + 1,
                            !.pc = IF kind = "finish" THEN "checking" ELSE @]
           g == [f EXCEPT !.held = <<>>]
           k == [f EXCEPT !.held = Append(@, kind)]
<1>1. frames \in Seq(Frames) /\ Top \in Frames /\ Len(frames) \in 1..Len(frames)
      /\ Top.pc = "reading"
  BY TopType DEF TypeOK, ReadLine, Running
<1>2. \A h \in {g, k} :
         /\ h.id = Top.id /\ h.error = Top.error /\ h.delegated = Top.delegated
         /\ h.handler = Top.handler /\ h.pc \in {"reading", "checking"}
  BY <1>1 DEF Frames
<1>3. SetTop(g) \/ SetTop(k) BY DEF ReadLine
<1> HIDE DEF f, g, k
<1>4. PICK h \in {g, k} : SetTop(h) BY <1>3
<1>5. frames' \in Seq(Frames) BY LineType
<1>6. h = frames'[Len(frames)] /\ Len(frames') = Len(frames) BY <1>1, <1>4 DEF SetTop
<1>7. h \in Frames BY <1>1, <1>5, <1>6
<1> QED BY <1>2, <1>4, <1>7

\* The frames that are left when the top one returned.
LEMMA FinallyFrames ==
  ASSUME TypeOK, Control, Finally
  PROVE  /\ Len(frames') = Len(frames) - 1 /\ Len(frames) \in Nat \ {0}
         /\ \A i \in 1..Len(frames') :
              /\ i \in 1..Len(frames)
              /\ frames'[i].id = frames[i].id /\ frames'[i].output = frames[i].output
<1>g. frames # <<>> /\ frames \in Seq(Frames)
  BY DEF Finally, TypeOK
<1> DEFINE rest == Front(frames)
<1>1. (frames' = Returning(rest) /\ rest # <<>>) \/ frames' = rest BY DEF Finally
<1>2. /\ rest \in Seq(Frames) /\ Len(rest) = Len(frames) - 1
      /\ \A i \in 1..Len(rest) : rest[i] = frames[i]
  BY <1>g, FrontFacts
<1> HIDE DEF rest
<1>3. rest # <<>> => Len(Returning(rest)) = Len(rest) BY <1>2, ReturningFacts
<1>4. ASSUME rest # <<>>, NEW i \in 1..Len(rest)
      PROVE  Returning(rest)[i].id = rest[i].id /\ Returning(rest)[i].output = rest[i].output
  <2>1. CASE i = Len(rest)
    <3>1. Returning(rest)[i] = [rest[i] EXCEPT !.pc = "closing"]
      BY <1>2, <1>4, <2>1, ReturningFacts
    <3>2. rest[i] \in Frames BY <1>2
    <3> QED BY <3>1, <3>2 DEF Frames
  <2>2. CASE i # Len(rest)
    <3>1. i \in 1..(Len(rest) - 1) BY <1>2, <2>2
    <3> QED BY <1>2, <1>4, <3>1, ReturningFacts
  <2> QED BY <2>1, <2>2
<1>5. Len(frames') = Len(rest) /\ Len(rest) \in Nat /\ Len(frames) \in Nat \ {0}
  BY <1>1, <1>2, <1>3, <1>g
<1>6. \A i \in 1..Len(frames') : frames'[i].id = frames[i].id /\ frames'[i].output = frames[i].output
  BY <1>1, <1>2, <1>4, <1>5
<1>7. \A i \in 1..Len(frames') : i \in 1..Len(frames) BY <1>2, <1>5
<1> QED BY <1>2, <1>5, <1>6, <1>7

\* The steps that read no line keep the number and the output of the top frame, unless it
\* returns.
LEMMA RelayTop ==
  ASSUME TypeOK, Control, Relay, ~\E kind \in Line : ReadLine(kind)
  PROVE  \/ frames' = frames
         \/ \E f : SetTop(f) /\ SameOutput(Top, f)
         \/ Finally
<1>g. Top \in Frames BY RelayGuards
<1>p. /\ "closing" \in Pcs /\ "inner" \in Pcs /\ "ending" \in Pcs /\ "checking" \in Pcs
  BY DEF Pcs
<1>1. CASE ReadDone
  <2>1. CASE Top.output BY <1>g, <1>p, <1>1, <2>1, FrameFields DEF ReadDone
  <2>2. CASE ~Top.output BY <1>g, <1>p, <1>1, <2>2, FrameFields DEF ReadDone
  <2> QED BY <2>1, <2>2
<1>2. CASE ReadEnd BY <1>g, <1>p, <1>2, FrameFields DEF ReadEnd
<1>3. CASE Check BY <1>g, <1>p, <1>3, FrameFields DEF Check
<1>4. CASE ReadCut BY <1>g, <1>4, FrameFields DEF ReadCut
<1>5. CASE ReadReset BY <1>g, <1>5, FrameFields DEF ReadReset
<1>6. CASE Unwind BY <1>g, <1>p, <1>6, FrameFields DEF Unwind
<1>7. CASE End BY <1>g, <1>p, <1>7, FrameFields DEF End
<1>8. CASE GiveUp BY <1>g, <1>p, <1>8, FrameFields DEF GiveUp
<1>9. CASE RetryEmpty BY <1>g, <1>p, <1>9, FrameFields DEF RetryEmpty
<1>10. CASE RetryCut BY <1>g, <1>p, <1>10, FrameFields DEF RetryCut
<1>11. CASE ReadBeat BY <1>11 DEF ReadBeat
<1> QED BY <1>1, <1>2, <1>3, <1>4, <1>5, <1>6, <1>7, <1>8, <1>9, <1>10, <1>11 DEF Relay

\* Below the one that returns, every frame keeps its number and its output.
LEMMA RelayOutputs ==
  ASSUME TypeOK, Control, Relay, ~\E kind \in Line : ReadLine(kind)
  PROVE  \A i \in 1..Len(frames') : frames'[i].output =>
           \E j \in 1..Len(frames) : frames[j].output /\ frames[j].id = frames'[i].id
<1>g. frames # <<>> BY RelayGuards
<1>1. CASE Finally BY <1>1, FinallyFrames
<1>2. CASE ~Finally BY <1>2, <1>g, RelayTop, TopOutputs DEF SameOutput
<1> QED BY <1>1, <1>2

\* What a step of a generator sends is its own.
LEMMA RelaySends ==
  ASSUME TypeOK, Control, Relay
  PROVE  sent' = sent \/ \E kinds \in Seq(Packet) : Yield(Top.id, kinds)
<1>g. frames # <<>> /\ Top \in Frames /\ Top.held \in Seq(Line) BY RelayGuards, FrameTypes
<1>1. ASSUME NEW kind \in Line, ReadLine(kind)
      PROVE  sent' = sent \/ \E kinds \in Seq(Packet) : Yield(Top.id, kinds)
  <2> DEFINE f == [Top EXCEPT !.output = @ \/ kind = "text", !.lines = @ + 1,
                              !.pc = IF kind = "finish" THEN "checking" ELSE @]
             kinds == f.held \o <<kind>>
  <2>1. f.id = Top.id /\ f.held = Top.held BY <1>g DEF Frames
  <2>2. Yield(f.id, kinds) \/ sent' = sent BY <1>1 DEF ReadLine
  <2> HIDE DEF f
  <2>3. kinds \in Seq(Packet)
    <3>1. f.held \in Seq(Packet) /\ <<kind>> \in Seq(Packet) BY <1>g, <2>1 DEF Packet
    <3> QED BY <3>1
  <2> QED BY <2>1, <2>2, <2>3
<1>2. CASE ReadBeat \/ ReadDone \/ Check \/ End
  BY <1>2, KindsType DEF ReadBeat, ReadDone, Check, End
<1>3. CASE GiveUp
  <2>1. CASE Top.output BY <1>3, <2>1, KindsType DEF GiveUp
  <2>2. CASE ~Top.output BY <1>3, <2>2, KindsType DEF GiveUp
  <2> QED BY <2>1, <2>2
<1>4. CASE ReadEnd \/ ReadCut \/ ReadReset \/ RetryEmpty \/ RetryCut \/ Unwind \/ Finally
  BY <1>4 DEF ReadEnd, ReadCut, ReadReset, RetryEmpty, RetryCut, Unwind, Finally
<1> QED BY <1>1, <1>2, <1>3, <1>4 DEF Relay

LEMMA RelaySeen == ASSUME TypeOK, Control, Seen, Relay PROVE Seen'
<1>g. /\ frames # <<>> /\ frames \in Seq(Frames) /\ Top \in Frames
      /\ Top.id \in Ids /\ Top = frames[Len(frames)] /\ Len(frames) \in 1..Len(frames)
  <2>1. frames # <<>> /\ frames \in Seq(Frames) /\ Top \in Frames BY RelayGuards
  <2>2. Top.id \in Ids BY <2>1, FrameTypes
  <2> QED BY <2>1, <2>2, TopType
<1>1. CASE \E kind \in Line : ReadLine(kind) BY <1>1, <1>g, LineSeen
<1>2. CASE ~\E kind \in Line : ReadLine(kind)
  <2>1. client' = client
    BY DEF Relay, ReadBeat, ReadLine, ReadDone, ReadEnd, ReadCut, ReadReset, RetryEmpty, Check,
           End, RetryCut, GiveUp, Unwind, Finally
  <2>2. \A i \in 1..Len(frames') : frames'[i].output =>
           \E j \in 1..Len(frames) : frames[j].output /\ frames[j].id = frames'[i].id
    BY <1>2, RelayOutputs
  <2>3. \/ sent' = sent
        \/ \E id \in Ids, kinds \in Seq(Packet) :
              /\ Yield(id, kinds)
              /\ \A i \in 1..Len(kinds) : kinds[i] \in Line =>
                   \/ \E j \in 1..Len(frames) : frames[j].output /\ frames[j].id = id
                   \/ \E k \in 1..Len(kinds) : kinds[k] = "text"
    <3>1. CASE ReadBeat BY <1>g, <3>1, NoLines, KindsType DEF ReadBeat
    <3>2. CASE ReadDone \/ End BY <1>g, <3>2, NoLines, KindsType DEF ReadDone, End
    <3>3. CASE Check BY <1>g, <3>3, NoLines, KindsType DEF Check
    <3>4. CASE GiveUp
      <4>1. CASE Top.output BY <1>g, <3>4, <4>1, KindsType DEF GiveUp
      <4>2. CASE ~Top.output BY <1>g, <3>4, <4>2, NoLines, KindsType DEF GiveUp
      <4> QED BY <4>1, <4>2
    <3>5. CASE ReadEnd \/ ReadCut \/ ReadReset \/ RetryEmpty \/ RetryCut \/ Unwind \/ Finally
      BY <3>5 DEF ReadEnd, ReadCut, ReadReset, RetryEmpty, RetryCut, Unwind, Finally
    <3> QED BY <1>2, <3>1, <3>2, <3>3, <3>4, <3>5 DEF Relay
  <2> QED BY <2>1, <2>2, <2>3, SeenSent
<1> QED BY <1>1, <1>2

\* The client sees lines of an attempt only if the attempt had output, whatever number
\* of empty or cut attempts the request went through.
THEOREM EmptyHeldBack == Spec => []EmptyUnseen
<1>1. Init => Seen BY DEF Init, Seen, EmptyUnseen
<1>2. TypeOK /\ Control /\ Seen /\ [Next]_vars => Seen'
  <2> SUFFICES ASSUME TypeOK, Control, Seen, [Next]_vars PROVE Seen' OBVIOUS
  <2>1. CASE Leave \/ Over \/ UNCHANGED vars
    <3>1. sent' = sent /\ frames' = frames /\ client' \in {client, "gone"}
      BY <2>1 DEF Leave, Over, vars
    <3> QED BY <3>1, SeenSent
  <2> QED BY <2>1, ConnectSeen, OpenSeen, RelaySeen DEF Next
<1>3. Seen => EmptyUnseen BY DEF Seen
<1> QED BY <1>1, <1>2, <1>3, ControlHolds, PTL DEF Spec

-----------------------------------------------------------------------------
(* The end of the stream *)

Enders == {"done", "body", "bare"}
Fresh(s) == s = <<>> \/ Last(s).kind \notin Enders \cup {"error"}

\* Packets that one yield may send: an end comes last, or right after an error.
Proper(kinds) ==
  \A i \in 1..Len(kinds) :
    /\ kinds[i] \in Enders => i = Len(kinds)
    /\ kinds[i] = "error" /\ i < Len(kinds) => kinds[i + 1] = "done"

\* The end, or an error, was sent to a client that stayed only if the request is over,
\* every generator of it is to return, or the end follows the error at once.
Ending ==
  /\ EndsOnce
  /\ client = "here" =>
       \/ Fresh(sent)
       \/ phase = "over"
       \/ /\ frames # <<>> /\ opening = NoCall /\ raised = "no"
          /\ Top.pc = "closing" \/ (Top.pc = "ending" /\ Last(sent).kind = "error")

LEMMA YieldLast ==
  ASSUME TypeOK, NEW id \in Ids, NEW kinds \in Seq(Packet), Yield(id, kinds), kinds # <<>>,
         client = "here"
  PROVE  sent' # <<>> /\ Last(sent') = [id |-> id, kind |-> kinds[Len(kinds)]]
<1>1. /\ Len(sent) \in Nat /\ Len(kinds) \in Nat \ {0}
      /\ Len(sent') = Len(sent) + Len(kinds)
      /\ \A i \in 1..Len(kinds) : sent'[Len(sent) + i] = [id |-> id, kind |-> kinds[i]]
  BY YieldFacts DEF TypeOK
<1>2. sent' \in Seq(Packets) BY YieldType
<1>3. sent'[Len(sent')] = [id |-> id, kind |-> kinds[Len(kinds)]] BY <1>1
<1> QED BY <1>1, <1>2, <1>3 DEF Last

LEMMA YieldEnds ==
  ASSUME TypeOK, EndsOnce, NEW id \in Ids, NEW kinds \in Seq(Packet), Yield(id, kinds),
         Proper(kinds),
         client = "here" =>
           Fresh(sent) \/ (sent # <<>> /\ Last(sent).kind = "error" /\ kinds = <<"done">>)
  PROVE  EndsOnce'
<1>1. CASE client # "here" BY <1>1, YieldFacts DEF EndsOnce
<1>2. CASE client = "here"
  <2>0. /\ Len(sent) \in Nat /\ Len(kinds) \in Nat /\ sent \in Seq(Packets)
        /\ Len(sent') = Len(sent) + Len(kinds)
        /\ \A i \in 1..Len(sent) : sent'[i] = sent[i]
        /\ \A i \in 1..Len(kinds) : sent'[Len(sent) + i] = [id |-> id, kind |-> kinds[i]]
    BY <1>2, YieldFacts DEF TypeOK, Packets
  <2>1. \A i \in 1..Len(kinds) : sent'[Len(sent) + i].kind = kinds[i]
    <3> TAKE i \in 1..Len(kinds)
    <3>1. sent'[Len(sent) + i] = [id |-> id, kind |-> kinds[i]] BY <2>0
    <3> QED BY <3>1
  <2>2. ASSUME NEW i \in 1..Len(sent')
        PROVE  /\ sent'[i].kind \in Enders => i = Len(sent')
               /\ sent'[i].kind = "error" /\ i < Len(sent') => sent'[i + 1].kind = "done"
    <3>1. CASE i > Len(sent)
      <4>1. /\ i - Len(sent) \in 1..Len(kinds) /\ sent'[i].kind = kinds[i - Len(sent)]
            /\ i < Len(sent') => /\ i - Len(sent) < Len(kinds)
                                 /\ sent'[i + 1].kind = kinds[(i - Len(sent)) + 1]
        BY <2>0, <2>1, <3>1
      <4>2. /\ kinds[i - Len(sent)] \in Enders => i - Len(sent) = Len(kinds)
            /\ kinds[i - Len(sent)] = "error" /\ i - Len(sent) < Len(kinds) =>
                 kinds[(i - Len(sent)) + 1] = "done"
        BY <4>1 DEF Proper
      <4> QED BY <2>0, <4>1, <4>2
    <3>2. CASE i < Len(sent)
      <4>1. /\ sent'[i] = sent[i] /\ sent'[i + 1] = sent[i + 1] /\ i \in 1..Len(sent)
        BY <2>0, <3>2
      <4> QED BY <3>2, <4>1 DEF EndsOnce, Enders
    <3>3. CASE i = Len(sent)
      <4>1. sent'[i] = Last(sent) /\ sent # <<>> BY <2>0, <3>3 DEF Last
      <4>2. CASE Len(kinds) = 0 BY <2>0, <3>3, <4>2
      <4>3. CASE Fresh(sent) BY <4>1, <4>3 DEF Fresh
      <4>4. CASE Last(sent).kind = "error" /\ kinds = <<"done">>
        <5>1. sent'[i + 1].kind = kinds[1] /\ kinds[1] = "done" BY <2>1, <3>3, <4>4
        <5> QED BY <4>1, <4>4, <5>1 DEF Enders
      <4> QED BY <1>2, <4>2, <4>3, <4>4
    <3> QED BY <2>0, <3>1, <3>2, <3>3
  <2> QED BY <2>2 DEF EndsOnce, Enders
<1> QED BY <1>1, <1>2

LEMMA ProperKinds ==
  /\ Proper(<<"beat">>) /\ Proper(<<"error">>) /\ Proper(<<"done">>) /\ Proper(<<"body">>)
  /\ Proper(<<"bare">>) /\ Proper(<<"error", "done">>) /\ Proper(<<"text", "done">>)
  /\ Proper(<<"finish", "done">>)
BY DEF Proper, Enders

LEMMA LinesProper ==
  ASSUME NEW kinds \in Seq(Packet), \A i \in 1..Len(kinds) : kinds[i] \in Line
  PROVE  Proper(kinds)
BY DEF Proper, Enders, Line

\* A whole response, sent to an empty or a fresh stream.
LEMMA RespondEnds ==
  ASSUME TypeOK, EndsOnce, opening.id \in Attempts, NEW ok \in BOOLEAN, client = "here" => Fresh(sent),
         NEW kinds \in {<<"body">>, <<"text", "done">>}, Respond(kinds, ok)
  PROVE  EndsOnce'
<1> DEFINE bare == IF kinds = <<"body">> THEN <<"bare">> ELSE kinds
           all == IF ok THEN bare ELSE <<"error", "done">>
<1>i. opening.id \in Ids BY DEF Attempts, Ids
<1>1. /\ bare \in Seq(Packet) /\ Proper(bare) /\ all \in Seq(Packet) /\ Proper(all)
      /\ kinds \in Seq(Packet) /\ Proper(kinds)
  BY KindsType, ProperKinds
<1>2. CASE frames # <<>>
  <2>1. Yield(opening.id, bare) BY <1>2 DEF Respond
  <2> HIDE DEF bare
  <2> QED BY <1>i, <1>1, <2>1, YieldEnds
<1>3. CASE frames = <<>> /\ wrapped
  <2>1. Yield(opening.id, all) BY <1>3 DEF Respond
  <2> HIDE DEF all
  <2> QED BY <1>i, <1>1, <2>1, YieldEnds
<1>4. CASE frames = <<>> /\ ~wrapped
  <2>1. sent' = [i \in 1..Len(kinds) |-> [id |-> opening.id, kind |-> kinds[i]]]
    BY <1>4 DEF Respond
  <2>2. Len(sent') = Len(kinds) /\ Len(kinds) \in Nat BY <1>1, <2>1
  <2>3. ASSUME NEW i \in 1..Len(kinds) PROVE sent'[i].kind = kinds[i]
    <3>1. sent'[i] = [id |-> opening.id, kind |-> kinds[i]] BY <2>1
    <3> QED BY <3>1
  <2> HIDE DEF bare, all
  <2> QED BY <1>1, <2>2, <2>3 DEF EndsOnce, Proper, Enders
<1> QED BY <1>2, <1>3, <1>4

LEMMA ConnectEnds == ASSUME TypeOK, Control, Ending, Connect PROVE Ending'
<1>z. 0 \in Ids /\ client' = client
  <2>1. client' = client
    BY DEF Connect, Start, Publish, Ready, GraceOver, WaitBeat, WaitOver, WaitFailed, WaitExit
  <2> QED BY <2>1, RelayAssumption DEF Ids
<1>1. CASE Start \/ GraceOver \/ WaitOver \/ WaitExit
  <2>1. sent' = sent /\ phase # "over" /\ phase # "relaying"
    BY <1>1 DEF Start, GraceOver, WaitOver, WaitExit
  <2>2. client = "here" => Fresh(sent) BY <2>1 DEF Ending, Control
  <2> QED BY <1>z, <2>1, <2>2 DEF Ending, EndsOnce
<1>2. CASE \E answer \in Answer : Publish(answer)
  <2>1. UNCHANGED <<sent, phase, frames, opening, raised>> BY <1>2 DEF Publish
  <2> QED BY <1>z, <2>1 DEF Ending, EndsOnce, Top
<1>3. CASE Ready
  <2>1. CASE background \in Responses
    <3>1. sent' = sent /\ phase # "over" /\ phase # "relaying" BY <1>3, <2>1 DEF Ready
    <3>2. client = "here" => Fresh(sent) BY <3>1 DEF Ending, Control
    <3> QED BY <1>z, <3>1, <3>2 DEF Ending, EndsOnce
  <2>2. CASE background \notin Responses
    <3>1. \/ sent' = <<[id |-> 0, kind |-> "text"], [id |-> 0, kind |-> "done"]>>
          \/ sent' = <<[id |-> 0, kind |-> "body"]>>
      BY <1>3, <2>2 DEF Ready
    <3>2. ASSUME sent' = <<[id |-> 0, kind |-> "body"]>> PROVE EndsOnce'
      <4>1. Len(sent') = 1 /\ sent'[1].kind = "body" BY <3>2
      <4>2. \A i \in 1..Len(sent') : i = 1 /\ sent'[i].kind = "body" BY <4>1
      <4> QED BY <4>1, <4>2 DEF EndsOnce
    <3>3. ASSUME sent' = <<[id |-> 0, kind |-> "text"], [id |-> 0, kind |-> "done"]>>
          PROVE  EndsOnce'
      <4>1. Len(sent') = 2 /\ sent'[1].kind = "text" /\ sent'[2].kind = "done" BY <3>3
      <4>2. \A i \in 1..Len(sent') : i = 1 \/ i = 2 BY <4>1
      <4>3. \A i \in 1..Len(sent') : sent'[i].kind = "text" \/ (i = 2 /\ sent'[i].kind = "done")
        BY <4>1, <4>2
      <4> QED BY <4>1, <4>3 DEF EndsOnce
    <3>4. phase' = "over" BY <1>3, <2>2 DEF Ready
    <3> QED BY <3>1, <3>2, <3>3, <3>4 DEF Ending, EndsOnce
  <2> QED BY <2>1, <2>2
<1>4. CASE WaitBeat
  <2>1. Yield(0, <<"beat">>) /\ phase = "waiting" BY <1>4 DEF WaitBeat
  <2>2. client = "here" => Fresh(sent) BY <2>1 DEF Ending, Control
  <2>3. EndsOnce' BY <1>z, <2>1, <2>2, KindsType, ProperKinds, YieldEnds DEF Ending
  <2>4. client = "here" => Last(sent') = [id |-> 0, kind |-> "beat"]
    BY <1>z, <2>1, KindsType, YieldLast
  <2> QED BY <1>z, <2>3, <2>4 DEF Ending, Fresh, Enders
<1>5. CASE WaitFailed
  <2>1. Yield(0, <<"error", "done">>) /\ phase = "waiting" /\ phase' = "over"
    BY <1>5 DEF WaitFailed
  <2>2. client = "here" => Fresh(sent) BY <2>1 DEF Ending, Control
  <2>3. EndsOnce' BY <1>z, <2>1, <2>2, KindsType, ProperKinds, YieldEnds DEF Ending
  <2> QED BY <2>1, <2>3 DEF Ending
<1> QED BY <1>1, <1>2, <1>3, <1>4, <1>5 DEF Connect

LEMMA OpenEnds == ASSUME TypeOK, Control, Ending, Open PROVE Ending'
<1>0. /\ opening.id \in Attempts /\ client' = client /\ opening # NoCall /\ phase = "relaying"
      /\ raised = "no" /\ frames \in Seq(Frames)
  BY OpenGuards
     DEF Open, OpenRefused, OpenBody, RetryBlank, RefuseBlank, RetrySilent, RefuseSilent, OpenBroken,
         OpenStream, TypeOK
<1>1. (client = "here" => Fresh(sent)) /\ EndsOnce BY <1>0 DEF Ending
<1>2. ASSUME NEW kinds \in {<<"body">>, <<"text", "done">>}, NEW ok \in BOOLEAN, Respond(kinds, ok)
      PROVE  Ending'
  <2>1. EndsOnce' BY <1>0, <1>1, <1>2, RespondEnds
  <2>2. opening' = NoCall BY <1>2 DEF Respond
  <2>3. CASE frames # <<>>
    <3> DEFINE bare == IF kinds = <<"body">> THEN <<"bare">> ELSE kinds
               f == [Top EXCEPT !.pc = IF raised' = "no" THEN "closing" ELSE "inner"]
    <3>1. Yield(opening.id, bare) /\ SetTop(f) BY <1>2, <2>3 DEF Respond
    <3>2. client = "here" => raised' = "no" BY <1>0, <3>1 DEF Yield
    <3>3. f \in Frames /\ (raised' = "no" => f.pc = "closing")
      BY <2>3, TopType DEF Frames, Pcs
    <3> HIDE DEF bare, f
    <3>4. frames' # <<>> /\ Top' = f BY <1>0, <2>3, <3>1, <3>3, SetTopFacts
    <3> QED BY <1>0, <2>1, <2>2, <3>2, <3>3, <3>4 DEF Ending
  <2>4. CASE frames = <<>>
    <3>1. phase' = "over" BY <1>2, <2>4 DEF Respond
    <3> QED BY <2>1, <3>1 DEF Ending
  <2> QED BY <2>3, <2>4
<1>3. CASE OpenRefused \/ RefuseBlank \/ RefuseSilent
  BY <1>2, <1>3 DEF OpenRefused, RefuseBlank, RefuseSilent
<1>4. CASE OpenBody
  <2>1. PICK kinds \in {<<"body">>, <<"text", "done">>} : Respond(kinds, TRUE)
    BY <1>4 DEF OpenBody
  <2> QED BY <1>2, <2>1
<1>5. CASE RetryBlank \/ RetrySilent \/ OpenBroken \/ OpenStream
  <2>1. sent' = sent BY <1>5 DEF RetryBlank, RetrySilent, OpenBroken, OpenStream
  <2> QED BY <1>0, <1>1, <2>1 DEF Ending, EndsOnce
<1> QED BY <1>3, <1>4, <1>5 DEF Open

LEMMA RelayEnds == ASSUME TypeOK, Control, Ending, Relay PROVE Ending'
<1>g. /\ frames # <<>> /\ frames \in Seq(Frames) /\ Top \in Frames /\ opening = NoCall
      /\ phase = "relaying" /\ EndsOnce
  BY RelayGuards DEF Ending
<1>i. Top.id \in Ids /\ Top.held \in Seq(Line) BY <1>g, FrameTypes
<1>c. client' = client
  BY DEF Relay, ReadBeat, ReadLine, ReadDone, ReadEnd, ReadCut, ReadReset, RetryEmpty, Check,
         End, RetryCut, GiveUp, Unwind, Finally
<1>p. /\ "closing" \in Pcs /\ "ending" \in Pcs BY DEF Pcs
<1>1. client = "here" /\ (raised # "no" \/ Top.pc \notin {"closing", "ending"}) => Fresh(sent)
  BY <1>g DEF Ending
<1>2. ASSUME sent' = sent, client = "here" => Fresh(sent) PROVE Ending'
  BY <1>2, <1>c, <1>g DEF Ending, EndsOnce
\* a yield after which the generator is to return
<1>3. ASSUME NEW kinds \in Seq(Packet), Yield(Top.id, kinds), Proper(kinds),
             client = "here" =>
               Fresh(sent) \/ (sent # <<>> /\ Last(sent).kind = "error" /\ kinds = <<"done">>),
             SetTop([Top EXCEPT !.done = TRUE, !.pc = "closing"]), opening' = NoCall, raised = "no"
      PROVE  Ending'
  <2> DEFINE f == [Top EXCEPT !.done = TRUE, !.pc = "closing"]
  <2>1. EndsOnce' BY <1>3, <1>g, <1>i, YieldEnds
  <2>2. f \in Frames /\ f.pc = "closing" BY <1>g, <1>p, FrameTypes DEF Frames
  <2>3. frames' # <<>> /\ Top' = f BY <1>3, <1>g, <2>2, SetTopFacts
  <2>4. client = "here" => raised' = "no" BY <1>3, <1>g, <1>i, YieldFacts
  <2> QED BY <1>3, <1>c, <2>1, <2>2, <2>3, <2>4 DEF Ending
<1>4. CASE ReadBeat
  <2>1. Yield(Top.id, <<"beat">>) /\ (client = "here" => Fresh(sent))
    BY <1>1, <1>4 DEF ReadBeat, Running
  <2>2. EndsOnce' BY <1>g, <1>i, <2>1, KindsType, ProperKinds, YieldEnds
  <2>3. client = "here" => Last(sent') = [id |-> Top.id, kind |-> "beat"]
    BY <1>i, <2>1, KindsType, YieldLast
  <2> QED BY <1>c, <2>2, <2>3 DEF Ending, Fresh, Enders
<1>5. ASSUME NEW kind \in Line, ReadLine(kind) PROVE Ending'
  <2> DEFINE f == [Top EXCEPT !.output = @ \/ kind = "text", !.lines = @ + 1,
                              !.pc = IF kind = "finish" THEN "checking" ELSE @]
             kinds == f.held \o <<kind>>
  <2>1. client = "here" => Fresh(sent) BY <1>1, <1>5 DEF ReadLine, Running
  <2>2. f.id = Top.id /\ f.held = Top.held BY <1>g DEF Frames
  <2>3. Yield(f.id, kinds) \/ sent' = sent BY <1>5 DEF ReadLine
  <2> HIDE DEF f
  <2>4. /\ kinds \in Seq(Packet) /\ kinds # <<>>
        /\ \A i \in 1..Len(kinds) : kinds[i] \in Line
    <3>1. kinds \in Seq(Line) /\ kinds # <<>> BY <1>i, <2>2
    <3> HIDE DEF kinds
    <3> QED BY <3>1 DEF Packet
  <2> HIDE DEF kinds
  <2>5. CASE Yield(f.id, kinds)
    <3>1. EndsOnce' BY <1>g, <1>i, <2>1, <2>2, <2>4, <2>5, LinesProper, YieldEnds
    <3>2. client = "here" => Last(sent') = [id |-> Top.id, kind |-> kinds[Len(kinds)]]
      BY <1>i, <2>2, <2>4, <2>5, YieldLast
    <3>3. kinds[Len(kinds)] \in Line BY <2>4
    <3>4. client = "here" => Last(sent').kind \in Line BY <3>2, <3>3
    <3> QED BY <1>c, <3>1, <3>4 DEF Ending, Fresh, Enders, Line
  <2> QED BY <1>2, <2>1, <2>3, <2>5
<1>6. CASE ReadDone
  <2>1. CASE Top.output
    BY <1>1, <1>3, <1>6, <1>g, <2>1, KindsType, ProperKinds DEF ReadDone, Running
  <2>2. CASE ~Top.output
    BY <1>1, <1>2, <1>6, <2>2 DEF ReadDone, Running
  <2> QED BY <2>1, <2>2
<1>7. CASE ReadEnd \/ ReadCut \/ ReadReset \/ RetryEmpty \/ RetryCut \/ Unwind
  BY <1>1, <1>2, <1>7 DEF ReadEnd, ReadCut, ReadReset, RetryEmpty, RetryCut, Unwind, Running
<1>8. CASE Check
  <2>0. (client = "here" => Fresh(sent)) /\ raised = "no" BY <1>1, <1>8 DEF Check, Running
  <2>1. CASE Top.output BY <1>2, <1>8, <2>0, <2>1 DEF Check
  <2>2. CASE ~Top.output
    <3> DEFINE f == [Top EXCEPT !.error = "empty", !.pc = "ending"]
    <3>1. Yield(Top.id, <<"error">>) /\ SetTop(f) /\ opening' = NoCall
      BY <1>8, <1>g, <2>2 DEF Check
    <3>2. f \in Frames /\ f.pc = "ending" BY <1>g, <1>p, FrameTypes DEF Frames
    <3>3. frames' # <<>> /\ Top' = f BY <1>g, <3>1, <3>2, SetTopFacts
    <3>4. EndsOnce' BY <1>g, <1>i, <2>0, <3>1, KindsType, ProperKinds, YieldEnds
    <3>5. client = "here" => Last(sent') = [id |-> Top.id, kind |-> "error"] /\ raised' = raised
      BY <1>i, <3>1, KindsType, YieldLast, YieldFacts
    <3> HIDE DEF f
    <3> QED BY <1>c, <2>0, <3>1, <3>2, <3>3, <3>4, <3>5 DEF Ending
  <2> QED BY <2>1, <2>2
<1>9. CASE End
  <2>1. /\ Yield(Top.id, <<"done">>) /\ SetTop([Top EXCEPT !.done = TRUE, !.pc = "closing"])
        /\ raised = "no" /\ opening' = NoCall /\ Top.pc = "ending"
    BY <1>9, <1>g DEF End, Running
  <2>2. client = "here" => Fresh(sent) \/ (sent # <<>> /\ Last(sent).kind = "error")
    BY <1>g, <2>1 DEF Ending, Fresh
  <2> QED BY <1>3, <2>1, <2>2, KindsType, ProperKinds
<1>10. CASE GiveUp
  <2>1. CASE Top.output
    BY <1>1, <1>3, <1>10, <1>g, <2>1, KindsType, ProperKinds DEF GiveUp, Running
  <2>2. CASE ~Top.output
    BY <1>1, <1>3, <1>10, <1>g, <2>2, KindsType, ProperKinds DEF GiveUp, Running
  <2> QED BY <2>1, <2>2
<1>11. CASE Finally
  <2>1. sent' = sent /\ raised' = raised /\ opening' = NoCall BY <1>11 DEF Finally
  <2>2. CASE raised # "no" BY <1>1, <1>2, <2>1, <2>2
  <2>3. CASE raised = "no" /\ Front(frames) = <<>>
    <3>1. phase' = "over" BY <1>11, <2>3 DEF Finally
    <3> QED BY <1>g, <2>1, <3>1 DEF Ending, EndsOnce
  <2>4. CASE raised = "no" /\ Front(frames) # <<>>
    <3>1. frames' = Returning(Front(frames)) BY <1>11, <2>4 DEF Finally
    <3>2. Front(frames) \in Seq(Frames) BY <1>g, FrontFacts
    <3>3. frames' # <<>> /\ Top'.pc = "closing" BY <2>4, <3>1, <3>2, ReturningTop
    <3> QED BY <1>g, <2>1, <2>4, <3>3 DEF Ending, EndsOnce
  <2> QED BY <2>2, <2>3, <2>4
<1> QED BY <1>4, <1>5, <1>6, <1>7, <1>8, <1>9, <1>10, <1>11 DEF Relay

\* However many attempts a request took, its stream ends once.
THEOREM StreamEndsOnce == Spec => []EndsOnce
<1>1. Init => Ending BY DEF Init, Ending, EndsOnce, Fresh
<1>2. TypeOK /\ Control /\ Ending /\ [Next]_vars => Ending'
  <2> SUFFICES ASSUME TypeOK, Control, Ending, [Next]_vars PROVE Ending' OBVIOUS
  <2>1. CASE Leave \/ Over \/ UNCHANGED vars
    <3>1. /\ UNCHANGED <<sent, phase, frames, opening, raised>>
          /\ client' \in {client, "gone"}
      BY <2>1 DEF Leave, Over, vars
    <3> QED BY <3>1 DEF Ending, EndsOnce, Top
  <2> QED BY <2>1, ConnectEnds, OpenEnds, RelayEnds DEF Next
<1>3. Ending => EndsOnce BY DEF Ending
<1> QED BY <1>1, <1>2, <1>3, ControlHolds, PTL DEF Spec

-----------------------------------------------------------------------------
(* The stack *)

\* A generator that delegated its answer failed before, and one that handles an exception
\* was cut.
FrameOK(f) ==
  /\ f.delegated => f.error # "no" /\ f.pc \in {"inner", "closing", "failed"}
  /\ f.handler => f.error = "cut" /\ f.pc \in {"failed", "inner", "closing"}
  /\ f.pc = "failed" => f.error = "cut"
  /\ f.pc = "inner" => f.delegated

\* The generators below the top wait for it, the top waits for a call that has not
\* returned, and an exception other than an exit passes only those.
Stack ==
  /\ \A i \in 1..Len(frames) : FrameOK(frames[i])
  /\ \A i \in 1..(Len(frames) - 1) : frames[i].pc = "inner"
  /\ opening # NoCall /\ frames # <<>> => Top.pc = "inner"
  /\ opening = NoCall /\ frames # <<>> /\ raised = "no" => Top.pc # "inner"
  /\ frames # <<>> /\ raised = "error" =>
       Top.pc \in {"inner", "closing"} /\ (Top.pc = "closing" => Top.handler)

LEMMA StackTop ==
  ASSUME Stack, frames \in Seq(Frames), frames # <<>>, NEW f \in Frames, SetTop(f), FrameOK(f),
         opening' # NoCall => f.pc = "inner",
         opening' = NoCall /\ raised' = "no" => f.pc # "inner",
         raised' = "error" => f.pc \in {"inner", "closing"} /\ (f.pc = "closing" => f.handler)
  PROVE  Stack'
<1>1. /\ Len(frames') = Len(frames) /\ Len(frames) \in Nat \ {0} /\ Top' = f
      /\ \A i \in 1..(Len(frames) - 1) : frames'[i] = frames[i]
  BY SetTopFacts
<1>2. frames'[Len(frames)] = f
  <2>1. Len(frames) \in 1..Len(frames) OBVIOUS
  <2> QED BY <2>1 DEF SetTop
<1>3. \A i \in 1..Len(frames') : FrameOK(frames'[i])
  <2> TAKE i \in 1..Len(frames')
  <2>1. CASE i = Len(frames) BY <1>2, <2>1
  <2>2. CASE i # Len(frames) BY <1>1, <2>2 DEF Stack
  <2> QED BY <2>1, <2>2
<1>4. \A i \in 1..(Len(frames') - 1) : frames'[i].pc = "inner" BY <1>1 DEF Stack
<1> QED BY <1>1, <1>3, <1>4 DEF Stack

LEMMA ConnectEmpty ==
  ASSUME TypeOK, Control, Connect
  PROVE  phase # "relaying" /\ frames = <<>> /\ opening = NoCall /\ frames' = <<>>
<1>1. phase # "relaying" /\ frames' = frames
  BY DEF Control, Connect, Start, Publish, Ready, GraceOver, WaitBeat, WaitOver, WaitFailed, WaitExit
<1> QED BY <1>1 DEF Control

LEMMA StackEmpty == frames = <<>> => Stack
BY DEF Stack

LEMMA StackEmptyNext == frames' = <<>> => Stack'
BY DEF Stack

LEMMA TopFrame ==
  ASSUME TypeOK, Stack, frames # <<>>
  PROVE  FrameOK(Top)
BY TopType DEF Stack

LEMMA OpenStack == ASSUME TypeOK, Control, Stack, Open PROVE Stack'
<1>0. opening # NoCall /\ raised = "no" /\ frames \in Seq(Frames) BY OpenGuards DEF TypeOK
<1>1. ASSUME NEW kinds, NEW ok, Respond(kinds, ok) PROVE Stack'
  <2>1. CASE frames = <<>>
    <3>1. frames' = <<>> BY <1>1, <2>1 DEF Respond
    <3> QED BY <3>1, StackEmptyNext
  <2>2. CASE frames # <<>>
    <3> DEFINE f == [Top EXCEPT !.pc = IF raised' = "no" THEN "closing" ELSE "inner"]
    <3>1. SetTop(f) /\ opening' = NoCall BY <1>1, <2>2 DEF Respond
    <3>2. raised' \in {"no", "exit"} BY <1>0, <1>1, <2>2 DEF Respond, Yield
    <3>3. Top \in Frames /\ Top.pc = "inner" /\ FrameOK(Top)
      BY <1>0, <2>2, TopType, TopFrame DEF Stack
    <3>4. f \in Frames /\ f.pc = (IF raised' = "no" THEN "closing" ELSE "inner") /\ FrameOK(f)
      BY <3>3 DEF FrameOK, Frames, Pcs
    <3> HIDE DEF f
    <3> QED BY <1>0, <2>2, <3>1, <3>2, <3>4, StackTop
  <2> QED BY <2>1, <2>2
<1>2. CASE OpenRefused \/ OpenBody \/ RefuseBlank \/ RefuseSilent
  BY <1>1, <1>2 DEF OpenRefused, OpenBody, RefuseBlank, RefuseSilent
<1>3. CASE RetryBlank \/ RetrySilent
  <2>1. UNCHANGED <<frames, raised>> BY <1>3 DEF RetryBlank, RetrySilent
  <2>2. PICK answer, spent, stream : Execute(answer, spent, stream, 0)
    BY <1>3 DEF RetryBlank, RetrySilent
  <2>3. opening' # NoCall BY <2>2, ExecuteOpens DEF TypeOK
  <2> QED BY <1>0, <2>1, <2>3 DEF Stack, Top
<1>4. CASE OpenBroken
  <2>1. UNCHANGED frames /\ opening' = NoCall /\ raised' \in {"error", "gone"}
    BY <1>4 DEF OpenBroken
  <2> QED BY <1>0, <2>1 DEF Stack, Top
<1>5. CASE OpenStream
  <2> DEFINE f == NoFrame(opening)
  <2>1. frames' = Append(frames, f) /\ opening' = NoCall /\ raised' = raised
    BY <1>5 DEF OpenStream
  <2>2. FrameOK(f) /\ f.pc = "reading" BY DEF FrameOK, NoFrame
  <2> HIDE DEF f
  <2>3. /\ Len(frames') = Len(frames) + 1 /\ Len(frames) \in Nat /\ Top' = f
        /\ frames'[Len(frames) + 1] = f
        /\ \A i \in 1..Len(frames) : frames'[i] = frames[i]
    BY <1>0, <2>1 DEF Top, Last
  <2>4. \A i \in 1..Len(frames) : frames[i].pc = "inner"
    BY <1>0, <2>3 DEF Stack, Top, Last
  <2>5. \A i \in 1..Len(frames') : FrameOK(frames'[i])
    <3> TAKE i \in 1..Len(frames')
    <3>1. CASE i \in 1..Len(frames) BY <2>3, <3>1 DEF Stack
    <3>2. CASE i \notin 1..Len(frames)
      <4>1. i = Len(frames) + 1 BY <2>3, <3>2
      <4> QED BY <2>2, <2>3, <4>1
    <3> QED BY <3>1, <3>2
  <2>6. \A i \in 1..(Len(frames') - 1) : frames'[i].pc = "inner" BY <2>3, <2>4
  <2> QED BY <1>0, <2>1, <2>2, <2>3, <2>5, <2>6 DEF Stack
<1> QED BY <1>2, <1>3, <1>4, <1>5 DEF Open

LEMMA RelayStack == ASSUME TypeOK, Control, Stack, Relay PROVE Stack'
<1>g. /\ frames # <<>> /\ frames \in Seq(Frames) /\ Top \in Frames /\ opening = NoCall
      /\ FrameOK(Top)
  BY RelayGuards, TopFrame
<1>p. /\ "closing" \in Pcs /\ "inner" \in Pcs /\ "ending" \in Pcs /\ "checking" \in Pcs
      /\ "failed" \in Pcs
  BY DEF Pcs
\* a step to a frame that is not waiting, while no exception but an exit is raised
<1>1. ASSUME NEW f \in Frames, SetTop(f), FrameOK(f), opening' = NoCall, f.pc # "inner",
             raised' # "error"
      PROVE  Stack'
  BY <1>1, <1>g, StackTop
<1>e. ASSUME raised = "no", NEW kinds, Yield(Top.id, kinds) PROVE raised' # "error"
  BY <1>e DEF Yield
<1>2. CASE ReadBeat
  <2>1. UNCHANGED <<frames, opening>> /\ raised' # "error" /\ Top.pc = "reading"
    BY <1>2, <1>e DEF ReadBeat, Running
  <2> QED BY <1>g, <2>1 DEF Stack, Top
<1>3. ASSUME NEW kind \in Line, ReadLine(kind) PROVE Stack'
  <2>1. PICK f \in Frames :
           /\ SetTop(f) /\ f.error = Top.error /\ f.delegated = Top.delegated
           /\ f.handler = Top.handler /\ f.pc \in {"reading", "checking"}
    BY <1>3, <1>g, LineTop
  <2>2. Top.pc = "reading" /\ raised = "no" /\ opening' = NoCall
    BY <1>3, <1>g DEF ReadLine, Running
  <2>3. raised' # "error" BY <1>3, <2>2 DEF ReadLine, Yield
  <2>4. FrameOK(f) BY <1>g, <2>1, <2>2 DEF FrameOK
  <2> QED BY <1>1, <2>1, <2>2, <2>3, <2>4
<1>4. CASE ReadDone \/ ReadEnd \/ Check \/ End \/ GiveUp
  <2>1. raised' # "error" /\ opening' = NoCall
    BY <1>4, <1>e, <1>g DEF ReadDone, ReadEnd, Check, End, GiveUp, Running
  <2>2. PICK f \in Frames : SetTop(f) /\ FrameOK(f) /\ f.pc # "inner"
    <3>1. /\ Top.pc \in {"reading", "checking"} =>
               FrameOK([Top EXCEPT !.pc = "checking"]) /\ FrameOK([Top EXCEPT !.pc = "ending"])
               /\ FrameOK([Top EXCEPT !.error = "empty", !.pc = "ending"])
          /\ FrameOK([Top EXCEPT !.done = TRUE, !.pc = "closing"])
      BY <1>g DEF FrameOK, Frames
    <3>2. /\ [Top EXCEPT !.pc = "checking"].pc = "checking"
          /\ [Top EXCEPT !.pc = "ending"].pc = "ending"
          /\ [Top EXCEPT !.error = "empty", !.pc = "ending"].pc = "ending"
          /\ [Top EXCEPT !.done = TRUE, !.pc = "closing"].pc = "closing"
      BY <1>g DEF Frames
    <3>3. CASE ReadDone
      <4>1. CASE Top.output BY <1>g, <1>p, <3>1, <3>2, <3>3, <4>1, FrameTypes DEF ReadDone, Running
      <4>2. CASE ~Top.output BY <1>g, <1>p, <3>1, <3>2, <3>3, <4>2, FrameTypes DEF ReadDone, Running
      <4> QED BY <4>1, <4>2
    <3>4. CASE ReadEnd BY <1>g, <1>p, <3>1, <3>2, <3>4, FrameTypes DEF ReadEnd, Running
    <3>5. CASE Check
      <4>1. CASE Top.output BY <1>g, <1>p, <3>1, <3>2, <3>5, <4>1, FrameTypes DEF Check, Running
      <4>2. CASE ~Top.output BY <1>g, <1>p, <3>1, <3>2, <3>5, <4>2, FrameTypes DEF Check, Running
      <4> QED BY <4>1, <4>2
    <3>6. CASE End BY <1>g, <1>p, <3>1, <3>2, <3>6, FrameTypes DEF End, Running
    <3>7. CASE GiveUp BY <1>g, <1>p, <3>1, <3>2, <3>7, FrameTypes DEF GiveUp, Running
    <3> QED BY <1>4, <3>3, <3>4, <3>5, <3>6, <3>7
  <2> QED BY <1>1, <2>1, <2>2
<1>c. /\ Caught(Top) \in Frames /\ Caught(Top).pc = "failed" /\ FrameOK(Caught(Top))
      /\ Left(Top) \in Frames /\ Left(Top).pc = "closing"
      /\ ~Top.handler => FrameOK(Left(Top))
  <2>1. Caught(Top) \in Frames /\ Left(Top) \in Frames BY <1>g, FrameTypes
  <2> QED BY <1>g, <2>1 DEF Caught, Left, FrameOK, Frames
<1>5. CASE ReadCut
  BY <1>1, <1>5, <1>c, <1>g DEF ReadCut, Running
<1>6. CASE ReadReset
  <2>1. ~Top.handler BY <1>6, <1>g DEF ReadReset, Running, FrameOK
  <2> QED BY <1>1, <1>6, <1>c, <1>g, <2>1 DEF ReadReset
<1>7. CASE RetryEmpty
  <2> DEFINE f == [Top EXCEPT !.error = "empty", !.delegated = TRUE, !.pc = "inner"]
  <2>1. SetTop(f) /\ raised' = "no" /\ opening' # NoCall
    <3>1. PICK answer, spent : Execute(answer, spent, TRUE, 0) BY <1>7 DEF RetryEmpty
    <3>2. opening' # NoCall BY <3>1, ExecuteOpens DEF TypeOK
    <3> QED BY <1>7, <3>2 DEF RetryEmpty, Running
  <2>2. f \in Frames BY <1>g, <1>p, FrameTypes
  <2>3. FrameOK(f) /\ f.pc = "inner" BY <1>7, <1>g DEF RetryEmpty, Running, FrameOK, Frames
  <2> HIDE DEF f
  <2> QED BY <1>g, <2>1, <2>2, <2>3, StackTop
<1>8. CASE RetryCut
  <2> DEFINE f == [Top EXCEPT !.delegated = TRUE, !.pc = "inner"]
  <2>1. SetTop(f) /\ raised' = "no" /\ opening' # NoCall
    <3>1. PICK answer, spent, hint : Execute(answer, spent, TRUE, hint) BY <1>8 DEF RetryCut
    <3>2. opening' # NoCall BY <3>1, ExecuteOpens DEF TypeOK
    <3> QED BY <1>8, <3>2 DEF RetryCut, Running
  <2>2. f \in Frames BY <1>g, <1>p, FrameTypes
  <2>3. FrameOK(f) /\ f.pc = "inner" BY <1>8, <1>g DEF RetryCut, Running, FrameOK, Frames
  <2> HIDE DEF f
  <2> QED BY <1>g, <2>1, <2>2, <2>3, StackTop
<1>9. CASE Unwind
  <2>0. raised # "no" /\ opening' = NoCall BY <1>9 DEF Unwind
  <2>1. CASE Top.handler
    <3> DEFINE f == [Top EXCEPT !.pc = "closing"]
    <3>1. SetTop(f) /\ raised' = raised BY <1>9, <2>1 DEF Unwind
    <3>2. f \in Frames BY <1>g, <1>p, FrameTypes
    <3>3. FrameOK(f) /\ f.pc = "closing" /\ f.handler BY <1>g, <2>1 DEF FrameOK, Frames
    <3> HIDE DEF f
    <3> QED BY <1>g, <2>0, <3>1, <3>2, <3>3, StackTop
  <2>2. CASE ~Top.handler /\ raised \notin Passing
    <3>1. SetTop(Caught(Top)) /\ raised' = "no" BY <1>9, <2>2 DEF Unwind
    <3> QED BY <1>1, <1>c, <2>0, <3>1
  <2>3. CASE ~Top.handler /\ raised \in Passing
    <3>1. SetTop(Left(Top)) /\ raised' = raised BY <1>9, <2>3 DEF Unwind
    <3> QED BY <1>1, <1>c, <2>0, <2>3, <3>1 DEF Passing
  <2> QED BY <2>1, <2>2, <2>3
<1>10. CASE Finally
  <2> DEFINE rest == Front(frames)
  <2>1. /\ rest \in Seq(Frames) /\ Len(rest) = Len(frames) - 1
        /\ \A i \in 1..(Len(frames) - 1) : rest[i] = frames[i]
    BY <1>g, FrontFacts
  <2>2. /\ opening' = NoCall /\ raised' = raised
        /\ frames' = IF rest # <<>> /\ raised = "no" THEN Returning(rest) ELSE rest
    BY <1>10 DEF Finally
  <2> HIDE DEF rest
  <2>3. \A i \in 1..Len(rest) : FrameOK(rest[i]) /\ rest[i].pc = "inner"
    BY <1>g, <2>1 DEF Stack
  <2>4. CASE rest = <<>> BY <2>2, <2>4, StackEmptyNext
  <2>5. CASE rest # <<>> /\ raised # "no"
    <3>1. frames' = rest /\ Top' = rest[Len(rest)] /\ Len(rest) \in Nat \ {0}
      BY <2>1, <2>2, <2>5 DEF Top, Last
    <3> QED BY <2>2, <2>3, <2>5, <3>1 DEF Stack
  <2>6. CASE rest # <<>> /\ raised = "no"
    <3>1. /\ frames' = Returning(rest) /\ Len(frames') = Len(rest) /\ Len(rest) \in Nat \ {0}
          /\ Top'.pc = "closing" /\ frames'[Len(rest)] = [rest[Len(rest)] EXCEPT !.pc = "closing"]
          /\ \A i \in 1..(Len(rest) - 1) : frames'[i] = rest[i]
      BY <2>1, <2>2, <2>6, ReturningFacts, ReturningTop
    <3>2. FrameOK(frames'[Len(rest)])
      <4>1. rest[Len(rest)] \in Frames /\ FrameOK(rest[Len(rest)]) BY <2>1, <2>3, <3>1
      <4> QED BY <3>1, <4>1 DEF FrameOK, Frames
    <3>3. \A i \in 1..Len(frames') : FrameOK(frames'[i])
      <4> TAKE i \in 1..Len(frames')
      <4> QED BY <2>3, <3>1, <3>2
    <3>4. \A i \in 1..(Len(frames') - 1) : frames'[i].pc = "inner" BY <2>3, <3>1
    <3> QED BY <2>2, <2>6, <3>1, <3>3, <3>4 DEF Stack
  <2> QED BY <2>4, <2>5, <2>6
<1> QED BY <1>2, <1>3, <1>4, <1>5, <1>6, <1>7, <1>8, <1>9, <1>10 DEF Relay

LEMMA StackHolds == Spec => []Stack
<1>1. Init => Stack BY StackEmpty DEF Init
<1>2. TypeOK /\ Control /\ Stack /\ [Next]_vars => Stack'
  <2> SUFFICES ASSUME TypeOK, Control, Stack, [Next]_vars PROVE Stack' OBVIOUS
  <2>1. CASE Leave \/ Over \/ UNCHANGED vars
    BY <2>1 DEF Leave, Over, vars, Stack, Top
  <2>2. CASE Connect BY <2>2, ConnectEmpty, StackEmptyNext
  <2> QED BY <2>1, <2>2, OpenStack, RelayStack DEF Next
<1> QED BY <1>1, <1>2, ControlHolds, PTL DEF Spec

-----------------------------------------------------------------------------
(* Numbers of attempts *)

\* Nothing names an attempt that was not made.
Bounds ==
  /\ \A b \in Attempts : told[b] <= tried
  /\ stored <= tried /\ opening.id <= tried
  /\ \A i \in 1..Len(sent) : sent[i].id <= tried
  /\ \A i \in 1..Len(frames) : frames[i].id <= tried

\* Before its answer is relayed, a request has sent heartbeats only.
Waiting ==
  phase \in {"idle", "connecting", "waiting"} =>
    /\ stored = 0 /\ cached = {} /\ record.finished = <<>>
    /\ \A b \in Attempts : told[b] = 0
    /\ \A i \in 1..Len(sent) : sent[i].id = 0
    /\ tried = IF background \in Responses THEN 1 ELSE 0

\* A packet the client has after a yield is an old one or one of those yielded.
LEMMA YieldAdds ==
  ASSUME TypeOK, NEW id \in Ids, NEW kinds \in Seq(Packet), Yield(id, kinds),
         NEW i \in 1..Len(sent')
  PROVE  \/ \E j \in 1..Len(sent) : sent'[i] = sent[j]
         \/ \E k \in 1..Len(kinds) : sent'[i] = [id |-> id, kind |-> kinds[k]]
<1>1. CASE client # "here"
  <2>1. sent' = sent BY <1>1, YieldFacts
  <2>2. i \in 1..Len(sent) /\ sent'[i] = sent[i] BY <2>1
  <2> QED BY <2>2
<1>2. CASE client = "here"
  <2>0. /\ Len(sent) \in Nat /\ Len(kinds) \in Nat
        /\ Len(sent') = Len(sent) + Len(kinds)
        /\ \A j \in 1..Len(sent) : sent'[j] = sent[j]
        /\ \A k \in 1..Len(kinds) : sent'[Len(sent) + k] = [id |-> id, kind |-> kinds[k]]
    BY <1>2, YieldFacts DEF TypeOK
  <2>1. CASE i \in 1..Len(sent) BY <2>0, <2>1
  <2>2. CASE i \notin 1..Len(sent)
    <3>1. i - Len(sent) \in 1..Len(kinds) /\ i = Len(sent) + (i - Len(sent)) BY <2>0, <2>2
    <3> QED BY <2>0, <3>1
  <2> QED BY <2>1, <2>2
<1> QED BY <1>1, <1>2

LEMMA YieldBound ==
  ASSUME TypeOK, NEW n \in Nat, NEW id \in Ids, NEW kinds \in Seq(Packet), Yield(id, kinds), id <= n,
         \A i \in 1..Len(sent) : sent[i].id <= n
  PROVE  \A i \in 1..Len(sent') : sent'[i].id <= n
<1> TAKE i \in 1..Len(sent')
<1>1. CASE \E j \in 1..Len(sent) : sent'[i] = sent[j] BY <1>1
<1>2. ASSUME NEW k \in 1..Len(kinds), sent'[i] = [id |-> id, kind |-> kinds[k]]
      PROVE  sent'[i].id <= n
  <2>1. sent'[i].id = id BY <1>2
  <2> QED BY <2>1
<1> QED BY <1>1, <1>2, YieldAdds

LEMMA ExecuteBounds ==
  ASSUME TypeOK, Bounds, NEW answer, NEW spent, NEW stream, NEW hint \in Ids, hint <= tried,
         Execute(answer, spent, stream, hint)
  PROVE  /\ tried \in Nat /\ tried' = tried + 1 /\ opening'.id = tried + 1
         /\ \A b \in Attempts : told'[b] <= tried
<1>1. tried' = tried + 1 /\ opening'.id = tried + 1 /\ tried \in Nat
      /\ told' = [told EXCEPT ![tried + 1] = IF hint # 0 THEN hint ELSE stored]
  BY DEF Execute, TypeOK, Ids
<1>2. ASSUME NEW b \in Attempts PROVE told'[b] <= tried
  <2>1. told[b] <= tried /\ stored <= tried BY DEF Bounds
  <2>2. told'[b] = told[b] \/ told'[b] = hint \/ told'[b] = stored BY <1>1 DEF TypeOK
  <2> QED BY <2>1, <2>2
<1> QED BY <1>1, <1>2

LEMMA SentIds ==
  ASSUME TypeOK, NEW i \in 1..Len(sent)
  PROVE  sent[i] \in Packets /\ sent[i].id \in Nat
<1>1. sent \in Seq(Packets) BY DEF TypeOK, Packets
<1>2. sent[i] \in Packets BY <1>1
<1> QED BY <1>2 DEF Packets, Ids

\* One more attempt leaves the numbers below it.
LEMMA GrownBounds ==
  ASSUME TypeOK, TypeOK', Bounds, tried' = tried + 1, opening'.id <= tried', stored' = stored,
         sent' = sent, \A b \in Attempts : told'[b] <= tried,
         \A i \in 1..Len(frames') : frames'[i].id <= tried
  PROVE  Bounds'
<1>1. tried \in Nat /\ stored \in Nat BY DEF TypeOK, Ids
<1>2. \A b \in Attempts : told'[b] <= tried'
  <2> TAKE b \in Attempts
  <2>1. told'[b] \in Nat BY DEF TypeOK, Ids
  <2> QED BY <1>1, <2>1
<1>3. \A i \in 1..Len(sent') : sent'[i].id <= tried'
  <2> TAKE i \in 1..Len(sent')
  <2>1. sent[i].id \in Nat /\ sent[i].id <= tried BY SentIds DEF Bounds
  <2> QED BY <1>1, <2>1
<1>4. \A i \in 1..Len(frames') : frames'[i].id <= tried'
  <2> TAKE i \in 1..Len(frames')
  <2>1. frames' \in Seq(Frames) BY DEF TypeOK
  <2>2. frames'[i] \in Frames BY <2>1
  <2>3. frames'[i].id \in Nat BY <2>2 DEF Frames, Attempts
  <2> QED BY <1>1, <2>3
<1>5. stored' <= tried' BY <1>1 DEF Bounds
<1> QED BY <1>2, <1>3, <1>4, <1>5 DEF Bounds

LEMMA ConnectBounds ==
  ASSUME TypeOK, TypeOK', Control, Bounds, Waiting, Connect
  PROVE  Bounds' /\ Waiting'
<1>0. frames' = <<>> /\ opening = NoCall /\ NoCall.id = 0 /\ 0 \in Ids /\ tried \in Nat
      /\ phase # "relaying"
  <2>1. 0 \in Ids /\ tried \in Nat BY RelayAssumption DEF Ids, TypeOK
  <2> QED BY <2>1, ConnectEmpty, UnspentType
<1>1. CASE Start BY <1>0, <1>1 DEF Start, Bounds, Waiting, Control, Responses
<1>2. ASSUME NEW answer \in Answer, Publish(answer) PROVE Bounds' /\ Waiting'
  <2>1. UNCHANGED <<told, stored, opening, sent, frames, phase, cached, record>> BY <1>2 DEF Publish
  <2>2. tried = 0 /\ tried' \in Nat /\ background' = answer
        /\ tried' = IF answer \in Responses THEN 1 ELSE 0
    BY <1>2 DEF Publish, Control, Early
  <2>3. \A b \in Attempts : told[b] \in Nat /\ stored \in Nat BY DEF TypeOK, Ids
  <2>4. \A i \in 1..Len(sent) : sent[i].id <= tried'
    <3> TAKE i \in 1..Len(sent)
    <3>1. sent[i].id \in Nat /\ sent[i].id <= tried BY SentIds DEF Bounds
    <3> QED BY <2>2, <3>1
  <2>a. \A b \in Attempts : told[b] <= tried'
    <3> TAKE b \in Attempts
    <3>1. told[b] \in Nat /\ told[b] <= tried BY <2>3 DEF Bounds
    <3> QED BY <2>2, <3>1
  <2>b. stored <= tried' /\ opening.id = 0
    <3>1. stored \in Nat /\ stored <= tried BY DEF TypeOK, Ids, Bounds
    <3> QED BY <1>0, <2>2, <3>1
  <2>5. Bounds' BY <1>0, <2>1, <2>2, <2>4, <2>a, <2>b DEF Bounds
  <2>6. Waiting' BY <2>1, <2>2 DEF Waiting
  <2> QED BY <2>5, <2>6
<1>3. CASE Ready
  <2>1. Waiting' BY <1>3 DEF Ready, Waiting
  <2>2. CASE background \in Responses
    <3>1. /\ opening' = FirstCall /\ tried = 1
          /\ UNCHANGED <<told, stored, sent, tried>>
      BY <1>3, <2>2 DEF Ready, Waiting
    <3>2. opening'.id = 1 BY <3>1 DEF FirstCall, NoCall
    <3> QED BY <1>0, <2>1, <3>1, <3>2 DEF Bounds
  <2>3. CASE background \notin Responses
    <3>1. /\ opening' = opening /\ UNCHANGED <<told, stored, tried>>
          /\ \/ sent' = <<[id |-> 0, kind |-> "text"], [id |-> 0, kind |-> "done"]>>
             \/ sent' = <<[id |-> 0, kind |-> "body"]>>
      BY <1>3, <2>3 DEF Ready
    <3>2. \A i \in 1..Len(sent') : sent'[i].id = 0
      <4>1. CASE sent' = <<[id |-> 0, kind |-> "body"]>> BY <4>1
      <4>2. CASE sent' = <<[id |-> 0, kind |-> "text"], [id |-> 0, kind |-> "done"]>>
        <5>1. Len(sent') = 2 /\ sent'[1].id = 0 /\ sent'[2].id = 0 BY <4>2
        <5>2. \A i \in 1..Len(sent') : i = 1 \/ i = 2 BY <5>1
        <5> QED BY <5>1, <5>2
      <4> QED BY <3>1, <4>1, <4>2
    <3> QED BY <1>0, <2>1, <3>1, <3>2 DEF Bounds
  <2> QED BY <2>2, <2>3
<1>4. CASE GraceOver
  <2>1. record'.finished = record.finished BY <1>4 DEF GraceOver, TypeOK
  <2> QED BY <1>0, <1>4, <2>1 DEF GraceOver, Bounds, Waiting
<1>5. CASE WaitBeat
  <2>1. Yield(0, <<"beat">>) BY <1>5 DEF WaitBeat
  <2>2. \A i \in 1..Len(sent') : sent'[i].id <= 0
    <3>1. \A i \in 1..Len(sent) : sent[i].id <= 0 BY <1>5 DEF WaitBeat, Waiting
    <3>2. <<"beat">> \in Seq(Packet) /\ 0 \in Nat /\ 0 <= 0 BY KindsType
    <3> HIDE DEF Ids
    <3> QED BY <1>0, <2>1, <3>1, <3>2, YieldBound
  <2>3. \A i \in 1..Len(sent') : sent'[i].id \in Nat
    <3>1. sent' \in Seq(Packets) BY <1>0, <2>1, KindsType, YieldType
    <3>2. \A i \in 1..Len(sent') : sent'[i] \in Packets BY <3>1
    <3> QED BY <3>2 DEF Packets, Ids
  <2>4. \A i \in 1..Len(sent') : sent'[i].id = 0 BY <2>2, <2>3
  <2> QED BY <1>0, <1>5, <2>4 DEF WaitBeat, Bounds, Waiting
<1>6. CASE WaitOver
  <2>0. Waiting' /\ UNCHANGED <<stored, sent>> BY <1>6 DEF WaitOver, Waiting
  <2>1. CASE background \in Responses /\ opening' = FirstCall /\ UNCHANGED <<tried, told>>
    <3>1. tried = 1 BY <1>6, <2>1 DEF WaitOver, Waiting
    <3>2. opening'.id = 1 BY <2>1 DEF FirstCall, NoCall
    <3> QED BY <1>0, <2>0, <2>1, <3>1, <3>2 DEF Bounds
  <2>2. ASSUME NEW answer, NEW spent, Execute(answer, spent, TRUE, 0) PROVE Bounds'
    <3>0. 0 <= tried BY <1>0
    <3>1. /\ tried' = tried + 1 /\ opening'.id = tried + 1
          /\ \A b \in Attempts : told'[b] <= tried
      BY <1>0, <2>2, <3>0, ExecuteBounds
    <3> QED BY <1>0, <2>0, <3>1, GrownBounds
  <2>3. background \in Responses \ {"refused"} => background \in Responses OBVIOUS
  <2> QED BY <1>6, <2>0, <2>1, <2>2, <2>3 DEF WaitOver
<1>7. CASE WaitFailed
  <2>1. Yield(0, <<"error", "done">>) BY <1>7 DEF WaitFailed
  <2>2. \A i \in 1..Len(sent') : sent'[i].id <= tried
    BY <1>0, <2>1, KindsType, YieldBound DEF Bounds
  <2> QED BY <1>0, <1>7, <2>2 DEF WaitFailed, Bounds, Waiting
<1>8. CASE WaitExit BY <1>0, <1>8 DEF WaitExit, Bounds, Waiting
<1> QED BY <1>1, <1>2, <1>3, <1>4, <1>5, <1>6, <1>7, <1>8 DEF Connect

LEMMA TopBound ==
  ASSUME Bounds, frames \in Seq(Frames), frames # <<>>, NEW f \in Frames, SetTop(f), f.id = Top.id
  PROVE  \A i \in 1..Len(frames') : frames'[i].id <= tried
<1>1. /\ Len(frames') = Len(frames) /\ Len(frames) \in Nat \ {0}
      /\ \A i \in 1..(Len(frames) - 1) : frames'[i] = frames[i]
  BY SetTopFacts
<1>2. Len(frames) \in 1..Len(frames) /\ Top = frames[Len(frames)] BY <1>1 DEF Top, Last
<1>3. frames'[Len(frames)] = f BY <1>2 DEF SetTop
<1> TAKE i \in 1..Len(frames')
<1>4. CASE i = Len(frames) BY <1>2, <1>3, <1>4 DEF Bounds
<1>5. CASE i # Len(frames) BY <1>1, <1>5 DEF Bounds
<1> QED BY <1>4, <1>5

LEMMA OpenBounds ==
  ASSUME TypeOK, TypeOK', Control, Bounds, Waiting, Open
  PROVE  Bounds' /\ Waiting'
<1>0. /\ phase = "relaying" /\ opening.id \in Ids /\ opening.id <= tried /\ NoCall.id = 0
      /\ 0 \in Ids /\ 0 <= tried /\ tried \in Nat /\ frames \in Seq(Frames) /\ opening.id \in Nat
  <2>1. opening.id \in Attempts /\ phase = "relaying" /\ frames \in Seq(Frames)
    BY OpenGuards DEF TypeOK
  <2>2. 0 \in Ids /\ tried \in Nat /\ opening.id \in Ids /\ opening.id \in Nat
    BY <2>1, RelayAssumption DEF Ids, TypeOK, Attempts
  <2> QED BY <2>1, <2>2, UnspentType DEF Bounds
<1>w. Waiting'
  <2>1. phase' \in {"relaying", "over"}
    BY <1>0 DEF Open, OpenRefused, OpenBody, RetryBlank, RefuseBlank, RetrySilent, RefuseSilent,
                OpenBroken, OpenStream, Respond
  <2> QED BY <2>1 DEF Waiting
<1>1. ASSUME NEW kinds \in {<<"body">>, <<"text", "done">>}, NEW ok \in BOOLEAN, Respond(kinds, ok),
             UNCHANGED <<told, tried>>, stored' \in {0, stored}
      PROVE  Bounds'
  <2> DEFINE bare == IF kinds = <<"body">> THEN <<"bare">> ELSE kinds
             all == IF ok THEN bare ELSE <<"error", "done">>
  <2>0. bare \in Seq(Packet) /\ all \in Seq(Packet) BY KindsType
  <2>1. \A i \in 1..Len(sent') : sent'[i].id <= tried
    <3>1. CASE frames # <<>> \/ wrapped
      <4>1. Yield(opening.id, bare) \/ Yield(opening.id, all) BY <1>1, <3>1 DEF Respond
      <4> HIDE DEF bare, all
      <4>2. CASE Yield(opening.id, bare) BY <1>0, <2>0, <4>2, YieldBound DEF Bounds
      <4>3. CASE Yield(opening.id, all) BY <1>0, <2>0, <4>3, YieldBound DEF Bounds
      <4> QED BY <4>1, <4>2, <4>3
    <3>2. CASE frames = <<>> /\ ~wrapped
      <4>1. sent' = [i \in 1..Len(kinds) |-> [id |-> opening.id, kind |-> kinds[i]]]
        BY <1>1, <3>2 DEF Respond
      <4>2. Len(sent') = Len(kinds) /\ Len(kinds) \in Nat BY <4>1, KindsType
      <4> TAKE i \in 1..Len(sent')
      <4>3. sent'[i] = [id |-> opening.id, kind |-> kinds[i]] BY <4>1, <4>2
      <4>4. sent'[i].id = opening.id BY <4>3
      <4> QED BY <1>0, <4>4
    <3> QED BY <3>1, <3>2
  <2>2. \A i \in 1..Len(frames') : frames'[i].id <= tried
    <3>1. CASE frames = <<>>
      <4>1. frames' = <<>> BY <1>1, <3>1 DEF Respond
      <4> QED BY <4>1
    <3>2. CASE frames # <<>>
      <4> DEFINE f == [Top EXCEPT !.pc = IF raised' = "no" THEN "closing" ELSE "inner"]
      <4>1. SetTop(f) BY <1>1, <3>2 DEF Respond
      <4>2. f \in Frames /\ f.id = Top.id BY <3>2, TopType DEF Frames, Pcs
      <4> HIDE DEF f
      <4> QED BY <1>0, <3>2, <4>1, <4>2, TopBound
    <3> QED BY <3>1, <3>2
  <2>3. opening' = NoCall BY <1>1 DEF Respond
  <2>4. stored' <= tried BY <1>0, <1>1 DEF Bounds
  <2> HIDE DEF bare, all
  <2> QED BY <1>0, <1>1, <2>1, <2>2, <2>3, <2>4 DEF Bounds
<1>2. CASE OpenRefused \/ RefuseBlank \/ RefuseSilent
  BY <1>1, <1>2, <1>w DEF OpenRefused, RefuseBlank, RefuseSilent
<1>3. CASE OpenBody
  <2>1. PICK kinds \in {<<"body">>, <<"text", "done">>} : Respond(kinds, TRUE)
    BY <1>3 DEF OpenBody
  <2>2. UNCHANGED <<told, tried>> /\ stored' \in {0, stored} BY <1>3 DEF OpenBody
  <2> QED BY <1>1, <1>w, <2>1, <2>2
<1>4. CASE RetryBlank \/ RetrySilent
  <2>1. PICK answer, spent, stream : Execute(answer, spent, stream, 0)
    BY <1>4 DEF RetryBlank, RetrySilent
  <2>2. UNCHANGED <<stored, sent, frames>> BY <1>4 DEF RetryBlank, RetrySilent
  <2>3. /\ tried' = tried + 1 /\ opening'.id = tried + 1
        /\ \A b \in Attempts : told'[b] <= tried
    BY <1>0, <2>1, ExecuteBounds
  <2>4. \A i \in 1..Len(frames') : frames'[i].id <= tried BY <2>2 DEF Bounds
  <2> QED BY <1>0, <1>w, <2>2, <2>3, <2>4, GrownBounds
<1>5. CASE OpenBroken
  <2>1. UNCHANGED <<told, tried, stored, sent, frames>> /\ opening' = NoCall
    BY <1>5 DEF OpenBroken
  <2> QED BY <1>0, <1>w, <2>1 DEF Bounds
<1>6. CASE OpenStream
  <2>1. /\ UNCHANGED <<told, tried, stored, sent>> /\ opening' = NoCall
        /\ frames' = Append(frames, NoFrame(opening))
    BY <1>6 DEF OpenStream
  <2>2. NoFrame(opening).id = opening.id BY DEF NoFrame
  <2> HIDE DEF NoFrame
  <2>3. \A i \in 1..Len(frames') : frames'[i].id <= tried
    <3> TAKE i \in 1..Len(frames')
    <3>1. frames'[i] = NoFrame(opening) \/ (i \in 1..Len(frames) /\ frames'[i] = frames[i])
      BY <1>0, <2>1
    <3> QED BY <1>0, <2>2, <3>1 DEF Bounds
  <2> QED BY <1>0, <1>w, <2>1, <2>3 DEF Bounds
<1> QED BY <1>2, <1>3, <1>4, <1>5, <1>6 DEF Open

LEMMA RelayBounds ==
  ASSUME TypeOK, TypeOK', Control, Bounds, Waiting, Relay
  PROVE  Bounds' /\ Waiting'
<1>g. /\ frames # <<>> /\ frames \in Seq(Frames) /\ Top \in Frames /\ opening = NoCall
      /\ phase = "relaying" /\ Top.id \in Ids /\ Top.id <= tried /\ tried \in Nat /\ Top.id \in Nat
      /\ 0 \in Ids /\ 0 <= tried /\ NoCall.id = 0
  <2>1. /\ frames # <<>> /\ frames \in Seq(Frames) /\ Top \in Frames /\ opening = NoCall
        /\ phase = "relaying" /\ Top = frames[Len(frames)] /\ Len(frames) \in 1..Len(frames)
    BY RelayGuards, TopType
  <2>2. Top.id \in Ids /\ Top.id \in Nat
    <3>1. Top.id \in Ids BY <2>1, FrameTypes
    <3> QED BY <3>1 DEF Ids
  <2>3. Top.id <= tried BY <2>1 DEF Bounds
  <2>4. 0 \in Ids /\ tried \in Nat BY RelayAssumption DEF TypeOK, Ids
  <2> QED BY <2>1, <2>2, <2>3, <2>4, UnspentType
<1>w. Waiting'
  <2>1. phase' \in {"relaying", "over"}
    BY <1>g DEF Relay, ReadBeat, ReadLine, ReadDone, ReadEnd, ReadCut, ReadReset, RetryEmpty,
                Check, End, RetryCut, GiveUp, Unwind, Finally
  <2> QED BY <2>1 DEF Waiting
<1>f. \A i \in 1..Len(frames') : frames'[i].id <= tried
  <2>1. CASE \E kind \in Line : ReadLine(kind)
    <3>1. PICK kind \in Line : ReadLine(kind) BY <2>1
    <3>2. PICK f \in Frames : SetTop(f) /\ f.id = Top.id BY <1>g, <3>1, LineTop
    <3> QED BY <1>g, <3>2, TopBound
  <2>2. CASE ~\E kind \in Line : ReadLine(kind)
    <3>1. \/ frames' = frames
          \/ \E f : SetTop(f) /\ SameOutput(Top, f)
          \/ Finally
      BY <2>2, RelayTop
    <3>2. CASE frames' = frames BY <3>2 DEF Bounds
    <3>3. ASSUME NEW f, SetTop(f), SameOutput(Top, f)
          PROVE  \A i \in 1..Len(frames') : frames'[i].id <= tried
      BY <1>g, <3>3, TopBound DEF SameOutput
    <3>4. CASE Finally BY <3>4, FinallyFrames DEF Bounds
    <3> QED BY <3>1, <3>2, <3>3, <3>4
  <2> QED BY <2>1, <2>2
<1>s. ASSUME NEW kinds \in Seq(Packet), Yield(Top.id, kinds)
      PROVE  \A i \in 1..Len(sent') : sent'[i].id <= tried
  BY <1>g, <1>s, YieldBound DEF Bounds
<1>x. ASSUME NEW answer, NEW spent, NEW hint \in {0, Top.id}, Execute(answer, spent, TRUE, hint),
             UNCHANGED <<sent, stored>>
      PROVE  Bounds'
  <2>1. /\ tried' = tried + 1 /\ opening'.id = tried + 1
        /\ \A b \in Attempts : told'[b] <= tried
    BY <1>g, <1>x, ExecuteBounds
  <2> QED BY <1>g, <1>f, <1>x, <2>1, GrownBounds
<1>1. CASE RetryEmpty BY <1>x, <1>w, <1>1 DEF RetryEmpty
<1>2. CASE RetryCut BY <1>x, <1>w, <1>2 DEF RetryCut
<1>3. CASE ~RetryEmpty /\ ~RetryCut
  <2>1. UNCHANGED <<tried, told>> /\ opening' = NoCall /\ stored' \in {0, Top.id, stored}
    BY <1>3, <1>g DEF Relay, ReadBeat, ReadLine, ReadDone, ReadEnd, ReadCut, ReadReset,
                Check, End, GiveUp, Unwind, Finally, Save
  <2>2. \A i \in 1..Len(sent') : sent'[i].id <= tried
    <3>1. sent' = sent \/ \E kinds \in Seq(Packet) : Yield(Top.id, kinds) BY RelaySends
    <3>2. sent' = sent => \A i \in 1..Len(sent') : sent'[i].id <= tried BY DEF Bounds
    <3> QED BY <1>s, <3>1, <3>2
  <2>3. stored' <= tried BY <1>g, <2>1 DEF Bounds
  <2> QED BY <1>g, <1>f, <1>w, <2>1, <2>2, <2>3 DEF Bounds
<1> QED BY <1>1, <1>2, <1>3

LEMMA BoundsHold == Spec => [](Bounds /\ Waiting)
<1>1. Init => Bounds /\ Waiting
  BY UnspentType DEF Init, Bounds, Waiting, Responses
<1>2. TypeOK /\ TypeOK' /\ Control /\ Bounds /\ Waiting /\ [Next]_vars => Bounds' /\ Waiting'
  <2> SUFFICES ASSUME TypeOK, TypeOK', Control, Bounds, Waiting, [Next]_vars
               PROVE  Bounds' /\ Waiting'
    OBVIOUS
  <2>1. CASE Leave \/ Over \/ UNCHANGED vars
    BY <2>1 DEF Leave, Over, vars, Bounds, Waiting
  <2> QED BY <2>1, ConnectBounds, OpenBounds, RelayBounds DEF Next
<1> QED BY <1>1, <1>2, ControlHolds, PTL DEF Spec

-----------------------------------------------------------------------------
(* The answers that are cached *)

Quoted(t, a) == \E b \in Attempts : t[b] = a
NoError(s, a) == \A i \in 1..Len(s) : s[i] # [id |-> a, kind |-> "error"]
AllCut(fin) == \A k \in 1..Len(fin) : fin[k].error = "cut"
EndedWell(fin) ==
  \E i \in 1..Len(fin) : fin[i].error = "no" /\ \A k \in 1..(i - 1) : fin[k].error = "cut"

\* The attempt whose answer is on its way is quoted by no other and had no error.
Current ==
  /\ opening # NoCall => ~Quoted(told, opening.id) /\ NoError(sent, opening.id)
  /\ frames # <<>> /\ Top.error = "no" => ~Quoted(told, Top.id) /\ NoError(sent, Top.id)

\* While an attempt may still answer, nothing was cached, and what was recorded are cuts.
Live ==
  \/ opening # NoCall
  \/ /\ frames # <<>>
     /\ raised = "error" \/ (raised = "no" /\ Top.pc # "closing") \/ Top.error = "no"
Unended == Live => cached = {} /\ AllCut(record.finished)

\* A generator that returns without an error sent the end to a client that stayed.
Closed ==
  frames # <<>> /\ Top.pc = "closing" /\ Top.error = "no" =>
    /\ raised \in {"no", "exit"}
    /\ client = "here" => sent # <<>> /\ Last(sent) = [id |-> Top.id, kind |-> "done"]

\* A cached answer is the last of its request.
Kept ==
  \A a \in cached :
    /\ phase \in {"relaying", "over"} /\ (frames = <<>> => phase = "over")
    /\ raised \in {"no", "exit"}
    /\ ~Quoted(told, a) /\ NoError(sent, a)
    /\ EndedWell(record.finished)
    /\ client = "here" => sent # <<>> /\ Last(sent).id = a /\ Last(sent).kind \in Enders

Whole == Current /\ Unended /\ Closed /\ Kept

LEMMA AppendRecord ==
  ASSUME NEW fin \in Seq(Records), NEW r \in Records
  PROVE  /\ AllCut(fin) /\ r.error = "cut" => AllCut(Append(fin, r))
         /\ AllCut(fin) /\ r.error = "no" => EndedWell(Append(fin, r))
         /\ EndedWell(fin) => EndedWell(Append(fin, r))
<1> DEFINE new == Append(fin, r)
<1>1. /\ Len(new) = Len(fin) + 1 /\ Len(fin) \in Nat /\ new[Len(fin) + 1] = r
      /\ \A i \in 1..Len(fin) : new[i] = fin[i]
  OBVIOUS
<1> HIDE DEF new
<1>2. ASSUME AllCut(fin), r.error = "cut" PROVE AllCut(new)
  <2> SUFFICES ASSUME NEW k \in 1..Len(new) PROVE new[k].error = "cut" BY DEF AllCut
  <2>1. CASE k = Len(fin) + 1 BY <1>1, <1>2, <2>1
  <2>2. CASE k # Len(fin) + 1 BY <1>1, <1>2, <2>2 DEF AllCut
  <2> QED BY <2>1, <2>2
<1>3. ASSUME AllCut(fin), r.error = "no" PROVE EndedWell(new)
  <2>1. \A k \in 1..((Len(fin) + 1) - 1) : new[k].error = "cut" BY <1>1, <1>3 DEF AllCut
  <2>2. Len(fin) + 1 \in 1..Len(new) BY <1>1
  <2> QED BY <1>1, <1>3, <2>1, <2>2 DEF EndedWell
<1>4. ASSUME EndedWell(fin) PROVE EndedWell(new)
  <2>1. PICK i \in 1..Len(fin) : fin[i].error = "no" /\ \A k \in 1..(i - 1) : fin[k].error = "cut"
    BY <1>4 DEF EndedWell
  <2>2. i \in 1..Len(new) /\ \A k \in 1..(i - 1) : new[k] = fin[k] BY <1>1
  <2> QED BY <1>1, <2>1, <2>2 DEF EndedWell
<1> QED BY <1>2, <1>3, <1>4 DEF new

LEMMA FinishFacts ==
  ASSUME TypeOK, NEW error \in Errors, NEW gone \in BOOLEAN, FinishRecord(error, gone)
  PROVE  /\ AllCut(record.finished) /\ error = "cut" => AllCut(record'.finished)
         /\ AllCut(record.finished) /\ error = "no" => EndedWell(record'.finished)
         /\ EndedWell(record.finished) => EndedWell(record'.finished)
<1> DEFINE r == [full |-> record.active, error |-> error, gone |-> gone]
<1>1. record.finished \in Seq(Records) /\ record.active \in BOOLEAN BY DEF TypeOK, Records
<1>2. r \in Records /\ r.error = error BY <1>1 DEF Records
<1>3. record'.finished = Append(record.finished, r) BY DEF FinishRecord
<1> HIDE DEF r
<1> QED BY <1>1, <1>2, <1>3, AppendRecord

\* Packets without an error leave an attempt without one.
LEMMA YieldNoError ==
  ASSUME TypeOK, NEW id \in Ids, NEW kinds \in Seq(Packet), Yield(id, kinds), NEW a, NoError(sent, a),
         id # a \/ \A k \in 1..Len(kinds) : kinds[k] # "error"
  PROVE  NoError(sent', a)
<1> SUFFICES ASSUME NEW i \in 1..Len(sent'), sent'[i] = [id |-> a, kind |-> "error"] PROVE FALSE
  BY DEF NoError
<1>1. ASSUME NEW j \in 1..Len(sent), sent'[i] = sent[j] PROVE FALSE BY <1>1 DEF NoError
<1>2. ASSUME NEW k \in 1..Len(kinds), sent'[i] = [id |-> id, kind |-> kinds[k]] PROVE FALSE
  <2>1. id = a /\ kinds[k] = "error" BY <1>2
  <2> QED BY <2>1
<1> QED BY <1>1, <1>2, YieldAdds

\* One more attempt: it is a new number, and nothing was cached.
LEMMA ExecuteWhole ==
  ASSUME TypeOK, Bounds, NEW answer, NEW spent, NEW stream, NEW hint \in Ids, hint <= tried,
         Execute(answer, spent, stream, hint), sent' = sent,
         cached = {}, cached' = {}, AllCut(record.finished), record'.finished = record.finished,
         frames' # <<>> => Top'.error # "no"
  PROVE  Whole'
<1>1. /\ tried \in Nat /\ opening'.id = tried + 1
      /\ \A b \in Attempts : told'[b] <= tried
  BY ExecuteBounds
<1>2. ~Quoted(told', opening'.id)
  <2> SUFFICES ASSUME NEW b \in Attempts, told'[b] = tried + 1 PROVE FALSE BY <1>1 DEF Quoted
  <2> QED BY <1>1
<1>3. NoError(sent', opening'.id)
  <2> SUFFICES ASSUME NEW i \in 1..Len(sent), sent[i] = [id |-> tried + 1, kind |-> "error"]
               PROVE  FALSE
    BY <1>1 DEF NoError
  <2>1. sent[i].id <= tried BY DEF Bounds
  <2>2. sent[i].id = tried + 1 OBVIOUS
  <2> QED BY <1>1, <2>1, <2>2
<1>4. Current' BY <1>2, <1>3 DEF Current
<1>5. Unended' /\ Closed' /\ Kept' BY DEF Unended, Closed, Kept
<1> QED BY <1>4, <1>5 DEF Whole

LEMMA ConnectWhole ==
  ASSUME TypeOK, Control, Bounds, Waiting, Whole, Connect
  PROVE  Whole'
<1>0. phase # "relaying" /\ frames = <<>> /\ opening = NoCall /\ frames' = <<>> /\ cached' = cached
  BY ConnectEmpty
     DEF Connect, Start, Publish, Ready, GraceOver, WaitBeat, WaitOver, WaitFailed, WaitExit
<1>1. ASSUME cached = {}, opening' = NoCall PROVE Whole'
  BY <1>0, <1>1 DEF Whole, Current, Unended, Live, Closed, Kept
<1>2. ASSUME cached = {}, opening' = FirstCall, UNCHANGED <<told, sent>>,
             \A b \in Attempts : told[b] = 0, \A i \in 1..Len(sent) : sent[i].id = 0,
             record'.finished = <<>>
      PROVE  Whole'
  <2>1. opening'.id = 1 BY <1>2 DEF FirstCall, NoCall
  <2>2. ~Quoted(told', 1) BY <1>2 DEF Quoted
  <2>3. NoError(sent', 1)
    <3> SUFFICES ASSUME NEW i \in 1..Len(sent), sent[i] = [id |-> 1, kind |-> "error"] PROVE FALSE
      BY <1>2 DEF NoError
    <3>1. sent[i].id = 1 OBVIOUS
    <3> QED BY <1>2, <3>1
  <2> QED BY <1>0, <1>2, <2>1, <2>2, <2>3 DEF Whole, Current, Unended, Closed, Kept, AllCut
<1>3. CASE \E answer \in Answer : Publish(answer)
  <2>1. UNCHANGED <<phase, frames, opening, raised, client, sent, told, record, cached>>
    BY <1>3 DEF Publish
  <2> QED BY <1>0, <2>1 DEF Whole, Current, Unended, Live, Closed, Kept, Top
<1>4. CASE phase \in {"idle", "connecting", "waiting"}
  <2>0. /\ stored = 0 /\ cached = {} /\ record.finished = <<>>
        /\ \A b \in Attempts : told[b] = 0
        /\ \A i \in 1..Len(sent) : sent[i].id = 0
    BY <1>4 DEF Waiting
  <2>1. CASE Start \/ GraceOver \/ WaitBeat \/ WaitFailed \/ WaitExit
    <3>1. opening' = NoCall
      BY <1>0, <2>1 DEF Start, GraceOver, WaitBeat, WaitFailed, WaitExit
    <3> QED BY <1>1, <2>0, <3>1
  <2>2. CASE Ready
    <3>1. CASE background \in Responses
      <4>1. opening' = FirstCall /\ UNCHANGED <<told, sent>> BY <2>2, <3>1 DEF Ready
      <4>2. record'.finished = <<>> BY <2>0, <2>2, <3>1 DEF Ready, TypeOK
      <4> QED BY <1>2, <2>0, <4>1, <4>2
    <3>2. CASE background \notin Responses
      BY <1>0, <1>1, <2>0, <2>2, <3>2 DEF Ready
    <3> QED BY <3>1, <3>2
  <2>3. CASE WaitOver
    <3>1. UNCHANGED <<sent, record>> BY <2>3 DEF WaitOver
    <3>2. CASE opening' = FirstCall /\ UNCHANGED told BY <1>2, <2>0, <3>1, <3>2
    <3>3. ASSUME NEW answer, NEW spent, Execute(answer, spent, TRUE, 0) PROVE Whole'
      <4>1. 0 \in Ids /\ 0 <= tried BY RelayAssumption DEF TypeOK, Ids
      <4>2. AllCut(record.finished) /\ record'.finished = record.finished
        BY <2>0, <3>1 DEF AllCut
      <4> QED BY <1>0, <2>0, <3>1, <3>3, <4>1, <4>2, ExecuteWhole
    <3> QED BY <2>3, <3>2, <3>3 DEF WaitOver
  <2> QED BY <1>3, <2>1, <2>2, <2>3 DEF Connect
<1> QED BY <1>0, <1>3, <1>4 DEF Connect, Start, Ready, GraceOver, WaitBeat, WaitOver, WaitFailed,
                              WaitExit

\* The response of a call is the last of the request: no attempt is on its way any more.
LEMMA RespondOver ==
  ASSUME TypeOK, Control, Stack, opening # NoCall, raised = "no", phase = "relaying",
         NEW kinds, NEW ok, Respond(kinds, ok)
  PROVE  /\ ~Live' /\ raised' \in {"no", "exit"}
         /\ phase' \in {"relaying", "over"} /\ (frames' = <<>> => phase' = "over")
         /\ frames' # <<>> => Top'.error # "no"
<1>1. opening' = NoCall BY DEF Respond
<1>2. CASE frames = <<>>
  <2>1. frames' = <<>> /\ phase' = "over" /\ raised' \in {"no", "exit"}
    BY <1>2 DEF Respond, Yield
  <2> QED BY <1>1, <2>1 DEF Live
<1>3. CASE frames # <<>>
  <2> DEFINE f == [Top EXCEPT !.pc = IF raised' = "no" THEN "closing" ELSE "inner"]
  <2>1. SetTop(f) /\ phase' = phase /\ raised' \in {"no", "exit"} BY <1>3 DEF Respond, Yield
  <2>2. Top \in Frames /\ Top.error # "no" /\ frames \in Seq(Frames)
    BY <1>3, TopType, TopFrame DEF Stack, FrameOK, TypeOK
  <2>3. f \in Frames /\ f.error = Top.error /\ (raised' = "no" => f.pc = "closing")
    BY <2>2 DEF Frames, Pcs
  <2> HIDE DEF f
  <2>4. frames' # <<>> /\ Top' = f BY <1>3, <2>1, <2>2, <2>3, SetTopFacts
  <2> QED BY <1>1, <2>1, <2>2, <2>3, <2>4 DEF Live
<1> QED BY <1>2, <1>3

\* It ends with the attempt's end, and, if it is a success, has no error.
LEMMA RespondSent ==
  ASSUME TypeOK, opening.id \in Attempts, NoError(sent, opening.id),
         NEW kinds \in {<<"body">>, <<"text", "done">>}, Respond(kinds, TRUE)
  PROVE  /\ NoError(sent', opening.id)
         /\ client = "here" =>
              sent' # <<>> /\ Last(sent').id = opening.id /\ Last(sent').kind \in Enders
<1> DEFINE bare == IF kinds = <<"body">> THEN <<"bare">> ELSE kinds
<1>i. opening.id \in Ids BY DEF Attempts, Ids
<1>1. /\ bare \in Seq(Packet) /\ bare # <<>> /\ bare[Len(bare)] \in Enders
      /\ \A k \in 1..Len(bare) : bare[k] # "error"
  <2>1. CASE kinds = <<"body">>
    <3>1. bare = <<"bare">> BY <2>1
    <3> QED BY <3>1, KindsType DEF Enders
  <2>2. CASE kinds = <<"text", "done">>
    <3>1. bare = <<"text", "done">> BY <2>2
    <3> HIDE DEF bare
    <3>2. Len(bare) = 2 /\ bare[1] = "text" /\ bare[2] = "done" BY <3>1
    <3>3. \A k \in 1..Len(bare) : k = 1 \/ k = 2 BY <3>2
    <3> QED BY <3>1, <3>2, <3>3, KindsType DEF Enders
  <2> QED BY <2>1, <2>2
<1>2. CASE frames # <<>> \/ wrapped
  <2>1. Yield(opening.id, bare) BY <1>2 DEF Respond
  <2> HIDE DEF bare
  <2>2. NoError(sent', opening.id) BY <1>i, <1>1, <2>1, YieldNoError
  <2>3. client = "here" =>
          sent' # <<>> /\ Last(sent') = [id |-> opening.id, kind |-> bare[Len(bare)]]
    BY <1>i, <1>1, <2>1, YieldLast
  <2> QED BY <1>1, <2>2, <2>3
<1>3. CASE frames = <<>> /\ ~wrapped
  <2>1. sent' = [i \in 1..Len(kinds) |-> [id |-> opening.id, kind |-> kinds[i]]]
    BY <1>3 DEF Respond
  <2>2. /\ Len(kinds) \in Nat \ {0} /\ kinds[Len(kinds)] \in Enders
        /\ \A k \in 1..Len(kinds) : kinds[k] # "error"
    <3>1. CASE kinds = <<"body">> BY <3>1 DEF Enders
    <3>2. CASE kinds = <<"text", "done">>
      <4>1. Len(kinds) = 2 /\ kinds[1] = "text" /\ kinds[2] = "done" BY <3>2
      <4>2. \A k \in 1..Len(kinds) : k = 1 \/ k = 2 BY <4>1
      <4> QED BY <4>1, <4>2 DEF Enders
    <3> QED BY <3>1, <3>2
  <2>3. Len(sent') = Len(kinds) BY <2>1, <2>2
  <2>4. ASSUME NEW k \in 1..Len(kinds)
        PROVE  sent'[k].id = opening.id /\ sent'[k].kind = kinds[k]
    <3>1. sent'[k] = [id |-> opening.id, kind |-> kinds[k]] BY <2>1
    <3> QED BY <3>1
  <2>5. NoError(sent', opening.id)
    <3> SUFFICES ASSUME NEW k \in 1..Len(kinds),
                        sent'[k] = [id |-> opening.id, kind |-> "error"]
                 PROVE  FALSE
      BY <2>3 DEF NoError
    <3>1. sent'[k].kind = "error" OBVIOUS
    <3> QED BY <2>2, <2>4, <3>1
  <2>6. sent' # <<>> /\ Last(sent') = sent'[Len(kinds)] BY <2>2, <2>3 DEF Last
  <2> QED BY <2>2, <2>4, <2>5, <2>6
<1> QED BY <1>2, <1>3

LEMMA OpenWhole ==
  ASSUME TypeOK, Control, Stack, Bounds, Whole, Open
  PROVE  Whole'
<1>0. /\ opening # NoCall /\ raised = "no" /\ phase = "relaying" /\ opening.id \in Attempts
      /\ frames \in Seq(Frames) /\ 0 \in Ids /\ 0 <= tried
  BY OpenGuards, RelayAssumption DEF TypeOK, Ids
<1>1. /\ cached = {} /\ AllCut(record.finished)
      /\ ~Quoted(told, opening.id) /\ NoError(sent, opening.id)
      /\ frames # <<>> => Top.error # "no"
  <2>1. frames # <<>> => Top.error # "no" BY <1>0, TopFrame DEF Stack, FrameOK
  <2> QED BY <1>0, <2>1 DEF Whole, Unended, Live, Current
<1>2. ASSUME cached' = {}, NEW kinds, NEW ok, Respond(kinds, ok) PROVE Whole'
  <2>1. ~Live' /\ (frames' # <<>> => Top'.error # "no") /\ opening' = NoCall
    BY <1>0, <1>2, RespondOver DEF Respond
  <2> QED BY <1>2, <2>1 DEF Whole, Current, Unended, Closed, Kept
<1>3. CASE OpenRefused \/ RefuseBlank \/ RefuseSilent
  BY <1>1, <1>2, <1>3 DEF OpenRefused, RefuseBlank, RefuseSilent
<1>4. CASE OpenBody
  <2>1. PICK kinds \in {<<"body">>, <<"text", "done">>} : Respond(kinds, TRUE)
    BY <1>4 DEF OpenBody
  <2>2. /\ cached' = {opening.id} /\ told' = told /\ client' = client /\ FinishRecord("no", FALSE)
        /\ opening' = NoCall
    BY <1>1, <1>4, <2>1 DEF OpenBody, Respond
  <2>3. /\ ~Live' /\ raised' \in {"no", "exit"}
        /\ phase' \in {"relaying", "over"} /\ (frames' = <<>> => phase' = "over")
        /\ frames' # <<>> => Top'.error # "no"
    BY <1>0, <2>1, RespondOver
  <2>4. /\ NoError(sent', opening.id)
        /\ client = "here" =>
             sent' # <<>> /\ Last(sent').id = opening.id /\ Last(sent').kind \in Enders
    BY <1>0, <1>1, <2>1, RespondSent
  <2>5. EndedWell(record'.finished) BY <1>1, <2>2, FinishFacts DEF Errors
  <2>6. Kept' BY <1>1, <2>2, <2>3, <2>4, <2>5 DEF Kept
  <2> QED BY <2>2, <2>3, <2>6 DEF Whole, Current, Unended, Closed
<1>5. CASE RetryBlank \/ RetrySilent
  <2>1. PICK answer, spent, stream : Execute(answer, spent, stream, 0)
    BY <1>5 DEF RetryBlank, RetrySilent
  <2>2. UNCHANGED <<sent, record, cached, frames>> BY <1>5 DEF RetryBlank, RetrySilent
  <2>3. frames' # <<>> => Top'.error # "no" BY <1>1, <2>2 DEF Top
  <2> QED BY <1>0, <1>1, <2>1, <2>2, <2>3, ExecuteWhole
<1>6. CASE OpenBroken
  <2>1. UNCHANGED <<frames, sent, record, cached>> /\ opening' = NoCall
    BY <1>6 DEF OpenBroken
  <2>2. frames' # <<>> => Top'.error # "no" BY <1>1, <2>1 DEF Top
  <2> QED BY <1>1, <2>1, <2>2 DEF Whole, Current, Unended, Closed, Kept
<1>7. CASE OpenStream
  <2>1. /\ UNCHANGED <<sent, record, cached, told, raised>> /\ opening' = NoCall
        /\ frames' = Append(frames, NoFrame(opening))
    BY <1>7 DEF OpenStream
  <2>2. NoFrame(opening).id = opening.id /\ NoFrame(opening).pc = "reading" BY DEF NoFrame
  <2> HIDE DEF NoFrame
  <2>3. Top' = NoFrame(opening) BY <1>0, <2>1 DEF Top, Last
  <2> QED BY <1>1, <2>1, <2>2, <2>3 DEF Whole, Current, Unended, Closed, Kept
<1> QED BY <1>3, <1>4, <1>5, <1>6, <1>7 DEF Open

\* A step of the top generator while it may still answer.
LEMMA TopWhole ==
  ASSUME TypeOK, Whole, Live, frames # <<>>, opening = NoCall, frames \in Seq(Frames),
         UNCHANGED <<told, cached, client>>, record'.finished = record.finished, opening' = NoCall,
         NEW f \in Frames, SetTop(f), f.id = Top.id,
         f.error = "no" => Top.error = "no" /\ NoError(sent', Top.id),
         f.pc = "closing" /\ f.error = "no" =>
           /\ raised' \in {"no", "exit"}
           /\ client = "here" => sent' # <<>> /\ Last(sent') = [id |-> Top.id, kind |-> "done"]
  PROVE  Whole'
<1>1. frames' # <<>> /\ Top' = f BY SetTopFacts
<1>2. cached = {} /\ AllCut(record.finished) BY DEF Whole, Unended
<1>3. Current' BY <1>1 DEF Whole, Current
<1>4. Closed' BY <1>1 DEF Closed
<1>5. Unended' /\ Kept' BY <1>2 DEF Unended, Kept
<1> QED BY <1>3, <1>4, <1>5 DEF Whole

\* The end that a generator sends when its stream ended well.
LEMMA DoneWhole ==
  ASSUME TypeOK, Control, Stack, Whole, frames # <<>>, opening = NoCall,
         raised = "no", Top.pc # "closing", opening' = NoCall,
         UNCHANGED <<told, cached, client, record>>,
         SetTop([Top EXCEPT !.done = TRUE, !.pc = "closing"]), Yield(Top.id, <<"done">>)
  PROVE  Whole'
<1> DEFINE f == [Top EXCEPT !.done = TRUE, !.pc = "closing"]
<1>g. frames \in Seq(Frames) /\ Top \in Frames /\ Top.id \in Ids /\ "closing" \in Pcs
  BY TopType, FrameTypes DEF TypeOK, Pcs
<1>1. f \in Frames BY <1>g, FrameTypes
<1>2. f.id = Top.id /\ f.error = Top.error BY <1>g DEF Frames
<1>3. Live /\ (Top.error = "no" => NoError(sent, Top.id))
  BY DEF Live, Whole, Current
<1>4. <<"done">> \in Seq(Packet) /\ \A k \in 1..Len(<<"done">>) : <<"done">>[k] # "error"
  BY KindsType
<1>5. Top.error = "no" => NoError(sent', Top.id) BY <1>3, <1>4, <1>g, YieldNoError
<1>6. client = "here" => sent' # <<>> /\ Last(sent') = [id |-> Top.id, kind |-> "done"]
  BY <1>4, <1>g, YieldLast
<1>7. raised' \in {"no", "exit"} BY DEF Yield
<1> HIDE DEF f
<1>8. SetTop(f) BY DEF f
<1> QED BY <1>1, <1>2, <1>3, <1>5, <1>6, <1>7, <1>8, <1>g, TopWhole

LEMMA FinallyWhole ==
  ASSUME TypeOK, Control, Stack, Bounds, Whole, Finally
  PROVE  Whole'
<1> DEFINE rest == Front(frames)
<1>g. /\ frames # <<>> /\ frames \in Seq(Frames) /\ Top \in Frames /\ opening = NoCall
      /\ phase = "relaying" /\ FrameOK(Top) /\ Top.pc = "closing"
  BY TopType, TopFrame DEF Finally, TypeOK, Control
<1>1. /\ rest \in Seq(Frames) /\ Len(rest) = Len(frames) - 1
      /\ \A i \in 1..(Len(frames) - 1) : rest[i] = frames[i]
  BY <1>g, FrontFacts
<1>2. /\ opening' = NoCall /\ UNCHANGED <<raised, client, sent, told>>
      /\ FinishRecord(Top.error, Top.gone)
      /\ cached' = IF Complete(Top) THEN cached \cup {Top.id} ELSE cached
      /\ frames' = IF rest # <<>> /\ raised = "no" THEN Returning(rest) ELSE rest
      /\ phase' = IF rest = <<>> THEN "over" ELSE phase
  BY <1>g DEF Finally
<1>t. Top.error \in Errors /\ Top.gone \in BOOLEAN BY <1>g DEF Frames
<1> HIDE DEF rest
\* the generators below delegated their answer, so that each of them has failed
<1>3. frames' # <<>> =>
        /\ rest # <<>> /\ Top'.error # "no"
        /\ raised = "no" => Top'.pc = "closing"
  <2> SUFFICES ASSUME frames' # <<>>
               PROVE  /\ rest # <<>> /\ Top'.error # "no"
                      /\ raised = "no" => Top'.pc = "closing"
    OBVIOUS
  <2>1. rest # <<>> BY <1>2
  <2>2. Len(rest) \in Nat \ {0} /\ rest[Len(rest)] \in Frames BY <1>1, <2>1
  <2>3. rest[Len(rest)].error # "no"
    <3>1. rest[Len(rest)] = frames[Len(rest)] /\ Len(rest) \in 1..(Len(frames) - 1)
      BY <1>1, <2>2
    <3>2. FrameOK(frames[Len(rest)]) /\ frames[Len(rest)].pc = "inner"
      BY <1>g, <3>1 DEF Stack
    <3> QED BY <3>1, <3>2 DEF FrameOK
  <2>4. CASE raised = "no"
    <3>1. frames' = Returning(rest) BY <1>2, <2>1, <2>4
    <3>2. Top' = [rest[Len(rest)] EXCEPT !.pc = "closing"] /\ Top'.pc = "closing"
      BY <1>1, <2>1, <3>1, ReturningTop
    <3> QED BY <2>1, <2>2, <2>3, <3>2 DEF Frames
  <2>5. CASE raised # "no"
    <3>1. frames' = rest BY <1>2, <2>5
    <3>2. Top' = rest[Len(rest)] BY <3>1 DEF Top, Last
    <3> QED BY <2>1, <2>3, <2>5, <3>2
  <2> QED BY <2>4, <2>5
<1>4. Current' /\ Closed' BY <1>2, <1>3 DEF Current, Closed
<1>5. frames' = <<>> => phase' = "over" BY <1>2, <1>3, <1>1, ReturningFacts
<1>6. phase' \in {"relaying", "over"} BY <1>2, <1>g
<1>7. CASE Complete(Top)
  <2>1. Top.error = "no" BY <1>7 DEF Complete
  <2>2. Live BY <1>g, <2>1 DEF Live
  <2>3. /\ cached = {} /\ AllCut(record.finished)
        /\ ~Quoted(told, Top.id) /\ NoError(sent, Top.id)
        /\ raised \in {"no", "exit"}
        /\ client = "here" => sent # <<>> /\ Last(sent) = [id |-> Top.id, kind |-> "done"]
    BY <1>g, <2>1, <2>2 DEF Whole, Unended, Current, Closed
  <2>4. cached' = {Top.id} BY <1>2, <1>7, <2>3
  <2>5. ~Live' BY <1>2, <1>3, <2>3 DEF Live
  <2>6. EndedWell(record'.finished) BY <1>2, <1>t, <2>1, <2>3, FinishFacts
  <2>7. client' = "here" => sent' # <<>> /\ Last(sent').id = Top.id /\ Last(sent').kind \in Enders
    BY <1>2, <2>3 DEF Enders
  <2>8. Kept' BY <1>2, <1>5, <1>6, <2>3, <2>4, <2>6, <2>7 DEF Kept
  <2> QED BY <1>4, <2>5, <2>8 DEF Whole, Unended
<1>8. CASE ~Complete(Top)
  <2>1. cached' = cached BY <1>2, <1>8
  <2>2. CASE cached = {}
    <3>1. Live' => raised = "error" BY <1>2, <1>3 DEF Live
    <3>2. raised = "error" => AllCut(record.finished) /\ Top.error = "cut"
      BY <1>g DEF Whole, Unended, Live, Stack, FrameOK
    <3>3. raised = "error" => AllCut(record'.finished) BY <1>2, <1>t, <3>2, FinishFacts
    <3> QED BY <1>4, <2>1, <2>2, <3>1, <3>3 DEF Whole, Unended, Kept
  <2>3. CASE cached # {}
    <3>1. raised \in {"no", "exit"} BY <2>3 DEF Whole, Kept
    <3>2. ~Live' BY <1>2, <1>3, <3>1 DEF Live
    <3>3. EndedWell(record.finished) => EndedWell(record'.finished) BY <1>2, <1>t, FinishFacts
    <3>4. Kept' BY <1>2, <1>5, <1>6, <2>1, <3>3 DEF Whole, Kept
    <3> QED BY <1>4, <3>2, <3>4 DEF Whole, Unended
  <2> QED BY <2>2, <2>3
<1> QED BY <1>7, <1>8

LEMMA RelayWhole ==
  ASSUME TypeOK, Control, Stack, Bounds, Whole, Relay
  PROVE  Whole'
<1>g. /\ frames # <<>> /\ frames \in Seq(Frames) /\ Top \in Frames /\ opening = NoCall
      /\ phase = "relaying" /\ Top.id \in Ids /\ FrameOK(Top) /\ Top.id <= tried
      /\ 0 \in Ids /\ 0 <= tried
  <2>1. frames # <<>> /\ frames \in Seq(Frames) /\ Top \in Frames /\ opening = NoCall
        /\ phase = "relaying"
    BY RelayGuards
  <2>2. Top.id \in Ids /\ FrameOK(Top) BY <2>1, FrameTypes, TopFrame
  <2>3. Top = frames[Len(frames)] /\ Len(frames) \in 1..Len(frames) BY <2>1, TopType
  <2>4. Top.id <= tried BY <2>3 DEF Bounds
  <2>5. 0 \in Ids /\ 0 <= tried BY RelayAssumption DEF TypeOK, Ids
  <2> QED BY <2>1, <2>2, <2>4, <2>5
<1>p. /\ "closing" \in Pcs /\ "inner" \in Pcs /\ "ending" \in Pcs /\ "checking" \in Pcs
  BY DEF Pcs
<1>l. raised = "no" /\ Top.pc # "closing" =>
        Live /\ cached = {} /\ AllCut(record.finished) /\ (Top.error = "no" => NoError(sent, Top.id))
  BY <1>g DEF Live, Whole, Unended, Current
<1>x. ASSUME NEW f \in Frames, SetTop(f), f.error # "no", raised = "no", Top.pc # "closing",
             NEW answer, NEW spent, NEW hint \in {0, Top.id}, Execute(answer, spent, TRUE, hint),
             UNCHANGED <<sent, record, cached>>
      PROVE  Whole'
  <2>1. Top' = f BY <1>g, <1>x, SetTopFacts
  <2> QED BY <1>g, <1>l, <1>x, <2>1, ExecuteWhole
<1>1. CASE ReadBeat
  <2>1. /\ UNCHANGED <<frames, told, cached, client, record, opening>> /\ Top.pc = "reading"
        /\ raised = "no" /\ Yield(Top.id, <<"beat">>)
    BY <1>1 DEF ReadBeat, Running
  <2>2. <<"beat">> \in Seq(Packet) /\ \A k \in 1..Len(<<"beat">>) : <<"beat">>[k] # "error"
    BY KindsType
  <2>3. Top.error = "no" => NoError(sent', Top.id) BY <1>g, <1>l, <2>1, <2>2, YieldNoError
  <2>4. Current' BY <1>g, <2>1, <2>3 DEF Whole, Current, Top
  <2> QED BY <1>g, <1>l, <2>1, <2>4 DEF Whole, Unended, Closed, Kept, Top
<1>2. ASSUME NEW kind \in Line, ReadLine(kind) PROVE Whole'
  <2>1. PICK f \in Frames : /\ SetTop(f) /\ f.id = Top.id /\ f.error = Top.error
                            /\ f.pc \in {"reading", "checking"}
    BY <1>2, <1>g, LineTop
  <2>2. /\ UNCHANGED <<told, cached, client, record, opening>> /\ Top.pc = "reading"
        /\ raised = "no"
    BY <1>2 DEF ReadLine, Running
  <2>3. Top.error = "no" => NoError(sent', Top.id)
    <3> DEFINE h == [Top EXCEPT !.output = @ \/ kind = "text", !.lines = @ + 1,
                                !.pc = IF kind = "finish" THEN "checking" ELSE @]
               kinds == h.held \o <<kind>>
    <3>1. h.id = Top.id /\ h.held = Top.held BY <1>g DEF Frames
    <3>2. Yield(h.id, kinds) \/ sent' = sent BY <1>2 DEF ReadLine
    <3>3. Top.held \in Seq(Line) BY <1>g, FrameTypes
    <3> HIDE DEF h
    <3>4. kinds \in Seq(Packet) /\ \A k \in 1..Len(kinds) : kinds[k] # "error"
      <4>1. kinds \in Seq(Line) BY <3>1, <3>3
      <4> HIDE DEF kinds
      <4>2. \A k \in 1..Len(kinds) : kinds[k] \in Line BY <4>1
      <4> QED BY <4>1, <4>2 DEF Line, Packet
    <3> HIDE DEF kinds
    <3> QED BY <1>g, <1>l, <2>2, <3>1, <3>2, <3>4, YieldNoError
  <2> QED BY <1>g, <1>l, <2>1, <2>2, <2>3, TopWhole
<1>3. CASE ReadDone
  <2>0. raised = "no" /\ Top.pc = "reading" /\ opening' = NoCall
        /\ UNCHANGED <<told, cached, client, record>>
    BY <1>3, <1>g DEF ReadDone, Running
  <2>1. CASE Top.output BY <1>3, <1>g, <2>0, <2>1, DoneWhole DEF ReadDone
  <2>2. CASE ~Top.output
    <3> DEFINE f == [Top EXCEPT !.pc = "checking"]
    <3>1. SetTop(f) /\ sent' = sent BY <1>3, <2>2 DEF ReadDone
    <3>2. f \in Frames BY <1>g, <1>p, FrameTypes
    <3>3. f.id = Top.id /\ f.error = Top.error /\ f.pc = "checking" BY <1>g DEF Frames
    <3> HIDE DEF f
    <3> QED BY <1>g, <1>l, <2>0, <3>1, <3>2, <3>3, TopWhole
  <2> QED BY <2>1, <2>2
<1>4. CASE End
  BY <1>4, <1>g, DoneWhole DEF End, Running
<1>5. CASE ReadEnd \/ (Check /\ Top.output)
  <2>0. /\ raised = "no" /\ Top.pc # "closing" /\ opening' = NoCall
        /\ UNCHANGED <<told, cached, client, record, sent>>
    BY <1>5, <1>g DEF ReadEnd, Check, Running
  <2>1. PICK p \in {"checking", "ending"} : SetTop([Top EXCEPT !.pc = p])
    BY <1>5 DEF ReadEnd, Check
  <2> DEFINE f == [Top EXCEPT !.pc = p]
  <2>2. f \in Frames BY <1>g, <1>p, FrameTypes
  <2>3. f.id = Top.id /\ f.error = Top.error /\ f.pc = p BY <1>g DEF Frames
  <2> HIDE DEF f
  <2>4. SetTop(f) BY <2>1 DEF f
  <2> QED BY <1>g, <1>l, <2>0, <2>2, <2>3, <2>4, TopWhole
\* the steps after which the attempt has an error
<1>6. ASSUME raised = "no", Top.pc # "closing", opening' = NoCall,
             UNCHANGED <<told, cached, client, record>>,
             NEW f \in Frames, SetTop(f), f.id = Top.id, f.error # "no"
      PROVE  Whole'
  BY <1>6, <1>g, <1>l, TopWhole
<1>c. /\ Caught(Top) \in Frames /\ Caught(Top).id = Top.id /\ Caught(Top).error = "cut"
      /\ Left(Top) \in Frames /\ Left(Top).id = Top.id /\ Left(Top).error = "client_gone"
  <2>1. Caught(Top) \in Frames /\ Left(Top) \in Frames BY <1>g, FrameTypes
  <2> QED BY <1>g, <2>1 DEF Caught, Left, Frames
<1>7. CASE ReadCut BY <1>6, <1>7, <1>c, <1>g DEF ReadCut, Running
<1>8. CASE ReadReset BY <1>6, <1>8, <1>c, <1>g DEF ReadReset, Running
<1>9. CASE Check /\ ~Top.output
  <2>1. [Top EXCEPT !.error = "empty", !.pc = "ending"] \in Frames BY <1>g, <1>p, FrameTypes
  <2>2. /\ [Top EXCEPT !.error = "empty", !.pc = "ending"].id = Top.id
        /\ [Top EXCEPT !.error = "empty", !.pc = "ending"].error = "empty"
    BY <1>g DEF Frames
  <2> QED BY <1>6, <1>9, <1>g, <2>1, <2>2 DEF Check, Running
<1>10. CASE GiveUp
  <2>1. [Top EXCEPT !.done = TRUE, !.pc = "closing"] \in Frames BY <1>g, <1>p, FrameTypes
  <2>2. /\ [Top EXCEPT !.done = TRUE, !.pc = "closing"].id = Top.id
        /\ [Top EXCEPT !.done = TRUE, !.pc = "closing"].error = Top.error
    BY <1>g DEF Frames
  <2>3. Top.error # "no" BY <1>10, <1>g DEF GiveUp, Running, FrameOK
  <2> QED BY <1>6, <1>10, <1>g, <2>1, <2>2, <2>3 DEF GiveUp, Running
<1>11. CASE RetryEmpty
  <2>1. [Top EXCEPT !.error = "empty", !.delegated = TRUE, !.pc = "inner"] \in Frames
    BY <1>g, <1>p, FrameTypes
  <2>2. [Top EXCEPT !.error = "empty", !.delegated = TRUE, !.pc = "inner"].error = "empty"
    BY <1>g DEF Frames
  <2> QED BY <1>x, <1>11, <1>g, <2>1, <2>2 DEF RetryEmpty, Running
<1>12. CASE RetryCut
  <2>1. [Top EXCEPT !.delegated = TRUE, !.pc = "inner"] \in Frames BY <1>g, <1>p, FrameTypes
  <2>2. [Top EXCEPT !.delegated = TRUE, !.pc = "inner"].error = Top.error
    BY <1>g DEF Frames
  <2>3. Top.error # "no" BY <1>12, <1>g DEF RetryCut, Running, FrameOK
  <2> QED BY <1>x, <1>12, <1>g, <2>1, <2>2, <2>3 DEF RetryCut, Running
<1>13. CASE Unwind
  <2>0. /\ raised # "no" /\ Top.pc # "closing" /\ opening' = NoCall
        /\ UNCHANGED <<told, cached, client, record, sent, phase>>
    BY <1>13 DEF Unwind
  <2>1. PICK f \in Frames : /\ SetTop(f) /\ f.id = Top.id /\ f.error # "no"
                            /\ raised' = raised \/ (raised' = "no" /\ raised \notin Passing)
    <3>1. CASE Top.handler
      <4>1. [Top EXCEPT !.pc = "closing"] \in Frames BY <1>g, <1>p, FrameTypes
      <4>2. /\ [Top EXCEPT !.pc = "closing"].id = Top.id
            /\ [Top EXCEPT !.pc = "closing"].error = "cut"
        BY <1>g, <3>1 DEF Frames, FrameOK
      <4> QED BY <1>13, <3>1, <4>1, <4>2 DEF Unwind
    <3>2. CASE ~Top.handler BY <1>13, <1>c, <3>2 DEF Unwind
    <3> QED BY <3>1, <3>2
  <2>2. frames' # <<>> /\ Top' = f BY <1>g, <2>1, SetTopFacts
  <2>3. Current' /\ Closed' BY <2>0, <2>1, <2>2 DEF Current, Closed
  <2>4. CASE raised = "error"
    <3>1. cached = {} /\ AllCut(record.finished) BY <1>g, <2>4 DEF Whole, Unended, Live
    <3> QED BY <2>0, <2>3, <3>1 DEF Whole, Unended, Kept
  <2>5. CASE raised # "error"
    <3>1. raised \in Passing BY <2>0, <2>5 DEF TypeOK, Passing
    <3>2. raised' = raised BY <2>1, <3>1
    <3>3. ~Live' BY <2>0, <2>1, <2>2, <2>5, <3>2 DEF Live
    <3>4. Kept' BY <2>0, <1>g, <2>2, <3>2 DEF Whole, Kept
    <3> QED BY <2>3, <3>3, <3>4 DEF Whole, Unended
  <2> QED BY <2>4, <2>5
<1>14. CASE Finally BY <1>14, FinallyWhole
<1> QED BY <1>1, <1>2, <1>3, <1>4, <1>5, <1>7, <1>8, <1>9, <1>10, <1>11, <1>12, <1>13, <1>14 DEF Relay

LEMMA WholeHolds == Spec => []Whole
<1>1. Init => Whole
  BY DEF Init, Whole, Current, Unended, Live, Closed, Kept
<1>2. /\ TypeOK /\ Control /\ Stack /\ Bounds /\ Waiting /\ Whole /\ [Next]_vars
      => Whole'
  <2> SUFFICES ASSUME TypeOK, Control, Stack, Bounds, Waiting, Whole, [Next]_vars PROVE Whole'
    OBVIOUS
  <2>1. CASE Leave \/ Over \/ UNCHANGED vars
    <3>1. /\ UNCHANGED <<phase, opening, frames, raised, sent, told, record, cached>>
          /\ client' \in {client, "gone"}
      BY <2>1 DEF Leave, Over, vars
    <3> QED BY <3>1 DEF Whole, Current, Unended, Live, Closed, Kept, Top
  <2> QED BY <2>1, ConnectWhole, OpenWhole, RelayWhole DEF Next
<1> QED BY <1>1, <1>2, ControlHolds, StackHolds, BoundsHold, PTL DEF Spec

\* An answer goes into the request cache only if it was relayed to its end, however many
\* attempts the request took and however deep its generators were nested.
THEOREM CachedWhole == Spec => []CachedWasWhole
<1>1. Kept => CachedWasWhole
  BY DEF Kept, CachedWasWhole, Quoted, NoError, EndedWell, Enders
<1> QED BY <1>1, WholeHolds, PTL DEF Whole
=============================================================================
