---- MODULE StreamRelay ----
(***************************************************************************)
(* One streamed chat request, from proxy_entrypoint to the last byte the   *)
(* client gets: the background execution and its connect heartbeat         *)
(* (openai_stream_response_with_connect_heartbeat), proxy_response and its *)
(* generator, and the failover inside the request, which calls             *)
(* proxy_response again and yields from the response it returns.           *)
(*                                                                         *)
(* The generators of a request form a stack, "frames": only the top one    *)
(* runs, the others wait in a "yield from".  An exception or the           *)
(* GeneratorExit of a client that left passes down the stack.              *)
(*                                                                         *)
(* An upstream request that answered is an attempt, numbered from 1.  What *)
(* execute_upstream_request does to get an answer is in UpstreamRetry;     *)
(* here its answer is any of Answer.  Lines are told apart by whether they *)
(* carry output; usage packets, blank lines and the bytes are left out.    *)
(***************************************************************************)
EXTENDS Integers, Sequences, SequencesExt

CONSTANTS
  Pool,        \* number of routes the request may use (route_pool_size)
  MaxAttempts, \* bound on the upstream requests that answer
  MaxLines,    \* bound on the lines read from one attempt
  MaxBeats     \* bound on the heartbeats sent

ASSUME RelayAssumption ==
  /\ Pool \in Nat \ {0}
  /\ MaxAttempts \in Nat \ {0}
  /\ MaxLines \in Nat
  /\ MaxBeats \in Nat

VARIABLES
  phase,      \* where the request is: idle, connecting, waiting, relaying, over
  wrapped,    \* the connect heartbeat has taken the response over
  background, \* the BackgroundExecution: idle, running or its answer
  cancelled,  \* BackgroundExecution.cancel was called
  opening,    \* the call of proxy_response that has not returned
  frames,     \* the stack of generators
  raised,     \* the exception on its way: no, exit (GeneratorExit), gone, error
  client,     \* whether the client is still connected
  sent,       \* the packets the client received
  tried,      \* the number of attempts
  open,       \* the attempts whose upstream stream is open
  told,       \* for each attempt, the attempt whose text its hint repeats, or 0
  record,     \* the RequestRecorder's view of the request
  stored,     \* the attempt whose text the stored snapshot holds, or 0
  cached      \* the attempts whose answer was stored in the request cache

vars == <<phase, wrapped, background, cancelled, opening, frames, raised, client,
          sent, tried, open, told, record, stored, cached>>

Attempts == 1..MaxAttempts

(* Answers that carry an upstream response: an HTTP error, a JSON body with or *)
(* without output, and an event stream whose first line comes, does not come   *)
(* in time, or is preceded by a failing read.                                  *)
Responses == {"refused", "json", "blank", "sse", "silent", "broken"}
Answer == Responses \cup {"none", "cached"}
Streams == {"sse", "silent"}

(* Lines with output (text or a tool call), without (a role, some reasoning), *)
(* and those that finish the last choice.                                     *)
Line == {"text", "role", "finish"}
Packet == Line \cup {"beat", "error", "done", "body", "bare"}

Budgets == {"empty", "cut", "blank"}
Unspent == [b \in Budgets |-> 0]
Spend(spent, b) == [Unspent EXCEPT ![b] = spent[b] + 1]
CanFailover(spent, b) == spent[b] < Pool - 1

NoCall == [answer |-> "none", id |-> 0, spent |-> Unspent, stream |-> TRUE, resumed |-> FALSE]
NoFrame(call) ==
  [id |-> call.id, spent |-> call.spent, resumed |-> call.resumed, output |-> FALSE,
   held |-> <<>>, lines |-> 0, done |-> FALSE, error |-> "no", gone |-> FALSE,
   delegated |-> FALSE, handler |-> FALSE, pc |-> "reading"]

Init ==
  /\ phase = "idle" /\ wrapped = FALSE
  /\ background = "idle" /\ cancelled = FALSE
  /\ opening = NoCall /\ frames = <<>> /\ raised = "no"
  /\ client = "here" /\ sent = <<>>
  /\ tried = 0 /\ open = {} /\ told = [a \in Attempts |-> 0]
  /\ record = [active |-> FALSE, finished |-> <<>>]
  /\ stored = 0 /\ cached = {}

-----------------------------------------------------------------------------
(* The pieces of the handlers *)

Top == Last(frames)
SetTop(f) == frames' = [frames EXCEPT ![Len(frames)] = f]
Running(pc) ==
  /\ phase = "relaying" /\ raised = "no" /\ opening = NoCall
  /\ frames # <<>> /\ Top.pc = pc

(* A yield: the client gets the packets, or the server finds that it left, *)
(* now or at a later yield, and closes the generators.                     *)
Yield(id, kinds) ==
  IF client = "here"
  THEN /\ sent' = sent \o [i \in 1..Len(kinds) |-> [id |-> id, kind |-> kinds[i]]]
       /\ UNCHANGED raised
  ELSE /\ raised' \in {raised, "exit"}
       /\ UNCHANGED sent

(* RequestRecorder.finish: the entry is taken out of active_requests, or, if it *)
(* is there no more, a new one is made that has only the request's id.          *)
FinishRecord(error, gone) ==
  record' = [active |-> FALSE,
             finished |-> Append(record.finished,
               [full |-> record.active, error |-> error, gone |-> gone])]

(* An execution of the request that answered with a response.  The payload it   *)
(* is given carries a hint ("hint" names the attempt it quotes); without one    *)
(* the stored snapshot, if there is one, is put into it.                        *)
Execute(answer, spent, stream, hint) ==
  /\ tried < MaxAttempts
  /\ answer \in Responses
  /\ tried' = tried + 1
  /\ opening' = [answer |-> answer, id |-> tried + 1, spent |-> spent, stream |-> stream,
                 resumed |-> hint = 0 /\ stored # 0]
  /\ told' = [told EXCEPT ![tried + 1] = IF hint # 0 THEN hint ELSE stored]

Opened(answer) == IF answer \in Streams THEN {tried + 1} ELSE {}

(* A failover closes the stream it gives up.  Faulty variant: it does not. *)
ReplaceUnclosed(id, answer) == open \cup Opened(answer)
Replace(id, answer) == (open \ {id}) \cup Opened(answer)

-----------------------------------------------------------------------------
(* proxy_entrypoint and the connect heartbeat *)

(* start_background_upstream_execution *)
Start ==
  /\ phase = "idle"
  /\ phase' = "connecting" /\ background' = "running"
  /\ UNCHANGED <<wrapped, cancelled, opening, frames, raised, client, sent, tried,
                 open, told, record, stored, cached>>

(* BackgroundExecution._run: the result of a cancelled execution is closed.  A *)
(* response is the request's first attempt.                                    *)
Publish(answer) ==
  /\ background = "running"
  /\ background' = answer
  /\ tried' = IF answer \in Responses THEN 1 ELSE 0
  /\ open' = IF cancelled THEN {} ELSE Opened(answer)
  /\ UNCHANGED <<phase, wrapped, cancelled, opening, frames, raised, client, sent,
                 told, record, stored, cached>>

Published == background \in Answer
FirstCall == [NoCall EXCEPT !.answer = background, !.id = 1]

(* The answer came within STREAM_OPEN_GRACE_SECONDS.  A cached answer and a *)
(* failed execution are answered here, a response by proxy_response.        *)
Ready ==
  /\ phase = "connecting" /\ Published
  /\ IF background \in Responses
     THEN /\ phase' = "relaying" /\ opening' = FirstCall
          /\ record' = [record EXCEPT !.active = TRUE]
          /\ UNCHANGED sent
     ELSE /\ phase' = "over"
          /\ record' = [active |-> FALSE, finished |->
               <<[full |-> TRUE, gone |-> FALSE,
                  error |-> IF background = "cached" THEN "no" ELSE "exception"]>>]
          /\ sent' = IF background = "cached"
                     THEN <<[id |-> 0, kind |-> "text"], [id |-> 0, kind |-> "done"]>>
                     ELSE <<[id |-> 0, kind |-> "body"]>>
          /\ UNCHANGED opening
  /\ UNCHANGED <<wrapped, background, cancelled, frames, raised, client, tried, open,
                 told, stored, cached>>

(* It did not: the request is recorded and answered by the connect heartbeat. *)
GraceOver ==
  /\ phase = "connecting" /\ ~Published
  /\ phase' = "waiting" /\ wrapped' = TRUE
  /\ record' = [record EXCEPT !.active = TRUE]
  /\ UNCHANGED <<background, cancelled, opening, frames, raised, client, sent, tried,
                 open, told, stored, cached>>

Beats == Len(SelectSeq(sent, LAMBDA p : p.kind = "beat"))

WaitBeat ==
  /\ phase = "waiting" /\ raised = "no" /\ ~Published
  /\ Beats < MaxBeats
  /\ Yield(0, <<"beat">>)
  /\ UNCHANGED <<phase, wrapped, background, cancelled, opening, frames, client, tried,
                 open, told, record, stored, cached>>

(* The wait is over.  A response is relayed; anything else, a late cache hit *)
(* included, is retried on another route (retry_terminal_upstream_failure_   *)
(* once), and that attempt is relayed whatever it answered.                  *)
WaitOver ==
  /\ phase = "waiting" /\ raised = "no" /\ Published
  /\ phase' = "relaying"
  /\ \/ /\ background \in Responses \ {"refused"}
        /\ opening' = FirstCall
        /\ UNCHANGED <<tried, open, told>>
     \/ /\ background \in {"refused", "none", "cached"}
        /\ CanFailover(Unspent, "cut")
        /\ \E answer \in Responses :
             /\ Execute(answer, Spend(Unspent, "cut"), TRUE, 0)
             /\ open' = open \cup Opened(answer)
  /\ UNCHANGED <<wrapped, background, cancelled, frames, raised, client, sent, record,
                 stored, cached>>

(* No retry, or none that answered. *)
WaitFailed ==
  /\ phase = "waiting" /\ raised = "no" /\ Published
  /\ background \in {"refused", "none", "cached"}
  /\ phase' = "over"
  /\ Yield(0, <<"error", "done">>)
  /\ FinishRecord(IF raised' = "exit" THEN "client_gone" ELSE "exception", raised' = "exit")
  /\ cancelled' = (raised' = "exit")
  /\ UNCHANGED <<wrapped, background, opening, frames, client, tried, open, told, stored,
                 cached>>

(* The client left during the wait. *)
WaitExit ==
  /\ phase = "waiting" /\ raised = "exit"
  /\ phase' = "over" /\ cancelled' = TRUE
  /\ FinishRecord("client_gone", TRUE)
  /\ UNCHANGED <<wrapped, background, opening, frames, raised, client, sent, tried, open,
                 told, stored, cached>>

Leave ==
  /\ client = "here" /\ phase # "idle"
  /\ client' = "gone"
  /\ UNCHANGED <<phase, wrapped, background, cancelled, opening, frames, raised, sent,
                 tried, open, told, record, stored, cached>>

-----------------------------------------------------------------------------
(* proxy_response, up to the Response it returns *)

(* It returned a Response with these packets: under a generator they are yielded *)
(* as they are, and that generator returns; the connect heartbeat wraps those of *)
(* an error (bridge_openai_sse_response); otherwise they are the HTTP response.  *)
Respond(kinds, ok) ==
  /\ opening' = NoCall
  /\ LET bare == IF kinds = <<"body">> THEN <<"bare">> ELSE kinds
     IN CASE frames # <<>> ->
               /\ Yield(opening.id, bare)
               /\ SetTop([Top EXCEPT !.pc = IF raised' = "no" THEN "closing" ELSE "inner"])
               /\ UNCHANGED phase
          [] frames = <<>> /\ wrapped ->
               /\ Yield(opening.id, IF ok THEN bare ELSE <<"error", "done">>)
               /\ phase' = "over"
               /\ UNCHANGED frames
          [] OTHER ->
               /\ sent' = [i \in 1..Len(kinds) |-> [id |-> opening.id, kind |-> kinds[i]]]
               /\ phase' = "over"
               /\ UNCHANGED <<frames, raised>>

Opening(answers, stream) ==
  /\ phase = "relaying" /\ raised = "no"
  /\ opening.answer \in answers /\ opening.id # 0 /\ opening.stream = stream

OpenRefused ==
  /\ opening.id # 0 /\ \E stream \in BOOLEAN : Opening({"refused"}, stream)
  /\ FinishRecord("status", FALSE)
  /\ Respond(<<"body">>, FALSE)
  /\ UNCHANGED <<wrapped, background, cancelled, client, tried, open, told, stored, cached>>

(* A body read to its end, with output: sent as packets to a stream, as it is  *)
(* after a retry that asks for no stream.  Such a retry reads an event stream  *)
(* to its end too.                                                             *)
OpenBody ==
  /\ \/ Opening({"json"}, TRUE)
     \/ Opening({"json", "sse", "silent"}, FALSE)
  /\ FinishRecord("no", FALSE)
  /\ Respond(IF opening.stream THEN <<"text", "done">> ELSE <<"body">>, TRUE)
  /\ open' = open \ {opening.id}
  /\ cached' = cached \cup {opening.id}
  /\ stored' = IF opening.resumed THEN 0 ELSE stored
  /\ UNCHANGED <<wrapped, background, cancelled, client, tried, told>>

(* A body without output: another route is asked once more, for no stream, *)
(* unless the body was a JSON one read without a stream.                   *)
Unusable ==
  \/ Opening({"blank"}, TRUE)
  \/ Opening({"sse", "silent", "broken"}, FALSE)

RetryBlank ==
  /\ Unusable
  /\ CanFailover(opening.spent, "blank")
  /\ \E answer \in Responses :
       /\ Execute(answer, Spend(opening.spent, "blank"), FALSE, 0)
       /\ open' = Replace(opening.id, answer)
  /\ UNCHANGED <<phase, wrapped, background, cancelled, frames, raised, client, sent,
                 record, stored, cached>>

RefuseBlank ==
  /\ Unusable \/ Opening({"blank"}, FALSE)
  /\ FinishRecord("malformed", FALSE)
  /\ Respond(<<"body">>, FALSE)
  /\ open' = open \ {opening.id}
  /\ UNCHANGED <<wrapped, background, cancelled, client, tried, told, stored, cached>>

(* The preflight saw no line in time: another route, or an error. *)
RetrySilent ==
  /\ Opening({"silent"}, TRUE)
  /\ CanFailover(opening.spent, "empty")
  /\ \E answer \in Responses :
       /\ Execute(answer, Spend(opening.spent, "empty"), TRUE, 0)
       /\ open' = Replace(opening.id, answer)
  /\ UNCHANGED <<phase, wrapped, background, cancelled, frames, raised, client, sent,
                 record, stored, cached>>

RefuseSilent ==
  /\ Opening({"silent"}, TRUE)
  /\ FinishRecord("malformed", FALSE)
  /\ Respond(<<"body">>, FALSE)
  /\ open' = open \ {opening.id}
  /\ UNCHANGED <<wrapped, background, cancelled, client, tried, told, stored, cached>>

(* The read of the preflight raised, and nothing in proxy_response catches it. *)
(* A client-gone exception is one whose text says that a connection was reset. *)
OpenBroken ==
  /\ Opening({"broken"}, TRUE)
  /\ opening' = NoCall
  /\ raised' \in {"error", "gone"}
  /\ phase' = IF frames = <<>> THEN "over" ELSE phase
  /\ cancelled' = (cancelled \/ (frames = <<>> /\ wrapped))
  /\ UNCHANGED <<wrapped, background, frames, client, sent, tried, open, told, record,
                 stored, cached>>

OpenStream ==
  /\ Opening({"sse"}, TRUE)
  /\ opening' = NoCall
  /\ frames' = Append(frames, NoFrame(opening))
  /\ UNCHANGED <<phase, wrapped, background, cancelled, raised, client, sent, tried, open,
                 told, record, stored, cached>>

-----------------------------------------------------------------------------
(* The generator of proxy_response *)

ReadBeat ==
  /\ Running("reading") /\ Beats < MaxBeats
  /\ Yield(Top.id, <<"beat">>)
  /\ UNCHANGED <<phase, wrapped, background, cancelled, opening, frames, client, tried,
                 open, told, record, stored, cached>>

(* A line is forwarded once the stream had output.  Faulty variant: at once. *)
ForwardsAll(f) == TRUE
Forwards(f) == f.output

(* A data line.  Lines are held back until one of them carries output; the line *)
(* that finishes the last choice ends the reading.                              *)
ReadLine(kind) ==
  /\ Running("reading") /\ Top.lines < MaxLines
  /\ LET f == [Top EXCEPT !.output = @ \/ kind = "text", !.lines = @ + 1,
                          !.pc = IF kind = "finish" THEN "checking" ELSE @]
     IN IF Forwards(f)
        THEN /\ Yield(f.id, f.held \o <<kind>>)
             /\ SetTop([f EXCEPT !.held = <<>>])
        ELSE /\ SetTop([f EXCEPT !.held = Append(@, kind)])
             /\ UNCHANGED <<sent, raised>>
  /\ open' = IF kind = "finish" THEN open \ {Top.id} ELSE open
  /\ UNCHANGED <<phase, wrapped, background, cancelled, opening, client, tried, told,
                 record, stored, cached>>

(* The upstream's own [DONE] *)
ReadDone ==
  /\ Running("reading")
  /\ IF Top.output
     THEN /\ Yield(Top.id, <<"done">>)
          /\ SetTop([Top EXCEPT !.done = TRUE, !.pc = "closing"])
     ELSE /\ SetTop([Top EXCEPT !.pc = "checking"])
          /\ UNCHANGED <<sent, raised>>
  /\ open' = open \ {Top.id}
  /\ UNCHANGED <<phase, wrapped, background, cancelled, opening, client, tried, told,
                 record, stored, cached>>

(* The upstream closed the stream, with or without a line that finishes it. *)
ReadEnd ==
  /\ Running("reading")
  /\ SetTop([Top EXCEPT !.pc = "checking"])
  /\ UNCHANGED <<phase, wrapped, background, cancelled, opening, raised, client, sent,
                 tried, open, told, record, stored, cached>>

(* save_interruption_resume_snapshot keeps a text that is long enough. *)
Save(f) == stored' \in IF f.output THEN {stored, f.id} ELSE {stored}

Caught(f) == [f EXCEPT !.error = "cut", !.handler = TRUE, !.pc = "failed"]
Left(f) == [f EXCEPT !.error = "client_gone", !.gone = TRUE, !.pc = "closing"]

(* The read raised. *)
ReadCut ==
  /\ Running("reading")
  /\ SetTop(Caught(Top)) /\ Save(Top)
  /\ open' = open \ {Top.id}
  /\ UNCHANGED <<phase, wrapped, background, cancelled, opening, raised, client, sent,
                 tried, told, record, cached>>

(* It raised an exception that is_client_gone_exception takes for the client's. *)
ReadReset ==
  /\ Running("reading")
  /\ SetTop(Left(Top))
  /\ raised' = "gone"
  /\ open' = open \ {Top.id}
  /\ UNCHANGED <<phase, wrapped, background, cancelled, opening, client, sent, tried,
                 told, record, stored, cached>>

(* A stream without output is retried on another route, within its budget. *)
RetryEmpty ==
  /\ Running("checking") /\ ~Top.output
  /\ CanFailover(Top.spent, "empty")
  /\ \E answer \in Responses :
       /\ Execute(answer, Spend(Top.spent, "empty"), TRUE, 0)
       /\ open' = Replace(Top.id, answer)
  /\ SetTop([Top EXCEPT !.error = "empty", !.delegated = TRUE, !.pc = "inner"])
  /\ UNCHANGED <<phase, wrapped, background, cancelled, raised, client, sent, record,
                 stored, cached>>

Check ==
  /\ Running("checking")
  /\ IF Top.output
     THEN /\ SetTop([Top EXCEPT !.pc = "ending"])
          /\ UNCHANGED <<sent, raised>>
     ELSE /\ SetTop([Top EXCEPT !.error = "empty", !.pc = "ending"])
          /\ Yield(Top.id, <<"error">>)
  /\ UNCHANGED <<phase, wrapped, background, cancelled, opening, client, tried, open,
                 told, record, stored, cached>>

End ==
  /\ Running("ending")
  /\ SetTop([Top EXCEPT !.done = TRUE, !.pc = "closing"])
  /\ Yield(Top.id, <<"done">>)
  /\ UNCHANGED <<phase, wrapped, background, cancelled, opening, client, tried, open,
                 told, record, stored, cached>>

(* A stream that was cut is retried with a hint that quotes its own text, or, if *)
(* it has no output, with the request as it came.                                *)
RetryCut ==
  /\ Running("failed")
  /\ CanFailover(Top.spent, "cut")
  /\ \E answer \in Responses :
       /\ Execute(answer, Spend(Top.spent, "cut"), TRUE, IF Top.output THEN Top.id ELSE 0)
       /\ open' = open \cup Opened(answer)
  /\ SetTop([Top EXCEPT !.delegated = TRUE, !.pc = "inner"])
  /\ UNCHANGED <<phase, wrapped, background, cancelled, raised, client, sent, record,
                 stored, cached>>

GiveUp ==
  /\ Running("failed")
  /\ SetTop([Top EXCEPT !.done = TRUE, !.pc = "closing"])
  /\ Yield(Top.id, IF Top.output THEN <<"finish", "done">> ELSE <<"error", "done">>)
  /\ UNCHANGED <<phase, wrapped, background, cancelled, opening, client, tried, open,
                 told, record, stored, cached>>

(* Faulty variant: the handler of a cut catches the GeneratorExit too. *)
PassingGone == {"gone"}
Passing == {"exit", "gone"}

(* An exception reaches a generator.  GeneratorExit and a client-gone exception *)
(* pass; any other is treated as a cut of the generator's own stream, unless    *)
(* the generator already handles one.                                           *)
Unwind ==
  /\ raised # "no" /\ frames # <<>> /\ opening = NoCall /\ Top.pc # "closing"
  /\ CASE Top.handler ->
            SetTop([Top EXCEPT !.pc = "closing"]) /\ UNCHANGED <<raised, stored>>
       [] ~Top.handler /\ raised \notin Passing ->
            SetTop(Caught(Top)) /\ Save(Top) /\ raised' = "no"
       [] ~Top.handler /\ raised \in Passing ->
            SetTop(Left(Top)) /\ UNCHANGED <<raised, stored>>
  /\ open' = IF Top.handler THEN open ELSE open \ {Top.id}
  /\ UNCHANGED <<phase, wrapped, background, cancelled, opening, client, sent, tried, told,
                 record, cached>>

(* The answer is complete, and is stored.  Faulty variant: that of a stream that *)
(* was cut and closed by the proxy too.                                          *)
CompleteOrCut(f) == ~f.delegated /\ ~f.gone
Complete(f) == ~f.delegated /\ ~f.gone /\ f.error = "no"

(* The generator below returns after its "yield from".  Faulty variant: it goes *)
(* on to end its own stream.                                                    *)
FallThrough(stack) == [stack EXCEPT ![Len(stack)].pc = "ending"]
Returning(stack) == [stack EXCEPT ![Len(stack)].pc = "closing"]

(* The finally clause, and the return to the generator below. *)
Finally ==
  /\ frames # <<>> /\ opening = NoCall /\ Top.pc = "closing"
  /\ LET f == Top
         rest == Front(frames)
     IN /\ open' = open \ {f.id}
        /\ FinishRecord(f.error, f.gone)
        /\ cached' = IF Complete(f) THEN cached \cup {f.id} ELSE cached
        /\ IF ~f.delegated /\ f.gone THEN Save(f)
           ELSE stored' = IF Complete(f) /\ f.resumed THEN 0 ELSE stored
        /\ frames' = IF rest # <<>> /\ raised = "no"
                     THEN Returning(rest) ELSE rest
        /\ phase' = IF rest = <<>> THEN "over" ELSE phase
        /\ cancelled' = (cancelled \/ (rest = <<>> /\ wrapped /\ raised # "no"))
  /\ UNCHANGED <<wrapped, background, opening, raised, client, sent, tried, told>>

Over ==
  /\ phase = "over" /\ background # "running"
  /\ UNCHANGED vars

Connect == Start \/ (\E answer \in Answer : Publish(answer)) \/ Ready \/ GraceOver
           \/ WaitBeat \/ WaitOver \/ WaitFailed \/ WaitExit
Open == OpenRefused \/ OpenBody \/ RetryBlank \/ RefuseBlank \/ RetrySilent
        \/ RefuseSilent \/ OpenBroken \/ OpenStream
Relay == ReadBeat \/ (\E kind \in Line : ReadLine(kind)) \/ ReadDone \/ ReadEnd \/ ReadCut
         \/ ReadReset \/ RetryEmpty \/ Check \/ End \/ RetryCut \/ GiveUp \/ Unwind \/ Finally

Next == Connect \/ Leave \/ Open \/ Relay \/ Over
Spec == Init /\ [][Next]_vars

-----------------------------------------------------------------------------
(* Properties *)

Ids == 0..MaxAttempts
Spents == [Budgets -> 0..(Pool - 1)]
Calls == [answer : Answer, id : Ids, spent : Spents, stream : BOOLEAN, resumed : BOOLEAN]
Pcs == {"reading", "checking", "ending", "failed", "inner", "closing"}
Errors == {"no", "empty", "cut", "client_gone", "status", "malformed", "exception"}
Frames == [id : Attempts, spent : Spents, resumed : BOOLEAN, output : BOOLEAN,
           held : Seq(Line), lines : 0..MaxLines, done : BOOLEAN, error : Errors,
           gone : BOOLEAN, delegated : BOOLEAN, handler : BOOLEAN, pc : Pcs]

(* The variables keep their types, and no failover budget is overdrawn. *)
TypeOK ==
  /\ phase \in {"idle", "connecting", "waiting", "relaying", "over"}
  /\ wrapped \in BOOLEAN /\ cancelled \in BOOLEAN
  /\ background \in Answer \cup {"idle", "running"}
  /\ opening \in Calls
  /\ frames \in Seq(Frames)
  /\ raised \in {"no", "exit", "gone", "error"}
  /\ client \in {"here", "gone"}
  /\ sent \in Seq([id : Ids, kind : Packet])
  /\ tried \in Ids
  /\ open \subseteq Attempts
  /\ told \in [Attempts -> Ids]
  /\ record \in [active : BOOLEAN,
                 finished : Seq([full : BOOLEAN, error : Errors, gone : BOOLEAN])]
  /\ stored \in Ids
  /\ cached \subseteq Attempts

(* However many attempts a request took, its stream ends once: nothing follows  *)
(* [DONE] or a body, and only [DONE] follows an error.  The generators of the   *)
(* failed attempts, which are resumed after the last one, must all return.      *)
EndsOnce ==
  \A i \in 1..Len(sent) :
    /\ sent[i].kind \in {"done", "body", "bare"} => i = Len(sent)
    /\ sent[i].kind = "error" /\ i < Len(sent) => sent[i + 1].kind = "done"

(* The client sees lines of an attempt only if the attempt had output: those of *)
(* the attempts that a failover replaced as empty are held back.                *)
EmptyUnseen ==
  \A i \in 1..Len(sent) : sent[i].kind \in Line =>
    \E j \in 1..Len(sent) : sent[j].id = sent[i].id /\ sent[j].kind = "text"

(* A failover closes the stream it gives up before it asks another route: a     *)
(* request holds one upstream stream at a time.                                 *)
OneStream == \A a, b \in open : a = b

(* An answer goes into the request cache only if it was relayed to its end: no  *)
(* attempt continued it, the client got no error for it, a record says that it  *)
(* ended well, and a client that stayed got its end.  Records before that one   *)
(* are of cut attempts whose failover raised, too: the generator that replaced  *)
(* an empty attempt with them takes that for a cut, and tries a route more.     *)
CachedWasWhole ==
  \A a \in cached :
    /\ \A b \in Attempts : told[b] # a
    /\ \A i \in 1..Len(sent) : sent[i] # [id |-> a, kind |-> "error"]
    /\ \E i \in 1..Len(record.finished) :
         /\ record.finished[i].error = "no"
         /\ \A k \in 1..(i - 1) : record.finished[k].error = "cut"
    /\ phase = "over" /\ client = "here" =>
         Last(sent).id = a /\ Last(sent).kind \in {"done", "body", "bare"}

(* Once the relay takes the client for gone, that exception passes every *)
(* generator of the request, and no other route is asked.                *)
ExitEndsAttempts ==
  [][phase = "relaying" /\ raised \in {"exit", "gone"} =>
       raised' = raised /\ tried' = tried]_vars
====
