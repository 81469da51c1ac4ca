-------------------------- MODULE ConvertedStreams --------------------------
(***************************************************************************)
(* One request of an Anthropic or a Gemini client, answered from an OpenAI *)
(* chat completion of upstream (server.py): the entry and its grace, the   *)
(* wait with heartbeats, the failover of an answer without output, the     *)
(* stream that is converted event by event, and its end.                   *)
(*                                                                         *)
(* A packet that is yielded waits in outbox until the server asks for the  *)
(* next one.  bridge_anthropic_sse_response makes a list of the whole      *)
(* answer first: its packets wait until the answer has ended ("bridged").  *)
(***************************************************************************)
EXTENDS StreamWriters

CONSTANTS
    ClientRequests,  \* the requests of clients: [protocol, thinking, stream]
    Chunks,          \* what upstream may send next
    MaxChunks,       \* bound: chunks of one upstream answer
    MaxFailovers     \* the budget of a kind of failover: other routes of the request

IsSequence(s) == s \in Seq(Range(s))

ASSUME StreamAssumption ==
    /\ IsFiniteSet(ToolIndexes) /\ ToolIndexes = 0 .. (Cardinality(ToolIndexes) - 1)
    /\ EagerTool # DeferredTool /\ NoTool \notin {EagerTool, DeferredTool}
    /\ ClientRequests \subseteq
          [protocol : {"anthropic", "gemini"}, thinking : BOOLEAN, stream : BOOLEAN]
    /\ \A chunk \in Chunks :
          /\ IsSequence(chunk.text) /\ IsSequence(chunk.reason)
          /\ IsSequence(chunk.calls) /\ IsSequence(chunk.message)
          /\ \A call \in Range(chunk.calls) \cup Range(chunk.message) :
                call.index \in ToolIndexes /\ call.name \in {NoTool, EagerTool, DeferredTool}
          /\ \A call \in Range(chunk.message) : call.index = 0 /\ call.name # NoTool
    /\ MaxChunks \in Nat \ {0}

VARIABLES
    request,   \* of the client
    phase,     \* where the handler is
    bridged,   \* the packets wait for the end of the answer
    used,      \* failovers of answers without output used
    upstream,  \* the chunks read of the current upstream answer
    choice,    \* the cleaning state of its choice
    writer,
    outbox,    \* packets yielded, not sent
    client,    \* packets sent
    records,   \* what record_request_finished was told
    partial,   \* the partial answer this request resumes: "earlier",
               \* "none" once it is cleared, "saved" when another replaced it
    cached     \* what the request cache was given: "none", "whole", "cut" or "empty"

streamVars == <<request, phase, bridged, used, upstream, choice, writer, outbox, client,
                records, partial, cached>>

Anthropic == request.protocol = "anthropic"
Thinking == request.thinking /\ Anthropic
Kinds == {"stream", "whole", "hollow", "unread", "error", "none"}
\* An upstream execution's outcome: an event stream, a JSON answer with or
\* without output or whose body cannot be read, an HTTP error, no response.

NewAnswer(kind) ==
    /\ upstream' = <<>>
    /\ choice' = FreshChoice
    /\ writer' = [FreshWriter EXCEPT !.refused = kind = "error", !.unread = kind = "unread",
                                    !.said = IF kind = "whole" THEN <<"whole">> ELSE <<>>]

SameAnswer == UNCHANGED <<upstream, choice, writer>>
SameStores == UNCHANGED <<partial, cached>>

Record(how) == records' = Append(records, how)
Cleared == IF partial = "earlier" THEN "none" ELSE partial

StreamInit ==
    /\ request \in ClientRequests
    /\ phase = "opening"
    /\ bridged = FALSE
    /\ used = 0
    /\ upstream = <<>> /\ choice = FreshChoice /\ writer = FreshWriter
    /\ outbox = <<>> /\ client = <<>> /\ records = <<>>
    /\ partial = "earlier"
    /\ cached = "none"

(***************************************************************************)
(* An upstream answer that has arrived is handed to its handler.           *)
(***************************************************************************)
WholePackets ==
    IF Anthropic
    THEN <<Packet("message_start", 0, <<>>), Packet("block_start", 1, <<"text">>),
           Packet("delta", 1, <<"whole">>), Packet("block_stop", 1, <<>>),
           Packet("message_delta", 0, <<"end_turn">>), Packet("message_stop", 0, <<>>)>>
    ELSE <<Packet("chunk", 0, <<"whole">>)>>

\* handle_anthropic_stream_response: an error is answered and not recorded,
\* a JSON answer is recorded before its packets are sent.  When the read of its
\* body raises, the exception leaves the handler, and its callers take the
\* record for the handler's.
AnthropicHandles(kind, before) ==
    \/ /\ kind = "stream"
       /\ phase' = "first" /\ outbox' = before
       /\ UNCHANGED <<records, partial, cached>>
    \/ /\ kind = "whole"
       /\ phase' = "replaying" /\ outbox' = before \o WholePackets
       /\ Record("ok") /\ partial' = Cleared /\ UNCHANGED cached
    \/ /\ kind = "hollow"
       /\ phase' = "replaying" /\ outbox' = Append(before, ErrorPacket)
       /\ Record("malformed") /\ SameStores
    \/ /\ kind = "error"
       /\ phase' = "replaying" /\ outbox' = Append(before, ErrorPacket)
       /\ UNCHANGED <<records, partial, cached>>
    \/ /\ kind = "unread"
       /\ phase' = "ended" /\ outbox' = <<>>
       /\ UNCHANGED <<records, partial, cached>>

\* handle_gemini_stream_response: whatever is no event stream is one packet.
GeminiHandles(kind) ==
    \/ /\ kind = "stream"
       /\ phase' = "reading" /\ UNCHANGED outbox
       /\ UNCHANGED <<records, partial, cached>>
    \/ /\ kind \in {"whole", "hollow", "error"}
       /\ phase' = "closing"
       /\ outbox' = IF kind = "whole" THEN WholePackets ELSE <<Packet("chunk", 0, <<>>)>>
       /\ UNCHANGED <<records, partial, cached>>
    \/ /\ kind = "unread"
       /\ phase' = "ended" /\ Record("error")
       /\ UNCHANGED <<outbox, partial, cached>>

Handles(kind, before) ==
    /\ NewAnswer(kind)
    /\ IF Anthropic THEN AnthropicHandles(kind, before) ELSE GeminiHandles(kind)

(***************************************************************************)
(* The entry                                                               *)
(***************************************************************************)
\* The execution is there within the grace: it is answered without heartbeats.
FailOpening ==
    /\ phase' = "ended" /\ client' = <<ErrorPacket>> /\ Record("failed")
    /\ SameAnswer /\ UNCHANGED <<outbox, partial, cached>>

OpenedInTime(kind) ==
    /\ phase = "opening" /\ request.stream
    /\ IF kind \in {"error", "none"} THEN FailOpening ELSE Handles(kind, <<>>) /\ UNCHANGED client
    /\ UNCHANGED <<request, bridged, used>>

\* It is not: the answer is a stream at once, with heartbeats.
GraceElapses ==
    /\ phase = "opening" /\ request.stream
    /\ phase' = "waiting"
    /\ SameAnswer /\ SameStores
    /\ UNCHANGED <<request, bridged, used, outbox, client, records>>

Delegate(kind) ==
    /\ Handles(kind, <<>>)
    /\ bridged' = Anthropic

FailWaiting ==
    /\ phase' = "failing" /\ outbox' = <<ErrorPacket>>
    /\ SameAnswer /\ UNCHANGED <<bridged, records, partial, cached>>

\* The background execution ends while the client is kept waiting; an HTTP
\* error of it is tried on another route once more.
WaitingIsOver(kind) ==
    /\ phase = "waiting"
    /\ IF kind = "error" /\ MaxFailovers > 0
       THEN \E next \in Kinds : IF next = "none" THEN FailWaiting ELSE Delegate(next)
       ELSE IF kind \in {"error", "none"} THEN FailWaiting ELSE Delegate(kind)
    /\ UNCHANGED <<request, used, client>>

(***************************************************************************)
(* The event stream                                                        *)
(***************************************************************************)
Reading == phase = "reading" /\ (bridged \/ outbox = <<>>)

\* Upstream numbers its calls from 0 and names a call in its first delta.
Follows(chunk) ==
    \A k \in DOMAIN chunk.calls :
        LET call == chunk.calls[k]
            before == Known(choice) \cup {chunk.calls[j].index : j \in 1 .. (k - 1)}
        IN /\ \A i \in ToolIndexes : i < call.index => i \in before
           /\ call.name = NoTool <=> call.index \in before

\* Bound: the calls that were written as text find an index that is left.
Fits(event) == \A k \in DOMAIN event.calls : event.calls[k].index \in ToolIndexes

Written(event) ==
    IF Anthropic THEN AnthropicWrite(writer, event, Thinking) ELSE GeminiWrite(writer, event)

\* The loop over the lines: it is over with the first event that is finished.
ReadChunk(chunk) ==
    /\ phase = "first" \/ Reading
    /\ Len(upstream) < MaxChunks /\ Follows(chunk)
    /\ upstream' = Append(upstream, chunk)
    /\ \E one \in {NormalizeChoice(choice, chunk)} :
          /\ Fits(one.event)
          /\ choice' = one.choice
          /\ phase' = IF one.event.finish # None THEN "read" ELSE "reading"
          /\ \E next \in {IF Kept(one.event) THEN Written(one.event) ELSE writer} :
                /\ writer' = [next EXCEPT !.out = <<>>]
                /\ outbox' = outbox \o next.out
    /\ SameStores /\ UNCHANGED <<request, bridged, used, client, records>>

\* An event without a choice is nothing to Anthropic; Gemini keeps an error
\* for the record, and sends the counts of tokens on (here once at most, and
\* before other output).
ReadOther ==
    /\ phase = "first" \/ Reading
    /\ phase' = "reading"
    /\ \/ Anthropic /\ UNCHANGED <<writer, outbox>>
       \/ ~Anthropic /\ writer' = [writer EXCEPT !.failed = TRUE] /\ UNCHANGED outbox
       \/ /\ ~Anthropic /\ ~writer.any /\ writer' = [writer EXCEPT !.any = TRUE]
          /\ outbox' = Append(outbox, Packet("chunk", 0, <<>>))
    /\ SameStores
    /\ UNCHANGED <<request, bridged, used, upstream, choice, client, records>>

StreamEnds ==
    /\ phase = "first" \/ Reading
    /\ phase' = "read"
    /\ SameAnswer /\ SameStores
    /\ UNCHANGED <<request, bridged, used, outbox, client, records>>

\* The read raises: the exception leaves the handler, and a list it was
\* making is lost.
ReadFails ==
    /\ phase = "first" \/ Reading
    /\ phase' = "ended" /\ outbox' = <<>>
    /\ Record("error")
    /\ SameAnswer /\ SameStores /\ UNCHANGED <<request, bridged, used, client>>

(***************************************************************************)
(* The end of the stream                                                   *)
(***************************************************************************)
AtEnd == phase = "read" /\ (bridged \/ outbox = <<>>)

\* An answer without output: another route is asked, while there is one.
AnthropicFailover(kind) ==
    /\ AtEnd /\ Anthropic /\ ~writer.meant
    /\ used < MaxFailovers
    /\ used' = used + 1
    /\ IF kind = "none"
       THEN /\ phase' = "closing" /\ outbox' = Append(outbox, ErrorPacket)
            /\ Record("malformed")
            /\ SameAnswer /\ SameStores /\ UNCHANGED bridged
       ELSE /\ Handles(kind, Append(outbox, Packet("attempt", 0, <<>>)))
            /\ bridged' = TRUE
    /\ UNCHANGED <<request, client>>

AnthropicMalformed ==
    /\ AtEnd /\ Anthropic /\ ~writer.meant
    /\ used >= MaxFailovers
    /\ phase' = "closing" /\ outbox' = Append(outbox, ErrorPacket)
    /\ Record("malformed")
    /\ SameAnswer /\ SameStores /\ UNCHANGED <<request, bridged, used, client>>

AnthropicCloses ==
    /\ AtEnd /\ Anthropic /\ writer.meant
    /\ phase' = "closing" /\ outbox' = outbox \o AnthropicClose(writer).out
    /\ SameAnswer /\ SameStores /\ UNCHANGED <<request, bridged, used, client, records>>

GeminiCloses ==
    /\ AtEnd /\ ~Anthropic
    /\ phase' = "closing"
    /\ outbox' = IF writer.any THEN outbox ELSE <<ErrorPacket>>
    /\ writer' = [writer EXCEPT !.failed = @ \/ ~writer.any]
    /\ SameStores /\ UNCHANGED <<request, bridged, used, upstream, choice, client, records>>

\* The finally block of a handler that ran to its end
HandlerEnds ==
    /\ phase = "closing" /\ (bridged \/ outbox = <<>>)
    /\ phase' = IF outbox = <<>> THEN "ended" ELSE "replaying"
    /\ Record(IF writer.failed \/ writer.refused THEN "error" ELSE "ok")
    /\ partial' = IF writer.failed THEN partial ELSE Cleared
    /\ SameAnswer /\ UNCHANGED <<request, bridged, used, outbox, client, cached>>

\* ... and of the wait that ended with an error packet
WaitingEnds ==
    /\ phase = "failing" /\ outbox = <<>>
    /\ phase' = "ended"
    /\ Record("failed")
    /\ SameAnswer /\ SameStores /\ UNCHANGED <<request, bridged, used, outbox, client>>

(***************************************************************************)
(* The client                                                              *)
(***************************************************************************)
Sending ==
    phase \in {"replaying", "failing"} \/ (phase \in {"reading", "read", "closing"} /\ ~bridged)

Deliver ==
    /\ Sending /\ outbox # <<>>
    /\ client' = Append(client, Head(outbox))
    /\ outbox' = Tail(outbox)
    /\ SameAnswer /\ SameStores /\ UNCHANGED <<request, phase, bridged, used, records>>

\* A faulty variant for the check: the wait records an answer it delegated.
ReplayedAndRecorded ==
    /\ phase = "replaying" /\ outbox = <<>>
    /\ phase' = "ended"
    /\ Record("ok")
    /\ SameAnswer /\ SameStores /\ UNCHANGED <<request, bridged, used, outbox, client>>

Replayed ==
    /\ phase = "replaying" /\ outbox = <<>>
    /\ phase' = "ended"
    /\ SameAnswer /\ SameStores
    /\ UNCHANGED <<request, bridged, used, outbox, client, records>>

\* The last packet was yielded: the client going now is no interruption.
LastYielded ==
    outbox # <<>> /\ Head(outbox).kind = (IF Anthropic THEN "message_stop" ELSE "last_chunk")

RecordLeaving ==
    IF ~LastYielded
    THEN Record("gone") /\ partial' = IF Visible(writer.said) THEN "saved" ELSE partial
    ELSE IF writer.failed THEN Record("error") /\ UNCHANGED partial
    ELSE Record("ok") /\ partial' = Cleared

\* The client goes away while a packet or a heartbeat is sent.
ClientLeaves ==
    /\ \/ phase = "replaying" /\ UNCHANGED <<records, partial>>
       \/ /\ phase = "waiting" \/ (phase = "failing" /\ outbox # <<>>)
          /\ Record("gone") /\ UNCHANGED partial
       \/ /\ ~bridged
          /\ phase = "reading" \/ (phase \in {"read", "closing"} /\ outbox # <<>>)
          /\ RecordLeaving
    /\ phase' = "ended" /\ outbox' = <<>>
    /\ SameAnswer /\ UNCHANGED <<request, bridged, used, client, cached>>

(***************************************************************************)
(* A request that is not streamed: the upstream answer is collected first. *)
(***************************************************************************)
\* consume_openai_sse_events stops at the first finish, and takes a read
\* error for the end; the read of a JSON body raises.
Collected(kind) ==
    IF kind = "stream" THEN "collecting" ELSE IF kind = "unread" THEN "ended" ELSE "collected"

Collect(kind) ==
    /\ phase = "opening" /\ ~request.stream
    /\ phase' = Collected(kind)
    /\ writer' = [FreshWriter EXCEPT !.meant = kind = "whole", !.unread = kind = "unread",
                     !.message.finish = IF kind = "whole" THEN "stop" ELSE None,
                     !.failed = kind \in {"error", "none"}]
    /\ SameStores
    /\ UNCHANGED <<request, bridged, used, upstream, choice, outbox, client, records>>

CollectChunk(chunk) ==
    /\ phase = "collecting" /\ Len(upstream) < MaxChunks /\ Follows(chunk)
    /\ upstream' = Append(upstream, chunk)
    /\ \E one \in {NormalizeChoice(choice, chunk)} :
          /\ Fits(one.event)
          /\ choice' = one.choice
          /\ writer' = IF Kept(one.event)
                       THEN [writer EXCEPT !.message = Aggregate(@, one.event),
                                           !.meant = @ \/ Means(one.event, FALSE)]
                       ELSE writer
          /\ phase' = IF one.event.finish # None THEN "collected" ELSE "collecting"
    /\ SameStores /\ UNCHANGED <<request, bridged, used, outbox, client, records>>

CollectEnds ==
    /\ phase = "collecting" /\ phase' = "collected"
    /\ SameAnswer /\ SameStores
    /\ UNCHANGED <<request, bridged, used, outbox, client, records>>

\* retry_malformed_success_once, for Anthropic only
CollectAgain(kind) ==
    /\ phase = "collected" /\ Anthropic /\ ~writer.failed /\ ~writer.meant
    /\ used < MaxFailovers /\ kind # "none"
    /\ used' = used + 1
    /\ phase' = Collected(kind)
    /\ upstream' = <<>> /\ choice' = FreshChoice
    /\ writer' = [FreshWriter EXCEPT !.meant = kind = "whole", !.unread = kind = "unread",
                     !.message.finish = IF kind = "whole" THEN "stop" ELSE None]
    /\ SameStores /\ UNCHANGED <<request, bridged, outbox, client, records>>

AnswerFailed ==
    /\ writer.failed
    /\ client' = <<ErrorPacket>> /\ Record("failed") /\ SameStores

AnswerMalformed ==
    /\ ~writer.failed /\ Anthropic /\ ~writer.meant
    /\ client' = <<ErrorPacket>> /\ Record("malformed") /\ SameStores

\* Gemini does not look whether the answer has output.
AnswerWhole ==
    /\ ~writer.failed /\ (~Anthropic \/ writer.meant)
    /\ client' = <<Packet("whole", 0, <<>>)>> /\ Record("ok")
    /\ partial' = IF Anthropic THEN Cleared ELSE partial
    /\ cached' = IF ~writer.meant THEN "empty"
                 ELSE IF writer.message.finish = None THEN "cut" ELSE "whole"

Answer ==
    /\ phase = "collected" /\ phase' = "ended"
    /\ AnswerFailed \/ AnswerMalformed \/ AnswerWhole
    /\ SameAnswer /\ UNCHANGED <<request, bridged, used, outbox>>

StreamNext ==
    \/ \E kind \in Kinds : \/ OpenedInTime(kind) \/ WaitingIsOver(kind)
                           \/ AnthropicFailover(kind)
                           \/ Collect(kind) \/ CollectAgain(kind)
    \/ \E chunk \in Chunks : ReadChunk(chunk) \/ CollectChunk(chunk)
    \/ GraceElapses \/ ReadOther \/ StreamEnds \/ ReadFails
    \/ AnthropicMalformed \/ AnthropicCloses \/ GeminiCloses \/ HandlerEnds \/ WaitingEnds
    \/ Deliver \/ Replayed \/ ClientLeaves \/ CollectEnds \/ Answer

StreamSpec == StreamInit /\ [][StreamNext]_streamVars

(***************************************************************************)
(* What the client has seen                                                *)
(***************************************************************************)
Unseen == [stage |-> "before", open |-> {}, used |-> {}, filled |-> 0]

See(seen, packet) ==
    LET b == packet.block
    IN CASE packet.kind = "attempt" -> Unseen
         [] packet.kind = "message_start" -> [seen EXCEPT !.stage = "message"]
         [] packet.kind = "block_start" -> [seen EXCEPT !.open = @ \cup {b}, !.used = @ \cup {b}]
         [] packet.kind = "delta" -> [seen EXCEPT !.filled = b]
         [] packet.kind = "block_stop" ->
              [seen EXCEPT !.open = @ \ {b}, !.filled = IF @ = b THEN 0 ELSE @]
         [] packet.kind = "message_delta" -> [seen EXCEPT !.stage = "summed"]
         [] packet.kind = "message_stop" -> [seen EXCEPT !.stage = "complete"]
         [] OTHER -> [seen EXCEPT !.stage = "error"]

\* What is seen after each packet
Views(packets) ==
    LET after[k \in 0 .. Len(packets)] ==
            IF k = 0 THEN Unseen ELSE See(after[k - 1], packets[k])
    IN after

Seen == IF Anthropic /\ request.stream THEN Views(client)[Len(client)] ELSE Unseen

Promise == INSTANCE MessageStream WITH
    Blocks <- 1 .. (2 * MaxChunks + Cardinality(ToolIndexes)),
    stage <- Seen.stage, open <- Seen.open, used <- Seen.used, filled <- Seen.filled

\* The stream of an Anthropic client implements MessageStream: across the
\* failovers of the answer and the kinds of text, thoughts and calls that
\* alternate, every block has a fresh number, is filled while it is open and
\* is closed before the message is completed, and nothing follows an end.
ClientSees == Promise!Spec

\* The words that only a text of upstream has: no thought, no part of a call
Special == {Blank, MarkerHead, MarkerTail, DsmlOpen, DsmlInvoke, "call", "whole", "empty"}
AllWords ==
    (UNION {Range(chunk.text) : chunk \in Chunks})
        \ (Special \cup (UNION {Range(chunk.reason) : chunk \in Chunks}))

Worded(words, token) == IF token \in AllWords THEN Append(words, token) ELSE words

Words(text) ==
    LET kept[k \in 0 .. Len(text)] == IF k = 0 THEN <<>> ELSE Worded(kept[k - 1], text[k])
    IN kept[Len(text)]

With(words, chunk) == words \o Words(chunk.text)

Sent(chunks) ==
    LET upTo[k \in 0 .. Len(chunks)] == IF k = 0 THEN <<>> ELSE With(upTo[k - 1], chunks[k])
    IN upTo[Len(chunks)]

Read(text, packet) ==
    IF packet.kind = "attempt" THEN <<>>
    ELSE IF packet.kind \in {"delta", "chunk", "last_chunk"} THEN text \o Words(packet.value)
    ELSE text

\* What is read after each packet
Readings(packets) ==
    LET after[k \in 0 .. Len(packets)] ==
            IF k = 0 THEN <<>> ELSE Read(after[k - 1], packets[k])
    IN after

Arrived == IF request.stream THEN Readings(client)[Len(client)] ELSE Words(writer.message.text)

WholeAnswerSent ==
    \/ phase = "collected"
    \/ client # <<>> /\ client[Len(client)].kind \in {"message_stop", "last_chunk"}

\* A text reaches the client in its order and without gaps, whatever was held
\* back as a possible marker or tool block on the way; and when the answer is
\* finished by other than tool calls, nothing of it is missing.
TextKept ==
    /\ IsPrefix(Arrived, Sent(upstream))
    /\ (WholeAnswerSent /\ upstream # <<>>
        /\ upstream[Len(upstream)].finish \in {"stop", "length", "error"} /\ ~choice.seen)
       => Arrived = Sent(upstream)

ToolStarts == {k \in DOMAIN client : client[k].kind = "block_start" /\ client[k].value = <<"tool">>}
Fillings(k) == {j \in (k + 1) .. Len(client) : client[j].kind = "delta"
                                                /\ client[j].block = client[k].block}

\* The last chunk's message gives two calls one index: the calls of a message
\* have none of their own, and are all given 0.
IndexRepeated ==
    upstream # <<>> /\ LET message == upstream[Len(upstream)].message
                       IN \E j, k \in DOMAIN message : j # k /\ message[j].index = message[k].index

\* The answer was finished by a reason that does not wait for its calls.
CutShort ==
    upstream # <<>> /\ upstream[Len(upstream)].finish \notin {None, "stop", "error", "tool_calls"}

\* The last chunk read names the call, of a tool that requires no arguments.
NamedLast(i) ==
    /\ upstream # <<>>
    /\ \E call \in Range(Given(upstream[Len(upstream)])) :
          call.index = i /\ call.name = EagerTool

\* A tool call the client is told of has one argument text: the whole of what
\* upstream sent in pieces, or again in its last message; or an empty object,
\* and that only for a tool that requires no arguments and only in the chunk
\* that names it, which ends the answer: what upstream sends of its arguments
\* after that chunk is lost.  Two calls of one message are mixed up; and a call
\* that is told of before its arguments has none when the answer is cut short
\* with it.
CallsWhole ==
    ~IndexRepeated =>
      /\ \A i \in ToolIndexes :
            LET args == writer.message.calls[i]
            IN \/ args = <<>>
               \/ /\ args = <<"whole">>
                  /\ \/ \E document \in Documents : IsPrefix(document, choice.tools[i].buffer)
                     \/ /\ upstream # <<>>
                        /\ \E call \in Range(upstream[Len(upstream)].message) :
                              call.index = i /\ call.args = "whole"
               \/ args = <<"empty">> /\ NamedLast(i)
      /\ Seen.stage = "complete" /\ ~CutShort => \A k \in ToolStarts : Cardinality(Fillings(k)) = 1

\* A request is recorded once.  Twice only when an answer without output was
\* reported from inside the stream.  Never when another attempt at it was
\* refused by upstream, or when the body of a JSON answer could not be read by
\* a handler that has no record of its own for that (server.py:7022, 7301 and
\* 8257): such a request stays among the active ones.  And when the record alone
\* says the answer was sent, the client has got it, unless the answer had been
\* made a list before its first packet was sent.
RecordedOnce ==
    phase = "ended" =>
        /\ \/ Len(records) = 1
           \/ records \in {<<"malformed", "ok">>, <<"malformed", "gone">>} /\ Anthropic
           \/ records = <<>> /\ Anthropic /\ writer.refused
           \/ records = <<>> /\ writer.unread /\ (Anthropic \/ ~request.stream)
        /\ records = <<"ok">> /\ Anthropic /\ request.stream =>
              \/ Seen.stage \in {"summed", "complete"}
              \/ bridged
              \/ writer.said = <<"whole">>

===============================================================================
