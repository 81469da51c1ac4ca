---------------------------- MODULE StreamWriters ----------------------------
(***************************************************************************)
(* What the Anthropic and the Gemini answer write for each cleaned event   *)
(* of the upstream stream (server.py).  A writer is a record; every        *)
(* operator maps the writer and an event to the next writer, whose "out"   *)
(* are the packets of that event in the order they are yielded.            *)
(***************************************************************************)
EXTENDS StreamNormalizer

Packet(kind, block, value) == [kind |-> kind, block |-> block, value |-> value]
ErrorPacket == Packet("error", 0, <<>>)

\* Blocks are numbered from 1 here (from 0 in the code): 0 is "no block open".
FreshWriter ==
    [out |-> <<>>, started |-> FALSE, meant |-> FALSE, next |-> 1,
     text |-> 0, thinking |-> 0, tools |-> [i \in ToolIndexes |-> 0],
     stop |-> "end_turn",
     said |-> <<>>,              \* resume_text_parts
     message |-> EmptyMessage,   \* the answer so far, merged
     callsSent |-> FALSE,        \* tool_calls_emitted (Gemini)
     any |-> FALSE,              \* emitted_any (Gemini)
     failed |-> FALSE,           \* stream_error
     refused |-> FALSE,          \* the status is an HTTP error
     unread |-> FALSE]           \* the read of its body raised

Emit(w, packet) == [w EXCEPT !.out = Append(@, packet), !.any = TRUE]

\* openai_stream_events_have_meaningful_output, for one event
Means(event, thinking) ==
    Visible(event.text) \/ event.calls # <<>> \/ (thinking /\ Visible(event.reason))

(***************************************************************************)
(* Anthropic: blocks of one kind follow another, tool blocks stay open     *)
(***************************************************************************)
CloseText(w) ==
    IF w.text = 0 THEN w ELSE [Emit(w, Packet("block_stop", w.text, <<>>)) EXCEPT !.text = 0]

CloseThinking(w) ==
    IF w.thinking = 0 THEN w
    ELSE [Emit(w, Packet("block_stop", w.thinking, <<>>)) EXCEPT !.thinking = 0]

OpenText(w) ==
    IF w.text # 0 THEN w
    ELSE [Emit(w, Packet("block_start", w.next, <<"text">>)) EXCEPT !.text = w.next, !.next = @ + 1]

OpenThinking(w) ==
    IF w.thinking # 0 THEN w
    ELSE [Emit(w, Packet("block_start", w.next, <<"thinking">>)) EXCEPT
             !.thinking = w.next, !.next = @ + 1]

OpenTool(w, index) ==
    IF w.tools[index] # 0 THEN w
    ELSE [Emit(w, Packet("block_start", w.next, <<"tool">>)) EXCEPT
             !.tools[index] = w.next, !.next = @ + 1]

StartMessage(w, event, thinking) ==
    IF w.started \/ ~Means(event, thinking) THEN w
    ELSE [Emit(w, Packet("message_start", 0, <<>>)) EXCEPT !.meant = TRUE, !.started = TRUE]

FillThinking(w, reason) == Emit(w, Packet("delta", w.thinking, reason))
FillText(w, text) == [Emit(w, Packet("delta", w.text, text)) EXCEPT !.said = @ \o text]
FillTool(w, call) ==
    IF call.args = None THEN w ELSE Emit(w, Packet("delta", w.tools[call.index], <<call.args>>))

WriteReason(w, reason, thinking) ==
    IF ~thinking \/ reason = <<>> THEN w ELSE FillThinking(OpenThinking(CloseText(w)), reason)

WriteText(w, text) ==
    IF text = <<>> THEN w ELSE FillText(OpenText(CloseThinking(w)), text)

WriteCall(w, call) == FillTool(OpenTool(CloseText(CloseThinking(w)), call.index), call)

StopReason(finish) ==
    CASE finish = "tool_calls" -> "tool_use" [] finish = "length" -> "max_tokens"
      [] OTHER -> "end_turn"

WriteStop(w, finish) == IF finish = None THEN w ELSE [w EXCEPT !.stop = StopReason(finish)]

WriteCalls(w, calls) ==
    LET after[k \in 0 .. Len(calls)] == IF k = 0 THEN w ELSE WriteCall(after[k - 1], calls[k])
    IN after[Len(calls)]

AnthropicWrite(w, event, thinking) ==
    WriteStop(
        WriteCalls(
            WriteText(
                WriteReason(
                    StartMessage([w EXCEPT !.out = <<>>, !.message = Aggregate(@, event)],
                                 event, thinking),
                    event.reason, thinking),
                event.text),
            event.calls),
        event.finish)

\* A faulty variant for the check: tool blocks are left open.
AnthropicCloseTextOnly(w) ==
    Emit(Emit(CloseThinking(CloseText([w EXCEPT !.out = <<>>])),
              Packet("message_delta", 0, <<w.stop>>)), Packet("message_stop", 0, <<>>))

\* The tool blocks were opened in the order of their numbers.
ToolBlocks(w) == {w.tools[i] : i \in ToolIndexes} \ {0}

CloseTool(w, block) ==
    IF block \in ToolBlocks(w) THEN Emit(w, Packet("block_stop", block, <<>>)) ELSE w

CloseTools(w) ==
    LET after[k \in 0 .. (w.next - 1)] == IF k = 0 THEN w ELSE CloseTool(after[k - 1], k)
    IN after[w.next - 1]

EndMessage(w) ==
    LET stop == IF ToolBlocks(w) # {} /\ w.stop = "end_turn" THEN "tool_use" ELSE w.stop
    IN Emit(Emit(w, Packet("message_delta", 0, <<stop>>)), Packet("message_stop", 0, <<>>))

\* The last packets of an answer with output: every open block is closed.
AnthropicClose(w) == EndMessage(CloseTools(CloseThinking(CloseText([w EXCEPT !.out = <<>>]))))

(***************************************************************************)
(* Gemini: texts at once, the merged calls with the first finish           *)
(***************************************************************************)
CallPart(parts, args) == IF args = <<>> THEN parts ELSE parts \o <<"call">> \o args

CallParts(message) ==
    LET after[k \in 0 .. Cardinality(ToolIndexes)] ==
            IF k = 0 THEN <<>> ELSE CallPart(after[k - 1], message.calls[k - 1])
    IN after[Cardinality(ToolIndexes)]

GeminiParts(w, event, calls) ==
    IF event.text \o calls = <<>> /\ event.finish = None THEN w
    ELSE [Emit(w, Packet(IF event.finish = None THEN "chunk" ELSE "last_chunk", 0,
                         event.text \o calls)) EXCEPT
             !.said = @ \o event.text, !.callsSent = @ \/ calls # <<>>]

GeminiMerged(w, event) ==
    GeminiParts(w, event,
        IF event.finish = None \/ w.callsSent THEN <<>> ELSE CallParts(w.message))

GeminiWrite(w, event) ==
    GeminiMerged([w EXCEPT !.out = <<>>, !.message = Aggregate(@, event)], event)
===============================================================================
