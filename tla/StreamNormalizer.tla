--------------------------- MODULE StreamNormalizer ---------------------------
(***************************************************************************)
(* Cleaning of one choice of a streamed chat completion, chunk by chunk    *)
(* (compat/tools.py).  The state kept between the chunks of a choice is a  *)
(* record, and NormalizeChoice maps it and a chunk to the next state and   *)
(* the event that goes on, if any.                                         *)
(*                                                                         *)
(* A text is a sequence of tokens: words, Blank, the two halves of a tool  *)
(* marker that leads an answer, DsmlOpen (the tag that opens a block of    *)
(* tool calls written as text) and DsmlInvoke (one complete call of such a *)
(* block).  A chunk is a record [text, reason, calls, message, finish,     *)
(* role]: calls are tool call deltas [index, name, args], an "args" being  *)
(* a fragment of the JSON text of the arguments.                           *)
(***************************************************************************)
EXTENDS Naturals, FiniteSets, SequencesExt

CONSTANTS
    ToolIndexes,   \* the indices upstream gives tool calls; 0, 1, ...
    EagerTool,     \* a tool without required arguments: its header goes at once
    DeferredTool   \* a tool whose header waits for its arguments

Blank == "blank"
MarkerHead == "marker-head"
MarkerTail == "marker-tail"
DsmlOpen == "dsml-open"
DsmlInvoke == "dsml-invoke"
NoTool == "no-tool"
None == "none"

Visible(text) == \E k \in DOMAIN text : text[k] # Blank
Unless(tokens, text, token) == IF token \in tokens THEN text ELSE Append(text, token)

Without(text, tokens) ==
    LET kept[k \in 0 .. Len(text)] ==
            IF k = 0 THEN <<>> ELSE Unless(tokens, kept[k - 1], text[k])
    IN kept[Len(text)]

FreshTool == [name |-> NoTool, buffer |-> <<>>, header |-> FALSE, last |-> None,
              suppressed |-> FALSE]

FreshChoice ==
    [pending |-> <<>>,      \* a leading text that may be a marker
     emitted |-> FALSE,     \* content_emitted
     tools |-> [i \in ToolIndexes |-> FreshTool],
     seen |-> FALSE,        \* tool_call_seen
     held |-> <<>>,         \* dsml_buffer
     synthetic |-> 0,       \* synthetic_tool_call_index
     reasoning |-> <<>>]    \* reasoning_text, of the whole answer

Known(choice) == {i \in ToolIndexes : choice.tools[i].name # NoTool}

(***************************************************************************)
(* Tool calls                                                              *)
(***************************************************************************)
\* The buffered fragments are a JSON document.
Documents == {<<"open", "close">>, <<"whole">>}
Complete(buffer) == buffer \in Documents

\* The arguments to emit for a call, or None; when the answer is finished
\* an empty object stands for arguments that never became complete.
ArgumentsOf(tool, finalizing) ==
    IF Complete(tool.buffer) THEN IF tool.last = "whole" THEN None ELSE "whole"
    ELSE IF finalizing /\ tool.last = None /\ ~tool.suppressed THEN "empty" ELSE None

\* A faulty variant for the check: every empty object is taken for arguments.
NeverSuppressed(name, args) == FALSE

\* should_suppress_tool_call: a call that lacks its required input
Suppressed(name, args) == args = "empty" /\ name = DeferredTool

ToolAfter(tool, call) ==
    [tool EXCEPT !.name = IF call.name = NoTool THEN @ ELSE call.name,
                 !.buffer = IF call.args = None THEN @ ELSE Append(@, call.args)]

\* "args" is what there is to emit for the call, before it is suppressed.
EmitCall(done, call, tool, args) ==
    LET suppress == args # None /\ Suppressed(tool.name, args)
        emitArgs == args # None /\ ~suppress
        emitName == call.name # NoTool /\ (tool.header # (tool.name = EagerTool))
    IN [choice |-> [done.choice EXCEPT
            !.tools[call.index] = [tool EXCEPT
                !.header = @ \/ emitName \/ emitArgs,
                !.last = IF emitArgs THEN args ELSE @,
                !.suppressed = @ \/ suppress],
            !.seen = @ \/ emitName \/ emitArgs],
        calls |-> IF emitName \/ emitArgs
                  THEN Append(done.calls,
                              [index |-> call.index, args |-> IF emitArgs THEN args ELSE None])
                  ELSE done.calls]

NormalizeCall(done, call, finalizing) ==
    LET tool == ToolAfter(done.choice.tools[call.index], call)
    IN EmitCall(done, call, tool, ArgumentsOf(tool, finalizing))

NormalizeCalls(choice, calls, finalizing) ==
    LET after[k \in 0 .. Len(calls)] ==
            IF k = 0 THEN [choice |-> choice, calls |-> <<>>]
            ELSE NormalizeCall(after[k - 1], calls[k], finalizing)
    IN after[Len(calls)]

\* The calls that were never told with arguments
Open(choice) ==
    {i \in Known(choice) : choice.tools[i].last = None /\ ~choice.tools[i].suppressed}

FinalizeCall(done, index) ==
    IF index \in Open(done.choice)
    THEN NormalizeCall(done, [index |-> index, name |-> NoTool, args |-> None], TRUE)
    ELSE done

\* finalize_pending_stream_tool_calls, in the order of the indices
FinalizePending(choice) ==
    LET after[k \in 0 .. Cardinality(ToolIndexes)] ==
            IF k = 0 THEN [choice |-> choice, calls |-> <<>>]
            ELSE FinalizeCall(after[k - 1], k - 1)
    IN after[Cardinality(ToolIndexes)]

(***************************************************************************)
(* Text                                                                    *)
(***************************************************************************)
\* A faulty variant for the check: what follows the first tag is not kept.
ExtractAndForget(text, finalizing) ==
    LET tags == {k \in DOMAIN text : text[k] \in {DsmlOpen, DsmlInvoke}}
        first == CHOOSE k \in tags : \A j \in tags : k <= j
    IN [text |-> IF tags = {} THEN text ELSE SubSeq(text, 1, first - 1), invokes |-> 0,
        tail |-> <<>>]

\* extract_dsml_tool_calls_from_text: from the first tag on, a text waits
\* until a call is complete; then the calls are taken out and the rest goes on.
Extract(text, finalizing) ==
    LET tags == {k \in DOMAIN text : text[k] \in {DsmlOpen, DsmlInvoke}}
        invokes == Cardinality({k \in tags : text[k] = DsmlInvoke})
        first == CHOOSE k \in tags : \A j \in tags : k <= j
    IN IF tags = {} \/ invokes > 0 \/ finalizing
       THEN [text |-> Without(text, {DsmlOpen, DsmlInvoke}), invokes |-> invokes, tail |-> <<>>]
       ELSE [text |-> SubSeq(text, 1, first - 1), invokes |-> 0,
             tail |-> SubSeq(text, first, Len(text))]

\* The calls of a block get the next indices nobody seems to use.
SyntheticCalls(choice, count) ==
    LET known == Cardinality(Known(choice))
        first == IF known > choice.synthetic THEN known ELSE choice.synthetic
    IN NormalizeCalls([choice EXCEPT !.synthetic = first + count],
           [k \in 1 .. count |->
               [index |-> first + k - 1, name |-> EagerTool, args |-> "whole"]], TRUE)

LeadingBlanks(text) ==
    CHOOSE n \in 0 .. Len(text) : /\ \A k \in 1 .. n : text[k] = Blank
                                  /\ n < Len(text) => text[n + 1] # Blank

Trimmed(text) == SubSeq(text, LeadingBlanks(text) + 1, Len(text))

\* consume_dsml_content_fragment: a leading half of a marker waits for the
\* next text; a leading marker is removed with the blanks around it.  "all" is
\* the text that waited and the new one, "led" is all without leading blanks.
ConsumeText(st, all, led) ==
    LET out(rest) == [choice |-> [st.choice EXCEPT !.pending = <<>>, !.emitted = @ \/ Visible(rest)],
                      event |-> [st.event EXCEPT !.text = rest]]
    IN IF ~st.choice.emitted /\ led = <<MarkerHead>>
       THEN [st EXCEPT !.choice.pending = all]
       ELSE IF ~st.choice.emitted /\ IsPrefix(<<MarkerHead, MarkerTail>>, led)
       THEN out(Trimmed(SubSeq(led, 3, Len(led))))
       ELSE out(all)

(***************************************************************************)
(* A chunk, in stages: each maps [choice, event] to the next.              *)
(***************************************************************************)
Given(chunk) == IF chunk.calls # <<>> THEN chunk.calls ELSE chunk.message

AddCalls(st, done) ==
    [choice |-> done.choice, event |-> [st.event EXCEPT !.calls = @ \o done.calls]]

CallsStage(st, chunk) ==
    IF Given(chunk) = <<>> THEN st
    ELSE AddCalls(st, NormalizeCalls([st.choice EXCEPT !.pending = <<>>], Given(chunk), FALSE))

\* A fragment of blanks alone is taken for no content and does not go on.
TextGoesOn(st, all) ==
    ConsumeText(st, all, Trimmed(all))

TextFound(st, found) ==
    IF Visible(found.text) THEN TextGoesOn(st, st.choice.pending \o found.text) ELSE st

TextExtracted(st, found) ==
    TextFound(AddCalls(st, SyntheticCalls([st.choice EXCEPT !.held = found.tail], found.invokes)),
              found)

TextStage(st, chunk) == TextExtracted(st, Extract(st.choice.held \o chunk.text, FALSE))

ReasonStage(st, chunk) ==
    [choice |-> [st.choice EXCEPT !.reasoning = @ \o chunk.reason],
     event |-> [st.event EXCEPT !.reason = chunk.reason]]

\* Once a tool call was seen every chunk reads as finished by tool calls.
FinishOf(choice, chunk) ==
    LET reason == IF chunk.finish = "error" THEN "stop" ELSE chunk.finish
    IN IF choice.seen /\ reason \in {None, "stop"} THEN "tool_calls" ELSE reason

\* normalize_tool_call_list: the calls of a message that have their arguments
WholeCall(calls, call) ==
    IF call.args = "whole" THEN Append(calls, [index |-> call.index, args |-> "whole"]) ELSE calls

WholeCalls(message) ==
    LET after[k \in 0 .. Len(message)] ==
            IF k = 0 THEN <<>> ELSE WholeCall(after[k - 1], message[k])
    IN after[Len(message)]

\* What still waits is dropped as a text and completed as a call.
CallsCompleted(st, chunk, done) ==
    LET calls == IF done.calls # <<>> THEN done.calls ELSE st.event.calls
        fallback == WholeCalls(chunk.message)
    IN IF calls = <<>> /\ fallback # <<>>
       THEN [choice |-> [done.choice EXCEPT !.seen = TRUE],
             event |-> [st.event EXCEPT !.calls = fallback, !.finish = "tool_calls"]]
       ELSE [choice |-> done.choice,
             event |-> [st.event EXCEPT !.calls = calls,
                            !.finish = IF done.choice.seen THEN "tool_calls" ELSE "stop"]]

FinishWithCalls(st, chunk) ==
    CallsCompleted(st, chunk,
        IF Given(chunk) = <<>> THEN [choice |-> st.choice, calls |-> <<>>]
        ELSE FinalizePending(st.choice))

\* What still waits as a block of tool calls goes on as text.
FinishWithText(st, finish, rest) ==
    [choice |-> st.choice,
     event |-> [st.event EXCEPT !.finish = finish,
                                !.text = IF Visible(rest) THEN @ \o rest ELSE @]]

FinishStage(st, chunk, finish) ==
    LET cleared == [st EXCEPT !.choice.held = <<>>, !.choice.pending = <<>>]
    IN IF finish = None THEN st
       ELSE IF finish = "tool_calls" THEN FinishWithCalls(cleared, chunk)
       ELSE FinishWithText(cleared, finish, Extract(st.choice.held, TRUE).text)

Finished(st, chunk) == FinishStage(st, chunk, FinishOf(st.choice, chunk))

\* normalize_stream_choice
NormalizeChoice(choice, chunk) ==
    Finished(ReasonStage(TextStage(CallsStage(
        [choice |-> choice, event |-> [text |-> <<>>, reason |-> <<>>, role |-> chunk.role,
                                       calls |-> <<>>, finish |-> None]],
        chunk), chunk), chunk), chunk)

\* An event that says nothing does not go on.
Kept(event) ==
    \/ event.role \/ event.text # <<>> \/ event.calls # <<>> \/ event.reason # <<>>
    \/ event.finish # None

(***************************************************************************)
(* Aggregation: build_chat_completion_from_sse and the merge of deltas     *)
(***************************************************************************)
\* The arguments of every index, concatenated in the order of the deltas
MergeCall(merged, call) ==
    IF call.args = None THEN merged ELSE [merged EXCEPT ![call.index] = Append(@, call.args)]

MergeCalls(merged, calls) ==
    LET after[k \in 0 .. Len(calls)] ==
            IF k = 0 THEN merged ELSE MergeCall(after[k - 1], calls[k])
    IN after[Len(calls)]

EmptyMessage == [text |-> <<>>, calls |-> [i \in ToolIndexes |-> <<>>], finish |-> None]

Aggregate(message, event) ==
    [text |-> message.text \o event.text,
     calls |-> MergeCalls(message.calls, event.calls),
     finish |-> IF event.finish = None THEN message.finish ELSE event.finish]
===============================================================================
