-------------------------- MODULE MCConvertedStreams --------------------------
EXTENDS ConvertedStreams

Nothing == [text |-> <<>>, reason |-> <<>>, calls |-> <<>>, message |-> <<>>,
            finish |-> None, role |-> FALSE]
Text(tokens) == [Nothing EXCEPT !.text = tokens]
Reason(tokens) == [Nothing EXCEPT !.reason = tokens]
Call(index, name, args) == [index |-> index, name |-> name, args |-> args]
Calls(calls) == [Nothing EXCEPT !.calls = calls]
Finish(reason) == [Nothing EXCEPT !.finish = reason]

MCRequests ==
    {[protocol |-> "anthropic", thinking |-> TRUE, stream |-> TRUE],
     [protocol |-> "anthropic", thinking |-> FALSE, stream |-> TRUE],
     [protocol |-> "gemini", thinking |-> FALSE, stream |-> TRUE],
     [protocol |-> "anthropic", thinking |-> FALSE, stream |-> FALSE],
     [protocol |-> "gemini", thinking |-> FALSE, stream |-> FALSE]}

MCChunks ==
    {[Nothing EXCEPT !.role = TRUE], Text(<<"t">>), Text(<<Blank>>), Text(<<MarkerHead>>),
     Text(<<MarkerTail, "u">>),
     Text(<<MarkerTail, Blank>>),
     Text(<<DsmlOpen, "u">>), Text(<<DsmlInvoke>>), Reason(<<"r">>), Reason(<<Blank>>),
     Calls(<<Call(0, EagerTool, None)>>), Calls(<<Call(0, EagerTool, "open")>>),
     Calls(<<Call(0, DeferredTool, "open")>>),
     Calls(<<Call(0, NoTool, "close")>>),
     Calls(<<Call(0, EagerTool, None), Call(1, DeferredTool, "whole")>>),
     Calls(<<Call(0, DeferredTool, "whole"), Call(0, NoTool, "close")>>),
     [Calls(<<Call(0, EagerTool, None)>>) EXCEPT !.finish = "length"],
     [Finish("tool_calls") EXCEPT !.message = <<Call(0, DeferredTool, "whole")>>],
     [Finish("tool_calls") EXCEPT !.message = <<Call(0, DeferredTool, "whole"),
                                                Call(0, DeferredTool, "whole")>>],
     [Finish("error") EXCEPT !.text = <<"u">>], Finish("tool_calls"), Finish("length")}
===============================================================================
