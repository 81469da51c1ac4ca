------------------------------ MODULE CallProofs ------------------------------
(***************************************************************************)
(* The tool calls of the answers of /v1/messages and :generateContent:     *)
(* every call reaches the client once, with its name and the whole of its  *)
(* arguments, unless its tool requires none and the chunk that names it    *)
(* ends the answer before they came, for any clients, any texts, calls and *)
(* numbers of calls in the chunks, and any bound on the chunks.            *)
(***************************************************************************)
EXTENDS AnswerProofs

-----------------------------------------------------------------------------
(* Calls and their arguments                                                *)

\* The arguments that the calls of an event give each index
Merging(calls) == MergeCalls(EmptyMessage.calls, calls)

LEMMA MergingNothing == Merging(<<>>) = [i \in ToolIndexes |-> <<>>]
<1> DEFINE none == <<>>
<1>1. Len(none) = 0 /\ Len(none) \in Nat BY Empty
<1> HIDE DEF none
<1>2. PICK f : /\ f[0] = EmptyMessage.calls
               /\ \A k \in 1 .. Len(none) : f[k] = MergeCall(f[k - 1], none[k])
               /\ Merging(none) = f[Len(none)]
  BY <1>1, MergedDefined DEF Merging
<1> QED BY <1>1, <1>2 DEF EmptyMessage, none

\* One call more is merged into what the calls before it gave.
LEMMA MergingMore ==
  ASSUME NEW calls, IsSequence(calls), NEW call
  PROVE  Merging(Append(calls, call)) = MergeCall(Merging(calls), call)
<1> DEFINE n == Len(calls)
           c == Append(calls, call)
<1>1. n \in Nat BY Bounds
<1>2. Len(c) = n + 1 /\ c[n + 1] = call /\ \A k \in 1 .. n : c[k] = calls[k] BY Appended
<1> HIDE DEF n, c
<1>3. PICK f : /\ f[0] = EmptyMessage.calls
               /\ \A k \in 1 .. (n + 1) : f[k] = MergeCall(f[k - 1], c[k])
               /\ Merging(c) = f[n + 1]
  BY <1>1, <1>2, MergedDefined DEF Merging
<1>4. PICK g : /\ g[0] = EmptyMessage.calls
               /\ \A k \in 1 .. n : g[k] = MergeCall(g[k - 1], calls[k])
               /\ Merging(calls) = g[n]
  BY <1>1, MergedDefined DEF Merging, n
<1> DEFINE T == {k \in Nat : f[k] = g[k]}
<1>5. 0 \in T BY <1>3, <1>4
<1>6. ASSUME NEW k \in 1 .. n, k - 1 \in T PROVE k \in T
  <2>1. f[k - 1] = g[k - 1] /\ k \in Nat /\ k \in 1 .. (n + 1) BY <1>1, <1>6
  <2>2. f[k] = MergeCall(f[k - 1], c[k]) /\ c[k] = calls[k] BY <1>2, <1>3, <2>1
  <2>3. g[k] = MergeCall(g[k - 1], calls[k]) BY <1>4
  <2>4. f[k] = g[k] BY <2>1, <2>2, <2>3
  <2> QED BY <2>1, <2>4
<1>7. \A k \in 0 .. n : k \in T
  <2> HIDE DEF T
  <2> QED BY <1>1, <1>5, <1>6, Climb
<1>8. f[n] = g[n] BY <1>1, <1>7
<1>9. f[n + 1] = MergeCall(f[n], c[n + 1])
  <2>1. n + 1 \in 1 .. (n + 1) /\ (n + 1) - 1 = n BY <1>1
  <2> QED BY <1>3, <2>1
<1> QED BY <1>2, <1>3, <1>4, <1>8, <1>9 DEF c

LEMMA MergingIndexed ==
  ASSUME NEW calls, IsSequence(calls)
  PROVE  DOMAIN Merging(calls) = ToolIndexes
<1> DEFINE n == Len(calls)
<1>1. n \in Nat BY Bounds
<1>2. PICK g : /\ g[0] = EmptyMessage.calls
               /\ \A k \in 1 .. n : g[k] = MergeCall(g[k - 1], calls[k])
               /\ Merging(calls) = g[n]
  BY <1>1, MergedDefined DEF Merging
<1> HIDE DEF n
<1> DEFINE T == {k \in Nat : DOMAIN g[k] = ToolIndexes}
<1>3. 0 \in T BY <1>2 DEF EmptyMessage
<1>4. ASSUME NEW k \in 1 .. n, k - 1 \in T PROVE k \in T
  <2>1. DOMAIN g[k - 1] = ToolIndexes /\ k \in Nat BY <1>4
  <2>2. g[k] = MergeCall(g[k - 1], calls[k]) BY <1>2
  <2>3. DOMAIN g[k] = DOMAIN g[k - 1] BY <2>2 DEF MergeCall
  <2> QED BY <2>1, <2>3
<1>5. \A k \in 0 .. n : k \in T
  <2> HIDE DEF T
  <2> QED BY <1>1, <1>3, <1>4, Climb
<1>6. n \in T BY <1>1, <1>5
<1> QED BY <1>2, <1>6

\* One call more gives its index its arguments, if it has any.
LEMMA MergingOne ==
  ASSUME NEW calls, IsSequence(calls), NEW call, NEW i \in ToolIndexes
  PROVE  Merging(Append(calls, call))[i] =
           IF call.args # None /\ i = call.index THEN Append(Merging(calls)[i], call.args)
           ELSE Merging(calls)[i]
<1> DEFINE m == Merging(calls)
<1>1. DOMAIN m = ToolIndexes BY MergingIndexed
<1>2. Merging(Append(calls, call)) = MergeCall(m, call) BY MergingMore
<1> HIDE DEF m
<1>3. MergeCall(m, call)[i] =
        IF call.args # None /\ i = call.index THEN Append(m[i], call.args) ELSE m[i]
  BY <1>1 DEF MergeCall
<1> QED BY <1>2, <1>3 DEF m

\* The fragments of a tool begin with a document.
Documented(buffer) == \E document \in Documents : Begins(document, buffer)

LEMMA CompleteDocumented ==
  ASSUME NEW buffer, IsSequence(buffer), Complete(buffer)
  PROVE  Documented(buffer)
BY BeginsSelf DEF Complete, Documented

\* A buffer that goes on keeps the document it begins with.
LEMMA DocumentedMore ==
  ASSUME NEW buffer, Documented(buffer), NEW x
  PROVE  Documented(Append(buffer, x))
<1>1. PICK document \in Documents : Begins(document, buffer) BY DEF Documented
<1> DEFINE b == Append(buffer, x)
<1>2. /\ IsSequence(b) /\ Len(b) = Len(buffer) + 1
      /\ \A k \in 1 .. Len(buffer) : b[k] = buffer[k]
  BY <1>1, Appended DEF Begins
<1>3. Len(document) \in Nat /\ Len(buffer) \in Nat /\ Len(document) <= Len(buffer)
  BY <1>1, Bounds DEF Begins
<1> HIDE DEF b
<1>4. Len(document) <= Len(b) BY <1>2, <1>3
<1>5. \A k \in 1 .. Len(document) : document[k] = b[k] BY <1>1, <1>2, <1>3 DEF Begins
<1>6. Begins(document, b) BY <1>1, <1>2, <1>4, <1>5 DEF Begins
<1> QED BY <1>6 DEF Documented, b

\* What is known of a tool, of which the arguments args were told in this event
ToolSettled(tool, args, seen) ==
  /\ DOMAIN tool = DOMAIN FreshTool
  /\ tool.name \in {NoTool, EagerTool, DeferredTool} /\ IsSequence(tool.buffer)
  /\ tool.suppressed = FALSE /\ tool.header \in BOOLEAN
  /\ \/ tool.last = None /\ args = <<>>
     \/ tool.last = "whole" /\ args = <<"whole">> /\ Documented(tool.buffer)
     \/ /\ tool.last = "empty" /\ args = <<"empty">>
        /\ tool.name = EagerTool /\ ~Complete(tool.buffer)
  /\ tool.header \/ tool.last # None => seen

\* What is known of a choice after the calls of this event; the first call that
\* is told of is seen, and finishes the answer.
ChoiceSettled(c, calls) ==
  /\ DOMAIN c = ChoiceParts /\ DOMAIN c.tools = ToolIndexes
  /\ c.seen \in BOOLEAN /\ c.synthetic \in Nat
  /\ \A i \in ToolIndexes : ToolSettled(c.tools[i], Merging(calls)[i], c.seen)
  /\ calls # <<>> => c.seen

\* Nothing was told of any call yet.
Uncalled(c) == ChoiceSettled(c, <<>>) /\ ~c.seen

LEMMA SettledAlike ==
  ASSUME NEW c, NEW calls, ChoiceSettled(c, calls), NEW d, DOMAIN d = ChoiceParts,
         d.tools = c.tools, d.seen = c.seen, d.synthetic = c.synthetic
  PROVE  ChoiceSettled(d, calls)
BY DEF ChoiceSettled

LEMMA FreshUncalled == Uncalled(FreshChoice)
<1>1. Merging(<<>>) = [i \in ToolIndexes |-> <<>>] BY MergingNothing
<1>2. ToolSettled(FreshTool, <<>>, FALSE) BY Empty DEF ToolSettled, FreshTool
<1>3. /\ DOMAIN FreshChoice = ChoiceParts /\ FreshChoice.tools = [i \in ToolIndexes |-> FreshTool]
      /\ FreshChoice.seen = FALSE /\ FreshChoice.synthetic = 0
  BY DEF FreshChoice, ChoiceParts
<1>4. ASSUME NEW i \in ToolIndexes
      PROVE  ToolSettled(FreshChoice.tools[i], Merging(<<>>)[i], FreshChoice.seen)
  <2>1. FreshChoice.tools[i] = FreshTool /\ Merging(<<>>)[i] = <<>> BY <1>1, <1>3
  <2> QED BY <1>2, <2>1 DEF ToolSettled
<1>5. DOMAIN FreshChoice.tools = ToolIndexes BY <1>3
<1>6. FreshChoice.seen \in BOOLEAN /\ FreshChoice.synthetic \in Nat BY DEF FreshChoice
<1>7. ChoiceSettled(FreshChoice, <<>>) BY <1>3, <1>4, <1>5, <1>6 DEF ChoiceSettled
<1> QED BY <1>3, <1>7 DEF Uncalled

\* The two things that may be told of a call: its name, and its arguments
EmitsName(call, tool) == call.name # NoTool /\ (tool.header # (tool.name = EagerTool))
EmitsArgs(tool, args) == args # None /\ ~Suppressed(tool.name, args)

EmittedTool(call, tool, args) ==
  [tool EXCEPT !.header = @ \/ EmitsName(call, tool) \/ EmitsArgs(tool, args),
               !.last = IF EmitsArgs(tool, args) THEN args ELSE @,
               !.suppressed = @ \/ (args # None /\ Suppressed(tool.name, args))]

\* What has been emitted for a call: e is what done has become.
Emission(done, call, tool, args, e) ==
  LET told == EmitsName(call, tool) \/ EmitsArgs(tool, args)
  IN  /\ DOMAIN e.choice = ChoiceParts /\ DOMAIN e.choice.tools = ToolIndexes
      /\ e.choice.synthetic = done.choice.synthetic
      /\ e.choice.seen \in BOOLEAN
      /\ e.choice.seen <=> (done.choice.seen \/ told)
      /\ \A i \in ToolIndexes : i # call.index => e.choice.tools[i] = done.choice.tools[i]
      /\ call.index \in ToolIndexes =>
           e.choice.tools[call.index] = EmittedTool(call, tool, args)
      /\ ~told => e.calls = done.calls
      /\ told => e.calls = Append(done.calls,
                   [index |-> call.index, args |-> IF EmitsArgs(tool, args) THEN args ELSE None])

LEMMA CallEmitted ==
  ASSUME NEW done, DOMAIN done.choice = ChoiceParts, DOMAIN done.choice.tools = ToolIndexes,
         NEW call, NEW tool, NEW args
  PROVE  Emission(done, call, tool, args, EmitCall(done, call, tool, args))
<1> DEFINE e == EmitCall(done, call, tool, args)
           seen == done.choice.seen \/ EmitsName(call, tool) \/ EmitsArgs(tool, args)
           new == EmittedTool(call, tool, args)
           d == [done.choice EXCEPT !.tools[call.index] = new, !.seen = seen]
<1>1. e.choice = d BY DEF EmitCall, EmittedTool, EmitsName, EmitsArgs
<1>2. e.calls = IF EmitsName(call, tool) \/ EmitsArgs(tool, args)
                THEN Append(done.calls, [index |-> call.index,
                                         args |-> IF EmitsArgs(tool, args) THEN args ELSE None])
                ELSE done.calls
  BY DEF EmitCall, EmitsName, EmitsArgs
<1> HIDE DEF e, new
<1>3. seen \in BOOLEAN
     /\ (seen <=> (done.choice.seen \/ EmitsName(call, tool) \/ EmitsArgs(tool, args)))
  OBVIOUS
<1> HIDE DEF seen
<1>4. /\ DOMAIN d = ChoiceParts /\ d.seen = seen /\ d.synthetic = done.choice.synthetic
      /\ d.tools = [done.choice.tools EXCEPT ![call.index] = new]
  BY DEF ChoiceParts, FreshChoice
<1> HIDE DEF d
<1>5. /\ DOMAIN d.tools = ToolIndexes
      /\ \A i \in ToolIndexes : i # call.index => d.tools[i] = done.choice.tools[i]
      /\ call.index \in ToolIndexes => d.tools[call.index] = new
  BY <1>4
<1> QED BY <1>1, <1>2, <1>3, <1>4, <1>5 DEF e, new, Emission

\* The tool that a call names, or to which it adds a fragment
GoesOn(tool, call, t) ==
  /\ DOMAIN t = DOMAIN FreshTool /\ t.header = tool.header /\ t.last = tool.last
  /\ t.suppressed = FALSE /\ t.header \in BOOLEAN
  /\ t.name = IF call.name = NoTool THEN tool.name ELSE call.name
  /\ t.name \in {NoTool, EagerTool, DeferredTool} /\ IsSequence(t.buffer)
  /\ Documented(tool.buffer) => Documented(t.buffer)
  /\ call.args = None => t.buffer = tool.buffer

\* The next piece of a call is added to what is known of its tool.
LEMMA ToolGoesOn ==
  ASSUME NEW tool, NEW args, NEW seen, ToolSettled(tool, args, seen),
         NEW call, call.name \in {NoTool, EagerTool, DeferredTool}
  PROVE  GoesOn(tool, call, ToolAfter(tool, call))
<1> DEFINE t == ToolAfter(tool, call)
           more == Append(tool.buffer, call.args)
<1>1. DOMAIN tool = {"name", "buffer", "header", "last", "suppressed"}
  BY DEF ToolSettled, FreshTool
<1>2. /\ DOMAIN t = DOMAIN tool /\ t.header = tool.header /\ t.last = tool.last
      /\ t.suppressed = tool.suppressed
      /\ t.name = IF call.name = NoTool THEN tool.name ELSE call.name
      /\ t.buffer = IF call.args = None THEN tool.buffer ELSE more
  BY <1>1 DEF ToolAfter
<1>3. IsSequence(more) /\ (Documented(tool.buffer) => Documented(more))
  BY Appended, DocumentedMore DEF ToolSettled
<1> HIDE DEF t, more
<1>4. t.name \in {NoTool, EagerTool, DeferredTool} BY <1>2 DEF ToolSettled
<1>5. IsSequence(t.buffer) /\ (Documented(tool.buffer) => Documented(t.buffer))
  BY <1>2, <1>3 DEF ToolSettled
<1> QED BY <1>2, <1>4, <1>5 DEF ToolSettled, GoesOn, t

\* The tool after that
ToldOf(call, tool, args, t) ==
  /\ DOMAIN t = DOMAIN FreshTool /\ t.name = tool.name /\ t.buffer = tool.buffer
  /\ t.last = IF EmitsArgs(tool, args) THEN args ELSE tool.last
  /\ t.header \in BOOLEAN
  /\ t.header <=> (tool.header \/ EmitsName(call, tool) \/ EmitsArgs(tool, args))
  /\ t.suppressed \in BOOLEAN
  /\ t.suppressed <=> (tool.suppressed \/ (args # None /\ ~EmitsArgs(tool, args)))

LEMMA EmittedParts ==
  ASSUME NEW call, NEW tool, DOMAIN tool = DOMAIN FreshTool, NEW args
  PROVE  ToldOf(call, tool, args, EmittedTool(call, tool, args))
<1> DEFINE header == tool.header \/ EmitsName(call, tool) \/ EmitsArgs(tool, args)
           last == IF EmitsArgs(tool, args) THEN args ELSE tool.last
           suppressed == tool.suppressed \/ (args # None /\ Suppressed(tool.name, args))
           t == [tool EXCEPT !.header = header, !.last = last, !.suppressed = suppressed]
<1>1. EmittedTool(call, tool, args) = t BY DEF EmittedTool
<1>2. header \in BOOLEAN /\ suppressed \in BOOLEAN OBVIOUS
<1>3. suppressed <=> (tool.suppressed \/ (args # None /\ ~EmitsArgs(tool, args))) BY DEF EmitsArgs
<1>4. header <=> (tool.header \/ EmitsName(call, tool) \/ EmitsArgs(tool, args)) OBVIOUS
<1> HIDE DEF header, last, suppressed
<1>5. /\ DOMAIN t = DOMAIN FreshTool /\ t.name = tool.name /\ t.buffer = tool.buffer
      /\ t.last = last /\ t.header = header /\ t.suppressed = suppressed
  BY DEF FreshTool
<1> HIDE DEF t
<1> QED BY <1>1, <1>2, <1>3, <1>4, <1>5 DEF last, ToldOf

\* A call tells this of the tool that was before, of which told was told before.
Telling(before, told, seen, call, finalizing, after) ==
  LET tool == ToolAfter(before, call)
      args == ArgumentsOf(tool, finalizing)
      t == EmittedTool(call, tool, args)
      emitted == EmitsName(call, tool) \/ EmitsArgs(tool, args)
  IN  /\ (seen \/ emitted => after) =>
           ToolSettled(t, IF EmitsArgs(tool, args) THEN Append(told, args) ELSE told, after)
      /\ t.name = IF call.name = NoTool THEN before.name ELSE call.name
      /\ before.last # None => t.last # None
      /\ finalizing => t.last # None
      /\ ~finalizing => t.last # "empty"
      /\ emitted => t.last # None \/ (call.name # NoTool
                                      /\ (before.header \/ call.name = EagerTool))

\* What a call makes of its tool.  Only a tool that requires no arguments is
\* finalized with the call itself.
LEMMA ToolTold ==
  ASSUME NEW before, NEW told, NEW seen, ToolSettled(before, told, seen), before.last # "empty",
         NEW call, call.name \in {NoTool, EagerTool, DeferredTool},
         NEW finalizing, finalizing => call.name = EagerTool, NEW after
  PROVE  Telling(before, told, seen, call, finalizing, after)
<1> DEFINE tool == ToolAfter(before, call)
           args == ArgumentsOf(tool, finalizing)
           t == EmittedTool(call, tool, args)
           byName == EmitsName(call, tool)
           byArgs == EmitsArgs(tool, args)
           now == IF byArgs THEN Append(told, args) ELSE told
<1>0. GoesOn(before, call, tool) BY ToolGoesOn
<1> HIDE DEF tool
<1>1. /\ DOMAIN tool = DOMAIN FreshTool /\ tool.header = before.header /\ tool.last = before.last
      /\ tool.suppressed = FALSE /\ tool.header \in BOOLEAN
      /\ tool.name = IF call.name = NoTool THEN before.name ELSE call.name
      /\ tool.name \in {NoTool, EagerTool, DeferredTool} /\ IsSequence(tool.buffer)
      /\ Documented(before.buffer) => Documented(tool.buffer)
  BY <1>0 DEF GoesOn
<1>2. EagerTool # DeferredTool /\ NoTool # EagerTool /\ NoTool # DeferredTool
  BY StreamAssumption
<1>3. \/ before.last = None /\ told = <<>>
      \/ before.last = "whole" /\ told = <<"whole">> /\ Documented(before.buffer)
  BY DEF ToolSettled
<1>4. args = IF Complete(tool.buffer) THEN IF tool.last = "whole" THEN None ELSE "whole"
             ELSE IF finalizing /\ tool.last = None THEN "empty" ELSE None
  BY <1>1 DEF ArgumentsOf
<1> HIDE DEF args
<1>5. finalizing => tool.name = EagerTool BY <1>1, <1>2
<1>6. args = "empty" => tool.name = EagerTool /\ finalizing /\ ~Complete(tool.buffer)
  BY <1>4, <1>5 DEF None
<1>7. byArgs <=> args # None BY <1>2, <1>6 DEF EmitsArgs, Suppressed
<1>8. args # None => tool.last = None BY <1>1, <1>3, <1>4
<1>9. args \in {None, "whole", "empty"} /\ (args = "whole" => Complete(tool.buffer))
  BY <1>4 DEF None
<1>10. finalizing => args # None \/ tool.last # None BY <1>1, <1>3, <1>4 DEF None
<1>19. ToldOf(call, tool, args, t) BY <1>1, EmittedParts
<1> HIDE DEF t
<1>11. /\ DOMAIN t = DOMAIN FreshTool /\ t.name = tool.name /\ t.buffer = tool.buffer
       /\ t.last = IF byArgs THEN args ELSE tool.last
       /\ t.header \in BOOLEAN /\ (t.header <=> (tool.header \/ byName \/ byArgs))
       /\ t.suppressed \in BOOLEAN
       /\ (t.suppressed <=> (tool.suppressed \/ (args # None /\ ~byArgs)))
  BY <1>19 DEF ToldOf
<1>12. t.suppressed = FALSE BY <1>1, <1>7, <1>11
<1>13. /\ byArgs => /\ t.last = args /\ args \in {"whole", "empty"} /\ told = <<>>
                     /\ before.last = None
       /\ ~byArgs => t.last = before.last
  BY <1>1, <1>3, <1>7, <1>8, <1>9, <1>11 DEF None
<1>14. ASSUME seen \/ byName \/ byArgs => after PROVE ToolSettled(t, now, after)
  <2>1. \/ t.last = None /\ now = <<>>
        \/ t.last = "whole" /\ now = <<"whole">> /\ Documented(t.buffer)
        \/ /\ t.last = "empty" /\ now = <<"empty">>
           /\ t.name = EagerTool /\ ~Complete(t.buffer)
    <3>1. CASE ~byArgs BY <1>1, <1>3, <1>11, <1>13, <3>1
    <3>2. CASE byArgs
      <4>1. now = <<args>> BY <1>13, <3>2, Recorded1
      <4>2. args = "whole" => Documented(t.buffer) BY <1>1, <1>9, <1>11, CompleteDocumented
      <4>3. args = "empty" => t.name = EagerTool /\ ~Complete(t.buffer) BY <1>6, <1>11
      <4> QED BY <1>13, <3>2, <4>1, <4>2, <4>3
    <3> QED BY <3>1, <3>2
  <2>2. t.header \/ t.last # None => after
    <3>1. CASE byName \/ byArgs BY <1>14, <3>1
    <3>2. CASE ~(byName \/ byArgs)
      <4>1. (t.header <=> before.header) /\ t.last = before.last BY <1>1, <1>11, <1>13, <3>2
      <4>2. before.header \/ before.last # None => seen BY DEF ToolSettled
      <4> QED BY <1>14, <4>1, <4>2
    <3> QED BY <3>1, <3>2
  <2> HIDE DEF now
  <2> QED BY <1>1, <1>11, <1>12, <2>1, <2>2 DEF ToolSettled
<1>15. byName => call.name # NoTool /\ (before.header \/ call.name = EagerTool)
  BY <1>1 DEF EmitsName
<1>16. /\ before.last # None => t.last # None
       /\ finalizing => t.last # None
       /\ ~finalizing => t.last # "empty"
  <2>1. CASE byArgs BY <1>6, <1>9, <1>13, <2>1 DEF None
  <2>2. CASE ~byArgs BY <1>1, <1>7, <1>10, <1>13, <2>2
  <2> QED BY <2>1, <2>2
<1>17. byName \/ byArgs => t.last # None \/ (call.name # NoTool
                                             /\ (before.header \/ call.name = EagerTool))
  BY <1>13, <1>15 DEF None
<1>18. t.name = IF call.name = NoTool THEN before.name ELSE call.name BY <1>1, <1>11
<1> QED BY <1>14, <1>16, <1>17, <1>18 DEF tool, args, t, Telling

\* The call can be told of: a choice that is settled has been told of the calls
\* old and those of done, and only a tool that requires nothing is finalized.
Tellable(done, old, call, finalizing) ==
  /\ IsSequence(old) /\ IsSequence(done.calls)
  /\ ChoiceSettled(done.choice, old \o done.calls)
  /\ call.name \in {NoTool, EagerTool, DeferredTool}
  /\ finalizing => call.name = EagerTool
  /\ call.index \in ToolIndexes => done.choice.tools[call.index].last # "empty"

\* A call has made next of done; old are the calls of the event before that.
CallTells(done, old, call, finalizing, next) ==
  LET before == done.choice.tools[call.index]
      after == next.choice.tools[call.index]
  IN  /\ ChoiceSettled(next.choice, old \o next.calls) /\ IsSequence(next.calls)
      /\ next.choice.synthetic = done.choice.synthetic
      /\ \A i \in ToolIndexes : i # call.index => next.choice.tools[i] = done.choice.tools[i]
      /\ next.calls = done.calls \/
           \E a \in {None, "whole", "empty"} :
             next.calls = Append(done.calls, [index |-> call.index, args |-> a])
      /\ call.index \in ToolIndexes =>
           /\ after.name = IF call.name = NoTool THEN before.name ELSE call.name
           /\ before.last # None => after.last # None
           /\ finalizing => after.last # None
           /\ ~finalizing => after.last # "empty"
           /\ next.calls # done.calls =>
                after.last # None \/ (call.name # NoTool
                                      /\ (before.header \/ call.name = EagerTool))

\* What is told of a call: the choice stays settled, and no other tool changes.
LEMMA CallSettled ==
  ASSUME NEW done, NEW old, NEW call, NEW finalizing, Tellable(done, old, call, finalizing)
  PROVE  CallTells(done, old, call, finalizing, NormalizeCall(done, call, finalizing))
<1> DEFINE before == done.choice.tools[call.index]
           tool == ToolAfter(before, call)
           args == ArgumentsOf(tool, finalizing)
           next == EmitCall(done, call, tool, args)
           total == old \o done.calls
           byName == EmitsName(call, tool)
           byArgs == EmitsArgs(tool, args)
           a == IF byArgs THEN args ELSE None
           r == [index |-> call.index, args |-> a]
           more == Append(done.calls, r)
<1>0. /\ IsSequence(old) /\ IsSequence(done.calls)
      /\ ChoiceSettled(done.choice, old \o done.calls)
      /\ call.name \in {NoTool, EagerTool, DeferredTool}
      /\ finalizing => call.name = EagerTool
      /\ call.index \in ToolIndexes => done.choice.tools[call.index].last # "empty"
  BY DEF Tellable
<1>1. NormalizeCall(done, call, finalizing) = next BY DEF NormalizeCall
<1>2. /\ DOMAIN done.choice = ChoiceParts /\ DOMAIN done.choice.tools = ToolIndexes
      /\ done.choice.seen \in BOOLEAN /\ done.choice.synthetic \in Nat
      /\ \A i \in ToolIndexes :
           ToolSettled(done.choice.tools[i], Merging(total)[i], done.choice.seen)
      /\ total # <<>> => done.choice.seen
  BY <1>0 DEF ChoiceSettled
<1>3. args \in {None, "whole", "empty"} BY DEF ArgumentsOf
<1>4. IsSequence(total) BY <1>0, Concatenated
<1>5. IsSequence(more) /\ old \o more = Append(total, r) BY <1>0, Appended, AppendAside
<1> HIDE DEF tool, args, total
<1>15. Emission(done, call, tool, args, next) BY <1>2, CallEmitted
<1> HIDE DEF next
<1>6. /\ DOMAIN next.choice = ChoiceParts /\ DOMAIN next.choice.tools = ToolIndexes
      /\ next.choice.synthetic = done.choice.synthetic
      /\ next.choice.seen \in BOOLEAN
      /\ next.choice.seen <=> (done.choice.seen \/ byName \/ byArgs)
      /\ \A i \in ToolIndexes : i # call.index => next.choice.tools[i] = done.choice.tools[i]
      /\ call.index \in ToolIndexes => next.choice.tools[call.index] = EmittedTool(call, tool, args)
      /\ ~(byName \/ byArgs) => next.calls = done.calls
      /\ byName \/ byArgs => next.calls = more
  BY <1>15 DEF Emission
<1>7. a \in {None, "whole", "empty"} BY <1>3
<1> DEFINE sum == old \o next.calls
<1>8. /\ IsSequence(next.calls)
      /\ sum = IF byName \/ byArgs THEN Append(total, r) ELSE total
      /\ sum # <<>> => next.choice.seen
  <2>1. CASE byName \/ byArgs BY <1>0, <1>5, <1>6, <2>1
  <2>2. CASE ~(byName \/ byArgs) BY <1>0, <1>2, <1>6, <2>2 DEF total
  <2> QED BY <2>1, <2>2
<1>9. ASSUME NEW i \in ToolIndexes
      PROVE  Merging(sum)[i] = IF byArgs /\ i = call.index THEN Append(Merging(total)[i], args)
                               ELSE Merging(total)[i]
  <2>1. Merging(Append(total, r))[i] =
          IF r.args # None /\ i = r.index THEN Append(Merging(total)[i], r.args)
          ELSE Merging(total)[i]
    BY <1>4, MergingOne
  <2>2. r.args = a /\ r.index = call.index OBVIOUS
  <2>3. byArgs => args # None BY DEF EmitsArgs
  <2> HIDE DEF r
  <2>4. CASE byArgs BY <1>8, <2>1, <2>2, <2>3, <2>4
  <2>5. CASE ~byArgs BY <1>8, <2>1, <2>2, <2>5
  <2> QED BY <2>4, <2>5
<1> HIDE DEF sum
<1> DEFINE after == EmittedTool(call, tool, args)
<1>10. ASSUME call.index \in ToolIndexes
       PROVE  /\ ToolSettled(after, IF byArgs THEN Append(Merging(total)[call.index], args)
                                    ELSE Merging(total)[call.index], next.choice.seen)
              /\ after.name = IF call.name = NoTool THEN before.name ELSE call.name
              /\ before.last # None => after.last # None
              /\ finalizing => after.last # None
              /\ ~finalizing => after.last # "empty"
              /\ byName \/ byArgs =>
                   after.last # None \/ (call.name # NoTool
                                         /\ (before.header \/ call.name = EagerTool))
  <2> DEFINE told == Merging(total)[call.index]
             seen == done.choice.seen
             now == next.choice.seen
  <2>1. ToolSettled(before, told, seen) /\ before.last # "empty" BY <1>0, <1>2, <1>10
  <2>2. seen \/ byName \/ byArgs => now BY <1>6
  <2> HIDE DEF told, seen, before, now
  <2>3. /\ (seen \/ byName \/ byArgs => now) =>
             ToolSettled(after, IF byArgs THEN Append(told, args) ELSE told, now)
        /\ after.name = IF call.name = NoTool THEN before.name ELSE call.name
        /\ before.last # None => after.last # None
        /\ finalizing => after.last # None
        /\ ~finalizing => after.last # "empty"
        /\ byName \/ byArgs =>
             after.last # None \/ (call.name # NoTool
                                   /\ (before.header \/ call.name = EagerTool))
    BY <1>0, <2>1, ToolTold DEF tool, args, Telling
  <2> QED BY <2>2, <2>3 DEF told, now
<1> HIDE DEF after
<1>11. ASSUME NEW i \in ToolIndexes
       PROVE  ToolSettled(next.choice.tools[i], Merging(sum)[i], next.choice.seen)
  <2>1. CASE i = call.index BY <1>6, <1>9, <1>10, <2>1 DEF after
  <2>2. CASE i # call.index
    <3>1. next.choice.tools[i] = done.choice.tools[i] /\ Merging(sum)[i] = Merging(total)[i]
      BY <1>6, <1>9, <2>2
    <3>2. ToolSettled(done.choice.tools[i], Merging(total)[i], done.choice.seen) BY <1>2
    <3>3. done.choice.seen => next.choice.seen BY <1>6
    <3> QED BY <3>1, <3>2, <3>3 DEF ToolSettled
  <2> QED BY <2>1, <2>2
<1>12. ChoiceSettled(next.choice, sum) BY <1>2, <1>6, <1>8, <1>11 DEF ChoiceSettled
<1>13. next.calls = done.calls \/
         \E x \in {None, "whole", "empty"} :
           next.calls = Append(done.calls, [index |-> call.index, args |-> x])
  BY <1>6, <1>7
<1>14. next.calls # done.calls => byName \/ byArgs BY <1>6
<1> QED BY <1>1, <1>6, <1>8, <1>10, <1>12, <1>13, <1>14 DEF sum, after, CallTells

\* A call is named before its fragments.
NamedFirst(calls) ==
  \A k \in 1 .. Len(calls) : calls[k].name # NoTool =>
    \A j \in 1 .. (k - 1) : calls[j].index # calls[k].index

\* Every tool that was told of has its arguments, or requires none ...
Headed(c, calls) ==
  \A k \in 1 .. Len(calls) : calls[k].index \in ToolIndexes =>
    c.tools[calls[k].index].last # None \/ c.tools[calls[k].index].name = EagerTool

\* ... or has them all.
Answered(c, calls) ==
  \A k \in 1 .. Len(calls) : calls[k].index \in ToolIndexes =>
    c.tools[calls[k].index].last # None

Unemptied(c) == \A i \in ToolIndexes : c.tools[i].last # "empty"

LEMMA NothingHeaded ==
  ASSUME NEW c
  PROVE  Headed(c, <<>>) /\ Answered(c, <<>>)
<1>1. Len(<<>>) = 0 BY Empty
<1>2. \A k \in 1 .. Len(<<>>) : FALSE BY <1>1
<1> QED BY <1>2 DEF Headed, Answered

\* The calls of a chunk, after the first k of them
Disciplined(calls, d, k) ==
  /\ Headed(d.choice, d.calls)
  /\ \A n \in 1 .. Len(d.calls) : \E j \in 1 .. k : calls[j].index = d.calls[n].index
  /\ \A i \in ToolIndexes : (\A j \in 1 .. k : calls[j].index # i) => ~d.choice.tools[i].header

\* A call that is named first keeps the order of names and pieces.
LEMMA DisciplineKept ==
  ASSUME NEW calls, IsSequence(calls), NamedFirst(calls), NEW k \in 1 .. Len(calls),
         NEW d, IsSequence(d.calls), Disciplined(calls, d, k - 1),
         NEW e, NEW finalizing, CallTells(d, <<>>, calls[k], finalizing, e)
  PROVE  Disciplined(calls, e, k)
<1> DEFINE call == calls[k]
           x == call.index
<1>1. k \in Nat /\ Len(calls) \in Nat /\ Len(d.calls) \in Nat BY Bounds
<1>2. /\ \A i \in ToolIndexes : i # x => e.choice.tools[i] = d.choice.tools[i]
      /\ e.calls = d.calls \/ \E a \in {None, "whole", "empty"} :
                                e.calls = Append(d.calls, [index |-> x, args |-> a])
      /\ x \in ToolIndexes =>
           /\ e.choice.tools[x].name =
                IF call.name = NoTool THEN d.choice.tools[x].name ELSE call.name
           /\ d.choice.tools[x].last # None => e.choice.tools[x].last # None
           /\ e.calls # d.calls =>
                e.choice.tools[x].last # None
                \/ (call.name # NoTool /\ (d.choice.tools[x].header \/ call.name = EagerTool))
  BY DEF CallTells
<1>3. call.name # NoTool => \A j \in 1 .. (k - 1) : calls[j].index # x BY DEF NamedFirst
<1>4. \A n \in 1 .. Len(e.calls) :
        \/ n \in 1 .. Len(d.calls) /\ e.calls[n] = d.calls[n]
        \/ e.calls # d.calls /\ e.calls[n].index = x
  <2>1. CASE e.calls = d.calls BY <2>1
  <2>2. ASSUME NEW a \in {None, "whole", "empty"},
               e.calls = Append(d.calls, [index |-> x, args |-> a])
        PROVE  \A n \in 1 .. Len(e.calls) :
                 \/ n \in 1 .. Len(d.calls) /\ e.calls[n] = d.calls[n]
                 \/ e.calls # d.calls /\ e.calls[n].index = x
    <3> DEFINE r == [index |-> x, args |-> a]
               more == Append(d.calls, r)
    <3>1. /\ Len(more) = Len(d.calls) + 1 /\ more[Len(d.calls) + 1] = r
          /\ \A n \in 1 .. Len(d.calls) : more[n] = d.calls[n]
      BY Appended
    <3>2. r.index = x /\ e.calls = more BY <2>2
    <3> HIDE DEF r, more, x
    <3>3. e.calls # d.calls BY <1>1, <3>1, <3>2
    <3>4. \A n \in 1 .. Len(more) : n \in 1 .. Len(d.calls) \/ n = Len(d.calls) + 1 BY <1>1, <3>1
    <3> QED BY <3>1, <3>2, <3>3, <3>4
  <2> QED BY <1>2, <2>1, <2>2
<1> HIDE DEF call, x
<1>5. \A n \in 1 .. Len(e.calls) : \E j \in 1 .. k : calls[j].index = e.calls[n].index
  <2> TAKE n \in 1 .. Len(e.calls)
  <2>1. CASE n \in 1 .. Len(d.calls) /\ e.calls[n] = d.calls[n]
    <3>1. PICK j \in 1 .. (k - 1) : calls[j].index = d.calls[n].index BY <2>1 DEF Disciplined
    <3>2. j \in 1 .. k BY <1>1
    <3> QED BY <2>1, <3>1, <3>2
  <2>2. CASE e.calls[n].index = x
    <3>1. k \in 1 .. k BY <1>1
    <3> QED BY <2>2, <3>1 DEF x, call
  <2> QED BY <1>4, <2>1, <2>2
<1>6. ASSUME NEW i \in ToolIndexes, \A j \in 1 .. k : calls[j].index # i
      PROVE  ~e.choice.tools[i].header
  <2>1. i # x
    <3>1. k \in 1 .. k BY <1>1
    <3> QED BY <1>6, <3>1 DEF x, call
  <2>2. \A j \in 1 .. (k - 1) : j \in 1 .. k BY <1>1
  <2>3. ~d.choice.tools[i].header BY <1>6, <2>2 DEF Disciplined
  <2> QED BY <1>2, <2>1, <2>3
<1>7. ASSUME NEW n \in 1 .. Len(e.calls), e.calls[n].index \in ToolIndexes
      PROVE  \/ e.choice.tools[e.calls[n].index].last # None
             \/ e.choice.tools[e.calls[n].index].name = EagerTool
  <2>1. CASE n \in 1 .. Len(d.calls) /\ e.calls[n] = d.calls[n]
    <3> DEFINE y == d.calls[n].index
    <3>1. y \in ToolIndexes /\ y = e.calls[n].index BY <1>7, <2>1
    <3>2. d.choice.tools[y].last # None \/ d.choice.tools[y].name = EagerTool
      BY <2>1, <3>1 DEF Disciplined, Headed
    <3>3. \E j \in 1 .. (k - 1) : calls[j].index = y BY <2>1 DEF Disciplined
    <3> HIDE DEF y
    <3>4. CASE y # x BY <1>2, <3>1, <3>2, <3>4
    <3>5. CASE y = x
      <4>1. call.name = NoTool BY <1>3, <3>3, <3>5
      <4> QED BY <1>2, <3>1, <3>2, <3>5, <4>1
    <3> QED BY <3>4, <3>5
  <2>2. CASE e.calls # d.calls /\ e.calls[n].index = x
    <3>1. x \in ToolIndexes BY <1>7, <2>2
    <3>2. CASE e.choice.tools[x].last # None BY <2>2, <3>2
    <3>3. CASE call.name # NoTool /\ (d.choice.tools[x].header \/ call.name = EagerTool)
      <4>1. ~d.choice.tools[x].header BY <1>3, <3>1, <3>3 DEF Disciplined
      <4>2. e.choice.tools[x].name = EagerTool BY <1>2, <3>1, <3>3, <4>1
      <4> QED BY <2>2, <4>2
    <3> QED BY <1>2, <2>2, <3>1, <3>2, <3>3
  <2> QED BY <1>4, <2>1, <2>2
<1>8. Headed(e.choice, e.calls) BY <1>7 DEF Headed
<1> QED BY <1>5, <1>6, <1>8 DEF Disciplined

\* The calls of a chunk, of which none is finalized yet
LEMMA CallsSettled ==
  ASSUME NEW before, Uncalled(before), NEW calls, IsSequence(calls),
         \A k \in 1 .. Len(calls) : calls[k].name \in {NoTool, EagerTool, DeferredTool}
  PROVE  LET done == NormalizeCalls(before, calls, FALSE)
         IN  /\ ChoiceSettled(done.choice, done.calls) /\ IsSequence(done.calls)
             /\ Unemptied(done.choice)
             /\ NamedFirst(calls) => Headed(done.choice, done.calls)
<1> DEFINE n == Len(calls)
           finalizing == FALSE
<1>1. n \in Nat BY Bounds
<1>0. finalizing \in BOOLEAN /\ ~finalizing OBVIOUS
<1> HIDE DEF finalizing
<1>2. PICK f : /\ f[0] = [choice |-> before, calls |-> <<>>]
               /\ \A k \in 1 .. n : f[k] = NormalizeCall(f[k - 1], calls[k], finalizing)
               /\ NormalizeCalls(before, calls, finalizing) = f[n]
  BY <1>1, CallsStepwise
<1> DEFINE Good(d) == ChoiceSettled(d.choice, d.calls) /\ IsSequence(d.calls) /\ Unemptied(d.choice)
           T == {k \in Nat : Good(f[k]) /\ (NamedFirst(calls) => Disciplined(calls, f[k], k))}
<1>3. 0 \in T
  <2>1. f[0].choice = before /\ f[0].calls = <<>> BY <1>2
  <2>2. /\ \A i \in ToolIndexes : ToolSettled(before.tools[i], Merging(<<>>)[i], before.seen)
        /\ ~before.seen
    BY DEF Uncalled, ChoiceSettled
  <2>3. \A i \in ToolIndexes : before.tools[i].last = None /\ ~before.tools[i].header
    BY <2>2 DEF ToolSettled
  <2>4. Unemptied(before) BY <2>3 DEF Unemptied, None
  <2>5. Len(<<>>) = 0 BY Empty
  <2>6. \A k \in 1 .. Len(<<>>) : FALSE BY <2>5
  <2>7. Disciplined(calls, f[0], 0) BY <2>1, <2>3, <2>6, NothingHeaded DEF Disciplined
  <2>8. Good(f[0]) BY <2>1, <2>4, Empty DEF Uncalled
  <2> HIDE DEF Good
  <2> QED BY <2>7, <2>8
<1>4. ASSUME NEW k \in 1 .. n, k - 1 \in T PROVE k \in T
  <2> DEFINE d == f[k - 1]
             e == f[k]
             call == calls[k]
  <2>1. Good(d) /\ (NamedFirst(calls) => Disciplined(calls, d, k - 1)) /\ k \in Nat BY <1>4
  <2>2. e = NormalizeCall(d, call, finalizing) BY <1>2
  <2>3. call.name \in {NoTool, EagerTool, DeferredTool} OBVIOUS
  <2>4. <<>> \o d.calls = d.calls /\ IsSequence(<<>>) BY <2>1, Empty, EmptyAside
  <2> HIDE DEF d, e, call
  <2>5. ChoiceSettled(d.choice, <<>> \o d.calls) BY <2>1, <2>4
  <2>6. call.index \in ToolIndexes => d.choice.tools[call.index].last # "empty"
    BY <2>1 DEF Unemptied
  <2>13. IsSequence(d.calls) /\ (finalizing => call.name = EagerTool) BY <1>0, <2>1
  <2>14. CallTells(d, <<>>, call, finalizing, NormalizeCall(d, call, finalizing))
    <3> DEFINE none == <<>>
    <3>1. IsSequence(none) /\ ChoiceSettled(d.choice, none \o d.calls) BY <2>4, <2>5
    <3> HIDE DEF none
    <3>3. Tellable(d, none, call, finalizing) BY <1>0, <2>3, <2>6, <2>13, <3>1 DEF Tellable
    <3>2. CallTells(d, none, call, finalizing, NormalizeCall(d, call, finalizing))
      BY <3>3, CallSettled
    <3> QED BY <3>2 DEF none
  <2>7. CallTells(d, <<>>, call, finalizing, e) BY <2>2, <2>14
  <2>8. NamedFirst(calls) => Disciplined(calls, e, k)
    BY <2>1, <2>7, DisciplineKept DEF call
  <2>9. ChoiceSettled(e.choice, <<>> \o e.calls) /\ IsSequence(e.calls) BY <2>7 DEF CallTells
  <2>10. <<>> \o e.calls = e.calls BY <2>9, EmptyAside
  <2>11. ASSUME NEW i \in ToolIndexes PROVE e.choice.tools[i].last # "empty"
    <3>1. CASE i = call.index BY <1>0, <2>7, <3>1 DEF CallTells
    <3>2. CASE i # call.index BY <2>1, <2>7, <3>2 DEF CallTells, Unemptied
    <3> QED BY <3>1, <3>2
  <2>12. Good(e) BY <2>9, <2>10, <2>11 DEF Unemptied
  <2> HIDE DEF Good
  <2> QED BY <2>1, <2>8, <2>12 DEF e
<1>5. \A k \in 0 .. n : k \in T
  <2> HIDE DEF T
  <2> QED BY <1>1, <1>3, <1>4, Climb
<1>6. n \in T BY <1>1, <1>5
<1> QED BY <1>2, <1>6 DEF Disciplined, finalizing

\* A call that is finalized at once has its arguments, and so have the others.
LEMMA FinalizedAnswers ==
  ASSUME NEW d, NEW old, NEW call, NEW finalizing, Tellable(d, old, call, finalizing), finalizing,
         NEW e, CallTells(d, old, call, finalizing, e)
  PROVE  /\ Headed(d.choice, old \o d.calls) => Headed(e.choice, old \o e.calls)
         /\ Answered(d.choice, old \o d.calls) => Answered(e.choice, old \o e.calls)
<1> DEFINE x == call.index
           s == old \o d.calls
           t == old \o e.calls
<1>1. IsSequence(old) /\ IsSequence(d.calls) /\ call.name = EagerTool BY DEF Tellable
<1>2. IsSequence(s) /\ Len(s) \in Nat BY <1>1, Concatenated, Bounds
<1>3. /\ \A i \in ToolIndexes : i # x => e.choice.tools[i] = d.choice.tools[i]
      /\ x \in ToolIndexes => e.choice.tools[x].last # None
      /\ e.calls = d.calls \/ \E a \in {None, "whole", "empty"} :
                                e.calls = Append(d.calls, [index |-> x, args |-> a])
  BY DEF CallTells
<1>4. \A n \in 1 .. Len(t) : (n \in 1 .. Len(s) /\ t[n] = s[n]) \/ t[n].index = x
  <2>1. CASE e.calls = d.calls BY <2>1
  <2>2. ASSUME NEW a \in {None, "whole", "empty"},
               e.calls = Append(d.calls, [index |-> x, args |-> a])
        PROVE  \A n \in 1 .. Len(t) : (n \in 1 .. Len(s) /\ t[n] = s[n]) \/ t[n].index = x
    <3> DEFINE r == [index |-> x, args |-> a]
    <3>1. e.calls = Append(d.calls, r) /\ r.index = x BY <2>2
    <3> HIDE DEF r
    <3>2. t = Append(s, r) BY <1>1, <3>1, AppendAside
    <3> HIDE DEF s, t, x
    <3>3. /\ Len(t) = Len(s) + 1 /\ t[Len(s) + 1] = r
          /\ \A n \in 1 .. Len(s) : t[n] = s[n]
      BY <1>2, <3>2, Appended
    <3>4. \A n \in 1 .. Len(t) : n \in 1 .. Len(s) \/ n = Len(s) + 1 BY <1>2, <3>3
    <3> QED BY <3>1, <3>3, <3>4
  <2> QED BY <1>3, <2>1, <2>2
<1> HIDE DEF s, t, x
<1>5. ASSUME Headed(d.choice, s), NEW n \in 1 .. Len(t), t[n].index \in ToolIndexes
      PROVE  e.choice.tools[t[n].index].last # None \/ e.choice.tools[t[n].index].name = EagerTool
  <2>1. CASE t[n].index = x BY <1>3, <1>5, <2>1
  <2>2. CASE t[n].index # x BY <1>3, <1>4, <1>5, <2>2 DEF Headed
  <2> QED BY <2>1, <2>2
<1>6. ASSUME Answered(d.choice, s), NEW n \in 1 .. Len(t), t[n].index \in ToolIndexes
      PROVE  e.choice.tools[t[n].index].last # None
  <2>1. CASE t[n].index = x BY <1>3, <1>6, <2>1
  <2>2. CASE t[n].index # x BY <1>3, <1>4, <1>6, <2>2 DEF Answered
  <2> QED BY <2>1, <2>2
<1>7. Headed(d.choice, s) => Headed(e.choice, t) BY <1>5 DEF Headed
<1>8. Answered(d.choice, s) => Answered(e.choice, t) BY <1>6 DEF Answered
<1> QED BY <1>7, <1>8 DEF s, t

\* The calls that were written as text: old are the calls of the event before.
LEMMA SyntheticSettled ==
  ASSUME NEW before, NEW old, IsSequence(old), ChoiceSettled(before, old), Unemptied(before),
         NEW count \in Nat
  PROVE  LET done == SyntheticCalls(before, count)
             sum == old \o done.calls
         IN  /\ ChoiceSettled(done.choice, sum) /\ IsSequence(done.calls)
             /\ Headed(before, old) => Headed(done.choice, sum)
             /\ Answered(before, old) => Answered(done.choice, sum)
<1> DEFINE known == Cardinality(Known(before))
           first == IF known > before.synthetic THEN known ELSE before.synthetic
           start == [before EXCEPT !.synthetic = first + count]
           calls == [k \in 1 .. count |->
                       [index |-> first + k - 1, name |-> EagerTool, args |-> "whole"]]
           finalizing == TRUE
           done == SyntheticCalls(before, count)
<1>1. done = NormalizeCalls(start, calls, finalizing) BY DEF SyntheticCalls
<1>2. first \in Nat
  <2>1. Known(before) \subseteq ToolIndexes BY DEF Known
  <2>2. IsFiniteSet(Known(before)) BY <2>1, Indices, FS_Subset
  <2>3. known \in Nat BY <2>2, FS_CardinalityType
  <2> QED BY <2>3 DEF ChoiceSettled
<1> HIDE DEF first, done
<1>3. finalizing OBVIOUS
<1> HIDE DEF finalizing
<1>4. ChoiceSettled(start, old) /\ Unemptied(start) /\ start.tools = before.tools
  <2>1. /\ DOMAIN start = ChoiceParts /\ start.tools = before.tools /\ start.seen = before.seen
        /\ start.synthetic = first + count
    BY DEF ChoiceSettled, ChoiceParts, FreshChoice
  <2> HIDE DEF start
  <2>2. start.synthetic \in Nat BY <1>2, <2>1
  <2>3. ChoiceSettled(start, old) BY <2>1, <2>2 DEF ChoiceSettled
  <2> QED BY <2>1, <2>3 DEF Unemptied
<1> HIDE DEF start
<1>5. IsSequence(calls) /\ Len(calls) = count
  <2>1. calls = [k \in 1 .. count |-> calls[k]] OBVIOUS
  <2> HIDE DEF calls
  <2> QED BY <2>1, Listed
<1>6. \A k \in 1 .. count : calls[k].index = first + k - 1 /\ calls[k].name = EagerTool
  OBVIOUS
<1> HIDE DEF calls
<1>7. PICK f : /\ f[0] = [choice |-> start, calls |-> <<>>]
               /\ \A k \in 1 .. count : f[k] = NormalizeCall(f[k - 1], calls[k], finalizing)
               /\ done = f[count]
  BY <1>1, <1>5, CallsStepwise
<1> DEFINE Good(d, k) ==
             /\ IsSequence(d.calls) /\ ChoiceSettled(d.choice, old \o d.calls)
             /\ Headed(before, old) => Headed(d.choice, old \o d.calls)
             /\ Answered(before, old) => Answered(d.choice, old \o d.calls)
             /\ \A i \in ToolIndexes : i >= first + k => d.choice.tools[i].last # "empty"
           T == {k \in Nat : Good(f[k], k)}
<1>8. 0 \in T
  <2> DEFINE d == f[0]
  <2>1. d.choice = start /\ d.calls = <<>> BY <1>7
  <2>2. IsSequence(d.calls) /\ old \o d.calls = old BY <2>1, Empty, EmptyAside
  <2> HIDE DEF d
  <2>3. Headed(before, old) => Headed(d.choice, old) BY <1>4, <2>1 DEF Headed
  <2>4. Answered(before, old) => Answered(d.choice, old) BY <1>4, <2>1 DEF Answered
  <2>5. \A i \in ToolIndexes : d.choice.tools[i].last # "empty" BY <1>4, <2>1 DEF Unemptied
  <2>6. Good(d, 0) BY <1>4, <2>1, <2>2, <2>3, <2>4, <2>5
  <2> HIDE DEF Good
  <2> QED BY <2>6 DEF d
<1>9. ASSUME NEW k \in 1 .. count, k - 1 \in T PROVE k \in T
  <2> DEFINE d == f[k - 1]
             e == f[k]
             call == calls[k]
  <2>1. Good(d, k - 1) /\ k \in Nat BY <1>9
  <2>2. e = NormalizeCall(d, call, finalizing) BY <1>7
  <2>3. call.index = first + k - 1 /\ call.name = EagerTool BY <1>6
  <2> HIDE DEF d, e, call
  <2>4. call.index >= first + (k - 1) BY <1>2, <2>1, <2>3
  <2>5. call.index \in ToolIndexes => d.choice.tools[call.index].last # "empty" BY <2>1, <2>4
  <2>6. Tellable(d, old, call, finalizing) BY <2>1, <2>3, <2>5 DEF Tellable
  <2>7. CallTells(d, old, call, finalizing, e) BY <2>2, <2>6, CallSettled
  <2>8. /\ Headed(d.choice, old \o d.calls) => Headed(e.choice, old \o e.calls)
        /\ Answered(d.choice, old \o d.calls) => Answered(e.choice, old \o e.calls)
    BY <1>3, <2>6, <2>7, FinalizedAnswers
  <2>9. ASSUME NEW i \in ToolIndexes, i >= first + k PROVE e.choice.tools[i].last # "empty"
    <3>1. i \in Nat BY Indices
    <3>2. i # call.index /\ i >= first + (k - 1) BY <1>2, <2>1, <2>3, <2>9, <3>1
    <3>3. e.choice.tools[i] = d.choice.tools[i] BY <2>7, <3>2 DEF CallTells
    <3>4. d.choice.tools[i].last # "empty" BY <2>1, <3>2
    <3> QED BY <3>3, <3>4
  <2>10. IsSequence(e.calls) /\ ChoiceSettled(e.choice, old \o e.calls) BY <2>7 DEF CallTells
  <2>11. Good(e, k) BY <2>1, <2>8, <2>9, <2>10
  <2> HIDE DEF Good
  <2> QED BY <2>1, <2>11 DEF e
<1>10. \A k \in 0 .. count : k \in T
  <2> HIDE DEF T
  <2> QED BY <1>8, <1>9, Climb
<1>11. Good(done, count) BY <1>7, <1>10
<1> QED BY <1>11 DEF done

\* The arguments a of a call that is finalized, of which the tool is known
Completion(a, tool) ==
  \/ a = <<>>
  \/ a = <<"whole">> /\ Documented(tool.buffer)
  \/ a = <<"empty">> /\ tool.name = EagerTool /\ ~Complete(tool.buffer)

\* Every call that is told of has arguments.
AllArgued(calls) ==
  \A n \in 1 .. Len(calls) : calls[n].index \in ToolIndexes => Merging(calls)[calls[n].index] # <<>>

\* What is known when the tools below k are finalized, and of the rest
Pended(before, d, k) ==
  /\ DOMAIN d.choice = ChoiceParts /\ DOMAIN d.choice.tools = ToolIndexes
  /\ IsSequence(d.calls) /\ AllArgued(d.calls)
  /\ before.seen => d.choice.seen
  /\ \A i \in ToolIndexes :
       /\ d.choice.tools[i].name = before.tools[i].name
       /\ d.choice.tools[i].buffer = before.tools[i].buffer
       /\ Completion(Merging(d.calls)[i], before.tools[i])
       /\ i >= k => d.choice.tools[i] = before.tools[i] /\ Merging(d.calls)[i] = <<>>
       /\ i < k /\ d.calls = <<>> /\ before.tools[i].name = EagerTool => before.tools[i].last # None
       /\ \A n \in 1 .. Len(d.calls) : d.calls[n].index \in ToolIndexes

\* One call more was told of, which has arguments.
Fulfilled(calls, x, args, more) ==
  /\ IsSequence(more) /\ AllArgued(more) /\ more # <<>>
  /\ \A i \in ToolIndexes : Merging(more)[i] = IF i = x THEN Append(Merging(calls)[i], args)
                                               ELSE Merging(calls)[i]
  /\ \A n \in 1 .. Len(more) : (n \in 1 .. Len(calls) /\ more[n] = calls[n]) \/ more[n].index = x

\* A call with arguments gives them to its index, and leaves none without.
LEMMA CallFulfilled ==
  ASSUME NEW calls, IsSequence(calls), AllArgued(calls), NEW x \in ToolIndexes,
         NEW args, args # None
  PROVE  Fulfilled(calls, x, args, Append(calls, [index |-> x, args |-> args]))
<1> DEFINE r == [index |-> x, args |-> args]
           more == Append(calls, r)
<1>1. r.index = x /\ r.args = args OBVIOUS
<1> HIDE DEF r
<1>2. /\ IsSequence(more) /\ Len(more) = Len(calls) + 1 /\ more[Len(calls) + 1] = r
      /\ \A n \in 1 .. Len(calls) : more[n] = calls[n]
  BY Appended
<1>3. Len(calls) \in Nat BY Bounds
<1>4. \A n \in 1 .. Len(more) : (n \in 1 .. Len(calls) /\ more[n] = calls[n]) \/ more[n].index = x
  BY <1>1, <1>2, <1>3
<1>5. ASSUME NEW i \in ToolIndexes
      PROVE  Merging(more)[i] = IF i = x THEN Append(Merging(calls)[i], args) ELSE Merging(calls)[i]
  <2>1. Merging(Append(calls, r))[i] =
          IF r.args # None /\ i = r.index THEN Append(Merging(calls)[i], r.args)
          ELSE Merging(calls)[i]
    BY MergingOne
  <2> QED BY <1>1, <2>1
<1> HIDE DEF more
<1>6. more # <<>>
  <2>1. Len(<<>>) = 0 BY Empty
  <2> QED BY <1>2, <1>3, <2>1
<1>7. ASSUME NEW n \in 1 .. Len(more), more[n].index \in ToolIndexes
      PROVE  Merging(more)[more[n].index] # <<>>
  <2> DEFINE m == Merging(calls)[more[n].index]
  <2>1. CASE more[n].index = x
    <3>1. Merging(more)[more[n].index] = Append(m, args) BY <1>5, <1>7, <2>1
    <3> HIDE DEF m
    <3>2. Append(m, args) # <<>> OBVIOUS
    <3> QED BY <3>1, <3>2
  <2>2. CASE more[n].index # x
    <3>1. n \in 1 .. Len(calls) /\ more[n] = calls[n] BY <1>4, <2>2
    <3>2. Merging(calls)[calls[n].index] # <<>> BY <1>7, <3>1 DEF AllArgued
    <3> QED BY <1>5, <1>7, <2>2, <3>1, <3>2
  <2> QED BY <2>1, <2>2
<1>8. AllArgued(more) BY <1>7 DEF AllArgued
<1> QED BY <1>2, <1>4, <1>5, <1>6, <1>8 DEF more, r, Fulfilled

\* A call is finalized: it is told of with all its arguments, or not at all.
LEMMA OneFinalized ==
  ASSUME NEW before, NEW old, ChoiceSettled(before, old), NEW k \in Nat, k \in ToolIndexes,
         NEW d, Pended(before, d, k)
  PROVE  Pended(before, FinalizeCall(d, k), k + 1)
<1> DEFINE tool == before.tools[k]
           call == [index |-> k, name |-> NoTool, args |-> None]
           finalizing == TRUE
           t == ToolAfter(tool, call)
           args == ArgumentsOf(t, finalizing)
           e == FinalizeCall(d, k)
<1>1. /\ DOMAIN d.choice = ChoiceParts /\ DOMAIN d.choice.tools = ToolIndexes
      /\ IsSequence(d.calls) /\ AllArgued(d.calls)
      /\ before.seen => d.choice.seen
      /\ \A i \in ToolIndexes :
           /\ d.choice.tools[i].name = before.tools[i].name
           /\ d.choice.tools[i].buffer = before.tools[i].buffer
           /\ Completion(Merging(d.calls)[i], before.tools[i])
           /\ i >= k => d.choice.tools[i] = before.tools[i] /\ Merging(d.calls)[i] = <<>>
           /\ i < k /\ d.calls = <<>> /\ before.tools[i].name = EagerTool =>
                before.tools[i].last # None
           /\ \A n \in 1 .. Len(d.calls) : d.calls[n].index \in ToolIndexes
  BY DEF Pended
<1>2. d.choice.tools[k] = tool /\ Merging(d.calls)[k] = <<>> BY <1>1
<1>3. ToolSettled(tool, Merging(old)[k], before.seen) BY DEF ChoiceSettled
<1>4. /\ DOMAIN tool = DOMAIN FreshTool /\ IsSequence(tool.buffer) /\ tool.suppressed = FALSE
      /\ tool.name \in {NoTool, EagerTool, DeferredTool}
  BY <1>3 DEF ToolSettled
<1>5. EagerTool # DeferredTool /\ NoTool # EagerTool /\ NoTool # DeferredTool
  BY StreamAssumption
<1>6. \A i \in ToolIndexes : i \in Nat BY Indices
<1> HIDE DEF tool
<1>7. CASE k \notin Open(d.choice)
  <2>1. e = d BY <1>7 DEF FinalizeCall
  <2>2. tool.name = EagerTool => tool.last # None BY <1>1, <1>2, <1>4, <1>5, <1>7 DEF Open, Known
  <2> HIDE DEF e
  <2>3. ASSUME NEW i \in ToolIndexes
        PROVE  /\ i >= k + 1 => d.choice.tools[i] = before.tools[i] /\ Merging(d.calls)[i] = <<>>
               /\ i < k + 1 /\ d.calls = <<>> /\ before.tools[i].name = EagerTool =>
                    before.tools[i].last # None
    <3>1. CASE i = k BY <1>1, <2>2, <3>1 DEF tool
    <3>0. i \in Nat BY <1>6
    <3>2. CASE i < k
      <4>1. ~(i >= k + 1) BY <3>0, <3>2
      <4> QED BY <1>1, <3>2, <4>1
    <3>3. CASE i >= k + 1
      <4>1. i >= k /\ ~(i < k + 1) BY <3>0, <3>3
      <4> QED BY <1>1, <3>3, <4>1
    <3> QED BY <1>6, <3>1, <3>2, <3>3
  <2>4. Pended(before, d, k + 1) BY <1>1, <2>3 DEF Pended
  <2> QED BY <2>1, <2>4 DEF e
<1>8. CASE k \in Open(d.choice)
  <2>1. tool.last = None /\ tool.name # NoTool BY <1>2, <1>8 DEF Open, Known
  <2>2. call.index = k /\ call.name = NoTool /\ call.args = None OBVIOUS
  <2>3. e = NormalizeCall(d, call, finalizing) BY <1>8 DEF FinalizeCall
  <2> HIDE DEF call, e
  <2>4. GoesOn(tool, call, t)
    <3>1. call.name \in {NoTool, EagerTool, DeferredTool} BY <2>2
    <3> QED BY <1>3, <3>1, ToolGoesOn
  <2>5. finalizing OBVIOUS
  <2> HIDE DEF finalizing, t
  <2>20. /\ DOMAIN t = DOMAIN FreshTool /\ t.last = None /\ t.suppressed = FALSE
         /\ t.name = tool.name /\ t.buffer = tool.buffer
    BY <2>1, <2>2, <2>4 DEF GoesOn
  <2>6. args = IF Complete(tool.buffer) THEN "whole" ELSE "empty"
    BY <2>20, <2>5 DEF ArgumentsOf, None
  <2> HIDE DEF args
  <2>7. e = EmitCall(d, call, t, args) BY <1>2, <2>2, <2>3 DEF NormalizeCall, args, t
  <2>8. Emission(d, call, t, args, e) BY <1>1, <2>7, CallEmitted
  <2> DEFINE byArgs == EmitsArgs(t, args)
             r == [index |-> k, args |-> args]
  <2>9. byArgs <=> ~(args = "empty" /\ tool.name = DeferredTool)
    BY <2>6, <2>20 DEF EmitsArgs, Suppressed, None
  <2>10. ~EmitsName(call, t) BY <2>2 DEF EmitsName
  <2>11. /\ DOMAIN e.choice = ChoiceParts /\ DOMAIN e.choice.tools = ToolIndexes
         /\ d.choice.seen => e.choice.seen
         /\ \A i \in ToolIndexes : i # k => e.choice.tools[i] = d.choice.tools[i]
         /\ e.choice.tools[k] = EmittedTool(call, t, args)
         /\ ~byArgs => e.calls = d.calls
         /\ byArgs => e.calls = Append(d.calls, r)
    BY <2>2, <2>8, <2>10 DEF Emission
  <2>12. ToldOf(call, t, args, EmittedTool(call, t, args)) BY <2>20, EmittedParts
  <2>13. e.choice.tools[k].name = tool.name /\ e.choice.tools[k].buffer = tool.buffer
    BY <2>11, <2>12, <2>20 DEF ToldOf
  <2>14. args # None BY <2>6 DEF None
  <2>15. CASE byArgs
    <3> DEFINE more == Append(d.calls, r)
    <3>0. Fulfilled(d.calls, k, args, more) BY <1>1, <2>14, CallFulfilled
    <3>1. /\ IsSequence(more) /\ AllArgued(more) /\ more # <<>>
          /\ \A i \in ToolIndexes :
               Merging(more)[i] = IF i = k THEN Append(Merging(d.calls)[i], args)
                                                       ELSE Merging(d.calls)[i]
          /\ \A n \in 1 .. Len(more) : (n \in 1 .. Len(d.calls) /\ more[n] = d.calls[n])
                                       \/ more[n].index = k
      BY <3>0 DEF Fulfilled
    <3>2. e.calls = more BY <2>11, <2>15
    <3> HIDE DEF more, r, byArgs
    <3>3. Merging(more)[k] = <<args>> BY <1>2, <3>1, Recorded1
    <3>4. Completion(<<args>>, tool)
      <4>1. CASE Complete(tool.buffer) BY <1>4, <2>6, <4>1, CompleteDocumented DEF Completion
      <4>2. CASE ~Complete(tool.buffer)
        BY <1>4, <2>1, <2>6, <2>9, <2>15, <4>2 DEF Completion, byArgs
      <4> QED BY <4>1, <4>2
    <3>5. ASSUME NEW i \in ToolIndexes
          PROVE  /\ e.choice.tools[i].name = before.tools[i].name
                 /\ e.choice.tools[i].buffer = before.tools[i].buffer
                 /\ Completion(Merging(e.calls)[i], before.tools[i])
                 /\ i >= k + 1 => e.choice.tools[i] = before.tools[i] /\ Merging(e.calls)[i] = <<>>
      <4>1. CASE i = k
        <5>1. ~(i >= k + 1) BY <4>1
        <5> QED BY <2>13, <3>2, <3>3, <3>4, <4>1, <5>1 DEF tool
      <4>2. CASE i # k
        <5>1. i >= k + 1 => i >= k BY <1>6
        <5> QED BY <1>1, <2>11, <3>1, <3>2, <4>2, <5>1
      <4> QED BY <4>1, <4>2
    <3>6. \A n \in 1 .. Len(e.calls) : e.calls[n].index \in ToolIndexes BY <1>1, <3>1, <3>2
    <3>7. IsSequence(e.calls) /\ AllArgued(e.calls) /\ e.calls # <<>> BY <3>1, <3>2
    <3>8. before.seen => e.choice.seen BY <1>1, <2>11
    <3> QED BY <2>11, <3>5, <3>6, <3>7, <3>8 DEF Pended, e
  <2>16. CASE ~byArgs
    <3>1. e.calls = d.calls /\ tool.name # EagerTool BY <1>5, <2>9, <2>11, <2>16
    <3>2. ASSUME NEW i \in ToolIndexes
          PROVE  /\ e.choice.tools[i].name = before.tools[i].name
                 /\ e.choice.tools[i].buffer = before.tools[i].buffer
                 /\ Completion(Merging(e.calls)[i], before.tools[i])
                 /\ i >= k + 1 => e.choice.tools[i] = before.tools[i] /\ Merging(e.calls)[i] = <<>>
                 /\ i < k + 1 /\ e.calls = <<>> /\ before.tools[i].name = EagerTool =>
                      before.tools[i].last # None
      <4>1. CASE i = k
        <5>1. ~(i >= k + 1) BY <4>1
        <5> QED BY <1>1, <2>13, <3>1, <4>1, <5>1 DEF tool
      <4>2. CASE i # k
        <5>1. (i >= k + 1 => i >= k) /\ (i < k + 1 => i < k) BY <1>6, <4>2
        <5> QED BY <1>1, <2>11, <3>1, <4>2, <5>1
      <4> QED BY <4>1, <4>2
    <3>3. before.seen => e.choice.seen BY <1>1, <2>11
    <3> QED BY <1>1, <2>11, <3>1, <3>2, <3>3 DEF Pended, e
  <2> QED BY <2>15, <2>16
<1> QED BY <1>7, <1>8

\* When the answer is finished, every tool that waits is told of.
LEMMA PendingSettled ==
  ASSUME NEW before, NEW old, ChoiceSettled(before, old)
  PROVE  Pended(before, FinalizePending(before), Cardinality(ToolIndexes))
<1> DEFINE n == Cardinality(ToolIndexes)
<1>1. n \in Nat /\ ToolIndexes = 0 .. (n - 1) BY Indices
<1>2. PICK f : /\ f[0] = [choice |-> before, calls |-> <<>>]
               /\ \A k \in 1 .. n : f[k] = FinalizeCall(f[k - 1], k - 1)
               /\ FinalizePending(before) = f[n]
  BY <1>1, FinalizedDefined
<1> HIDE DEF n
<1> DEFINE T == {k \in Nat : Pended(before, f[k], k)}
<1>3. 0 \in T
  <2> DEFINE none == <<>>
             d == f[0]
  <2>1. d.choice = before /\ d.calls = none BY <1>2
  <2>2. IsSequence(none) /\ Len(none) = 0 BY Empty
  <2>3. \A i \in ToolIndexes : Merging(none)[i] = <<>> BY MergingNothing
  <2>4. \A i \in ToolIndexes : Completion(Merging(none)[i], before.tools[i]) BY <2>3 DEF Completion
  <2>5. \A i \in ToolIndexes : i \in Nat BY <1>1
  <2>6. DOMAIN before = ChoiceParts /\ DOMAIN before.tools = ToolIndexes BY DEF ChoiceSettled
  <2> HIDE DEF none, d
  <2>7. AllArgued(none) BY <2>2 DEF AllArgued
  <2>8. \A i \in ToolIndexes : ~(i < 0) BY <2>5
  <2>9. \A i \in 1 .. Len(none) : FALSE BY <2>2
  <2>10. Pended(before, d, 0) BY <2>1, <2>2, <2>3, <2>4, <2>6, <2>7, <2>8, <2>9 DEF Pended
  <2> QED BY <2>10 DEF d
<1>4. ASSUME NEW k \in 1 .. n, k - 1 \in T PROVE k \in T
  <2>1. k - 1 \in ToolIndexes /\ k - 1 \in Nat /\ (k - 1) + 1 = k /\ k \in Nat BY <1>1
  <2>2. Pended(before, f[k - 1], k - 1) BY <1>4
  <2>3. f[k] = FinalizeCall(f[k - 1], k - 1) BY <1>2
  <2>4. Pended(before, FinalizeCall(f[k - 1], k - 1), (k - 1) + 1) BY <2>1, <2>2, OneFinalized
  <2> QED BY <2>1, <2>3, <2>4
<1>5. \A k \in 0 .. n : k \in T
  <2> HIDE DEF T
  <2> QED BY <1>1, <1>3, <1>4, Climb
<1>6. n \in T BY <1>1, <1>5
<1> QED BY <1>2, <1>6 DEF n

\* Two calls of a message have one index.
Repeated(message) ==
  \E j, k \in DOMAIN message : j # k /\ message[j].index = message[k].index

\* The whole calls w of the first k of a message
Wholly(message, k, w) ==
  /\ IsSequence(w) /\ AllArgued(w)
  /\ \A n \in 1 .. Len(w) : w[n].index \in ToolIndexes
  /\ \A i \in ToolIndexes :
       \/ Merging(w)[i] = <<>>
       \/ /\ Merging(w)[i] = <<"whole">>
          /\ \E j \in 1 .. k : message[j].index = i /\ message[j].args = "whole"

\* The whole calls of a last message give an index at most one text.
LEMMA WholeSettled ==
  ASSUME NEW message, IsSequence(message), ~Repeated(message),
         \A k \in 1 .. Len(message) : message[k].index \in ToolIndexes
  PROVE  Wholly(message, Len(message), WholeCalls(message))
<1> DEFINE n == Len(message)
<1>1. n \in Nat /\ DOMAIN message = 1 .. n BY Bounds
<1>2. PICK f : /\ f[0] = <<>>
               /\ \A k \in 1 .. n : f[k] = WholeCall(f[k - 1], message[k])
               /\ WholeCalls(message) = f[n]
  BY <1>1, WholeCallsDefined
<1> HIDE DEF n
<1> DEFINE T == {k \in Nat : Wholly(message, k, f[k])}
<1>3. 0 \in T
  <2> DEFINE none == <<>>
  <2>1. IsSequence(none) /\ Len(none) = 0 /\ f[0] = none BY <1>2, Empty
  <2>2. \A i \in ToolIndexes : Merging(none)[i] = <<>> BY MergingNothing
  <2> HIDE DEF none
  <2>3. \A m \in 1 .. Len(none) : FALSE BY <2>1
  <2>4. AllArgued(none) BY <2>3 DEF AllArgued
  <2>5. Wholly(message, 0, none) BY <2>1, <2>2, <2>3, <2>4 DEF Wholly
  <2> QED BY <2>1, <2>5
<1>4. ASSUME NEW k \in 1 .. n, k - 1 \in T PROVE k \in T
  <2> DEFINE w == f[k - 1]
             call == message[k]
             x == call.index
             more == Append(w, [index |-> x, args |-> "whole"])
  <2>1. Wholly(message, k - 1, w) /\ k \in Nat /\ k \in 1 .. k /\ k \in 1 .. Len(message)
    BY <1>1, <1>4 DEF n
  <2>2. x \in ToolIndexes BY <2>1
  <2>3. f[k] = IF call.args = "whole" THEN more ELSE w BY <1>2 DEF WholeCall
  <2>4. CASE call.args # "whole"
    <3>1. f[k] = w BY <2>3, <2>4
    <3>2. \A j \in 1 .. (k - 1) : j \in 1 .. k BY <2>1
    <3> HIDE DEF w
    <3>3. Wholly(message, k, w) BY <2>1, <3>2 DEF Wholly
    <3> QED BY <2>1, <3>1, <3>3
  <2>5. CASE call.args = "whole"
    <3> DEFINE whole == "whole"
    <3>1. IsSequence(w) /\ AllArgued(w) /\ whole # None BY <2>1 DEF Wholly, None
    <3> HIDE DEF w, x
    <3>2. Fulfilled(w, x, whole, Append(w, [index |-> x, args |-> whole]))
      <4> HIDE DEF whole
      <4> QED BY <2>2, <3>1, CallFulfilled
    <3>3. Fulfilled(w, x, whole, more) BY <3>2
    <3> HIDE DEF more
    <3>4. Merging(w)[x] = <<>>
      <4>1. ASSUME NEW j \in 1 .. (k - 1), message[j].index = x PROVE FALSE
        <5>1. j \in DOMAIN message /\ k \in DOMAIN message /\ j # k BY <1>1, <2>1
        <5> QED BY <4>1, <5>1 DEF Repeated, x
      <4> QED BY <2>1, <2>2, <4>1 DEF Wholly
    <3>5. Merging(more)[x] = <<whole>> BY <2>2, <3>3, <3>4, Recorded1 DEF Fulfilled
    <3>6. ASSUME NEW i \in ToolIndexes
          PROVE  \/ Merging(more)[i] = <<>>
                 \/ /\ Merging(more)[i] = <<"whole">>
                    /\ \E j \in 1 .. k : message[j].index = i /\ message[j].args = "whole"
      <4>1. CASE i = x BY <2>1, <2>5, <3>5, <4>1 DEF x
      <4>2. CASE i # x
        <5>1. Merging(more)[i] = Merging(w)[i] BY <3>3, <4>2 DEF Fulfilled
        <5>2. \A j \in 1 .. (k - 1) : j \in 1 .. k BY <2>1
        <5> QED BY <2>1, <5>1, <5>2 DEF Wholly
      <4> QED BY <4>1, <4>2
    <3>7. \A m \in 1 .. Len(more) : more[m].index \in ToolIndexes
      BY <2>1, <2>2, <3>3 DEF Wholly, Fulfilled
    <3>8. IsSequence(more) /\ AllArgued(more) BY <3>3 DEF Fulfilled
    <3>9. Wholly(message, k, more) BY <3>6, <3>7, <3>8 DEF Wholly
    <3>10. f[k] = more BY <2>3, <2>5
    <3> QED BY <2>1, <3>9, <3>10
  <2> QED BY <2>4, <2>5
<1>5. \A k \in 0 .. n : k \in T
  <2> HIDE DEF T
  <2> QED BY <1>1, <1>3, <1>4, Climb
<1>6. n \in T BY <1>1, <1>5
<1> QED BY <1>2, <1>6 DEF n

\* The calls of a message that are told apart are named before their fragments.
LEMMA DistinctNamedFirst ==
  ASSUME NEW message, IsSequence(message), ~Repeated(message)
  PROVE  NamedFirst(message)
<1>1. DOMAIN message = 1 .. Len(message) /\ Len(message) \in Nat BY Bounds
<1>2. ASSUME NEW k \in 1 .. Len(message), NEW j \in 1 .. (k - 1)
      PROVE  message[j].index # message[k].index
  <2>1. j \in DOMAIN message /\ k \in DOMAIN message /\ j # k BY <1>1
  <2> QED BY <2>1 DEF Repeated
<1> QED BY <1>2 DEF NamedFirst

\* A choice d knows of the calls what c knows.
KnowsAlike(c, d) ==
  /\ DOMAIN d = ChoiceParts
  /\ d.tools = c.tools /\ d.seen = c.seen /\ d.synthetic = c.synthetic

\* What is known of the calls while a chunk goes through its stages
CallsTold(st, chunk) ==
  /\ ChoiceSettled(st.choice, st.event.calls)
  /\ Given(chunk) = <<>> => Answered(st.choice, st.event.calls)
  /\ NamedFirst(Given(chunk)) => Headed(st.choice, st.event.calls)

LEMMA StagedAlike ==
  ASSUME NEW st, NEW chunk, CallsTold(st, chunk), NEW next, KnowsAlike(st.choice, next.choice),
         next.event.calls = st.event.calls
  PROVE  CallsTold(next, chunk)
<1>1. ChoiceSettled(next.choice, st.event.calls) BY SettledAlike DEF CallsTold, KnowsAlike
<1>2. Given(chunk) = <<>> => Answered(next.choice, st.event.calls)
  BY SMTT(20) DEF CallsTold, Answered, KnowsAlike
<1>3. NamedFirst(Given(chunk)) => Headed(next.choice, st.event.calls)
  BY DEF CallsTold, Headed, KnowsAlike
<1> QED BY <1>1, <1>2, <1>3 DEF CallsTold

\* The calls of a chunk are told of first ...
LEMMA CallsStageSettled ==
  ASSUME NEW st, Cleaned(st), st.event.calls = <<>>, Uncalled(st.choice), NEW chunk \in Chunks
  PROVE  LET next == CallsStage(st, chunk)
         IN  CallsTold(next, chunk) /\ Unemptied(next.choice)
<1> DEFINE next == CallsStage(st, chunk)
           none == <<>>
<1>0. st.event.calls = none /\ ChoiceSettled(st.choice, none) /\ ~st.choice.seen
  BY DEF Uncalled
<1>10. Answered(st.choice, none) /\ Headed(st.choice, none) BY NothingHeaded
<1>1. CASE Given(chunk) = <<>>
  <2>1. next = st BY <1>1 DEF CallsStage
  <2> HIDE DEF next, none
  <2>2. CallsTold(st, chunk) BY <1>0, <1>10 DEF CallsTold
  <2>3. ASSUME NEW i \in ToolIndexes PROVE st.choice.tools[i].last # "empty"
    <3>1. ToolSettled(st.choice.tools[i], Merging(none)[i], st.choice.seen)
      BY <1>0 DEF ChoiceSettled
    <3> QED BY <1>0, <3>1 DEF ToolSettled, None
  <2>4. Unemptied(st.choice) BY <2>3 DEF Unemptied
  <2> QED BY <2>1, <2>2, <2>4 DEF next
<1>2. CASE Given(chunk) # <<>>
  <2> DEFINE c == [st.choice EXCEPT !.pending = <<>>]
             done == NormalizeCalls(c, Given(chunk), FALSE)
  <2>1. KnowsAlike(st.choice, c) BY DEF KnowsAlike, Cleaned, Holds, ChoiceParts, FreshChoice
  <2> HIDE DEF c, none
  <2>2. Uncalled(c)
    <3>1. ChoiceSettled(c, none) BY <1>0, <2>1, SettledAlike DEF KnowsAlike
    <3>2. ~c.seen BY <1>0, <2>1 DEF KnowsAlike
    <3> QED BY <3>1, <3>2 DEF Uncalled, none
  <2>3. \A k \in 1 .. Len(Given(chunk)) : Given(chunk)[k].name \in {NoTool, EagerTool, DeferredTool}
    <3>1. IsSequence(chunk.calls) /\ IsSequence(chunk.message)
      BY StreamAssumption
    <3>2. \A k \in 1 .. Len(chunk.calls) : chunk.calls[k] \in Range(chunk.calls)
      BY <3>1, Bounds DEF Range
    <3>3. \A k \in 1 .. Len(chunk.message) : chunk.message[k] \in Range(chunk.message)
      BY <3>1, Bounds DEF Range
    <3> QED BY <3>2, <3>3, StreamAssumption DEF Given
  <2>4. /\ ChoiceSettled(done.choice, done.calls) /\ IsSequence(done.calls)
        /\ Unemptied(done.choice)
        /\ NamedFirst(Given(chunk)) => Headed(done.choice, done.calls)
    <3>1. IsSequence(Given(chunk)) BY GivenCalls
    <3> QED BY <2>2, <2>3, <3>1, CallsSettled
  <2>5. next = AddCalls(st, done) BY <1>2 DEF CallsStage, c
  <2> HIDE DEF done, next
  <2>6. next.choice = done.choice /\ next.event.calls = none \o done.calls
    BY <1>0, <2>5 DEF AddCalls, Cleaned, Says, EventParts
  <2>7. none \o done.calls = done.calls BY <2>4, EmptyAside DEF none
  <2> QED BY <1>2, <2>4, <2>6, <2>7 DEF CallsTold, next
<1> QED BY <1>1, <1>2

\* ... then those that were written as text ...
LEMMA TextFoundSettled ==
  ASSUME NEW st, Cleaned(st), NEW found
  PROVE  LET next == TextFound(st, found)
         IN  KnowsAlike(st.choice, next.choice) /\ next.event.calls = st.event.calls
<1> DEFINE all == st.choice.pending \o found.text
           led == Trimmed(all)
           next == TextFound(st, found)
           rest == Trimmed(SubSeq(led, 3, Len(led)))
           out(r) == [choice |-> [st.choice EXCEPT !.pending = <<>>, !.emitted = @ \/ Visible(r)],
                      event |-> [st.event EXCEPT !.text = r]]
           held == [st EXCEPT !.choice.pending = all]
<1>1. /\ DOMAIN st = {"choice", "event"} /\ DOMAIN st.choice = ChoiceParts
      /\ DOMAIN st.event = EventParts
  BY DEF Cleaned, Holds, Says
<1>2. next \in {st, held, out(rest), out(all)}
  BY DEF TextFound, TextGoesOn, ConsumeText
<1> HIDE DEF next, rest, led
<1>3. KnowsAlike(st.choice, st.choice) BY <1>1 DEF KnowsAlike
<1>4. KnowsAlike(st.choice, held.choice) /\ held.event = st.event
  BY <1>1 DEF KnowsAlike, ChoiceParts, FreshChoice
<1>5. ASSUME NEW r
      PROVE  KnowsAlike(st.choice, out(r).choice) /\ out(r).event.calls = st.event.calls
  BY <1>1 DEF KnowsAlike, ChoiceParts, FreshChoice, EventParts
<1> HIDE DEF held, out, all
<1> QED BY <1>2, <1>3, <1>4, <1>5 DEF next

\* Calls that were written as text leave the choice as it has to be.
LEMMA SyntheticHolds ==
  ASSUME NEW c, Holds(c), NEW count \in Nat
  PROVE  Holds(SyntheticCalls(c, count).choice) /\ IsSequence(SyntheticCalls(c, count).calls)
<1> DEFINE known == Cardinality(Known(c))
           first == IF known > c.synthetic THEN known ELSE c.synthetic
           d == [c EXCEPT !.synthetic = first + count]
           calls == [k \in 1 .. count |->
                       [index |-> first + k - 1, name |-> EagerTool, args |-> "whole"]]
<1>1. SyntheticCalls(c, count) = NormalizeCalls(d, calls, TRUE) BY DEF SyntheticCalls
<1> HIDE DEF first
<1>2. DOMAIN d = ChoiceParts /\ d.pending = c.pending /\ d.held = c.held
  BY DEF Holds, ChoiceParts, FreshChoice
<1>3. Holds(d) BY <1>2 DEF Holds
<1>4. calls = [k \in 1 .. count |-> calls[k]] OBVIOUS
<1> HIDE DEF d, calls
<1>5. IsSequence(calls) BY <1>4, Listed
<1> QED BY <1>1, <1>3, <1>5, CallsNormalized

\* Looking for calls in a text keeps what is known of those that were told of.
LEMMA TextStageSettled ==
  ASSUME NEW st, Cleaned(st), NEW chunk \in Chunks, CallsTold(st, chunk), Unemptied(st.choice)
  PROVE  CallsTold(TextStage(st, chunk), chunk)
<1> DEFINE text == st.choice.held \o chunk.text
           found == Extract(text, FALSE)
           c == [st.choice EXCEPT !.held = found.tail]
           done == SyntheticCalls(c, found.invokes)
           s == AddCalls(st, done)
           old == st.event.calls
           sum == old \o done.calls
<1>1. IsSequence(text) BY GivenCalls, Concatenated DEF Cleaned, Holds
<1> HIDE DEF text
<1>2. found.invokes \in Nat BY <1>1, ExtractFound
<1>12. IsSequence(found.tail) BY <1>1, ExtractFound
<1>3. TextStage(st, chunk) = TextFound(s, found) BY DEF TextStage, TextExtracted, text
<1> HIDE DEF found
<1>4. KnowsAlike(st.choice, c) BY DEF KnowsAlike, Cleaned, Holds, ChoiceParts, FreshChoice
<1>11. c.pending = st.choice.pending /\ c.held = found.tail
  BY DEF Cleaned, Holds, ChoiceParts, FreshChoice
<1> HIDE DEF c
<1>5. ChoiceSettled(c, old) /\ Unemptied(c) /\ IsSequence(old)
  BY <1>4, SettledAlike DEF CallsTold, KnowsAlike, Unemptied, Cleaned, Says
<1>6. Answered(st.choice, old) => Answered(c, old) BY <1>4, SMTT(20) DEF KnowsAlike, Answered
<1>7. Headed(st.choice, old) => Headed(c, old) BY <1>4 DEF KnowsAlike, Headed
<1>8. /\ ChoiceSettled(done.choice, sum) /\ IsSequence(done.calls)
      /\ Headed(c, old) => Headed(done.choice, sum)
      /\ Answered(c, old) => Answered(done.choice, sum)
  <2> HIDE DEF old
  <2> QED BY <1>2, <1>5, SyntheticSettled
<1>9. Holds(done.choice)
  <2>1. Holds(c) BY <1>4, <1>11, <1>12 DEF Cleaned, Holds, KnowsAlike
  <2> QED BY <1>2, <2>1, SyntheticHolds
<1> HIDE DEF done
<1>10. Cleaned(s) BY <1>8, <1>9, CallsAdded
<1>13. s.choice = done.choice /\ s.event.calls = sum
  BY DEF AddCalls, Cleaned, Says, EventParts
<1> HIDE DEF s, sum
<1>14. CallsTold(s, chunk) BY <1>6, <1>7, <1>8, <1>13 DEF CallsTold
<1>15. /\ KnowsAlike(s.choice, TextFound(s, found).choice)
       /\ TextFound(s, found).event.calls = s.event.calls
  BY <1>10, TextFoundSettled
<1> QED BY <1>3, <1>14, <1>15, StagedAlike

\* ... and none with the thoughts.
LEMMA ReasonStageSettled ==
  ASSUME NEW st, Cleaned(st), NEW chunk, CallsTold(st, chunk)
  PROVE  CallsTold(ReasonStage(st, chunk), chunk)
<1> DEFINE next == ReasonStage(st, chunk)
<1>1. KnowsAlike(st.choice, next.choice) /\ next.event.calls = st.event.calls
  BY DEF ReasonStage, KnowsAlike, Cleaned, Holds, Says, ChoiceParts, FreshChoice, EventParts
<1> HIDE DEF next
<1> QED BY <1>1, StagedAlike DEF next

\* The arguments a that an event gives the calls of index i
ToldRight(a, tool, message, i) ==
  \/ a = <<>>
  \/ /\ a = <<"whole">>
     /\ \/ Documented(tool.buffer)
        \/ \E j \in DOMAIN message : message[j].index = i /\ message[j].args = "whole"
  \/ a = <<"empty">> /\ tool.name = EagerTool /\ ~Complete(tool.buffer)

\* The chunk is not finished by a reason that does not wait for its calls.
Patient(chunk) == chunk.finish \in {None, "stop", "error", "tool_calls"}

\* What is known of the calls of an event: the first that are told of end the
\* answer, they have the right arguments, and each of them has some.
CallsEnd(chunk, one) ==
  /\ one.event.finish = None => Uncalled(one.choice) /\ one.event.calls = <<>>
  /\ ~Repeated(chunk.message) /\ NamedFirst(chunk.calls) =>
       /\ \A i \in ToolIndexes :
            ToldRight(Merging(one.event.calls)[i], one.choice.tools[i], chunk.message, i)
       /\ Patient(chunk) => AllArgued(one.event.calls)

\* Of no calls everything is right.
LEMMA NothingArgued ==
  ASSUME NEW tools, NEW message
  PROVE  /\ AllArgued(<<>>)
         /\ \A i \in ToolIndexes : ToldRight(Merging(<<>>)[i], tools[i], message, i)
<1> DEFINE none == <<>>
<1>1. Len(none) = 0 BY Empty
<1>2. \A i \in ToolIndexes : Merging(none)[i] = <<>> BY MergingNothing
<1> HIDE DEF none
<1>3. \A n \in 1 .. Len(none) : FALSE BY <1>1
<1>4. AllArgued(none) BY <1>3 DEF AllArgued
<1>5. \A i \in ToolIndexes : ToldRight(Merging(none)[i], tools[i], message, i) BY <1>2 DEF ToldRight
<1> QED BY <1>4, <1>5 DEF none

\* What a settled choice was told of is right.
LEMMA SettledRight ==
  ASSUME NEW c, NEW calls, ChoiceSettled(c, calls), NEW message, NEW i \in ToolIndexes
  PROVE  ToldRight(Merging(calls)[i], c.tools[i], message, i)
BY DEF ChoiceSettled, ToolSettled, ToldRight

\* The calls that a message or a chunk gives are told apart.
LEMMA GivenNamedFirst ==
  ASSUME NEW chunk \in Chunks, ~Repeated(chunk.message), NamedFirst(chunk.calls)
  PROVE  NamedFirst(Given(chunk))
<1>1. NamedFirst(chunk.message) BY GivenCalls, DistinctNamedFirst
<1> QED BY <1>1 DEF Given

\* Finished with a text, there is no call, unless the reason does not wait.
LEMMA TextFinishSettled ==
  ASSUME NEW st, Cleaned(st), NEW chunk \in Chunks, CallsTold(st, chunk),
         FinishOf(st.choice, chunk) \notin {None, "tool_calls"}, NEW cleared,
         KnowsAlike(st.choice, cleared.choice), cleared.event = st.event, NEW rest
  PROVE  CallsEnd(chunk, FinishWithText(cleared, FinishOf(st.choice, chunk), rest))
<1> DEFINE finish == FinishOf(st.choice, chunk)
           one == FinishWithText(cleared, finish, rest)
           calls == st.event.calls
<1>1. /\ one.choice = cleared.choice /\ one.event.calls = calls
      /\ one.event.finish = finish
  BY DEF FinishWithText, Cleaned, Says, EventParts
<1>2. ChoiceSettled(st.choice, calls) BY DEF CallsTold
<1>3. ChoiceSettled(one.choice, calls) BY <1>1, <1>2, SettledAlike DEF KnowsAlike
<1> HIDE DEF one
<1>4. \A i \in ToolIndexes : ToldRight(Merging(calls)[i], one.choice.tools[i], chunk.message, i)
  <2> HIDE DEF calls
  <2> QED BY <1>3, SettledRight
<1>5. Patient(chunk) => ~st.choice.seen BY DEF FinishOf, Patient, None
<1>6. Patient(chunk) => calls = <<>> BY <1>2, <1>5 DEF ChoiceSettled
<1>7. Patient(chunk) => AllArgued(calls) BY <1>6, NothingArgued
<1>8. finish # None OBVIOUS
<1> HIDE DEF finish, calls
<1>9. CallsEnd(chunk, one) BY <1>1, <1>4, <1>7, <1>8 DEF CallsEnd
<1> QED BY <1>9 DEF one, finish

\* Finished with calls, those that wait are told of with all their arguments.
LEMMA CallsFinishSettled ==
  ASSUME NEW st, Cleaned(st), NEW chunk \in Chunks, CallsTold(st, chunk)
  PROVE  CallsEnd(chunk, FinishWithCalls(st, chunk))
<1> DEFINE c == st.choice
           old == st.event.calls
           message == chunk.message
           done == IF Given(chunk) = <<>> THEN [choice |-> c, calls |-> <<>>]
                   ELSE FinalizePending(c)
           calls == IF done.calls # <<>> THEN done.calls ELSE old
           fallback == WholeCalls(message)
           one == FinishWithCalls(st, chunk)
<1>1. one = IF calls = <<>> /\ fallback # <<>>
            THEN [choice |-> [done.choice EXCEPT !.seen = TRUE],
                  event |-> [st.event EXCEPT !.calls = fallback, !.finish = "tool_calls"]]
            ELSE [choice |-> done.choice,
                  event |-> [st.event EXCEPT !.calls = calls,
                                 !.finish = IF done.choice.seen THEN "tool_calls" ELSE "stop"]]
  BY DEF FinishWithCalls, CallsCompleted
<1>2. ChoiceSettled(c, old) /\ (Given(chunk) = <<>> => Answered(c, old))
      /\ (NamedFirst(Given(chunk)) => Headed(c, old))
  BY DEF CallsTold
<1>3. DOMAIN c = ChoiceParts /\ DOMAIN st.event = EventParts /\ IsSequence(old)
  BY DEF Cleaned, Holds, Says
<1> HIDE DEF c, old, one, message
<1>4. Given(chunk) # <<>> => Pended(c, done, Cardinality(ToolIndexes)) BY <1>2, PendingSettled
<1>5. Given(chunk) = <<>> => done.choice = c /\ done.calls = <<>> OBVIOUS
<1>6. DOMAIN done.choice = ChoiceParts BY <1>3, <1>4, <1>5 DEF Pended
<1>7. ASSUME NEW i \in ToolIndexes
      PROVE  /\ done.choice.tools[i].name = c.tools[i].name
             /\ done.choice.tools[i].buffer = c.tools[i].buffer
  BY <1>4, <1>5 DEF Pended
<1> HIDE DEF done
<1>8. one.event.finish # None
  <2> HIDE DEF calls, fallback
  <2> QED BY <1>1, <1>3 DEF EventParts, None
<1>9. /\ one.choice.tools = done.choice.tools
      /\ one.event.calls = IF calls = <<>> THEN fallback ELSE calls
  <2>1. CASE calls = <<>> /\ fallback # <<>>
    <3> HIDE DEF fallback, calls
    <3> QED BY <1>1, <1>3, <1>6, <2>1 DEF ChoiceParts, FreshChoice, EventParts
  <2>2. CASE ~(calls = <<>> /\ fallback # <<>>)
    <3> HIDE DEF fallback, calls
    <3> QED BY <1>1, <1>3, <2>2 DEF EventParts
  <2> QED BY <2>1, <2>2
<1>10. ASSUME ~Repeated(message), NamedFirst(chunk.calls)
       PROVE  /\ \A i \in ToolIndexes :
                   ToldRight(Merging(one.event.calls)[i], one.choice.tools[i], message, i)
              /\ AllArgued(one.event.calls)
  <2>1. CASE done.calls # <<>>
    <3>1. Pended(c, done, Cardinality(ToolIndexes)) BY <1>4, <1>5, <2>1
    <3>2. one.event.calls = done.calls BY <1>9, <2>1
    <3>3. AllArgued(done.calls) BY <3>1 DEF Pended
    <3>4. ASSUME NEW i \in ToolIndexes
          PROVE  ToldRight(Merging(done.calls)[i], one.choice.tools[i], message, i)
      <4>1. Completion(Merging(done.calls)[i], c.tools[i]) BY <3>1 DEF Pended
      <4> QED BY <1>7, <1>9, <4>1 DEF Completion, ToldRight
    <3> QED BY <3>2, <3>3, <3>4
  <2>2. CASE done.calls = <<>> /\ old # <<>>
    <3>1. one.event.calls = old BY <1>9, <2>2
    <3>2. ASSUME NEW i \in ToolIndexes
          PROVE  ToldRight(Merging(old)[i], one.choice.tools[i], message, i)
      <4>1. ToldRight(Merging(old)[i], c.tools[i], message, i) BY <1>2, SettledRight
      <4> QED BY <1>7, <1>9, <4>1 DEF ToldRight
    <3>3. ASSUME NEW n \in 1 .. Len(old), old[n].index \in ToolIndexes
          PROVE  Merging(old)[old[n].index] # <<>>
      <4> DEFINE x == old[n].index
      <4>1. c.tools[x].last # None
        <5>1. CASE Given(chunk) = <<>> BY <1>2, <3>3, <5>1 DEF Answered
        <5>2. CASE Given(chunk) # <<>>
          <6>1. NamedFirst(Given(chunk)) BY <1>10, GivenNamedFirst DEF message
          <6>2. c.tools[x].last # None \/ c.tools[x].name = EagerTool BY <1>2, <3>3, <6>1 DEF Headed
          <6>3. x < Cardinality(ToolIndexes) BY <3>3, Indices
          <6>4. c.tools[x].name = EagerTool => c.tools[x].last # None
            BY <1>4, <2>2, <3>3, <5>2, <6>3 DEF Pended
          <6> QED BY <6>2, <6>4
        <5> QED BY <5>1, <5>2
      <4>2. ToolSettled(c.tools[x], Merging(old)[x], c.seen) BY <1>2, <3>3 DEF ChoiceSettled
      <4> HIDE DEF x
      <4>4. <<"whole">> # <<>> /\ <<"empty">> # <<>> OBVIOUS
      <4>3. Merging(old)[x] # <<>>
        <5> DEFINE m == Merging(old)[x]
        <5>1. m = <<"whole">> \/ m = <<"empty">>
          <6> HIDE DEF m
          <6>1. ToolSettled(c.tools[x], m, c.seen) BY <4>2 DEF m
          <6> QED BY <4>1, <6>1 DEF ToolSettled
        <5> HIDE DEF m
        <5> QED BY <4>4, <5>1 DEF m
      <4> QED BY <4>3 DEF x
    <3>4. AllArgued(old) BY <3>3 DEF AllArgued
    <3> QED BY <3>1, <3>2, <3>4
  <2>3. CASE done.calls = <<>> /\ old = <<>>
    <3>1. one.event.calls = fallback BY <1>9, <2>3
    <3>2. \A k \in 1 .. Len(message) : message[k].index \in ToolIndexes
      <4>1. IsSequence(message) BY GivenCalls DEF message
      <4>2. \A k \in 1 .. Len(message) : message[k] \in Range(message) BY <4>1, Bounds DEF Range
      <4> QED BY <4>2, StreamAssumption DEF message
    <3>3. Wholly(message, Len(message), fallback)
      BY <1>10, <3>2, GivenCalls, WholeSettled DEF message
    <3> HIDE DEF fallback
    <3>4. AllArgued(fallback) BY <3>3 DEF Wholly
    <3>5. ASSUME NEW i \in ToolIndexes
          PROVE  ToldRight(Merging(fallback)[i], one.choice.tools[i], message, i)
      <4>1. DOMAIN message = 1 .. Len(message) BY GivenCalls, Bounds DEF message
      <4>2. Merging(fallback)[i] = <<>>
            \/ /\ Merging(fallback)[i] = <<"whole">>
               /\ \E j \in DOMAIN message : message[j].index = i /\ message[j].args = "whole"
        BY <3>3, <4>1 DEF Wholly
      <4> QED BY <4>2 DEF ToldRight
    <3> QED BY <3>1, <3>4, <3>5
  <2> QED BY <2>1, <2>2, <2>3
<1> HIDE DEF calls, fallback
<1>11. CallsEnd(chunk, one) BY <1>8, <1>10 DEF CallsEnd, message
<1> QED BY <1>11 DEF one

\* The calls of a chunk
LEMMA EventCalls ==
  ASSUME NEW before, Holds(before), Uncalled(before), NEW chunk \in Chunks
  PROVE  CallsEnd(chunk, NormalizeChoice(before, chunk))
<1> DEFINE event == [text |-> <<>>, reason |-> <<>>, role |-> chunk.role, calls |-> <<>>,
                     finish |-> None]
           a == [choice |-> before, event |-> event]
           b == CallsStage(a, chunk)
           c == TextStage(b, chunk)
           d == ReasonStage(c, chunk)
           finish == FinishOf(d.choice, chunk)
           cleared == [d EXCEPT !.choice.held = <<>>, !.choice.pending = <<>>]
           rest == Extract(d.choice.held, TRUE).text
           one == Finished(d, chunk)
<1>1. Cleaned(a) /\ a.choice = before /\ a.event.calls = <<>> /\ a.event.finish = None
  <2>1. Says(event) BY Empty DEF Says, EventParts
  <2> QED BY <2>1 DEF Cleaned
<1>2. NormalizeChoice(before, chunk) = one BY DEF NormalizeChoice
<1> HIDE DEF a
<1>3. Cleaned(b) BY <1>1, CallsStaged
<1>4. CallsTold(b, chunk) /\ Unemptied(b.choice) BY <1>1, CallsStageSettled
<1>5. Cleaned(c) BY <1>3, TextStaged
<1>6. CallsTold(c, chunk) BY <1>3, <1>4, TextStageSettled
<1>7. Cleaned(d) BY <1>5, ReasonStaged
<1>8. CallsTold(d, chunk) BY <1>5, <1>6, ReasonStageSettled
<1> HIDE DEF b, c, d
<1>9. one = IF finish = None THEN d
            ELSE IF finish = "tool_calls" THEN FinishWithCalls(cleared, chunk)
            ELSE FinishWithText(cleared, finish, rest)
  BY DEF Finished, FinishStage
<1>10. KnowsAlike(d.choice, cleared.choice) /\ cleared.event = d.event
  BY <1>7 DEF Cleaned, Holds, KnowsAlike, ChoiceParts, FreshChoice
<1>11. Cleaned(cleared)
  <2> DEFINE e == [d.choice EXCEPT !.held = <<>>, !.pending = <<>>]
  <2>1. DOMAIN e = ChoiceParts /\ e.pending = <<>> /\ e.held = <<>>
    BY <1>7 DEF Cleaned, Holds, ChoiceParts, FreshChoice
  <2>2. DOMAIN cleared = {"choice", "event"} /\ cleared.choice = e /\ cleared.event = d.event
    BY <1>7 DEF Cleaned
  <2> HIDE DEF e, cleared
  <2> QED BY <1>7, <2>1, <2>2, Empty DEF Cleaned, Holds
<1> HIDE DEF cleared, rest, one
<1>12. CASE finish = None
  <2>1. one = d BY <1>9, <1>12
  <2>2. ~d.choice.seen BY <1>12 DEF FinishOf, None
  <2>3. ChoiceSettled(d.choice, d.event.calls) BY <1>8 DEF CallsTold
  <2>4. d.event.calls = <<>> BY <2>2, <2>3 DEF ChoiceSettled
  <2>5. Uncalled(d.choice) BY <2>2, <2>3, <2>4 DEF Uncalled
  <2>6. CallsEnd(chunk, d) BY <2>4, <2>5, NothingArgued DEF CallsEnd
  <2> QED BY <1>2, <2>1, <2>6
<1>13. CASE finish = "tool_calls"
  <2>1. CallsTold(cleared, chunk) BY <1>8, <1>10, StagedAlike
  <2>2. CallsEnd(chunk, FinishWithCalls(cleared, chunk)) BY <1>11, <2>1, CallsFinishSettled
  <2>3. one = FinishWithCalls(cleared, chunk) BY <1>9, <1>13 DEF None
  <2> QED BY <1>2, <2>2, <2>3
<1>14. CASE finish \notin {None, "tool_calls"}
  <2>1. CallsEnd(chunk, FinishWithText(cleared, finish, rest))
    BY <1>7, <1>8, <1>10, <1>14, TextFinishSettled
  <2>2. one = FinishWithText(cleared, finish, rest) BY <1>9, <1>14
  <2> QED BY <1>2, <2>1, <2>2
<1> QED BY <1>12, <1>13, <1>14

-----------------------------------------------------------------------------
(* The names of the calls                                                   *)

\* One of the calls names, for the index i, a tool that requires no arguments.
Names(calls, i) == \E call \in Range(calls) : call.index = i /\ call.name = EagerTool

\* The calls that are known are the first; of the others there is nothing.
Gapless(c) ==
  \A i \in ToolIndexes :
    /\ i >= Cardinality(Known(c)) => c.tools[i].name = NoTool
    /\ c.tools[i].name = NoTool => c.tools[i].buffer = <<>>

\* ... and none of them is of a tool that requires no arguments.
Calm(c) == Gapless(c) /\ \A i \in ToolIndexes : c.tools[i].name # EagerTool

LEMMA FreshCalm == Calm(FreshChoice)
<1>1. \A i \in ToolIndexes : FreshChoice.tools[i] = FreshTool BY DEF FreshChoice
<1>2. FreshTool.name = NoTool /\ FreshTool.buffer = <<>> BY DEF FreshTool
<1>3. NoTool # EagerTool BY StreamAssumption
<1>4. \A i \in ToolIndexes : FreshChoice.tools[i].name = NoTool
                             /\ FreshChoice.tools[i].buffer = <<>>
  BY <1>1, <1>2
<1> QED BY <1>3, <1>4 DEF Calm, Gapless

\* A choice has its tools.
Tooled(c) ==
  /\ DOMAIN c = ChoiceParts /\ DOMAIN c.tools = ToolIndexes
  /\ \A i \in ToolIndexes : DOMAIN c.tools[i] = DOMAIN FreshTool

LEMMA SettledTooled ==
  ASSUME NEW c, NEW calls, ChoiceSettled(c, calls)
  PROVE  Tooled(c)
BY DEF ChoiceSettled, ToolSettled, Tooled

\* What a call makes of the name and the fragments of its tool
Naming(c, call, e) ==
  LET before == c.tools[call.index]
      after == e.tools[call.index]
  IN  /\ Tooled(e)
      /\ \A i \in ToolIndexes : i # call.index => e.tools[i] = c.tools[i]
      /\ call.index \in ToolIndexes =>
           /\ after.name = IF call.name = NoTool THEN before.name ELSE call.name
           /\ after.buffer = IF call.args = None THEN before.buffer
                             ELSE Append(before.buffer, call.args)
           /\ before.header \/ call.name = EagerTool => after.header
           /\ Complete(after.buffer) => after.last = "whole"

LEMMA CallNames ==
  ASSUME NEW done, Tooled(done.choice), NEW call, NEW finalizing
  PROVE  Naming(done.choice, call, NormalizeCall(done, call, finalizing).choice)
<1> DEFINE before == done.choice.tools[call.index]
           tool == ToolAfter(before, call)
           args == ArgumentsOf(tool, finalizing)
           e == EmitCall(done, call, tool, args)
           t == EmittedTool(call, tool, args)
<1>1. NormalizeCall(done, call, finalizing) = e BY DEF NormalizeCall
<1>2. Emission(done, call, tool, args, e)
  <2>1. DOMAIN done.choice = ChoiceParts /\ DOMAIN done.choice.tools = ToolIndexes
    BY DEF Tooled
  <2> HIDE DEF tool, args
  <2> QED BY <2>1, CallEmitted
<1> HIDE DEF e
<1>3. /\ DOMAIN e.choice = ChoiceParts /\ DOMAIN e.choice.tools = ToolIndexes
      /\ \A i \in ToolIndexes : i # call.index => e.choice.tools[i] = done.choice.tools[i]
      /\ call.index \in ToolIndexes => e.choice.tools[call.index] = t
  BY <1>2 DEF Emission
<1>4. ASSUME call.index \in ToolIndexes
      PROVE  /\ DOMAIN t = DOMAIN FreshTool
             /\ t.name = IF call.name = NoTool THEN before.name ELSE call.name
             /\ t.buffer = IF call.args = None THEN before.buffer
                           ELSE Append(before.buffer, call.args)
             /\ before.header \/ call.name = EagerTool => t.header
             /\ Complete(t.buffer) => t.last = "whole"
  <2> DEFINE more == Append(before.buffer, call.args)
  <2>1. DOMAIN before = {"name", "buffer", "header", "last", "suppressed"}
    BY <1>4 DEF Tooled, FreshTool
  <2> HIDE DEF before, more
  <2>2. /\ DOMAIN tool = DOMAIN FreshTool /\ tool.header = before.header
        /\ tool.name = IF call.name = NoTool THEN before.name ELSE call.name
        /\ tool.buffer = IF call.args = None THEN before.buffer ELSE more
    BY <2>1 DEF ToolAfter, FreshTool, more
  <2>3. args = IF Complete(tool.buffer) THEN IF tool.last = "whole" THEN None ELSE "whole"
               ELSE IF finalizing /\ tool.last = None /\ ~tool.suppressed THEN "empty" ELSE None
    BY DEF ArgumentsOf
  <2> HIDE DEF tool, args
  <2>4. ToldOf(call, tool, args, t) BY <2>2, EmittedParts
  <2> HIDE DEF t
  <2>5. call.name = EagerTool => tool.header \/ EmitsName(call, tool)
    BY <2>2, StreamAssumption DEF EmitsName
  <2>6. Complete(tool.buffer) => t.last = "whole"
    BY <2>3, <2>4 DEF ToldOf, EmitsArgs, Suppressed, None
  <2> QED BY <2>2, <2>4, <2>5, <2>6 DEF ToldOf, more
<1>5. Tooled(e.choice)
  <2> SUFFICES ASSUME NEW i \in ToolIndexes PROVE DOMAIN e.choice.tools[i] = DOMAIN FreshTool
    BY <1>3 DEF Tooled
  <2>1. CASE i = call.index BY <1>3, <1>4, <2>1
  <2>2. CASE i # call.index BY <1>3, <2>2 DEF Tooled
  <2> QED BY <2>1, <2>2
<1> HIDE DEF t, before
<1>6. Naming(done.choice, call, e.choice) BY <1>3, <1>4, <1>5 DEF Naming, before
<1> QED BY <1>1, <1>6

\* A call has an index that is known or the next, and one that is not known is named.
Placed(c, calls) ==
  \A k \in 1 .. Len(calls) :
    LET before == Known(c) \cup {calls[j].index : j \in 1 .. (k - 1)}
    IN  /\ calls[k].index \in ToolIndexes
        /\ \A i \in ToolIndexes : i < calls[k].index => i \in before
        /\ calls[k].name = NoTool => calls[k].index \in before

\* So are the calls of a chunk of upstream, in pieces or in a message.
LEMMA FollowsPlaced ==
  ASSUME NEW chunk \in Chunks, Follows(chunk)
  PROVE  Placed(choice, Given(chunk))
<1> DEFINE calls == Given(chunk)
<1>1. IsSequence(chunk.calls) /\ IsSequence(chunk.message) BY StreamAssumption
<1> SUFFICES ASSUME NEW k \in 1 .. Len(calls)
             PROVE  LET before == Known(choice) \cup {calls[j].index : j \in 1 .. (k - 1)}
                    IN  /\ calls[k].index \in ToolIndexes
                        /\ \A i \in ToolIndexes : i < calls[k].index => i \in before
                        /\ calls[k].name = NoTool => calls[k].index \in before
  BY DEF Placed
<1>2. CASE chunk.calls # <<>>
  <2>1. calls = chunk.calls BY <1>2 DEF Given
  <2>2. k \in DOMAIN chunk.calls BY <1>1, <2>1, Bounds
  <2>3. chunk.calls[k] \in Range(chunk.calls) BY <2>2 DEF Range
  <2>4. chunk.calls[k].index \in ToolIndexes BY <2>3, StreamAssumption
  <2> HIDE DEF calls
  <2> QED BY <2>1, <2>2, <2>4 DEF Follows
<1>3. CASE chunk.calls = <<>>
  <2>1. calls = chunk.message BY <1>3 DEF Given
  <2>2. k \in DOMAIN chunk.message BY <1>1, <2>1, Bounds
  <2>3. chunk.message[k] \in Range(chunk.message) BY <2>2 DEF Range
  <2>4. chunk.message[k].index \in ToolIndexes /\ chunk.message[k].index = 0
        /\ chunk.message[k].name # NoTool
    BY <2>3, StreamAssumption
  <2>5. \A i \in ToolIndexes : ~(i < 0) BY Indices
  <2> HIDE DEF calls
  <2> QED BY <2>1, <2>4, <2>5
<1> QED BY <1>2, <1>3

\* The known calls stay the first when one more is told of.
LEMMA NextNamed ==
  ASSUME NEW c, Gapless(c), NEW call, call.name \in {NoTool, EagerTool, DeferredTool},
         call.index \in ToolIndexes,
         \A i \in ToolIndexes : i < call.index => i \in Known(c),
         call.name = NoTool => call.index \in Known(c),
         NEW e, Naming(c, call, e)
  PROVE  Gapless(e) /\ Known(e) = Known(c) \cup {call.index}
<1> DEFINE x == call.index
           n == Cardinality(Known(c))
<1>1. /\ \A i \in ToolIndexes : i # x => e.tools[i] = c.tools[i]
      /\ e.tools[x].name = IF call.name = NoTool THEN c.tools[x].name ELSE call.name
  BY DEF Naming
<1>2. x \in ToolIndexes /\ e.tools[x].name # NoTool BY <1>1 DEF Known
<1>3. Known(e) = Known(c) \cup {x} BY <1>1, <1>2 DEF Known
<1>4. IsFiniteSet(Known(c)) /\ n \in Nat
  <2>1. Known(c) \subseteq ToolIndexes BY DEF Known
  <2>2. IsFiniteSet(Known(c)) BY <2>1, Indices, FS_Subset
  <2> QED BY <2>2, FS_CardinalityType
<1>5. \A i \in ToolIndexes : i >= n => i \notin Known(c) BY DEF Gapless, Known
<1>6. Cardinality(Known(e)) = (IF x \in Known(c) THEN n ELSE n + 1)
  <2>1. CASE x \in Known(c)
    <3>1. Known(e) = Known(c) BY <1>3, <2>1
    <3> QED BY <2>1, <3>1
  <2>2. CASE x \notin Known(c)
    <3>1. Cardinality(Known(c) \cup {x}) = n + 1 BY <1>4, <2>2, FS_AddElement
    <3> QED BY <1>3, <2>2, <3>1
  <2> QED BY <2>1, <2>2
<1>7. x <= n
  <2> SUFFICES ASSUME x > n PROVE FALSE BY <1>2, <1>4, Indices
  <2>1. n \in ToolIndexes BY <1>2, <1>4, Indices
  <2>2. n \in Known(c) BY <1>4, <2>1
  <2>3. n >= n BY <1>4
  <2> QED BY <1>5, <2>1, <2>2, <2>3
<1>8. x = n => x \notin Known(c)
  <2>1. x = n => x >= n BY <1>4
  <2> QED BY <1>2, <1>5, <2>1
<1> HIDE DEF x, n
<1>9. ASSUME NEW i \in ToolIndexes
      PROVE  /\ i >= Cardinality(Known(e)) => e.tools[i].name = NoTool
             /\ e.tools[i].name = NoTool => e.tools[i].buffer = <<>>
  <2>1. CASE i = x
    <3>1. ~(i >= Cardinality(Known(e))) BY <1>2, <1>4, <1>6, <1>7, <1>8, <2>1, Indices
    <3> QED BY <1>2, <2>1, <3>1
  <2>2. CASE i # x
    <3>1. i >= Cardinality(Known(e)) => i >= n BY <1>4, <1>6, Indices
    <3> QED BY <1>1, <2>2, <3>1 DEF Gapless, n
  <2> QED BY <2>1, <2>2
<1> QED BY <1>3, <1>9 DEF Gapless, x

\* The tools that the first k calls name
NamedUpTo(before, calls, c, k) ==
  /\ Tooled(c) /\ Gapless(c)
  /\ Known(c) = Known(before) \cup {calls[j].index : j \in 1 .. k}
  /\ \A i \in ToolIndexes : c.tools[i].name = EagerTool =>
       c.tools[i].header /\ \E j \in 1 .. k : calls[j].index = i /\ calls[j].name = EagerTool

\* After the calls of a chunk, a tool that requires no arguments was named by one of them.
LEMMA GivenNames ==
  ASSUME NEW before, Tooled(before), Calm(before), NEW calls, IsSequence(calls),
         Placed(before, calls),
         \A k \in 1 .. Len(calls) : calls[k].name \in {NoTool, EagerTool, DeferredTool}
  PROVE  NamedUpTo(before, calls, NormalizeCalls(before, calls, FALSE).choice, Len(calls))
<1> DEFINE n == Len(calls)
           finalizing == FALSE
<1>1. n \in Nat BY Bounds
<1> HIDE DEF finalizing
<1>2. PICK f : /\ f[0] = [choice |-> before, calls |-> <<>>]
               /\ \A k \in 1 .. n : f[k] = NormalizeCall(f[k - 1], calls[k], finalizing)
               /\ NormalizeCalls(before, calls, finalizing) = f[n]
  BY <1>1, CallsStepwise
<1> DEFINE T == {k \in Nat : NamedUpTo(before, calls, f[k].choice, k)}
<1>3. 0 \in T
  <2>1. f[0].choice = before BY <1>2
  <2>2. NamedUpTo(before, calls, before, 0) BY DEF NamedUpTo, Calm
  <2> QED BY <2>1, <2>2
<1>4. ASSUME NEW k \in 1 .. n, k - 1 \in T PROVE k \in T
  <2> DEFINE c == f[k - 1].choice
             e == f[k].choice
             call == calls[k]
  <2>1. NamedUpTo(before, calls, c, k - 1) /\ k \in Nat /\ k \in 1 .. k BY <1>4
  <2>2. Naming(c, call, e)
    <3>1. Tooled(f[k - 1].choice) BY <2>1 DEF NamedUpTo
    <3>2. f[k] = NormalizeCall(f[k - 1], calls[k], finalizing) BY <1>2
    <3> QED BY <3>1, <3>2, CallNames
  <2>3. /\ call.index \in ToolIndexes /\ call.name \in {NoTool, EagerTool, DeferredTool}
        /\ \A i \in ToolIndexes : i < call.index => i \in Known(c)
        /\ call.name = NoTool => call.index \in Known(c)
    <3>1. Known(c) = Known(before) \cup {calls[j].index : j \in 1 .. (k - 1)}
      BY <2>1 DEF NamedUpTo
    <3> HIDE DEF c
    <3> QED BY <3>1 DEF Placed
  <2> HIDE DEF c, e
  <2>4. Gapless(e) /\ Known(e) = Known(c) \cup {call.index}
    <3> HIDE DEF call
    <3> QED BY <2>1, <2>2, <2>3, NextNamed DEF NamedUpTo
  <2>5. \A j \in 1 .. k : j = k \/ j \in 1 .. (k - 1) BY <1>1
  <2>6. \A j \in 1 .. (k - 1) : j \in 1 .. k BY <1>1
  <2>7. Known(e) = Known(before) \cup {calls[j].index : j \in 1 .. k}
    <3>1. Known(c) = Known(before) \cup {calls[j].index : j \in 1 .. (k - 1)}
      BY <2>1 DEF NamedUpTo
    <3>2. {calls[j].index : j \in 1 .. k} =
            {calls[j].index : j \in 1 .. (k - 1)} \cup {calls[k].index}
      BY <2>1, <2>5, <2>6
    <3> QED BY <2>4, <3>1, <3>2
  <2>8. ASSUME NEW i \in ToolIndexes, e.tools[i].name = EagerTool
        PROVE  /\ e.tools[i].header
               /\ \E j \in 1 .. k : calls[j].index = i /\ calls[j].name = EagerTool
    <3>1. CASE i = call.index /\ call.name = EagerTool BY <2>1, <2>2, <3>1 DEF Naming
    <3>2. CASE i = call.index /\ call.name # EagerTool
      <4>1. c.tools[i].name = EagerTool BY <2>2, <2>8, <3>2 DEF Naming
      <4>2. /\ c.tools[i].header
            /\ \E j \in 1 .. (k - 1) : calls[j].index = i /\ calls[j].name = EagerTool
        BY <2>1, <4>1 DEF NamedUpTo
      <4>3. e.tools[i].header BY <2>2, <3>2, <4>2 DEF Naming
      <4> QED BY <2>6, <4>2, <4>3
    <3>3. CASE i # call.index
      <4>1. e.tools[i] = c.tools[i] BY <2>2, <3>3 DEF Naming
      <4>2. /\ c.tools[i].header
            /\ \E j \in 1 .. (k - 1) : calls[j].index = i /\ calls[j].name = EagerTool
        BY <2>1, <2>8, <4>1 DEF NamedUpTo
      <4> QED BY <2>6, <4>1, <4>2
    <3> QED BY <3>1, <3>2, <3>3
  <2>9. NamedUpTo(before, calls, e, k) BY <2>2, <2>4, <2>7, <2>8 DEF NamedUpTo, Naming
  <2> QED BY <2>1, <2>9 DEF e
<1>5. \A k \in 0 .. n : k \in T
  <2> HIDE DEF T
  <2> QED BY <1>1, <1>3, <1>4, Climb
<1>6. n \in T BY <1>1, <1>5
<1> QED BY <1>2, <1>6 DEF finalizing

\* A tool is as it was, or was told of with all its arguments.
AsBefore(before, c) ==
  \A i \in ToolIndexes :
    c.tools[i] = before.tools[i] \/ (c.tools[i].last = "whole" /\ Complete(c.tools[i].buffer))

\* The calls that were written as text take indices that are not known.
LEMMA SyntheticNames ==
  ASSUME NEW before, Tooled(before), Gapless(before), before.synthetic \in Nat, NEW count \in Nat
  PROVE  AsBefore(before, SyntheticCalls(before, count).choice)
<1> DEFINE known == Cardinality(Known(before))
           first == IF known > before.synthetic THEN known ELSE before.synthetic
           start == [before EXCEPT !.synthetic = first + count]
           calls == [k \in 1 .. count |->
                       [index |-> first + k - 1, name |-> EagerTool, args |-> "whole"]]
           finalizing == TRUE
           done == SyntheticCalls(before, count)
<1>1. done = NormalizeCalls(start, calls, finalizing) BY DEF SyntheticCalls
<1>2. known \in Nat /\ first \in Nat /\ first >= known
  <2>1. Known(before) \subseteq ToolIndexes BY DEF Known
  <2>2. IsFiniteSet(Known(before)) BY <2>1, Indices, FS_Subset
  <2>3. known \in Nat BY <2>2, FS_CardinalityType
  <2> HIDE DEF known
  <2> QED BY <2>3
<1>3. \A i \in ToolIndexes : i >= first => before.tools[i].buffer = <<>>
  <2>1. \A i \in ToolIndexes : i \in Nat BY Indices
  <2>2. \A i \in ToolIndexes : i >= first => i >= known BY <1>2, <2>1
  <2> QED BY <2>2 DEF Gapless
<1> HIDE DEF first, done, finalizing
<1>4. Tooled(start) /\ start.tools = before.tools
  <2>1. DOMAIN start = ChoiceParts /\ start.tools = before.tools
    BY DEF Tooled, ChoiceParts, FreshChoice
  <2> HIDE DEF start
  <2> QED BY <2>1 DEF Tooled
<1> HIDE DEF start
<1>5. IsSequence(calls) /\ Len(calls) = count
  <2>1. calls = [k \in 1 .. count |-> calls[k]] OBVIOUS
  <2> HIDE DEF calls
  <2> QED BY <2>1, Listed
<1>6. \A k \in 1 .. count : /\ calls[k].index = first + k - 1 /\ calls[k].name = EagerTool
                            /\ calls[k].args = "whole"
  OBVIOUS
<1> HIDE DEF calls
<1>7. PICK f : /\ f[0] = [choice |-> start, calls |-> <<>>]
               /\ \A k \in 1 .. count : f[k] = NormalizeCall(f[k - 1], calls[k], finalizing)
               /\ done = f[count]
  BY <1>1, <1>5, CallsStepwise
<1> DEFINE Good(c, k) ==
             /\ Tooled(c) /\ AsBefore(before, c)
             /\ \A i \in ToolIndexes : i >= first + k => c.tools[i] = before.tools[i]
           T == {k \in Nat : Good(f[k].choice, k)}
<1>8. 0 \in T
  <2>1. f[0].choice = start BY <1>7
  <2>2. Good(start, 0) BY <1>4 DEF AsBefore
  <2> HIDE DEF Good
  <2> QED BY <2>1, <2>2
<1>9. ASSUME NEW k \in 1 .. count, k - 1 \in T PROVE k \in T
  <2> DEFINE c == f[k - 1].choice
             e == f[k].choice
             call == calls[k]
             x == call.index
  <2>1. Good(c, k - 1) /\ k \in Nat BY <1>9
  <2>2. Naming(c, call, e)
    <3>1. Tooled(f[k - 1].choice) BY <2>1
    <3>2. f[k] = NormalizeCall(f[k - 1], calls[k], finalizing) BY <1>7
    <3> QED BY <3>1, <3>2, CallNames
  <2>3. x = first + k - 1 /\ call.args = "whole" BY <1>6
  <2> HIDE DEF c, e, call
  <2>4. ASSUME x \in ToolIndexes
        PROVE  e.tools[x].last = "whole" /\ Complete(e.tools[x].buffer)
    <3>1. x >= first + (k - 1) /\ x >= first BY <1>2, <2>1, <2>3
    <3>2. c.tools[x] = before.tools[x] /\ before.tools[x].buffer = <<>>
      BY <1>3, <2>1, <2>4, <3>1
    <3>3. call.args # None BY <2>3 DEF None
    <3> DEFINE whole == "whole"
    <3>4. e.tools[x].buffer = Append(c.tools[x].buffer, whole)
      BY <2>2, <2>3, <2>4, <3>3 DEF Naming
    <3>5. e.tools[x].buffer = <<whole>> BY <3>2, <3>4, Recorded1
    <3>6. Complete(e.tools[x].buffer) BY <3>5 DEF Complete, Documents
    <3> QED BY <2>2, <2>4, <3>6 DEF Naming
  <2>5. \A i \in ToolIndexes : i # x => e.tools[i] = c.tools[i] BY <2>2 DEF Naming
  <2>6. AsBefore(before, e)
    <3> SUFFICES ASSUME NEW i \in ToolIndexes
                 PROVE  \/ e.tools[i] = before.tools[i]
                        \/ e.tools[i].last = "whole" /\ Complete(e.tools[i].buffer)
      BY DEF AsBefore
    <3> HIDE DEF x
    <3>1. CASE i = x BY <2>4, <3>1
    <3>2. CASE i # x
      <4>1. e.tools[i] = c.tools[i] BY <2>5, <3>2
      <4> QED BY <2>1, <4>1 DEF AsBefore
    <3> QED BY <3>1, <3>2
  <2>7. ASSUME NEW i \in ToolIndexes, i >= first + k PROVE e.tools[i] = before.tools[i]
    <3>1. i \in Nat BY Indices
    <3>2. i # x /\ i >= first + (k - 1) BY <1>2, <2>1, <2>3, <2>7, <3>1
    <3> QED BY <2>1, <2>5, <3>2
  <2>8. Tooled(e) BY <2>2 DEF Naming
  <2>9. Good(e, k) BY <2>6, <2>7, <2>8
  <2> HIDE DEF Good
  <2> QED BY <2>1, <2>9 DEF e
<1>10. \A k \in 0 .. count : k \in T
  <2> HIDE DEF T
  <2> QED BY <1>8, <1>9, Climb
<1>11. Good(done.choice, count) BY <1>7, <1>10
<1> QED BY <1>11 DEF done

\* The stage of the calls ...
LEMMA GivenStageNames ==
  ASSUME NEW st, Cleaned(st), Uncalled(st.choice), Calm(st.choice), NEW chunk \in Chunks,
         Placed(st.choice, Given(chunk))
  PROVE  LET next == CallsStage(st, chunk)
         IN  /\ Gapless(next.choice)
             /\ \A i \in ToolIndexes : next.choice.tools[i].name = EagerTool =>
                  next.choice.tools[i].header /\ Names(Given(chunk), i)
<1> DEFINE next == CallsStage(st, chunk)
           calls == Given(chunk)
<1>1. IsSequence(calls) BY GivenCalls
<1>2. CASE calls = <<>>
  <2>1. next = st BY <1>2 DEF CallsStage
  <2> HIDE DEF next
  <2> QED BY <2>1 DEF Calm, next
<1>3. CASE calls # <<>>
  <2> DEFINE c == [st.choice EXCEPT !.pending = <<>>]
             done == NormalizeCalls(c, calls, FALSE)
  <2>1. KnowsAlike(st.choice, c) BY DEF KnowsAlike, Cleaned, Holds, ChoiceParts, FreshChoice
  <2>2. next.choice = done.choice BY <1>3 DEF CallsStage, AddCalls
  <2> HIDE DEF c, next
  <2>3. Tooled(c)
    <3>1. Tooled(st.choice) BY SettledTooled DEF Uncalled
    <3> QED BY <2>1, <3>1 DEF KnowsAlike, Tooled
  <2>4. Known(c) = Known(st.choice) /\ c.tools = st.choice.tools BY <2>1 DEF KnowsAlike, Known
  <2>5. Calm(c) BY <2>4 DEF Calm, Gapless
  <2>6. Placed(c, calls) BY <2>4 DEF Placed
  <2>7. \A k \in 1 .. Len(calls) : calls[k].name \in {NoTool, EagerTool, DeferredTool}
    <3>1. IsSequence(chunk.calls) /\ IsSequence(chunk.message) BY StreamAssumption
    <3>2. \A k \in 1 .. Len(chunk.calls) : chunk.calls[k] \in Range(chunk.calls)
      BY <3>1, Bounds DEF Range
    <3>3. \A k \in 1 .. Len(chunk.message) : chunk.message[k] \in Range(chunk.message)
      BY <3>1, Bounds DEF Range
    <3> QED BY <3>2, <3>3, StreamAssumption DEF Given
  <2> HIDE DEF calls
  <2>8. NamedUpTo(c, calls, done.choice, Len(calls)) BY <1>1, <2>3, <2>5, <2>6, <2>7, GivenNames
  <2> HIDE DEF done
  <2>9. \A j \in 1 .. Len(calls) : calls[j] \in Range(calls) BY <1>1, Bounds DEF Range
  <2> QED BY <2>2, <2>8, <2>9 DEF NamedUpTo, Names, next, calls
<1> QED BY <1>2, <1>3

\* ... and that of the text
LEMMA TextStageNames ==
  ASSUME NEW st, Cleaned(st), NEW chunk \in Chunks, Tooled(st.choice), Gapless(st.choice),
         st.choice.synthetic \in Nat
  PROVE  AsBefore(st.choice, TextStage(st, chunk).choice)
<1> DEFINE text == st.choice.held \o chunk.text
           found == Extract(text, FALSE)
           c == [st.choice EXCEPT !.held = found.tail]
           done == SyntheticCalls(c, found.invokes)
           s == AddCalls(st, done)
<1>1. IsSequence(text) BY GivenCalls, Concatenated DEF Cleaned, Holds
<1> HIDE DEF text
<1>2. found.invokes \in Nat /\ IsSequence(found.tail) BY <1>1, ExtractFound
<1>3. TextStage(st, chunk) = TextFound(s, found) BY DEF TextStage, TextExtracted, text
<1> HIDE DEF found
<1>4. KnowsAlike(st.choice, c) BY DEF KnowsAlike, Cleaned, Holds, ChoiceParts, FreshChoice
<1>5. c.pending = st.choice.pending /\ c.held = found.tail
  BY DEF Cleaned, Holds, ChoiceParts, FreshChoice
<1> HIDE DEF c
<1>6. Tooled(c) /\ c.tools = st.choice.tools /\ c.synthetic \in Nat
  BY <1>4 DEF KnowsAlike, Tooled
<1>7. Gapless(c)
  <2>1. Known(c) = Known(st.choice) BY <1>6 DEF Known
  <2> QED BY <1>6, <2>1 DEF Gapless
<1>8. AsBefore(c, done.choice) BY <1>2, <1>6, <1>7, SyntheticNames
<1>9. Holds(c) BY <1>2, <1>4, <1>5 DEF Cleaned, Holds, KnowsAlike
<1>10. Holds(done.choice) /\ IsSequence(done.calls) BY <1>2, <1>9, SyntheticHolds
<1> HIDE DEF done
<1>11. Cleaned(s) /\ s.choice = done.choice BY <1>10, CallsAdded DEF AddCalls
<1> HIDE DEF s
<1>12. KnowsAlike(s.choice, TextFound(s, found).choice) BY <1>11, TextFoundSettled
<1> QED BY <1>3, <1>6, <1>8, <1>11, <1>12 DEF AsBefore, KnowsAlike

\* What is known of the names of the calls of an event: nothing was named before the answer is
\* finished that requires no arguments, and then only by the chunk that finishes it.
CallsNamed(chunk, one) ==
  /\ one.event.finish = None => Calm(one.choice)
  /\ \A i \in ToolIndexes : one.choice.tools[i].name = EagerTool =>
       Names(Given(chunk), i) \/ Complete(one.choice.tools[i].buffer)

\* The finish names no tool and adds no fragment.
LEMMA FinishNames ==
  ASSUME NEW st, Cleaned(st), NEW chunk \in Chunks, CallsTold(st, chunk)
  PROVE  LET one == FinishWithCalls(st, chunk)
         IN  /\ \A i \in ToolIndexes : one.choice.tools[i].name = st.choice.tools[i].name
                                       /\ one.choice.tools[i].buffer = st.choice.tools[i].buffer
             /\ one.event.finish # None
<1> DEFINE c == st.choice
           done == IF Given(chunk) = <<>> THEN [choice |-> c, calls |-> <<>>]
                   ELSE FinalizePending(c)
           one == FinishWithCalls(st, chunk)
           seen == [done.choice EXCEPT !.seen = TRUE]
<1>1. one.choice \in {done.choice, seen} BY DEF FinishWithCalls, CallsCompleted
<1>9. one.event.finish # None
  <2> DEFINE calls == IF done.calls # <<>> THEN done.calls ELSE st.event.calls
             fallback == WholeCalls(chunk.message)
  <2>1. one.event = IF calls = <<>> /\ fallback # <<>>
                    THEN [st.event EXCEPT !.calls = fallback, !.finish = "tool_calls"]
                    ELSE [st.event EXCEPT !.calls = calls,
                             !.finish = IF done.choice.seen THEN "tool_calls" ELSE "stop"]
    BY DEF FinishWithCalls, CallsCompleted
  <2>2. DOMAIN st.event = EventParts BY DEF Cleaned, Says
  <2> HIDE DEF one, calls, fallback, done
  <2> QED BY <2>1, <2>2 DEF EventParts, None
<1>2. ChoiceSettled(c, st.event.calls) BY DEF CallsTold
<1> HIDE DEF c, one
<1>3. Given(chunk) # <<>> => Pended(c, done, Cardinality(ToolIndexes)) BY <1>2, PendingSettled
<1>4. Given(chunk) = <<>> => done.choice = c OBVIOUS
<1>5. DOMAIN done.choice = ChoiceParts BY <1>2, <1>3, <1>4 DEF Pended, ChoiceSettled
<1>6. ASSUME NEW i \in ToolIndexes
      PROVE  /\ done.choice.tools[i].name = c.tools[i].name
             /\ done.choice.tools[i].buffer = c.tools[i].buffer
  BY <1>3, <1>4 DEF Pended
<1> HIDE DEF done
<1>7. seen.tools = done.choice.tools BY <1>5 DEF ChoiceParts, FreshChoice
<1> HIDE DEF seen
<1>8. one.choice.tools = done.choice.tools BY <1>1, <1>7
<1> QED BY <1>6, <1>8, <1>9 DEF c, one

LEMMA EventNames ==
  ASSUME NEW before, Holds(before), Uncalled(before), Calm(before), NEW chunk \in Chunks,
         Placed(before, Given(chunk))
  PROVE  CallsNamed(chunk, NormalizeChoice(before, chunk))
<1> DEFINE event == [text |-> <<>>, reason |-> <<>>, role |-> chunk.role, calls |-> <<>>,
                     finish |-> None]
           a == [choice |-> before, event |-> event]
           b == CallsStage(a, chunk)
           c == TextStage(b, chunk)
           d == ReasonStage(c, chunk)
           finish == FinishOf(d.choice, chunk)
           cleared == [d EXCEPT !.choice.held = <<>>, !.choice.pending = <<>>]
           rest == Extract(d.choice.held, TRUE).text
           one == Finished(d, chunk)
<1>1. Cleaned(a) /\ a.choice = before /\ a.event.calls = <<>>
  <2>1. Says(event) BY Empty DEF Says, EventParts
  <2> QED BY <2>1 DEF Cleaned
<1>2. NormalizeChoice(before, chunk) = one BY DEF NormalizeChoice
<1>3. one.event.finish = None => Uncalled(one.choice)
  <2>1. CallsEnd(chunk, NormalizeChoice(before, chunk)) BY EventCalls
  <2> QED BY <1>2, <2>1 DEF CallsEnd
<1> HIDE DEF a
<1>4. Cleaned(b) /\ CallsTold(b, chunk) /\ Unemptied(b.choice)
  BY <1>1, CallsStaged, CallsStageSettled
<1>5. Cleaned(c) /\ CallsTold(c, chunk) BY <1>4, TextStaged, TextStageSettled
<1>6. Cleaned(d) /\ CallsTold(d, chunk) BY <1>5, ReasonStaged, ReasonStageSettled
<1>7. /\ Gapless(b.choice)
      /\ \A i \in ToolIndexes : b.choice.tools[i].name = EagerTool =>
           b.choice.tools[i].header /\ Names(Given(chunk), i)
  BY <1>1, GivenStageNames
<1>8. Tooled(b.choice) /\ b.choice.synthetic \in Nat
  BY <1>4, SettledTooled DEF CallsTold, ChoiceSettled
<1>9. AsBefore(b.choice, c.choice) BY <1>4, <1>7, <1>8, TextStageNames
<1> HIDE DEF b, c
<1>10. d.choice.tools = c.choice.tools
  BY <1>5 DEF ReasonStage, Cleaned, Holds, ChoiceParts, FreshChoice
<1> HIDE DEF d
<1>11. one = IF finish = None THEN d
             ELSE IF finish = "tool_calls" THEN FinishWithCalls(cleared, chunk)
             ELSE FinishWithText(cleared, finish, rest)
  BY DEF Finished, FinishStage
<1>12. KnowsAlike(d.choice, cleared.choice) /\ cleared.event = d.event
  BY <1>6 DEF Cleaned, Holds, KnowsAlike, ChoiceParts, FreshChoice
<1>16. Cleaned(cleared)
  <2> DEFINE e == [d.choice EXCEPT !.held = <<>>, !.pending = <<>>]
  <2>1. DOMAIN e = ChoiceParts /\ e.pending = <<>> /\ e.held = <<>>
    BY <1>6 DEF Cleaned, Holds, ChoiceParts, FreshChoice
  <2>2. DOMAIN cleared = {"choice", "event"} /\ cleared.choice = e /\ cleared.event = d.event
    BY <1>6 DEF Cleaned
  <2> HIDE DEF e, cleared
  <2> QED BY <1>6, <2>1, <2>2, Empty DEF Cleaned, Holds
<1> HIDE DEF cleared, rest
<1>13. /\ \A i \in ToolIndexes : /\ one.choice.tools[i].name = d.choice.tools[i].name
                                 /\ one.choice.tools[i].buffer = d.choice.tools[i].buffer
       /\ one.event.finish = None => one = d
  <2>1. CASE finish = None BY <1>11, <2>1
  <2>2. CASE finish = "tool_calls"
    <3>1. one = FinishWithCalls(cleared, chunk) BY <1>11, <2>2 DEF None
    <3>2. CallsTold(cleared, chunk) BY <1>6, <1>12, StagedAlike
    <3>3. cleared.choice.tools = d.choice.tools BY <1>12 DEF KnowsAlike
    <3> HIDE DEF one
    <3> QED BY <1>16, <3>1, <3>2, <3>3, FinishNames
  <2>3. CASE finish \notin {None, "tool_calls"}
    <3>1. one = FinishWithText(cleared, finish, rest) BY <1>11, <2>3
    <3>2. one.choice = cleared.choice BY <3>1 DEF FinishWithText
    <3>3. one.event.finish = finish
      <4> HIDE DEF one, finish
      <4>1. DOMAIN cleared.event = EventParts BY <1>16 DEF Cleaned, Says
      <4> QED BY <3>1, <4>1 DEF FinishWithText, EventParts
    <3> HIDE DEF one
    <3> QED BY <1>12, <2>3, <3>2, <3>3 DEF KnowsAlike
  <2> QED BY <2>1, <2>2, <2>3
<1> HIDE DEF one, finish
<1>14. ASSUME NEW i \in ToolIndexes, one.choice.tools[i].name = EagerTool
       PROVE  Names(Given(chunk), i) \/ Complete(one.choice.tools[i].buffer)
  <2>1. c.choice.tools[i] = b.choice.tools[i] \/ Complete(c.choice.tools[i].buffer)
    BY <1>9 DEF AsBefore
  <2> QED BY <1>7, <1>10, <1>13, <1>14, <2>1
<1>15. ASSUME one.event.finish = None PROVE Calm(one.choice)
  <2>1. ChoiceSettled(one.choice, <<>>) /\ ~one.choice.seen BY <1>3, <1>15 DEF Uncalled
  <2>2. \A i \in ToolIndexes : one.choice.tools[i].last = None /\ ~one.choice.tools[i].header
    BY <2>1 DEF ChoiceSettled, ToolSettled
  <2>3. ASSUME NEW i \in ToolIndexes PROVE one.choice.tools[i] = b.choice.tools[i]
    <3>1. one.choice.tools = c.choice.tools BY <1>10, <1>13, <1>15
    <3> QED BY <1>9, <2>2, <3>1 DEF AsBefore, None
  <2>4. Known(one.choice) = Known(b.choice) BY <2>3 DEF Known
  <2>5. Gapless(one.choice) BY <1>7, <2>3, <2>4 DEF Gapless
  <2>6. \A i \in ToolIndexes : one.choice.tools[i].name # EagerTool BY <1>7, <2>2, <2>3
  <2> QED BY <2>5, <2>6 DEF Calm
<1> QED BY <1>2, <1>14, <1>15 DEF CallsNamed

-----------------------------------------------------------------------------
(* The blocks of tools, and what fills them                                 *)

\* The block of a tool is started.
ToolStart(p) == p.kind = "block_start" /\ p.value = <<"tool">>
NoTools(s) == \A k \in 1 .. Len(s) : ~ToolStart(s[k])

\* What fills, after it, the block that the packet p starts
Fills(s, p) == {j \in (p + 1) .. Len(s) : s[j].kind = "delta" /\ s[j].block = s[p].block}

\* Every block of a tool is filled once.
OnceFilled(s) ==
  \A p \in 1 .. Len(s) : ToolStart(s[p]) => \E j \in 1 .. Len(s) : Fills(s, p) = {j}

\* The block was filled with the arguments a: as far as one can be told from none
FilledBy(s, p, a) ==
  /\ a = <<>> => Fills(s, p) = {}
  /\ Len(a) = 1 => \E j \in 1 .. Len(s) : Fills(s, p) = {j}

\* Only a delta for its block fills a tool once more.
LEMMA FillsMore ==
  ASSUME NEW s, IsSequence(s), NEW p \in 1 .. Len(s), NEW q
  PROVE  /\ (q.kind = "delta" /\ q.block = s[p].block) =>
              Fills(Append(s, q), p) = Fills(s, p) \cup {Len(s) + 1}
         /\ ~(q.kind = "delta" /\ q.block = s[p].block) => Fills(Append(s, q), p) = Fills(s, p)
<1> DEFINE c == Append(s, q)
           n == Len(s)
<1>1. n \in Nat /\ p \in 1 .. n BY Bounds
<1>2. Len(c) = n + 1 /\ c[n + 1] = q /\ \A k \in 1 .. n : c[k] = s[k] BY Appended
<1> HIDE DEF c
<1>3. Fills(s, p) = {j \in (p + 1) .. n : s[j].kind = "delta" /\ s[j].block = s[p].block}
  BY DEF Fills
<1>4. Fills(c, p) = {j \in (p + 1) .. (n + 1) : c[j].kind = "delta" /\ c[j].block = s[p].block}
  BY <1>1, <1>2 DEF Fills
<1> HIDE DEF n
<1>5. \A j \in (p + 1) .. n : j \in 1 .. n /\ j \in (p + 1) .. (n + 1) BY <1>1
<1>6. \A j \in (p + 1) .. (n + 1) : j \in (p + 1) .. n \/ j = n + 1 BY <1>1
<1>7. n + 1 \in (p + 1) .. (n + 1) /\ n + 1 \notin (p + 1) .. n BY <1>1
<1>8. ASSUME q.kind = "delta" /\ q.block = s[p].block PROVE Fills(c, p) = Fills(s, p) \cup {n + 1}
  BY <1>2, <1>3, <1>4, <1>5, <1>6, <1>7, <1>8
<1>9. ASSUME ~(q.kind = "delta" /\ q.block = s[p].block) PROVE Fills(c, p) = Fills(s, p)
  BY <1>2, <1>3, <1>4, <1>5, <1>6, <1>7, <1>9
<1> QED BY <1>8, <1>9 DEF c, n

LEMMA FilledMore ==
  ASSUME NEW s, IsSequence(s), NEW p \in 1 .. Len(s), NEW q, NEW a, FilledBy(s, p, a),
         ~(q.kind = "delta" /\ q.block = s[p].block)
  PROVE  FilledBy(Append(s, q), p, a)
<1>1. Fills(Append(s, q), p) = Fills(s, p) BY FillsMore
<1>2. Len(s) \in Nat /\ Len(Append(s, q)) = Len(s) + 1 BY Bounds, Appended
<1>3. \A j \in 1 .. Len(s) : j \in 1 .. Len(Append(s, q)) BY <1>2
<1> QED BY <1>1, <1>3 DEF FilledBy

LEMMA OneLess ==
  ASSUME NEW m \in Nat, m + 1 = 1
  PROVE  m = 0
OBVIOUS

LEMMA FilledOnce ==
  ASSUME NEW s, IsSequence(s), NEW p \in 1 .. Len(s), NEW q, NEW a, IsSequence(a),
         FilledBy(s, p, a), q.kind = "delta", q.block = s[p].block, NEW x
  PROVE  FilledBy(Append(s, q), p, Append(a, x))
<1> DEFINE b == Append(a, x)
           n == Len(s)
<1>1. n \in Nat /\ Len(Append(s, q)) = n + 1 BY Bounds, Appended
<1>2. Len(b) = Len(a) + 1 /\ Len(a) \in Nat BY Bounds, Appended
<1>3. Fills(Append(s, q), p) = Fills(s, p) \cup {n + 1} BY FillsMore
<1> HIDE DEF b, n
<1>4. b # <<>>
  <2>1. Len(<<>>) = 0 BY Empty
  <2> QED BY <1>2, <2>1
<1>5. ASSUME Len(b) = 1 PROVE \E j \in 1 .. Len(Append(s, q)) : Fills(Append(s, q), p) = {j}
  <2>1. Len(a) = 0
    <3>1. Len(a) \in Nat /\ Len(a) + 1 = 1 BY <1>2, <1>5, Zenon
    <3> QED BY <3>1, OneLess, Zenon
  <2>2. Fills(s, p) = {} BY <2>1, Bounds DEF FilledBy
  <2>3. Fills(Append(s, q), p) = {n + 1} /\ n + 1 \in 1 .. Len(Append(s, q)) BY <1>1, <1>3, <2>2
  <2> QED BY <2>3
<1> QED BY <1>4, <1>5 DEF FilledBy, b

\* The tools have the blocks whose numbers are in "blocks", and those that were started are
\* of indexes in S and filled with the arguments of m.
Serves(s, blocks, m, S) ==
  \A p \in 1 .. Len(s) : ToolStart(s[p]) =>
    \E i \in ToolIndexes : /\ i \in S /\ blocks[i] # 0 /\ blocks[i] = s[p].block
                           /\ FilledBy(s, p, m[i])

LEMMA ServesNothing ==
  ASSUME NEW s, NoTools(s), NEW blocks, NEW m, NEW S
  PROVE  Serves(s, blocks, m, S)
BY DEF Serves, NoTools

LEMMA ServesOther ==
  ASSUME NEW s, IsSequence(s), NEW blocks, NEW m, NEW S, Serves(s, blocks, m, S),
         NEW q, q.kind # "delta", ~ToolStart(q)
  PROVE  Serves(Append(s, q), blocks, m, S)
<1> DEFINE c == Append(s, q)
<1>1. /\ Len(c) = Len(s) + 1 /\ Len(s) \in Nat /\ c[Len(s) + 1] = q
      /\ \A k \in 1 .. Len(s) : c[k] = s[k]
  BY Bounds, Appended
<1>2. ASSUME NEW p \in 1 .. Len(s), NEW a, FilledBy(s, p, a) PROVE FilledBy(c, p, a)
  BY <1>2, FilledMore
<1> HIDE DEF c
<1>3. ASSUME NEW p \in 1 .. Len(c), ToolStart(c[p])
      PROVE  \E i \in ToolIndexes : /\ i \in S /\ blocks[i] # 0 /\ blocks[i] = c[p].block
                                    /\ FilledBy(c, p, m[i])
  <2>1. p # Len(s) + 1 BY <1>1, <1>3
  <2>2. p \in 1 .. Len(s) /\ c[p] = s[p] BY <1>1, <2>1
  <2>3. PICK i \in ToolIndexes : /\ i \in S /\ blocks[i] # 0 /\ blocks[i] = s[p].block
                                 /\ FilledBy(s, p, m[i])
    BY <1>3, <2>2 DEF Serves
  <2> QED BY <1>2, <2>2, <2>3
<1> QED BY <1>3 DEF Serves, c

\* The block of a tool that has none is started.
LEMMA ServesStart ==
  ASSUME NEW s, IsSequence(s), NEW blocks, NEW m, NEW S, Serves(s, blocks, m, S),
         NEW q, ToolStart(q), q.block # 0, NEW i \in ToolIndexes, blocks[i] = 0, m[i] = <<>>,
         NEW after, after[i] = q.block, \A j \in ToolIndexes : j # i => after[j] = blocks[j]
  PROVE  Serves(Append(s, q), after, m, S \cup {i})
<1> DEFINE c == Append(s, q)
<1>1. /\ Len(c) = Len(s) + 1 /\ Len(s) \in Nat /\ c[Len(s) + 1] = q
      /\ \A k \in 1 .. Len(s) : c[k] = s[k]
  BY Bounds, Appended
<1>0. q.kind # "delta" BY DEF ToolStart
<1>2. ASSUME NEW p \in 1 .. Len(s), NEW a, FilledBy(s, p, a) PROVE FilledBy(c, p, a)
  BY <1>0, <1>2, FilledMore
<1> HIDE DEF c
<1>3. ASSUME NEW p \in 1 .. Len(c), ToolStart(c[p])
      PROVE  \E j \in ToolIndexes : /\ j \in S \cup {i} /\ after[j] # 0 /\ after[j] = c[p].block
                                    /\ FilledBy(c, p, m[j])
  <2>1. CASE p = Len(s) + 1
    <3>1. c[p] = q /\ (p + 1) .. Len(c) = {} BY <1>1, <2>1
    <3>2. Fills(c, p) = {} BY <3>1 DEF Fills
    <3>3. Len(m[i]) # 1 BY Empty
    <3>4. FilledBy(c, p, m[i]) BY <3>2, <3>3 DEF FilledBy
    <3> QED BY <3>1, <3>4
  <2>2. CASE p # Len(s) + 1
    <3>1. p \in 1 .. Len(s) /\ c[p] = s[p] BY <1>1, <2>2
    <3>2. PICK j \in ToolIndexes : /\ j \in S /\ blocks[j] # 0 /\ blocks[j] = s[p].block
                                   /\ FilledBy(s, p, m[j])
      BY <1>3, <3>1 DEF Serves
    <3>3. j # i /\ after[j] = blocks[j] BY <3>2
    <3> QED BY <1>2, <3>1, <3>2, <3>3
  <2> QED BY <2>1, <2>2
<1> QED BY <1>3 DEF Serves, c

\* The block of a tool is filled once more.
LEMMA ServesFill ==
  ASSUME NEW s, IsSequence(s), NEW blocks, NEW m, NEW S, Serves(s, blocks, m, S),
         NEW i \in ToolIndexes, IsSequence(m[i]),
         \A j \in ToolIndexes : blocks[j] = blocks[i] => j = i,
         NEW q, q.kind = "delta", q.block = blocks[i], NEW x,
         NEW more, \A j \in ToolIndexes : more[j] = IF j = i THEN Append(m[j], x) ELSE m[j]
  PROVE  Serves(Append(s, q), blocks, more, S)
<1> DEFINE c == Append(s, q)
<1>1. /\ Len(c) = Len(s) + 1 /\ Len(s) \in Nat /\ c[Len(s) + 1] = q
      /\ \A k \in 1 .. Len(s) : c[k] = s[k]
  BY Bounds, Appended
<1>2. ASSUME NEW p \in 1 .. Len(s), NEW a, FilledBy(s, p, a), s[p].block # blocks[i]
      PROVE  FilledBy(c, p, a)
  BY <1>2, FilledMore
<1>3. ASSUME NEW p \in 1 .. Len(s), FilledBy(s, p, m[i]), s[p].block = blocks[i]
      PROVE  FilledBy(c, p, Append(m[i], x))
  <2> DEFINE a == m[i]
  <2>1. IsSequence(a) /\ FilledBy(s, p, a) BY <1>3
  <2>2. q.block = s[p].block BY <1>3
  <2> HIDE DEF a
  <2>3. FilledBy(Append(s, q), p, Append(a, x)) BY <2>1, <2>2, FilledOnce
  <2> QED BY <2>3 DEF a
<1> HIDE DEF c
<1>4. ASSUME NEW p \in 1 .. Len(c), ToolStart(c[p])
      PROVE  \E j \in ToolIndexes : /\ j \in S /\ blocks[j] # 0 /\ blocks[j] = c[p].block
                                    /\ FilledBy(c, p, more[j])
  <2>1. p # Len(s) + 1 BY <1>1, <1>4 DEF ToolStart
  <2>2. p \in 1 .. Len(s) /\ c[p] = s[p] BY <1>1, <2>1
  <2>3. PICK j \in ToolIndexes : /\ j \in S /\ blocks[j] # 0 /\ blocks[j] = s[p].block
                                 /\ FilledBy(s, p, m[j])
    BY <1>4, <2>2 DEF Serves
  <2>4. CASE j = i BY <1>3, <2>2, <2>3, <2>4
  <2>5. CASE j # i
    <3>1. s[p].block # blocks[i] /\ more[j] = m[j] BY <2>3, <2>5
    <3> QED BY <1>2, <2>2, <2>3, <3>1
  <2> QED BY <2>4, <2>5
<1> QED BY <1>4 DEF Serves, c

\* The writer has started no block of a tool, nor did anyone before it.
Toolless(t, w) ==
  /\ DOMAIN w = WriterParts /\ IsSequence(w.out)
  /\ w.tools = [i \in ToolIndexes |-> 0] /\ w.next \in Nat \ {0}
  /\ NoTools(t \o w.out)

LEMMA NoToolsMore ==
  ASSUME NEW s, IsSequence(s), NoTools(s), NEW q, ~ToolStart(q)
  PROVE  NoTools(Append(s, q))
<1> DEFINE c == Append(s, q)
<1>1. /\ Len(c) = Len(s) + 1 /\ Len(s) \in Nat /\ c[Len(s) + 1] = q
      /\ \A k \in 1 .. Len(s) : c[k] = s[k]
  BY Bounds, Appended
<1> HIDE DEF c
<1>2. ASSUME NEW p \in 1 .. Len(c) PROVE ~ToolStart(c[p])
  <2>1. p \in 1 .. Len(s) \/ p = Len(s) + 1 BY <1>1
  <2> QED BY <1>1, <2>1 DEF NoTools
<1> QED BY <1>2 DEF NoTools, c

\* Packets of other kinds start no block of a tool ...
LEMMA EmitToolless ==
  ASSUME NEW t, IsSequence(t), NEW w, Toolless(t, w), NEW p, ~ToolStart(p)
  PROVE  Toolless(t, Emit(w, p))
<1> DEFINE e == Emit(w, p)
<1>1. DOMAIN w = WriterParts /\ IsSequence(w.out) BY DEF Toolless
<1>2. /\ DOMAIN e = WriterParts /\ e.out = Append(w.out, p) /\ e.tools = w.tools
      /\ e.next = w.next
  BY <1>1 DEF Emit, WriterParts, FreshWriter
<1> HIDE DEF e
<1>3. IsSequence(Append(w.out, p)) BY <1>1, Appended
<1>4. t \o Append(w.out, p) = Append(t \o w.out, p) /\ IsSequence(t \o w.out)
  BY <1>1, AppendAside, Concatenated, SMTT(20)
<1>5. NoTools(Append(t \o w.out, p)) BY <1>4, NoToolsMore DEF Toolless
<1> QED BY <1>2, <1>3, <1>4, <1>5 DEF Toolless, e

LEMMA ToollessAlike ==
  ASSUME NEW t, NEW w, Toolless(t, w),
         NEW c, DOMAIN c = WriterParts, c.out = w.out, c.tools = w.tools, c.next \in Nat \ {0}
  PROVE  Toolless(t, c)
BY DEF Toolless

LEMMA TextClosesToolless ==
  ASSUME NEW t, IsSequence(t), NEW w, Toolless(t, w)
  PROVE  Toolless(t, CloseText(w)) /\ Toolless(t, CloseThinking(w))
<1> DEFINE p == Packet("block_stop", w.text, <<>>)
           q == Packet("block_stop", w.thinking, <<>>)
           e == Emit(w, p)
           f == Emit(w, q)
           c == [e EXCEPT !.text = 0]
           d == [f EXCEPT !.thinking = 0]
<1>1. ~ToolStart(p) /\ ~ToolStart(q) BY DEF ToolStart, Packet
<1>2. CloseText(w) \in {w, c} /\ CloseThinking(w) \in {w, d} BY DEF CloseText, CloseThinking
<1>3. Toolless(t, e) /\ Toolless(t, f) BY <1>1, EmitToolless
<1> HIDE DEF e, f
<1>4. /\ DOMAIN c = WriterParts /\ c.out = e.out /\ c.tools = e.tools /\ c.next = e.next
      /\ DOMAIN d = WriterParts /\ d.out = f.out /\ d.tools = f.tools /\ d.next = f.next
  BY <1>3 DEF Toolless, WriterParts, FreshWriter
<1>5. c.next \in Nat \ {0} /\ d.next \in Nat \ {0} BY <1>3, <1>4 DEF Toolless
<1> HIDE DEF c, d
<1>6. Toolless(t, c) /\ Toolless(t, d) BY <1>3, <1>4, <1>5, ToollessAlike
<1> QED BY <1>2, <1>6

LEMMA TextOpensToolless ==
  ASSUME NEW t, IsSequence(t), NEW w, Toolless(t, w)
  PROVE  Toolless(t, OpenText(w)) /\ Toolless(t, OpenThinking(w))
<1> DEFINE p == Packet("block_start", w.next, <<"text">>)
           q == Packet("block_start", w.next, <<"thinking">>)
           e == Emit(w, p)
           f == Emit(w, q)
           c == [e EXCEPT !.text = w.next, !.next = @ + 1]
           d == [f EXCEPT !.thinking = w.next, !.next = @ + 1]
<1>1. ~ToolStart(p) /\ ~ToolStart(q)
  <2>1. <<"text">> # <<"tool">> /\ <<"thinking">> # <<"tool">> OBVIOUS
  <2> QED BY <2>1 DEF ToolStart, Packet
<1>2. OpenText(w) \in {w, c} /\ OpenThinking(w) \in {w, d} BY DEF OpenText, OpenThinking
<1>3. Toolless(t, e) /\ Toolless(t, f) BY <1>1, EmitToolless
<1> HIDE DEF e, f
<1>4. /\ DOMAIN c = WriterParts /\ c.out = e.out /\ c.tools = e.tools /\ c.next = e.next + 1
      /\ DOMAIN d = WriterParts /\ d.out = f.out /\ d.tools = f.tools /\ d.next = f.next + 1
  BY <1>3 DEF Toolless, WriterParts, FreshWriter
<1>5. e.next \in Nat /\ f.next \in Nat BY <1>3 DEF Toolless
<1> HIDE DEF c, d
<1>6. c.next \in Nat \ {0} /\ d.next \in Nat \ {0} BY <1>4, <1>5
<1>7. Toolless(t, c) /\ Toolless(t, d) BY <1>3, <1>4, <1>6, ToollessAlike
<1> QED BY <1>2, <1>7

LEMMA MessageToolless ==
  ASSUME NEW t, IsSequence(t), NEW w, Toolless(t, w), NEW event, NEW thinking
  PROVE  Toolless(t, StartMessage(w, event, thinking))
<1> DEFINE p == Packet("message_start", 0, <<>>)
           e == Emit(w, p)
           c == [e EXCEPT !.meant = TRUE, !.started = TRUE]
<1>1. ~ToolStart(p) BY DEF ToolStart, Packet
<1>2. StartMessage(w, event, thinking) \in {w, c} BY DEF StartMessage
<1>3. Toolless(t, e) BY <1>1, EmitToolless
<1> HIDE DEF e
<1>4. DOMAIN c = WriterParts /\ c.out = e.out /\ c.tools = e.tools /\ c.next = e.next
  BY <1>3 DEF Toolless, WriterParts, FreshWriter
<1>5. c.next \in Nat \ {0} BY <1>3, <1>4 DEF Toolless
<1> HIDE DEF c
<1>6. Toolless(t, c) BY <1>3, <1>4, <1>5, ToollessAlike
<1> QED BY <1>2, <1>6

LEMMA ReasonToolless ==
  ASSUME NEW t, IsSequence(t), NEW w, Toolless(t, w), NEW reason, NEW thinking
  PROVE  Toolless(t, WriteReason(w, reason, thinking))
<1> DEFINE a == CloseText(w)
           b == OpenThinking(a)
           p == Packet("delta", b.thinking, reason)
<1>1. WriteReason(w, reason, thinking) \in {w, Emit(b, p)} BY DEF WriteReason, FillThinking
<1>2. Toolless(t, a) BY TextClosesToolless
<1> HIDE DEF a
<1>3. Toolless(t, b) BY <1>2, TextOpensToolless
<1>4. ~ToolStart(p) BY DEF ToolStart, Packet
<1> HIDE DEF b, p
<1>5. Toolless(t, Emit(b, p)) BY <1>3, <1>4, EmitToolless
<1> QED BY <1>1, <1>5

LEMMA TextToolless ==
  ASSUME NEW t, IsSequence(t), NEW w, Toolless(t, w), NEW text
  PROVE  Toolless(t, WriteText(w, text))
<1> DEFINE a == CloseThinking(w)
           b == OpenText(a)
           p == Packet("delta", b.text, text)
           e == Emit(b, p)
           c == [e EXCEPT !.said = @ \o text]
<1>1. WriteText(w, text) \in {w, c} BY DEF WriteText, FillText
<1>2. Toolless(t, a) BY TextClosesToolless
<1> HIDE DEF a
<1>3. Toolless(t, b) BY <1>2, TextOpensToolless
<1>4. ~ToolStart(p) BY DEF ToolStart, Packet
<1> HIDE DEF b, p
<1>5. Toolless(t, e) BY <1>3, <1>4, EmitToolless
<1> HIDE DEF e
<1>6. DOMAIN c = WriterParts /\ c.out = e.out /\ c.tools = e.tools /\ c.next = e.next
  BY <1>5 DEF Toolless, WriterParts, FreshWriter
<1>7. c.next \in Nat \ {0} BY <1>5, <1>6 DEF Toolless
<1> HIDE DEF c
<1>8. Toolless(t, c) BY <1>5, <1>6, <1>7, ToollessAlike
<1> QED BY <1>1, <1>8

\* The tools of a writer were told of with the arguments m, those of the indexes in S were
\* started, each with a block of its own.
Served(t, w, m, S) ==
  /\ DOMAIN w = WriterParts /\ IsSequence(w.out) /\ w.next \in Nat \ {0}
  /\ DOMAIN w.tools = ToolIndexes /\ DOMAIN m = ToolIndexes
  /\ \A i \in ToolIndexes : w.tools[i] \in 0 .. (w.next - 1) /\ IsSequence(m[i])
  /\ \A i \in ToolIndexes : w.tools[i] = 0 => m[i] = <<>>
  /\ \A i, j \in ToolIndexes : w.tools[i] = w.tools[j] /\ w.tools[i] # 0 => i = j
  /\ Serves(t \o w.out, w.tools, m, S)

\* A packet of another kind changes nothing of the tools.
LEMMA EmitServed ==
  ASSUME NEW t, IsSequence(t), NEW w, NEW m, NEW S, Served(t, w, m, S),
         NEW p, p.kind # "delta", ~ToolStart(p)
  PROVE  Served(t, Emit(w, p), m, S)
<1> DEFINE e == Emit(w, p)
<1>1. DOMAIN w = WriterParts /\ IsSequence(w.out) BY DEF Served
<1>2. /\ DOMAIN e = WriterParts /\ e.out = Append(w.out, p) /\ e.tools = w.tools
      /\ e.next = w.next
  BY <1>1 DEF Emit, WriterParts, FreshWriter
<1> HIDE DEF e
<1>3. IsSequence(Append(w.out, p)) BY <1>1, Appended
<1>4. t \o Append(w.out, p) = Append(t \o w.out, p) BY <1>1, AppendAside
<1>5. IsSequence(t \o w.out) BY <1>1, Concatenated
<1>6. Serves(Append(t \o w.out, p), w.tools, m, S) BY <1>5, ServesOther DEF Served
<1> QED BY <1>2, <1>3, <1>4, <1>6 DEF Served, e

LEMMA ServedAlike ==
  ASSUME NEW t, NEW w, NEW m, NEW S, Served(t, w, m, S),
         NEW c, DOMAIN c = WriterParts, c.out = w.out, c.tools = w.tools, c.next = w.next
  PROVE  Served(t, c, m, S)
BY DEF Served

LEMMA ClosesServed ==
  ASSUME NEW t, IsSequence(t), NEW w, NEW m, NEW S, Served(t, w, m, S)
  PROVE  Served(t, CloseText(w), m, S) /\ Served(t, CloseThinking(w), m, S)
<1> DEFINE p == Packet("block_stop", w.text, <<>>)
           q == Packet("block_stop", w.thinking, <<>>)
           e == Emit(w, p)
           f == Emit(w, q)
           c == [e EXCEPT !.text = 0]
           d == [f EXCEPT !.thinking = 0]
<1>1. ~ToolStart(p) /\ ~ToolStart(q) /\ p.kind # "delta" /\ q.kind # "delta"
  BY DEF ToolStart, Packet
<1>2. CloseText(w) \in {w, c} /\ CloseThinking(w) \in {w, d} BY DEF CloseText, CloseThinking
<1> HIDE DEF p, q
<1>3. Served(t, e, m, S) /\ Served(t, f, m, S) BY <1>1, EmitServed
<1> HIDE DEF e, f
<1>4. /\ DOMAIN c = WriterParts /\ c.out = e.out /\ c.tools = e.tools /\ c.next = e.next
      /\ DOMAIN d = WriterParts /\ d.out = f.out /\ d.tools = f.tools /\ d.next = f.next
  BY <1>3 DEF Served, WriterParts, FreshWriter
<1> HIDE DEF c, d
<1>5. Served(t, c, m, S) /\ Served(t, d, m, S) BY <1>3, <1>4, ServedAlike
<1> QED BY <1>2, <1>5

\* A block is started for an index, with nothing in it ...
LEMMA OpenServed ==
  ASSUME NEW t, IsSequence(t), NEW w, NEW m, NEW S, Served(t, w, m, S), NEW i \in ToolIndexes
  PROVE  /\ Served(t, OpenTool(w, i), m, S \cup {i})
         /\ OpenTool(w, i).tools[i] # 0
<1> DEFINE p == Packet("block_start", w.next, <<"tool">>)
           e == Emit(w, p)
           c == [e EXCEPT !.tools[i] = w.next, !.next = @ + 1]
<1>1. CASE w.tools[i] # 0
  <2>1. OpenTool(w, i) = w BY <1>1 DEF OpenTool
  <2>2. Serves(t \o w.out, w.tools, m, S \cup {i}) BY DEF Served, Serves
  <2> QED BY <1>1, <2>1, <2>2 DEF Served
<1>2. CASE w.tools[i] = 0
  <2>1. OpenTool(w, i) = c BY <1>2 DEF OpenTool
  <2>2. /\ DOMAIN w = WriterParts /\ IsSequence(w.out) /\ w.next \in Nat \ {0}
        /\ DOMAIN w.tools = ToolIndexes /\ DOMAIN m = ToolIndexes
        /\ \A j \in ToolIndexes : w.tools[j] \in 0 .. (w.next - 1) /\ IsSequence(m[j])
        /\ \A j \in ToolIndexes : w.tools[j] = 0 => m[j] = <<>>
        /\ \A j, k \in ToolIndexes : w.tools[j] = w.tools[k] /\ w.tools[j] # 0 => j = k
        /\ Serves(t \o w.out, w.tools, m, S)
    BY DEF Served
  <2>3. /\ DOMAIN e = WriterParts /\ e.out = Append(w.out, p) /\ e.tools = w.tools
        /\ e.next = w.next
    BY <2>2 DEF Emit, WriterParts, FreshWriter
  <2> HIDE DEF e
  <2>4. /\ DOMAIN c = WriterParts /\ c.out = e.out /\ c.next = e.next + 1
        /\ c.tools = [e.tools EXCEPT ![i] = w.next]
    BY <2>3 DEF WriterParts, FreshWriter
  <2> HIDE DEF c
  <2>5. /\ DOMAIN c.tools = ToolIndexes /\ c.tools[i] = w.next
        /\ \A j \in ToolIndexes : j # i => c.tools[j] = w.tools[j]
    BY <2>2, <2>3, <2>4
  <2>6. ToolStart(p) /\ p.block = w.next /\ p.block # 0 BY <2>2 DEF ToolStart, Packet
  <2>7. /\ IsSequence(Append(w.out, p)) /\ IsSequence(t \o w.out)
        /\ t \o Append(w.out, p) = Append(t \o w.out, p)
    <3>1. t \o Append(w.out, p) = Append(t \o w.out, p) BY <2>2, AppendAside
    <3>2. IsSequence(t \o w.out) BY <2>2, Concatenated
    <3>3. IsSequence(Append(w.out, p)) BY <2>2, Appended
    <3> QED BY <3>1, <3>2, <3>3
  <2> HIDE DEF p
  <2>8. Serves(Append(t \o w.out, p), c.tools, m, S \cup {i})
    BY <1>2, <2>2, <2>5, <2>6, <2>7, ServesStart
  <2>9. c.next \in Nat \ {0} /\ c.next - 1 = w.next /\ w.next \in 0 .. (c.next - 1)
        /\ \A x \in 0 .. (w.next - 1) : x \in 0 .. (c.next - 1) /\ x # w.next
    BY <2>2, <2>3, <2>4
  <2>10. ASSUME NEW j \in ToolIndexes
         PROVE  c.tools[j] \in 0 .. (c.next - 1) /\ (c.tools[j] = 0 => m[j] = <<>>)
    <3>1. CASE j = i BY <2>2, <2>5, <2>9, <3>1
    <3>2. CASE j # i BY <2>2, <2>5, <2>9, <3>2
    <3> QED BY <3>1, <3>2
  <2>11. ASSUME NEW j \in ToolIndexes, NEW k \in ToolIndexes,
                c.tools[j] = c.tools[k], c.tools[j] # 0
         PROVE  j = k
    <3>1. CASE j = i /\ k # i BY <2>2, <2>5, <2>9, <2>11, <3>1
    <3>2. CASE j # i /\ k = i BY <2>2, <2>5, <2>9, <2>11, <3>2
    <3>3. CASE j # i /\ k # i BY <2>2, <2>5, <2>11, <3>3
    <3> QED BY <3>1, <3>2, <3>3
  <2>12. t \o c.out = Append(t \o w.out, p) /\ IsSequence(c.out) BY <2>3, <2>4, <2>7
  <2>13. Serves(t \o c.out, c.tools, m, S \cup {i}) BY <2>8, <2>12
  <2>14. Served(t, c, m, S \cup {i})
    BY <2>2, <2>4, <2>5, <2>9, <2>10, <2>11, <2>12, <2>13 DEF Served
  <2> QED BY <2>1, <2>2, <2>5, <2>14
<1> QED BY <1>1, <1>2

\* ... and each piece of its arguments is a delta of that block.
LEMMA FillServed ==
  ASSUME NEW t, IsSequence(t), NEW w, NEW m, NEW S, Served(t, w, m, S),
         NEW call, call.index \in ToolIndexes, w.tools[call.index] # 0
  PROVE  Served(t, FillTool(w, call), MergeCall(m, call), S)
<1> DEFINE i == call.index
           p == Packet("delta", w.tools[i], <<call.args>>)
           e == Emit(w, p)
           more == [m EXCEPT ![i] = Append(@, call.args)]
<1>1. CASE call.args = None
  <2>1. FillTool(w, call) = w /\ MergeCall(m, call) = m BY <1>1 DEF FillTool, MergeCall
  <2> QED BY <2>1
<1>2. CASE call.args # None
  <2>1. FillTool(w, call) = e /\ MergeCall(m, call) = more BY <1>2 DEF FillTool, MergeCall
  <2>2. /\ DOMAIN w = WriterParts /\ IsSequence(w.out) /\ w.next \in Nat \ {0}
        /\ DOMAIN w.tools = ToolIndexes /\ DOMAIN m = ToolIndexes
        /\ \A j \in ToolIndexes : w.tools[j] \in 0 .. (w.next - 1) /\ IsSequence(m[j])
        /\ \A j \in ToolIndexes : w.tools[j] = 0 => m[j] = <<>>
        /\ \A j, k \in ToolIndexes : w.tools[j] = w.tools[k] /\ w.tools[j] # 0 => j = k
        /\ Serves(t \o w.out, w.tools, m, S)
    BY DEF Served
  <2>3. /\ DOMAIN e = WriterParts /\ e.out = Append(w.out, p) /\ e.tools = w.tools
        /\ e.next = w.next
    BY <2>2 DEF Emit, WriterParts, FreshWriter
  <2> HIDE DEF e
  <2>4. DOMAIN more = ToolIndexes
        /\ \A j \in ToolIndexes : more[j] = IF j = i THEN Append(m[j], call.args) ELSE m[j]
    BY <2>2
  <2> HIDE DEF more
  <2>5. p.kind = "delta" /\ p.block = w.tools[i] BY DEF Packet
  <2>6. /\ IsSequence(Append(w.out, p)) /\ IsSequence(t \o w.out)
        /\ t \o Append(w.out, p) = Append(t \o w.out, p)
    <3>1. t \o Append(w.out, p) = Append(t \o w.out, p) BY <2>2, AppendAside
    <3>2. IsSequence(t \o w.out) BY <2>2, Concatenated
    <3>3. IsSequence(Append(w.out, p)) BY <2>2, Appended
    <3> QED BY <3>1, <3>2, <3>3
  <2> HIDE DEF p
  <2>7. IsSequence(m[i]) /\ \A j \in ToolIndexes : w.tools[j] = w.tools[i] => j = i BY <2>2
  <2> DEFINE s == t \o w.out
             x == call.args
             blocks == w.tools
  <2>8. IsSequence(s) /\ Serves(s, blocks, m, S) /\ i \in ToolIndexes BY <2>2, <2>6
  <2> HIDE DEF s, x, blocks, i
  <2>9. Serves(Append(s, p), blocks, more, S)
    <3>1. \A j \in ToolIndexes : more[j] = IF j = i THEN Append(m[j], x) ELSE m[j] BY <2>4 DEF x
    <3>2. p.block = blocks[i] /\ \A j \in ToolIndexes : blocks[j] = blocks[i] => j = i
      BY <2>5, <2>7 DEF blocks
    <3> QED BY <2>5, <2>7, <2>8, <3>1, <3>2, ServesFill
  <2>10. ASSUME NEW j \in ToolIndexes
         PROVE  IsSequence(more[j]) /\ (w.tools[j] = 0 => more[j] = <<>>)
    <3>1. CASE j = i
      <4>1. more[j] = Append(m[j], call.args) /\ IsSequence(m[j]) /\ w.tools[j] # 0
        BY <2>2, <2>4, <3>1 DEF i
      <4> QED BY <4>1, Appended
    <3>2. CASE j # i
      <4>1. more[j] = m[j] BY <2>4, <3>2
      <4> QED BY <2>2, <4>1
    <3> QED BY <3>1, <3>2
  <2>11. Serves(t \o e.out, e.tools, more, S) BY <2>3, <2>6, <2>9 DEF s, blocks
  <2>12. Served(t, e, more, S) BY <2>2, <2>3, <2>4, <2>6, <2>10, <2>11 DEF Served
  <2> QED BY <2>1, <2>12 DEF i
<1> QED BY <1>1, <1>2

\* So a call is told of in the block of its index.
LEMMA CallServed ==
  ASSUME NEW t, IsSequence(t), NEW w, NEW m, NEW S, Served(t, w, m, S),
         NEW call, call.index \in ToolIndexes
  PROVE  Served(t, WriteCall(w, call), MergeCall(m, call), S \cup {call.index})
<1> DEFINE a == CloseThinking(w)
           b == CloseText(a)
           c == OpenTool(b, call.index)
<1>1. WriteCall(w, call) = FillTool(c, call) BY DEF WriteCall
<1>2. Served(t, a, m, S) BY ClosesServed
<1> HIDE DEF a
<1>3. Served(t, b, m, S) BY <1>2, ClosesServed
<1> HIDE DEF b
<1>4. Served(t, c, m, S \cup {call.index}) /\ c.tools[call.index] # 0 BY <1>3, OpenServed
<1> HIDE DEF c
<1> QED BY <1>1, <1>4, FillServed

\* What an event says of calls is what its packets say of them.
LEMMA CallsServed ==
  ASSUME NEW t, IsSequence(t), NEW w, Toolless(t, w), NEW calls, IsSequence(calls),
         \A k \in 1 .. Len(calls) : calls[k].index \in ToolIndexes
  PROVE  Served(t, WriteCalls(w, calls), Merging(calls),
                {calls[n].index : n \in 1 .. Len(calls)})
<1> DEFINE S(k) == {calls[n].index : n \in 1 .. k}
<1>1. Len(calls) \in Nat BY Bounds
<1>2. PICK f : /\ f = [k \in 0 .. Len(calls) |-> IF k = 0 THEN w ELSE WriteCall(f[k - 1], calls[k])]
               /\ WriteCalls(w, calls) = f[Len(calls)]
  BY <1>1, WriteCallsDefined
<1>3. f[0] = w BY <1>1, <1>2
<1>4. \A k \in 1 .. Len(calls) : f[k] = WriteCall(f[k - 1], calls[k]) BY <1>1, <1>2
<1>5. PICK g : /\ g[0] = EmptyMessage.calls
               /\ \A k \in 1 .. Len(calls) : g[k] = MergeCall(g[k - 1], calls[k])
               /\ Merging(calls) = g[Len(calls)]
  BY <1>1, MergedDefined DEF Merging
<1> DEFINE T == {k \in Nat : Served(t, f[k], g[k], S(k))}
<1>6. 0 \in T
  <2> DEFINE m == g[0]
             none == S(0)
  <2>1. /\ DOMAIN w = WriterParts /\ IsSequence(w.out) /\ w.next \in Nat \ {0}
        /\ w.tools = [i \in ToolIndexes |-> 0] /\ NoTools(t \o w.out)
    BY DEF Toolless
  <2>2. m = [i \in ToolIndexes |-> <<>>] BY <1>5 DEF EmptyMessage
  <2> HIDE DEF m, none
  <2>3. /\ DOMAIN m = ToolIndexes /\ DOMAIN w.tools = ToolIndexes
        /\ \A i \in ToolIndexes : m[i] = <<>> /\ w.tools[i] = 0
    BY <2>1, <2>2
  <2>4. 0 \in 0 .. (w.next - 1) BY <2>1
  <2>5. \A i \in ToolIndexes : w.tools[i] \in 0 .. (w.next - 1) /\ IsSequence(m[i])
    BY <2>3, <2>4, Empty
  <2>6. Serves(t \o w.out, w.tools, m, none) BY <2>1, ServesNothing
  <2>7. Served(t, w, m, none) BY <2>1, <2>3, <2>5, <2>6 DEF Served
  <2>8. Served(t, f[0], g[0], S(0)) BY <1>3, <2>7 DEF m, none
  <2> QED BY <2>8
<1>7. ASSUME NEW k \in 1 .. Len(calls), k - 1 \in T PROVE k \in T
  <2> DEFINE before == f[k - 1]
             m == g[k - 1]
             call == calls[k]
             R == S(k - 1)
  <2>1. Served(t, before, m, R) /\ k \in Nat BY <1>1, <1>7
  <2>2. f[k] = WriteCall(before, call) /\ g[k] = MergeCall(m, call) /\ call.index \in ToolIndexes
    BY <1>4, <1>5
  <2>3. S(k) = R \cup {call.index}
    <3>1. \A n \in 1 .. k : n \in 1 .. (k - 1) \/ n = k BY <1>1
    <3>2. \A n \in 1 .. (k - 1) : n \in 1 .. k BY <1>1
    <3>3. k \in 1 .. k BY <1>1
    <3> QED BY <3>1, <3>2, <3>3
  <2> DEFINE after == S(k)
  <2>4. after = R \cup {call.index} BY <2>3
  <2> HIDE DEF before, m, call, R, after
  <2>5. Served(t, WriteCall(before, call), MergeCall(m, call), R \cup {call.index})
    BY <2>1, <2>2, CallServed
  <2>6. Served(t, f[k], g[k], after) BY <2>2, <2>4, <2>5
  <2> QED BY <2>1, <2>6 DEF after
<1>8. \A k \in 0 .. Len(calls) : k \in T
  <2> HIDE DEF T
  <2> QED BY <1>1, <1>6, <1>7, Climb
<1>9. Len(calls) \in T
  <2>1. Len(calls) \in 0 .. Len(calls) BY <1>1
  <2> HIDE DEF T
  <2> QED BY <1>8, <2>1
<1> QED BY <1>2, <1>5, <1>9

\* The calls that were told of with arguments, and with no more than one text, fill their
\* blocks once.
LEMMA ServedOnce ==
  ASSUME NEW t, NEW w, NEW calls,
         Served(t, w, Merging(calls), {calls[n].index : n \in 1 .. Len(calls)}),
         AllArgued(calls), \A i \in ToolIndexes : Len(Merging(calls)[i]) \in {0, 1}
  PROVE  OnceFilled(t \o w.out)
<1> DEFINE s == t \o w.out
           S == {calls[n].index : n \in 1 .. Len(calls)}
           m == Merging(calls)
<1>1. Serves(s, w.tools, m, S) /\ \A i \in ToolIndexes : IsSequence(m[i]) BY DEF Served
<1>2. ASSUME NEW i \in ToolIndexes, i \in S PROVE Len(m[i]) = 1
  <2>1. PICK n \in 1 .. Len(calls) : i = calls[n].index BY <1>2
  <2>2. m[i] # <<>> BY <2>1 DEF AllArgued
  <2>3. IsSequence(m[i]) BY <1>1
  <2>4. Len(m[i]) # 0 BY <2>2, <2>3, Bounds
  <2> QED BY <2>4
<1> HIDE DEF s, S, m
<1>3. ASSUME NEW p \in 1 .. Len(s), ToolStart(s[p])
      PROVE  \E j \in 1 .. Len(s) : Fills(s, p) = {j}
  <2>1. PICK i \in ToolIndexes : i \in S /\ FilledBy(s, p, m[i]) BY <1>1, <1>3 DEF Serves
  <2>2. Len(m[i]) = 1 BY <1>2, <2>1
  <2> QED BY <2>1, <2>2 DEF FilledBy
<1> QED BY <1>3 DEF OnceFilled, s

\* An event fills the blocks of its calls once, and starts none if it has no calls.
LEMMA EventServed ==
  ASSUME NEW t, IsSequence(t), NoTools(t), NEW w, DOMAIN w = WriterParts,
         w.tools = [i \in ToolIndexes |-> 0], w.next \in Nat \ {0},
         NEW event, NEW thinking, IsSequence(event.calls),
         \A k \in 1 .. Len(event.calls) : event.calls[k].index \in ToolIndexes
  PROVE  LET n == AnthropicWrite(w, event, thinking)
             single == \A i \in ToolIndexes : Len(Merging(event.calls)[i]) \in {0, 1}
         IN  /\ event.calls = <<>> => /\ n.tools = [i \in ToolIndexes |-> 0]
                                      /\ NoTools(t \o n.out)
             /\ AllArgued(event.calls) /\ single => OnceFilled(t \o n.out)
<1> DEFINE a == [w EXCEPT !.out = <<>>, !.message = Aggregate(@, event)]
           b == StartMessage(a, event, thinking)
           c == WriteReason(b, event.reason, thinking)
           d == WriteText(c, event.text)
           e == WriteCalls(d, event.calls)
           g == WriteStop(e, event.finish)
<1>1. Toolless(t, a)
  <2>1. DOMAIN a = WriterParts /\ a.out = <<>> /\ a.tools = w.tools /\ a.next = w.next
    BY DEF WriterParts, FreshWriter
  <2> HIDE DEF a
  <2>2. t \o a.out = t /\ IsSequence(a.out) BY <2>1, EmptyAside, Empty
  <2> QED BY <2>1, <2>2 DEF Toolless
<1> HIDE DEF a
<1>2. Toolless(t, b) BY <1>1, MessageToolless
<1> HIDE DEF b
<1>3. Toolless(t, c) BY <1>2, ReasonToolless
<1> HIDE DEF c
<1>4. Toolless(t, d) BY <1>3, TextToolless
<1> HIDE DEF d
<1> DEFINE calls == event.calls
           S == {calls[n].index : n \in 1 .. Len(calls)}
<1>5. Served(t, e, Merging(calls), S) BY <1>4, CallsServed
<1>6. calls = <<>> => e = d
  <2> SUFFICES ASSUME calls = <<>> PROVE e = d OBVIOUS
  <2>1. Len(calls) = 0 /\ Len(calls) \in Nat BY Bounds
  <2>2. PICK f : /\ f = [k \in 0 .. Len(calls) |->
                            IF k = 0 THEN d ELSE WriteCall(f[k - 1], calls[k])]
                 /\ WriteCalls(d, calls) = f[Len(calls)]
    BY <2>1, WriteCallsDefined, SMTT(20)
  <2> HIDE DEF calls
  <2>3. 0 \in 0 .. Len(calls) BY <2>1
  <2>4. f[0] = d BY <2>2, <2>3
  <2> QED BY <2>1, <2>2, <2>4 DEF calls
<1> HIDE DEF e
<1>7. g.out = e.out /\ g.tools = e.tools
  <2> DEFINE s == [e EXCEPT !.stop = StopReason(event.finish)]
  <2>1. g \in {e, s} BY DEF WriteStop
  <2>2. s.out = e.out /\ s.tools = e.tools BY <1>5 DEF Served, WriterParts, FreshWriter
  <2> HIDE DEF g, s
  <2> QED BY <2>1, <2>2
<1>8. AnthropicWrite(w, event, thinking) = g BY DEF AnthropicWrite, a, b, c, d, e
<1> HIDE DEF g
<1>9. calls = <<>> => g.tools = [i \in ToolIndexes |-> 0] /\ NoTools(t \o g.out)
  BY <1>4, <1>6, <1>7 DEF Toolless
<1>10. AllArgued(calls) /\ (\A i \in ToolIndexes : Len(Merging(calls)[i]) \in {0, 1})
         => OnceFilled(t \o g.out)
  BY <1>5, <1>7, ServedOnce
<1> QED BY <1>8, <1>9, <1>10

\* A packet that starts no block of a tool and fills none
Aloof(p) == p.kind # "delta" /\ ~ToolStart(p)

\* Packets that start and fill nothing leave the tools filled as they were.
LEMMA OnceMore ==
  ASSUME NEW s, IsSequence(s), OnceFilled(s), NEW o, IsSequence(o),
         \A k \in 1 .. Len(o) : Aloof(o[k])
  PROVE  OnceFilled(s \o o)
<1> DEFINE c == s \o o
           n == Len(s)
<1>1. /\ n \in Nat /\ Len(o) \in Nat /\ Len(c) = n + Len(o)
      /\ \A k \in 1 .. n : c[k] = s[k]
      /\ \A k \in 1 .. Len(o) : c[n + k] = o[k]
  BY Bounds, Concatenated
<1> HIDE DEF c
<1>2. ASSUME NEW k \in 1 .. Len(c), k \notin 1 .. n PROVE Aloof(c[k])
  <2>1. k - n \in 1 .. Len(o) /\ n + (k - n) = k BY <1>1, <1>2
  <2>2. c[k] = o[k - n] BY <1>1, <2>1
  <2> QED BY <2>1, <2>2
<1>3. ASSUME NEW p \in 1 .. Len(c), ToolStart(c[p])
      PROVE  \E j \in 1 .. Len(c) : Fills(c, p) = {j}
  <2>1. p \in 1 .. n /\ c[p] = s[p] BY <1>1, <1>2, <1>3 DEF Aloof
  <2>2. PICK j \in 1 .. n : Fills(s, p) = {j} BY <1>3, <2>1 DEF OnceFilled
  <2>3. Fills(c, p) = Fills(s, p)
    <3>1. ASSUME NEW k \in (p + 1) .. Len(c), c[k].kind = "delta"
          PROVE  k \in (p + 1) .. n /\ c[k] = s[k]
      <4>1. k \in 1 .. Len(c) BY <1>1, <2>1
      <4>2. k \in 1 .. n BY <1>2, <3>1, <4>1 DEF Aloof
      <4> QED BY <1>1, <2>1, <4>2
    <3>2. \A k \in (p + 1) .. n : k \in (p + 1) .. Len(c) /\ c[k] = s[k] BY <1>1, <2>1
    <3> HIDE DEF n
    <3>3. Fills(s, p) = {k \in (p + 1) .. n : s[k].kind = "delta" /\ s[k].block = s[p].block}
      BY DEF Fills, n
    <3> QED BY <2>1, <3>1, <3>2, <3>3 DEF Fills
  <2>4. j \in 1 .. Len(c) BY <1>1
  <2> QED BY <2>2, <2>3, <2>4
<1> QED BY <1>3 DEF OnceFilled, c

LEMMA NoToolsOnce ==
  ASSUME NEW s, NoTools(s)
  PROVE  OnceFilled(s)
BY DEF NoTools, OnceFilled

LEMMA NoToolsAside ==
  ASSUME NEW s, IsSequence(s), NEW o, IsSequence(o)
  PROVE  NoTools(s \o o) <=> NoTools(s) /\ NoTools(o)
<1> DEFINE c == s \o o
           n == Len(s)
<1>1. /\ n \in Nat /\ Len(o) \in Nat /\ Len(c) = n + Len(o)
      /\ \A k \in 1 .. n : c[k] = s[k]
      /\ \A k \in 1 .. Len(o) : c[n + k] = o[k]
  BY Bounds, Concatenated
<1> HIDE DEF c
<1>2. ASSUME NoTools(s), NoTools(o) PROVE NoTools(c)
  <2>1. ASSUME NEW k \in 1 .. Len(c) PROVE ~ToolStart(c[k])
    <3>1. CASE k \in 1 .. n BY <1>1, <1>2, <3>1 DEF NoTools
    <3>2. CASE k \notin 1 .. n
      <4>1. k - n \in 1 .. Len(o) /\ n + (k - n) = k BY <1>1, <3>2
      <4>2. c[k] = o[k - n] BY <1>1, <4>1
      <4> QED BY <1>2, <4>1, <4>2 DEF NoTools
    <3> QED BY <3>1, <3>2
  <2> QED BY <2>1 DEF NoTools
<1>3. ASSUME NoTools(c) PROVE NoTools(s)
  <2>1. \A k \in 1 .. n : k \in 1 .. Len(c) /\ c[k] = s[k] BY <1>1
  <2> QED BY <1>3, <2>1 DEF NoTools
<1>4. ASSUME NoTools(c) PROVE NoTools(o)
  <2>1. \A k \in 1 .. Len(o) : n + k \in 1 .. Len(c) /\ c[n + k] = o[k] BY <1>1
  <2> QED BY <1>4, <2>1 DEF NoTools
<1> QED BY <1>2, <1>3, <1>4 DEF c

\* An answer that was no event stream starts no block of a tool.
LEMMA WholeToolless ==
  ASSUME Anthropic
  PROVE  IsSequence(WholePackets) /\ NoTools(WholePackets)
<1> DEFINE s == WholePackets
           a == Packet("message_start", 0, <<>>)
           b == Packet("block_start", 1, <<"text">>)
           c == Packet("delta", 1, <<"whole">>)
           d == Packet("block_stop", 1, <<>>)
           e == Packet("message_delta", 0, <<"end_turn">>)
           f == Packet("message_stop", 0, <<>>)
<1>1. s = <<a, b, c, d, e, f>> BY DEF WholePackets
<1>2. <<"text">> # <<"tool">> OBVIOUS
<1>3. \A p \in {a, b, c, d, e, f} : ~ToolStart(p) BY <1>2 DEF ToolStart, Packet
<1> HIDE DEF s, a, b, c, d, e, f
<1>4. s \in Seq({a, b, c, d, e, f}) BY <1>1
<1>5. IsSequence(s) BY <1>4, OfSet
<1>6. \A k \in 1 .. Len(s) : s[k] \in {a, b, c, d, e, f} BY <1>4
<1>7. \A k \in 1 .. Len(s) : ~ToolStart(s[k]) BY <1>3, <1>6
<1> QED BY <1>5, <1>7 DEF NoTools, s

-----------------------------------------------------------------------------
(* Nothing follows the end of a message.                                    *)

\* A message that is summed up has no open block.
Shut(v) == v.stage \in {"summed", "complete"} => v.open = {}

LEMMA SeenShut ==
  ASSUME NEW v, DOMAIN v = ViewParts, Shut(v), NEW p, Allowed(v, p)
  PROVE  Shut(See(v, p))
<1>1. CASE p.kind = "attempt" BY <1>1 DEF Shut, See, Unseen
<1>2. CASE p.kind = "message_start" BY <1>2 DEF Shut, See, ViewParts
<1>3. CASE p.kind = "block_start" BY <1>3 DEF Shut, See, ViewParts, Allowed
<1>4. CASE p.kind = "delta" BY <1>4 DEF Shut, See, ViewParts
<1>5. CASE p.kind = "block_stop" BY <1>5 DEF Shut, See, ViewParts
<1>6. CASE p.kind = "message_delta" BY <1>6 DEF Shut, See, ViewParts, Allowed
<1>7. CASE p.kind = "message_stop" BY <1>7 DEF Shut, See, ViewParts, Allowed
<1>8. CASE p.kind = "error" BY <1>8 DEF Shut, See, ViewParts
<1> QED BY <1>1, <1>2, <1>3, <1>4, <1>5, <1>6, <1>7, <1>8 DEF Allowed

\* In what was legally yielded no block is open once the message is summed up.
LEMMA ShutAfter ==
  ASSUME NEW s, IsSequence(s), Legal(s)
  PROVE  Shut(SeenAfter(s))
<1> DEFINE T == {k \in Nat : Shut(Views(s)[k])}
<1>1. Len(s) \in Nat BY Bounds
<1>2. 0 \in T
  <2>1. Shut(Unseen) BY DEF Shut, Unseen
  <2> QED BY <2>1, ViewsStep
<1>3. ASSUME NEW k \in 1 .. Len(s), k - 1 \in T PROVE k \in T
  <2>1. Views(s)[k] = See(Views(s)[k - 1], s[k]) BY ViewsStep
  <2>2. k - 1 \in 0 .. Len(s) /\ k \in Nat BY <1>1
  <2>3. DOMAIN Views(s)[k - 1] = ViewParts BY <2>2, ViewHasParts
  <2>4. Allowed(Views(s)[k - 1], s[k]) BY DEF Legal
  <2>5. Shut(Views(s)[k]) BY <1>3, <2>1, <2>3, <2>4, SeenShut
  <2> QED BY <2>2, <2>5
<1>4. \A k \in 0 .. Len(s) : k \in T
  <2> HIDE DEF T
  <2> QED BY <1>1, <1>2, <1>3, Climb
<1>5. Len(s) \in 0 .. Len(s) BY <1>1
<1> QED BY <1>4, <1>5 DEF SeenAfter

\* A message that is completed is the last of the stream.
LEMMA NothingAfter ==
  ASSUME NEW s, IsSequence(s), NEW t, IsSequence(t), Legal(s \o t),
         SeenAfter(s).stage = "complete"
  PROVE  t = <<>>
<1> SUFFICES ASSUME t # <<>> PROVE FALSE OBVIOUS
<1> DEFINE v == SeenAfter(s)
           p == Head(t)
<1>1. Legal(s) /\ Allowed(v, p) BY LegalBefore
<1>2. Shut(v) /\ v.stage = "complete" BY <1>1, ShutAfter
<1> HIDE DEF v, p
<1>3. v.open = {} BY <1>2 DEF Shut
<1> QED BY <1>1, <1>2, <1>3 DEF Allowed

-----------------------------------------------------------------------------
(* The invariant of the calls                                               *)

\* The message of the last chunk
LastMessage == IF upstream = <<>> THEN <<>> ELSE upstream[Len(upstream)].message

\* Until the answer is finished nothing is told of a call; what the merged answer says of one
\* are the whole arguments or an empty object; and a tool that requires no arguments was named
\* in the last chunk, unless the fragments of its call are a document.
CallKnown ==
  /\ phase \in {"opening", "waiting", "first", "reading", "collecting"} =>
       Uncalled(choice) /\ Calm(choice) /\ writer.message.calls = EmptyMessage.calls
  /\ \A i \in ToolIndexes :
       choice.tools[i].name = EagerTool => NamedLast(i) \/ Complete(choice.tools[i].buffer)
  /\ ~IndexRepeated =>
       \A i \in ToolIndexes :
         ToldRight(writer.message.calls[i], choice.tools[i], LastMessage, i)

\* In the packets of /v1/messages no block of a tool is started before that either, and each is
\* filled once, in an answer that waits for its calls.  What waits when a handler is left is
\* lost, a filling as well, but then the message was not completed.
CallStreamed ==
  /\ phase \in {"first", "reading"} => writer.tools = [i \in ToolIndexes |-> 0]
  /\ (phase \in {"opening", "waiting", "failing", "first", "reading"}
        \/ (phase = "read" /\ ~writer.meant)) => NoTools(Yielded)
  /\ ~IndexRepeated /\ ~CutShort /\ (phase # "ended" \/ SeenAfter(Yielded).stage = "complete") =>
       OnceFilled(Yielded)
  /\ phase = "ended" => outbox = <<>>

CallInvariant == CallKnown /\ (Watched => CallStreamed)

LEMMA CallNothing ==
  ASSUME NEW calls, calls = EmptyMessage.calls
  PROVE  calls = Merging(<<>>) /\ \A i \in ToolIndexes : calls[i] = <<>>
<1>1. EmptyMessage.calls = [i \in ToolIndexes |-> <<>>] BY DEF EmptyMessage
<1> QED BY <1>1, MergingNothing

\* No call was told of.
LEMMA CallFresh ==
  ASSUME Uncalled(choice)', Calm(choice)', writer'.message.calls = EmptyMessage.calls
  PROVE  CallKnown'
<1>1. \A i \in ToolIndexes : writer'.message.calls[i] = <<>> BY CallNothing
<1> QED BY <1>1 DEF CallKnown, ToldRight, Calm

\* What is known stays, where nothing is read.
LEMMA CallSame ==
  ASSUME CallKnown, upstream' = upstream, choice' = choice,
         writer'.message.calls = writer.message.calls,
         \/ phase' \notin {"opening", "waiting", "first", "reading", "collecting"}
         \/ phase \in {"opening", "waiting", "first", "reading", "collecting"}
  PROVE  CallKnown'
<1>1. IndexRepeated' = IndexRepeated /\ LastMessage' = LastMessage
  BY DEF IndexRepeated, LastMessage
<1>2. ASSUME phase \in {"opening", "waiting", "first", "reading", "collecting"}
      PROVE  Uncalled(choice)' /\ Calm(choice)' /\ writer'.message.calls = EmptyMessage.calls
  <2>1. Uncalled(choice) /\ Calm(choice) /\ writer.message.calls = EmptyMessage.calls
    BY <1>2 DEF CallKnown
  <2>2. Uncalled(choice') /\ Calm(choice') BY <2>1
  <2> QED BY <2>1, <2>2
<1>3. \A i \in ToolIndexes : NamedLast(i)' <=> NamedLast(i) BY DEF NamedLast
<1> QED BY <1>1, <1>2, <1>3 DEF CallKnown

\* Upstream names a call in its first piece.
LEMMA FollowsNamed ==
  ASSUME NEW chunk \in Chunks, Follows(chunk)
  PROVE  NamedFirst(chunk.calls)
<1>1. DOMAIN chunk.calls = 1 .. Len(chunk.calls) /\ Len(chunk.calls) \in Nat
  BY StreamAssumption, Bounds
<1>2. ASSUME NEW k \in 1 .. Len(chunk.calls), chunk.calls[k].name # NoTool,
             NEW j \in 1 .. (k - 1)
      PROVE  chunk.calls[j].index # chunk.calls[k].index
  <2>1. chunk.calls[k].index \notin {chunk.calls[n].index : n \in 1 .. (k - 1)}
    BY <1>1, <1>2 DEF Follows
  <2> QED BY <2>1
<1> QED BY <1>2 DEF NamedFirst

\* What a chunk says of calls is merged, and right.
LEMMA CallChunk ==
  ASSUME TextInvariant, CallKnown, NEW chunk \in Chunks, Follows(chunk),
         phase \in {"first", "reading", "collecting"},
         upstream' = Append(upstream, chunk), choice' = NormalizeChoice(choice, chunk).choice,
         writer'.message.calls = IF Kept(NormalizeChoice(choice, chunk).event)
                                 THEN MergeCalls(writer.message.calls,
                                                 NormalizeChoice(choice, chunk).event.calls)
                                 ELSE writer.message.calls,
         phase' \in {"opening", "waiting", "first", "reading", "collecting"} =>
            NormalizeChoice(choice, chunk).event.finish = None
  PROVE  CallKnown' /\ CallsEnd(chunk, NormalizeChoice(choice, chunk))
<1> DEFINE one == NormalizeChoice(choice, chunk)
           calls == one.event.calls
<1>1. IsSequence(upstream) /\ Holds(choice) BY DEF TextInvariant, TextParts
<1>2. Uncalled(choice) /\ writer.message.calls = EmptyMessage.calls BY DEF CallKnown
<1>3. CallsEnd(chunk, one) BY <1>1, <1>2, EventCalls
<1>11. CallsNamed(chunk, one)
  <2>1. Calm(choice) BY DEF CallKnown
  <2> QED BY <1>1, <1>2, <2>1, FollowsPlaced, EventNames
<1>4. writer'.message.calls = Merging(calls)
  <2>1. CASE Kept(one.event) BY <1>2, <2>1 DEF Merging
  <2>2. CASE ~Kept(one.event)
    <3>1. calls = <<>> BY <2>2 DEF Kept
    <3>2. writer'.message.calls = EmptyMessage.calls BY <1>2, <2>2
    <3> QED BY <3>1, <3>2, CallNothing
  <2> QED BY <2>1, <2>2
<1> HIDE DEF one, calls
<1>5. upstream' # <<>> /\ upstream'[Len(upstream')] = chunk
  <2>1. /\ IsSequence(upstream') /\ Len(upstream') = Len(upstream) + 1
        /\ upstream'[Len(upstream) + 1] = chunk
    BY <1>1, Appended
  <2>2. Len(upstream) \in Nat BY <1>1, Bounds
  <2>3. Len(upstream') # 0 BY <2>1, <2>2
  <2> QED BY <2>1, <2>3, Bounds
<1>6. LastMessage' = chunk.message BY <1>5 DEF LastMessage
<1>7. IndexRepeated' <=> Repeated(chunk.message) BY <1>5 DEF IndexRepeated, Repeated
<1>8. ASSUME ~IndexRepeated', NEW i \in ToolIndexes
      PROVE  ToldRight(writer'.message.calls[i], choice'.tools[i], LastMessage', i)
  <2>1. ToldRight(Merging(calls)[i], one.choice.tools[i], chunk.message, i)
    BY <1>3, <1>7, <1>8, FollowsNamed DEF CallsEnd, calls
  <2> QED BY <1>4, <1>6, <2>1 DEF one
<1>9. ASSUME phase' \in {"opening", "waiting", "first", "reading", "collecting"}
      PROVE  Uncalled(choice)' /\ Calm(choice)' /\ writer'.message.calls = EmptyMessage.calls
  <2>1. Uncalled(one.choice) /\ Calm(one.choice) /\ calls = <<>>
    BY <1>3, <1>9, <1>11 DEF CallsEnd, CallsNamed, one, calls
  <2>2. Uncalled(choice') /\ Calm(choice') BY <2>1 DEF one
  <2>3. Merging(<<>>) = EmptyMessage.calls BY CallNothing
  <2> QED BY <1>4, <2>1, <2>2, <2>3
<1>12. ASSUME NEW i \in ToolIndexes, choice'.tools[i].name = EagerTool
       PROVE  NamedLast(i)' \/ Complete(choice'.tools[i].buffer)
  <2>1. Names(Given(chunk), i) \/ Complete(one.choice.tools[i].buffer)
    BY <1>11, <1>12 DEF CallsNamed, one
  <2>2. Names(Given(chunk), i) => NamedLast(i)' BY <1>5 DEF Names, NamedLast
  <2> QED BY <2>1, <2>2 DEF one
<1>10. CallKnown' BY <1>8, <1>9, <1>12 DEF CallKnown
<1> QED BY <1>3, <1>10 DEF one

LEMMA ServedToolless ==
  ASSUME NoTools(Yielded'),
         phase' \in {"first", "reading"} => writer'.tools = [i \in ToolIndexes |-> 0],
         phase' = "ended" => outbox' = <<>>
  PROVE  CallStreamed'
<1>1. OnceFilled(Yielded') BY NoToolsOnce
<1> QED BY <1>1 DEF CallStreamed

\* An error and the mark of another attempt start no block of a tool.
LEMMA OneToolless ==
  ASSUME NEW s, IsSequence(s), NoTools(s)
  PROVE  /\ NoTools(Append(s, ErrorPacket)) /\ NoTools(Append(s, Packet("attempt", 0, <<>>)))
         /\ NoTools(<<ErrorPacket>>)
<1>1. ~ToolStart(ErrorPacket) /\ ~ToolStart(Packet("attempt", 0, <<>>))
  BY DEF ToolStart, ErrorPacket, Packet
<1>2. NoTools(<<ErrorPacket>>)
  <2>1. Len(<<ErrorPacket>>) = 1 /\ <<ErrorPacket>>[1] = ErrorPacket BY One
  <2> QED BY <1>1, <2>1 DEF NoTools
<1> QED BY <1>1, <1>2, NoToolsMore

\* An answer that has arrived is handed on: nothing is told of calls.
LEMMA CallHanded ==
  ASSUME request' = request, NEW kind \in Kinds, NEW before, Handles(kind, before)
  PROVE  /\ CallKnown'
         /\ Watched /\ IsSequence(client) /\ client' = client /\ IsSequence(before)
              /\ NoTools(client \o before) => CallStreamed'
<1>1. /\ upstream' = <<>> /\ choice' = FreshChoice
      /\ writer' = [FreshWriter EXCEPT !.refused = kind = "error", !.unread = kind = "unread",
                                      !.said = IF kind = "whole" THEN <<"whole">> ELSE <<>>]
  BY DEF Handles, NewAnswer
<1>2. writer'.message = EmptyMessage /\ writer'.tools = [i \in ToolIndexes |-> 0]
  BY <1>1 DEF FreshWriter
<1>3. Uncalled(choice') /\ Calm(choice') BY <1>1, FreshUncalled, FreshCalm
<1>4. CallKnown' BY <1>2, <1>3, CallFresh
<1>5. ASSUME Watched, IsSequence(client), client' = client, IsSequence(before),
             NoTools(client \o before)
      PROVE  CallStreamed'
  <2>1. AnthropicHandles(kind, before) BY <1>5 DEF Handles, Watched
  <2>2. \/ phase' = "first" /\ outbox' = before
        \/ phase' = "replaying" /\ outbox' = before \o WholePackets
        \/ phase' = "replaying" /\ outbox' = Append(before, ErrorPacket)
        \/ phase' = "ended" /\ outbox' = <<>>
    BY <2>1 DEF AnthropicHandles
  <2>3. NoTools(Yielded')
    <3>1. CASE outbox' = before BY <1>5, <3>1 DEF Yielded
    <3>2. CASE outbox' = before \o WholePackets
      <4> DEFINE o == WholePackets
      <4>1. IsSequence(o) /\ NoTools(o) BY <1>5, WholeToolless DEF Watched
      <4>2. outbox' = before \o o BY <3>2
      <4> HIDE DEF o
      <4>3. IsSequence(client \o before) BY <1>5, Concatenated
      <4>4. NoTools((client \o before) \o o) BY <1>5, <4>1, <4>3, NoToolsAside
      <4>5. (client \o before) \o o = client \o (before \o o) BY <1>5, <4>1, Associative
      <4> QED BY <1>5, <4>2, <4>4, <4>5 DEF Yielded
    <3>3. CASE outbox' = Append(before, ErrorPacket)
      <4>1. IsSequence(client \o before) BY <1>5, Concatenated
      <4>2. client \o Append(before, ErrorPacket) = Append(client \o before, ErrorPacket)
        BY <1>5, AppendAside
      <4>3. NoTools(Append(client \o before, ErrorPacket)) BY <1>5, <4>1, OneToolless
      <4> QED BY <1>5, <3>3, <4>2, <4>3 DEF Yielded
    <3>4. CASE outbox' = <<>>
      <4>1. NoTools(client) BY <1>5, NoToolsAside
      <4>2. Yielded' = client BY <1>5, <3>4, EmptyAside DEF Yielded
      <4> QED BY <4>1, <4>2
    <3> QED BY <2>2, <3>1, <3>2, <3>3, <3>4
  <2>4. phase' = "ended" => outbox' = <<>> BY <2>2
  <2> QED BY <1>2, <2>3, <2>4, ServedToolless
<1> QED BY <1>4, <1>5

\* The answer of upstream is there, or fails, before anything was yielded.
LEMMA CallOpening ==
  ASSUME StreamInvariant, TextInvariant, CallInvariant, NEW kind \in Kinds,
         OpenedInTime(kind) \/ WaitingIsOver(kind)
  PROVE  CallInvariant'
<1>1. /\ phase \in {"opening", "waiting"} /\ request' = request
  BY DEF OpenedInTime, WaitingIsOver
<1>2. client = <<>> /\ outbox = <<>> /\ IsSequence(client) BY <1>1, NothingYielded
<1>3. Watched' = Watched BY <1>1 DEF Watched, Anthropic
<1>4. NoTools(<<>>) BY Empty DEF NoTools
<1>5. ASSUME NEW next \in Kinds, Handles(next, <<>>), client' = client PROVE CallInvariant'
  <2> DEFINE none == <<>>
  <2>1. client \o none = none /\ IsSequence(none) /\ NoTools(none) BY <1>2, <1>4, Empty, EmptyAside
  <2>2. Handles(next, none) BY <1>5
  <2> HIDE DEF none
  <2>3. CallKnown' /\ (Watched => CallStreamed') BY <1>1, <1>2, <1>5, <2>1, <2>2, CallHanded
  <2> QED BY <1>3, <2>3 DEF CallInvariant
<1>6. ASSUME \/ client' = <<ErrorPacket>> /\ outbox' = <<>>
             \/ client' = <<>> /\ outbox' = <<ErrorPacket>> /\ phase' # "ended",
             phase' \in {"failing", "ended"}, SameAnswer
      PROVE  CallInvariant'
  <2>1. IsSequence(<<ErrorPacket>>) BY One
  <2>2. Yielded' = <<ErrorPacket>> BY <1>6, <2>1, EmptyAside DEF Yielded
  <2>3. NoTools(<<ErrorPacket>>) BY <1>4, Empty, OneToolless
  <2>4. CallStreamed' BY <1>6, <2>2, <2>3, ServedToolless
  <2>5. CallKnown' BY <1>6, CallSame DEF CallInvariant, SameAnswer
  <2> QED BY <2>4, <2>5 DEF CallInvariant
<1>7. CASE OpenedInTime(kind)
  <2>1. CASE kind \in {"error", "none"}
    <3>1. FailOpening BY <1>7, <2>1 DEF OpenedInTime
    <3> QED BY <1>2, <1>6, <3>1 DEF FailOpening
  <2>2. CASE kind \notin {"error", "none"}
    <3>1. Handles(kind, <<>>) /\ client' = client BY <1>7, <2>2 DEF OpenedInTime
    <3> QED BY <1>5, <3>1
  <2> QED BY <2>1, <2>2
<1>8. CASE WaitingIsOver(kind)
  <2>1. client' = client BY <1>8 DEF WaitingIsOver
  <2>2. CASE FailWaiting BY <1>2, <1>6, <2>1, <2>2 DEF FailWaiting
  <2>3. ASSUME NEW next \in Kinds, Delegate(next) PROVE CallInvariant'
    BY <1>5, <2>1, <2>3 DEF Delegate
  <2> QED BY <1>8, <2>2, <2>3 DEF WaitingIsOver
<1> QED BY <1>7, <1>8

\* What was yielded stays, and it is known not to start the block of a tool ...
LEMMA CallWaiting ==
  ASSUME StreamInvariant, TextInvariant, CallInvariant, GraceElapses \/ ReadOther \/ StreamEnds
  PROVE  CallInvariant'
<1>1. /\ phase \in {"opening", "first", "reading"} /\ phase' \in {"waiting", "reading", "read"}
      /\ phase' \in {"first", "reading"} => phase \in {"first", "reading"}
      /\ request' = request /\ upstream' = upstream /\ choice' = choice /\ client' = client
      /\ Anthropic => writer' = writer /\ outbox' = outbox
      /\ writer' \in {writer, [writer EXCEPT !.failed = TRUE], [writer EXCEPT !.any = TRUE]}
  BY DEF GraceElapses, ReadOther, StreamEnds, Reading, SameAnswer
<1>2. Watched' = Watched BY <1>1 DEF Watched, Anthropic
<1>3. writer'.message = writer.message
  BY <1>1 DEF TextInvariant, TextParts, WriterParts, FreshWriter
<1>4. CallKnown' BY <1>1, <1>3, CallSame DEF CallInvariant
<1>5. ASSUME Watched PROVE CallStreamed'
  <2>1. Yielded' = Yielded /\ writer' = writer BY <1>1, <1>5 DEF Yielded, Watched
  <2>2. CallStreamed BY <1>5 DEF CallInvariant
  <2> QED BY <1>1, <2>1, <2>2, ServedToolless DEF CallStreamed
<1> QED BY <1>2, <1>4, <1>5 DEF CallInvariant

\* ... or stays, and is filled as it should.
LEMMA CallSameYield ==
  ASSUME CallInvariant, request' = request, upstream' = upstream, choice' = choice,
         writer' = writer, phase # "ended",
         Watched => Yielded' = Yielded,
         \/ phase' = phase
         \/ phase' \in {"closing", "replaying"}
         \/ phase' = "ended" /\ (Watched => outbox' = <<>>)
  PROVE  CallInvariant'
<1>1. Watched' = Watched BY DEF Watched, Anthropic
<1>2. CallKnown' BY CallSame DEF CallInvariant
<1>3. ASSUME Watched PROVE CallStreamed'
  <2>1. CallStreamed /\ Yielded' = Yielded BY <1>3 DEF CallInvariant
  <2>2. IndexRepeated' = IndexRepeated /\ CutShort' = CutShort BY DEF IndexRepeated, CutShort
  <2>3. phase' \in {"first", "reading"} => writer'.tools = [i \in ToolIndexes |-> 0]
    <3>1. phase' \in {"first", "reading"} => phase \in {"first", "reading"} OBVIOUS
    <3> QED BY <2>1, <3>1 DEF CallStreamed
  <2>4. (phase' \in {"opening", "waiting", "failing", "first", "reading"}
           \/ (phase' = "read" /\ ~writer'.meant)) => NoTools(Yielded')
    <3>1. \/ phase' = phase
          \/ phase' \notin {"opening", "waiting", "failing", "first", "reading", "read"}
      OBVIOUS
    <3> QED BY <2>1, <3>1 DEF CallStreamed
  <2>5. ~IndexRepeated' /\ ~CutShort' => OnceFilled(Yielded') BY <2>1, <2>2 DEF CallStreamed
  <2>6. phase' = "ended" => outbox' = <<>> BY <1>3
  <2> QED BY <2>3, <2>4, <2>5, <2>6 DEF CallStreamed
<1> QED BY <1>1, <1>2, <1>3 DEF CallInvariant

\* What waits is sent, or the handler ends.
LEMMA CallEnding ==
  ASSUME StreamInvariant, TextInvariant, CallInvariant,
         HandlerEnds \/ WaitingEnds \/ Replayed \/ Deliver
  PROVE  CallInvariant'
<1>1. /\ phase \in {"reading", "read", "closing", "replaying", "failing"}
      /\ request' = request /\ upstream' = upstream /\ choice' = choice /\ writer' = writer
      /\ \/ phase' = phase \/ phase' \in {"closing", "replaying"}
         \/ phase' = "ended" /\ outbox' = <<>>
      /\ \/ client' = client /\ outbox' = outbox
         \/ outbox # <<>> /\ client' = Append(client, Head(outbox)) /\ outbox' = Tail(outbox)
  BY DEF HandlerEnds, WaitingEnds, Replayed, Deliver, Sending, SameAnswer
<1>2. IsSequence(client) /\ IsSequence(outbox) BY DEF TextInvariant, TextParts
<1>3. Yielded' = Yielded
  <2>1. CASE client' = client /\ outbox' = outbox BY <2>1 DEF Yielded
  <2>2. CASE outbox # <<>> /\ client' = Append(client, Head(outbox)) /\ outbox' = Tail(outbox)
    <3>1. client' \o outbox' = client \o outbox BY <1>2, <2>2, Sent1
    <3> QED BY <3>1 DEF Yielded
  <2> QED BY <1>1, <2>1, <2>2
<1> QED BY <1>1, <1>3, CallSameYield

\* A handler that is left: what waits is lost.
LEMMA CallDropped ==
  ASSUME StreamInvariant, TextInvariant, CallInvariant, ReadFails \/ ClientLeaves
  PROVE  CallInvariant'
<1>1. /\ phase' = "ended" /\ outbox' = <<>> /\ request' = request /\ client' = client
      /\ upstream' = upstream /\ choice' = choice /\ writer' = writer
      /\ phase \in {"first", "reading", "replaying", "waiting", "failing", "read", "closing"}
  BY DEF ReadFails, ClientLeaves, Reading, SameAnswer
<1>2. Watched' = Watched BY <1>1 DEF Watched, Anthropic
<1>3. CallKnown' BY <1>1, CallSame DEF CallInvariant
<1>4. ASSUME Watched PROVE CallStreamed'
  <2>1. IsSequence(client) /\ IsSequence(outbox) BY DEF TextInvariant, TextParts
  <2>2. Yielded' = client BY <1>1, <2>1, EmptyAside DEF Yielded
  <2>3. Legal(client \o outbox) BY <1>1, <1>4 DEF StreamInvariant, AnswerKnown, Yielded
  <2>4. SeenAfter(client).stage = "complete" => Yielded = client
    BY <2>1, <2>3, NothingAfter, EmptyAside DEF Yielded
  <2>5. CallStreamed BY <1>4 DEF CallInvariant
  <2>6. IndexRepeated' = IndexRepeated /\ CutShort' = CutShort
    BY <1>1 DEF IndexRepeated, CutShort
  <2>7. SeenAfter(client).stage = "complete" /\ ~IndexRepeated /\ ~CutShort => OnceFilled(client)
    BY <1>1, <2>4, <2>5 DEF CallStreamed
  <2> QED BY <1>1, <2>2, <2>6, <2>7 DEF CallStreamed
<1> QED BY <1>2, <1>3, <1>4 DEF CallInvariant

\* What is read of an event stream: the message collects the calls of each event, and what is
\* yielded are the packets of the event.
LEMMA ChunkWritten ==
  ASSUME StreamInvariant, TextInvariant, NEW chunk \in Chunks, ReadChunk(chunk)
  PROVE  LET event == NormalizeChoice(choice, chunk).event
             n == AnthropicWrite(writer, event, Thinking)
         IN  /\ request.stream /\ Says(event)
             /\ \A k \in 1 .. Len(event.calls) : event.calls[k].index \in ToolIndexes
             /\ writer'.message.calls = IF Kept(event)
                                        THEN MergeCalls(writer.message.calls, event.calls)
                                        ELSE writer.message.calls
             /\ Anthropic /\ Kept(event) =>
                  /\ IsSequence(n.out) /\ Yielded' = Yielded \o n.out
                  /\ writer'.tools = n.tools /\ writer'.meant = n.meant
                  /\ (writer.started => writer.meant) /\ ~n.meant => ~Means(event, Thinking)
             /\ ~Kept(event) => /\ writer'.tools = writer.tools /\ writer'.meant = writer.meant
                               /\ Yielded' = Yielded
<1> DEFINE one == NormalizeChoice(choice, chunk)
           event == one.event
           next == IF Kept(event) THEN Written(event) ELSE writer
           more == Sent(Append(upstream, chunk))
           said == LastRead(Yielded)
<1>1. /\ phase \in {"first", "reading"} /\ Fits(event)
      /\ writer' = [next EXCEPT !.out = <<>>] /\ outbox' = outbox \o next.out
      /\ client' = client
  BY DEF ReadChunk, Reading
<1>2. request.stream BY <1>1, ReadingKnown
<1>3. IsSequence(client) /\ IsSequence(outbox) /\ DOMAIN writer = WriterParts /\ writer.out = <<>>
  BY DEF TextInvariant, TextParts
<1>4. /\ Says(event) /\ Argued(event.calls) /\ Words(event.reason) = <<>>
      /\ \A k \in 1 .. Len(event.calls) : event.calls[k].index \in ToolIndexes
      /\ Merged(Aggregate(writer.message, event))
      /\ Begins(said \o Words(event.text), more) /\ Speaks(Yielded, said, more)
      /\ IsSequence(Yielded)
  BY <1>1, <1>2, ChunkHeard
<1> HIDE DEF one, event, more, said
<1>5. Aggregate(writer.message, event).calls = MergeCalls(writer.message.calls, event.calls)
  BY DEF Aggregate
<1>6. CASE Kept(event) /\ Anthropic
  <2> DEFINE n == AnthropicWrite(writer, event, Thinking)
  <2>1. next = n BY <1>6 DEF Written
  <2>2. /\ IsSequence(event.text) /\ IsSequence(event.calls)
        /\ \A k \in 1 .. Len(event.calls) : event.calls[k].args \in Args
    BY <1>4 DEF Says, Argued
  <2>3. /\ DOMAIN n = WriterParts /\ IsSequence(n.out)
        /\ n.message = Aggregate(writer.message, event)
        /\ (writer.started => writer.meant) /\ ~n.meant => ~Means(event, Thinking)
    BY <1>3, <1>4, <2>2, EventUttered
  <2> HIDE DEF n, next
  <2>4. writer' = [n EXCEPT !.out = <<>>] BY <1>1, <2>1
  <2>5. writer'.message = n.message /\ writer'.tools = n.tools /\ writer'.meant = n.meant
    BY <2>3, <2>4 DEF WriterParts, FreshWriter
  <2>6. Yielded' = Yielded \o n.out
    <3> DEFINE o == n.out
    <3>1. IsSequence(o) /\ outbox' = outbox \o o BY <1>1, <2>1, <2>3
    <3> HIDE DEF o
    <3>2. Yielded' = Yielded \o o BY <1>1, <1>3, <3>1, YieldedMore
    <3> QED BY <3>2 DEF o
  <2> QED BY <1>2, <1>4, <1>5, <1>6, <2>3, <2>5, <2>6 DEF event, one, n
<1>7. CASE Kept(event) /\ ~Anthropic
  <2> DEFINE n == GeminiWrite(writer, event)
  <2>1. next = n BY <1>7 DEF Written
  <2>2. IsSequence(event.text) /\ ArgsTold(Aggregate(writer.message, event).calls)
    BY <1>4 DEF Says, Merged
  <2>3. DOMAIN n = WriterParts /\ n.message = Aggregate(writer.message, event)
    BY <1>3, <1>4, <2>2, EventTold
  <2> HIDE DEF n, next
  <2>4. writer' = [n EXCEPT !.out = <<>>] BY <1>1, <2>1
  <2>5. writer'.message = n.message BY <2>3, <2>4 DEF WriterParts, FreshWriter
  <2> QED BY <1>2, <1>4, <1>5, <1>7, <2>3, <2>5 DEF event, one
<1>8. CASE ~Kept(event)
  <2>1. writer' = [writer EXCEPT !.out = <<>>] /\ outbox' = outbox \o <<>> BY <1>1, <1>3, <1>8
  <2>2. outbox' = outbox BY <1>3, <2>1, EmptyAside
  <2>3. /\ writer'.message = writer.message /\ writer'.tools = writer.tools
        /\ writer'.meant = writer.meant
    BY <1>3, <2>1 DEF WriterParts, FreshWriter
  <2>4. Yielded' = Yielded BY <1>1, <2>2 DEF Yielded
  <2> QED BY <1>2, <1>4, <1>8, <2>3, <2>4 DEF event, one
<1> QED BY <1>6, <1>7, <1>8

\* A chunk that is read: no call is told of before the event that is finished, and that one
\* starts a block for each call and fills it once.
LEMMA CallReading ==
  ASSUME StreamInvariant, TextInvariant, CallInvariant, NEW chunk \in Chunks, ReadChunk(chunk)
  PROVE  CallInvariant'
<1> DEFINE one == NormalizeChoice(choice, chunk)
           event == one.event
           n == AnthropicWrite(writer, event, Thinking)
<1>1. /\ phase \in {"first", "reading"} /\ Follows(chunk)
      /\ upstream' = Append(upstream, chunk) /\ choice' = one.choice
      /\ phase' = (IF event.finish # None THEN "read" ELSE "reading")
      /\ request' = request
  BY DEF ReadChunk, Reading
<1>2. /\ request.stream /\ Says(event)
      /\ \A k \in 1 .. Len(event.calls) : event.calls[k].index \in ToolIndexes
      /\ writer'.message.calls = (IF Kept(event)
                                  THEN MergeCalls(writer.message.calls, event.calls)
                                  ELSE writer.message.calls)
      /\ Anthropic /\ Kept(event) =>
           /\ IsSequence(n.out) /\ Yielded' = Yielded \o n.out
           /\ writer'.tools = n.tools /\ writer'.meant = n.meant
           /\ (writer.started => writer.meant) /\ ~n.meant => ~Means(event, Thinking)
      /\ ~Kept(event) => /\ writer'.tools = writer.tools /\ writer'.meant = writer.meant
                         /\ Yielded' = Yielded
  BY ChunkWritten
<1>3. phase' \in {"opening", "waiting", "first", "reading", "collecting"} => event.finish = None
  BY <1>1
<1>4. CallKnown' /\ CallsEnd(chunk, one)
  <2>1. CallKnown BY DEF CallInvariant
  <2> QED BY <1>1, <1>2, <1>3, <2>1, CallChunk
<1>5. upstream' # <<>> /\ upstream'[Len(upstream')] = chunk
  <2>1. IsSequence(upstream) BY DEF TextInvariant, TextParts
  <2>2. /\ IsSequence(upstream') /\ Len(upstream') = Len(upstream) + 1
        /\ upstream'[Len(upstream) + 1] = chunk
    BY <1>1, <2>1, Appended
  <2>3. Len(upstream) \in Nat BY <2>1, Bounds
  <2>4. Len(upstream') # 0 BY <2>2, <2>3
  <2> QED BY <2>2, <2>4, Bounds
<1>6. ~IndexRepeated' /\ ~CutShort' => ~Repeated(chunk.message) /\ Patient(chunk)
  BY <1>5 DEF IndexRepeated, CutShort, Repeated, Patient
<1>7. NamedFirst(chunk.calls) BY <1>1, FollowsNamed
<1> HIDE DEF n, one, event
<1>8. event.finish = None => event.calls = <<>>
  <2>1. CallsEnd(chunk, one) BY <1>4
  <2> QED BY <2>1 DEF CallsEnd, event
<1>9. ~IndexRepeated' /\ ~CutShort' =>
        AllArgued(event.calls) /\ \A i \in ToolIndexes : Len(Merging(event.calls)[i]) \in {0, 1}
  <2> SUFFICES ASSUME ~IndexRepeated' /\ ~CutShort'
               PROVE  AllArgued(event.calls)
                      /\ \A i \in ToolIndexes : Len(Merging(event.calls)[i]) \in {0, 1}
    OBVIOUS
  <2>1. /\ \A i \in ToolIndexes :
             ToldRight(Merging(event.calls)[i], one.choice.tools[i], chunk.message, i)
        /\ AllArgued(event.calls)
    BY <1>4, <1>6, <1>7 DEF CallsEnd, event
  <2>2. ASSUME NEW i \in ToolIndexes PROVE Len(Merging(event.calls)[i]) \in {0, 1}
    <3>1. Merging(event.calls)[i] \in {<<>>, <<"whole">>, <<"empty">>} BY <2>1 DEF ToldRight
    <3>2. Len(<<"whole">>) = 1 /\ Len(<<"empty">>) = 1 BY One
    <3>3. Len(<<>>) = 0 BY Empty
    <3> QED BY <3>1, <3>2, <3>3
  <2> QED BY <2>1, <2>2
<1>10. ASSUME Watched PROVE CallStreamed'
  <2>1. Anthropic BY <1>10 DEF Watched
  <2>2. /\ IsSequence(Yielded) /\ DOMAIN writer = WriterParts
        /\ Matches(writer, SeenAfter(Yielded), 2 * Len(upstream))
    BY <1>1, <1>10, ReadingKnown
  <2>3. writer.next \in Nat \ {0} /\ (writer.started => writer.meant) BY <2>2 DEF Matches
  <2>4. writer.tools = [i \in ToolIndexes |-> 0] /\ NoTools(Yielded)
    BY <1>1, <1>10 DEF CallInvariant, CallStreamed
  <2>5. phase' # "ended" BY <1>1
  <2>6. CASE ~Kept(event)
    <3>1. writer'.tools = [i \in ToolIndexes |-> 0] /\ NoTools(Yielded') BY <1>2, <2>4, <2>6
    <3> QED BY <2>5, <3>1, ServedToolless
  <2>7. CASE Kept(event)
    <3>1. /\ Yielded' = Yielded \o n.out /\ writer'.tools = n.tools /\ writer'.meant = n.meant
          /\ ~n.meant => ~Means(event, Thinking)
      BY <1>2, <2>1, <2>3, <2>7
    <3>2. IsSequence(event.calls) BY <1>2 DEF Says
    <3>3. /\ event.calls = <<>> => /\ n.tools = [i \in ToolIndexes |-> 0]
                                   /\ NoTools(Yielded \o n.out)
          /\ AllArgued(event.calls)
               /\ (\A i \in ToolIndexes : Len(Merging(event.calls)[i]) \in {0, 1})
             => OnceFilled(Yielded \o n.out)
      BY <1>2, <2>2, <2>3, <2>4, <3>2, EventServed DEF n
    <3>4. CASE event.calls = <<>>
      <4>1. writer'.tools = [i \in ToolIndexes |-> 0] /\ NoTools(Yielded') BY <3>1, <3>3, <3>4
      <4> QED BY <2>5, <4>1, ServedToolless
    <3>5. CASE event.calls # <<>>
      <4>1. phase' = "read" BY <1>1, <1>8, <3>5
      <4>2. writer'.meant
        <5>1. Means(event, Thinking) BY <3>5 DEF Means
        <5> QED BY <3>1, <5>1
      <4>3. ~IndexRepeated' /\ ~CutShort' => OnceFilled(Yielded') BY <1>9, <3>1, <3>3
      <4> QED BY <4>1, <4>2, <4>3 DEF CallStreamed
    <3> QED BY <3>4, <3>5
  <2> QED BY <2>6, <2>7
<1>11. Watched' = Watched BY <1>1 DEF Watched, Anthropic
<1> QED BY <1>4, <1>10, <1>11 DEF CallInvariant

\* An answer without output told of no call: another is asked for, or an error is yielded.
LEMMA CallFailover ==
  ASSUME StreamInvariant, TextInvariant, CallInvariant, NEW kind \in Kinds,
         AnthropicFailover(kind) \/ AnthropicMalformed
  PROVE  CallInvariant'
<1>1. /\ phase = "read" /\ Anthropic /\ ~writer.meant /\ request' = request /\ client' = client
  BY DEF AnthropicFailover, AnthropicMalformed, AtEnd
<1>2. Watched /\ Watched'
  <2>1. request.stream BY <1>1, ReadingKnown
  <2> QED BY <1>1, <2>1 DEF Watched, Anthropic
<1>3. /\ IsSequence(client) /\ IsSequence(outbox) /\ IsSequence(client \o outbox)
      /\ NoTools(client \o outbox)
  <2>1. IsSequence(client) /\ IsSequence(outbox) BY DEF TextInvariant, TextParts
  <2>2. NoTools(Yielded) BY <1>1, <1>2 DEF CallInvariant, CallStreamed
  <2> QED BY <2>1, <2>2, Concatenated DEF Yielded
<1>4. CASE phase' = "closing" /\ outbox' = Append(outbox, ErrorPacket) /\ SameAnswer
  <2>1. CallKnown'
    <3>1. /\ upstream' = upstream /\ choice' = choice
          /\ writer'.message.calls = writer.message.calls
      BY <1>4 DEF SameAnswer
    <3> QED BY <1>4, <3>1, CallSame DEF CallInvariant
  <2>2. Yielded' = Append(client \o outbox, ErrorPacket)
    BY <1>1, <1>3, <1>4, AppendAside DEF Yielded
  <2>3. NoTools(Yielded') BY <1>3, <2>2, OneToolless
  <2>4. CallStreamed' BY <1>4, <2>3, ServedToolless
  <2> QED BY <2>1, <2>4 DEF CallInvariant
<1>5. ASSUME Handles(kind, Append(outbox, Packet("attempt", 0, <<>>))) PROVE CallInvariant'
  <2> DEFINE p == Packet("attempt", 0, <<>>)
             before == Append(outbox, p)
  <2>1. IsSequence(before) BY <1>3, Appended
  <2>2. client \o before = Append(client \o outbox, p) BY <1>3, AppendAside
  <2>3. NoTools(Append(client \o outbox, p)) BY <1>3, OneToolless
  <2>4. Handles(kind, before) BY <1>5
  <2> HIDE DEF before, p
  <2>5. CallKnown' /\ CallStreamed' BY <1>1, <1>2, <1>3, <2>1, <2>2, <2>3, <2>4, CallHanded
  <2> QED BY <2>5 DEF CallInvariant
<1> QED BY <1>4, <1>5 DEF AnthropicFailover, AnthropicMalformed

\* The end of a message stops its blocks: none is started or filled.
LEMMA CallClosing ==
  ASSUME StreamInvariant, TextInvariant, CallInvariant, AnthropicCloses
  PROVE  CallInvariant'
<1> DEFINE o == AnthropicClose(writer).out
<1>1. /\ phase = "read" /\ Anthropic /\ phase' = "closing" /\ outbox' = outbox \o o
      /\ request' = request /\ client' = client
      /\ upstream' = upstream /\ choice' = choice /\ writer' = writer
  BY DEF AnthropicCloses, AtEnd, SameAnswer
<1>2. Watched /\ Watched'
  <2>1. request.stream BY <1>1, ReadingKnown
  <2> QED BY <1>1, <2>1 DEF Watched, Anthropic
<1>3. /\ IsSequence(client) /\ IsSequence(outbox) /\ DOMAIN writer = WriterParts
  BY DEF TextInvariant, TextParts
<1>4. writer.next - 1 \in Nat
  <2>1. Matches(writer, SeenAfter(Yielded), 2 * Len(upstream)) BY <1>1, <1>2, ReadingKnown
  <2>2. writer.next \in Nat \ {0} BY <2>1 DEF Matches
  <2> QED BY <2>2
<1>5. IsSequence(o) /\ \A k \in 1 .. Len(o) : Aloof(o[k])
  <2>1. IsSequence(o) /\ \A k \in 1 .. Len(o) : EndsMessage(o[k])
    BY <1>3, <1>4, ClosingEnds DEF Closing
  <2> HIDE DEF o
  <2> QED BY <2>1 DEF EndsMessage, Aloof, ToolStart
<1> HIDE DEF o
<1>6. Yielded' = Yielded \o o /\ IsSequence(Yielded) BY <1>1, <1>3, <1>5, YieldedMore
<1>7. CallKnown' BY <1>1, CallSame DEF CallInvariant
<1>8. ~IndexRepeated' /\ ~CutShort' => OnceFilled(Yielded')
  <2>1. IndexRepeated' = IndexRepeated /\ CutShort' = CutShort
    BY <1>1 DEF IndexRepeated, CutShort
  <2>2. ~IndexRepeated /\ ~CutShort => OnceFilled(Yielded)
    BY <1>1, <1>2 DEF CallInvariant, CallStreamed
  <2> QED BY <1>5, <1>6, <2>1, <2>2, OnceMore
<1>9. CallStreamed' BY <1>1, <1>8 DEF CallStreamed
<1> QED BY <1>7, <1>9 DEF CallInvariant

LEMMA CallGeminiClosing ==
  ASSUME TextInvariant, CallInvariant, GeminiCloses
  PROVE  CallInvariant'
<1>1. /\ ~Anthropic /\ phase' = "closing" /\ request' = request
      /\ writer' = [writer EXCEPT !.failed = @ \/ ~writer.any]
      /\ upstream' = upstream /\ choice' = choice
  BY DEF GeminiCloses
<1>2. DOMAIN writer = WriterParts BY DEF TextInvariant, TextParts
<1>3. writer'.message = writer.message BY <1>1, <1>2 DEF WriterParts, FreshWriter
<1>4. CallKnown' BY <1>1, <1>3, CallSame DEF CallInvariant
<1>5. ~Watched' BY <1>1 DEF Watched, Anthropic
<1> QED BY <1>4, <1>5 DEF CallInvariant

-----------------------------------------------------------------------------
(* The calls of an answer that is collected                                 *)

\* Another answer is collected: nothing is told of calls.
LEMMA CallCollectStart ==
  ASSUME StreamInvariant, TextInvariant, CallInvariant, NEW kind \in Kinds,
         Collect(kind) \/ CollectAgain(kind)
  PROVE  CallInvariant'
<1>1. /\ phase \in {"opening", "collected"} /\ request' = request
      /\ choice' = FreshChoice \/ (phase = "opening" /\ choice' = choice)
      /\ \/ writer' = [FreshWriter EXCEPT !.meant = kind = "whole", !.unread = kind = "unread",
                           !.message.finish = IF kind = "whole" THEN "stop" ELSE None,
                           !.failed = kind \in {"error", "none"}]
         \/ writer' = [FreshWriter EXCEPT !.meant = kind = "whole", !.unread = kind = "unread",
                           !.message.finish = IF kind = "whole" THEN "stop" ELSE None]
  BY DEF Collect, CollectAgain
<1>2. ~request.stream
  BY <1>1 DEF StreamInvariant, PhaseKnown, Collect, CollectAgain
<1>3. Uncalled(choice)' /\ Calm(choice)'
  <2>1. Uncalled(choice') /\ Calm(choice')
    <3>1. CASE choice' = FreshChoice BY <3>1, FreshUncalled, FreshCalm
    <3>2. CASE phase = "opening" /\ choice' = choice
      <4>1. Uncalled(choice) /\ Calm(choice) BY <3>2 DEF CallInvariant, CallKnown
      <4> QED BY <3>2, <4>1
    <3> QED BY <1>1, <3>1, <3>2
  <2> QED BY <2>1
<1>4. writer'.message.calls = EmptyMessage.calls
  <2> DEFINE finish == IF kind = "whole" THEN "stop" ELSE None
             e == [EmptyMessage EXCEPT !.finish = finish]
  <2>1. e.calls = EmptyMessage.calls BY DEF EmptyMessage
  <2>2. writer'.message = e BY <1>1 DEF FreshWriter
  <2> QED BY <2>1, <2>2
<1>5. CallKnown' BY <1>3, <1>4, CallFresh
<1>6. ~Watched' BY <1>1, <1>2 DEF Watched
<1> QED BY <1>5, <1>6 DEF CallInvariant

\* A chunk that is collected, as one that is read ...
LEMMA CallCollectChunk ==
  ASSUME StreamInvariant, TextInvariant, CallInvariant, NEW chunk \in Chunks, CollectChunk(chunk)
  PROVE  CallInvariant'
<1> DEFINE one == NormalizeChoice(choice, chunk)
           event == one.event
           m == Aggregate(writer.message, event)
<1>1. /\ phase = "collecting" /\ Follows(chunk) /\ request' = request
      /\ upstream' = Append(upstream, chunk) /\ choice' = one.choice
      /\ phase' = (IF event.finish # None THEN "collected" ELSE "collecting")
      /\ writer' = IF Kept(event)
                   THEN [writer EXCEPT !.message = Aggregate(@, event),
                                       !.meant = @ \/ Means(event, FALSE)]
                   ELSE writer
  BY DEF CollectChunk
<1>2. ~request.stream BY <1>1 DEF StreamInvariant, PhaseKnown
<1>3. DOMAIN writer = WriterParts BY DEF TextInvariant, TextParts
<1>4. writer'.message.calls = (IF Kept(event)
                               THEN MergeCalls(writer.message.calls, event.calls)
                               ELSE writer.message.calls)
  <2>1. m.calls = MergeCalls(writer.message.calls, event.calls) BY DEF Aggregate
  <2>2. Kept(event) => writer'.message = m BY <1>1, <1>3 DEF WriterParts, FreshWriter
  <2>3. ~Kept(event) => writer' = writer BY <1>1
  <2> HIDE DEF m, event
  <2> QED BY <2>1, <2>2, <2>3
<1>5. phase' \in {"opening", "waiting", "first", "reading", "collecting"} => event.finish = None
  BY <1>1
<1>6. CallKnown'
  <2>1. CallKnown BY DEF CallInvariant
  <2> QED BY <1>1, <1>4, <1>5, <2>1, CallChunk
<1>7. ~Watched' BY <1>1, <1>2 DEF Watched
<1> QED BY <1>6, <1>7 DEF CallInvariant

\* ... and the end changes nothing.
LEMMA CallCollectEnd ==
  ASSUME StreamInvariant, CallInvariant, CollectEnds \/ Answer
  PROVE  CallInvariant'
<1>1. /\ phase \in {"collecting", "collected"} /\ phase' \in {"collected", "ended"}
      /\ request' = request /\ upstream' = upstream /\ choice' = choice /\ writer' = writer
  BY DEF CollectEnds, Answer, SameAnswer
<1>2. ~request.stream BY <1>1 DEF StreamInvariant, PhaseKnown
<1>3. CallKnown' BY <1>1, CallSame DEF CallInvariant
<1>4. ~Watched' BY <1>1, <1>2 DEF Watched
<1> QED BY <1>3, <1>4 DEF CallInvariant

-----------------------------------------------------------------------------
(* The calls of an answer are whole.                                        *)

LEMMA CallStart == StreamInit => CallInvariant
<1> SUFFICES ASSUME StreamInit PROVE CallInvariant OBVIOUS
<1>1. /\ phase = "opening" /\ choice = FreshChoice /\ writer = FreshWriter
      /\ outbox = <<>> /\ client = <<>>
  BY DEF StreamInit
<1>2. writer.message.calls = EmptyMessage.calls BY <1>1 DEF FreshWriter
<1>3. \A i \in ToolIndexes : writer.message.calls[i] = <<>> BY <1>2, CallNothing
<1>4. CallKnown BY <1>1, <1>2, <1>3, FreshUncalled, FreshCalm DEF CallKnown, ToldRight, Calm
<1>5. CallStreamed
  <2>1. Yielded = <<>> BY <1>1, Empty, EmptyAside DEF Yielded
  <2>2. NoTools(Yielded) BY <2>1, Empty DEF NoTools
  <2>3. OnceFilled(Yielded) BY <2>2, NoToolsOnce
  <2> QED BY <1>1, <2>2, <2>3 DEF CallStreamed
<1> QED BY <1>4, <1>5 DEF CallInvariant

LEMMA CallsStep ==
  StreamInvariant /\ TextInvariant /\ CallInvariant /\ [StreamNext]_streamVars => CallInvariant'
<1> SUFFICES ASSUME StreamInvariant, TextInvariant, CallInvariant, [StreamNext]_streamVars
             PROVE  CallInvariant'
  OBVIOUS
<1>1. CASE UNCHANGED streamVars
  <2>1. /\ request' = request /\ phase' = phase /\ upstream' = upstream /\ choice' = choice
        /\ writer' = writer /\ outbox' = outbox /\ client' = client
    BY <1>1 DEF streamVars
  <2>2. Yielded' = Yielded BY <2>1 DEF Yielded
  <2>3. CASE phase # "ended" BY <2>1, <2>2, <2>3, CallSameYield
  <2>4. CASE phase = "ended"
    <3>1. CallKnown' BY <2>1, CallSame DEF CallInvariant
    <3>2. Watched' = Watched BY <2>1 DEF Watched, Anthropic
    <3>3. IndexRepeated' = IndexRepeated /\ CutShort' = CutShort
      BY <2>1 DEF IndexRepeated, CutShort
    <3>4. Watched => CallStreamed' BY <2>1, <2>2, <2>4, <3>3 DEF CallInvariant, CallStreamed
    <3> QED BY <3>1, <3>2, <3>4 DEF CallInvariant
  <2> QED BY <2>3, <2>4
<1>2. ASSUME NEW kind \in Kinds, OpenedInTime(kind) \/ WaitingIsOver(kind) PROVE CallInvariant'
  BY <1>2, CallOpening
<1>3. ASSUME NEW kind \in Kinds, AnthropicFailover(kind) PROVE CallInvariant'
  BY <1>3, CallFailover
<1>4. CASE AnthropicMalformed
  <2>1. "none" \in Kinds BY DEF Kinds
  <2> QED BY <1>4, <2>1, CallFailover
<1>5. ASSUME NEW chunk \in Chunks, ReadChunk(chunk) PROVE CallInvariant' BY <1>5, CallReading
<1>6. ASSUME NEW kind \in Kinds, Collect(kind) \/ CollectAgain(kind) PROVE CallInvariant'
  BY <1>6, CallCollectStart
<1>7. ASSUME NEW chunk \in Chunks, CollectChunk(chunk) PROVE CallInvariant'
  BY <1>7, CallCollectChunk
<1>8. CASE CollectEnds \/ Answer BY <1>8, CallCollectEnd
<1>9. CASE GraceElapses \/ ReadOther \/ StreamEnds BY <1>9, CallWaiting
<1>10. CASE ReadFails \/ ClientLeaves BY <1>10, CallDropped
<1>11. CASE AnthropicCloses BY <1>11, CallClosing
<1>12. CASE GeminiCloses BY <1>12, CallGeminiClosing
<1>13. CASE HandlerEnds \/ WaitingEnds \/ Replayed \/ Deliver BY <1>13, CallEnding
<1> QED BY <1>1, <1>2, <1>3, <1>4, <1>5, <1>6, <1>7, <1>8, <1>9, <1>10, <1>11, <1>12, <1>13
    DEF StreamNext

\* Whatever upstream sends of calls, in whatever pieces and chunks: nothing is told of a call
\* before the answer is finished, the arguments that are then told are whole or an empty object,
\* a tool that requires no arguments was named in the chunk that finished the answer, and the
\* block of a tool in /v1/messages is filled once.
THEOREM CallsKnown == StreamSpec => []CallInvariant
<1>1. StreamSpec => []StreamInvariant BY StreamsKnown
<1>2. StreamSpec => []TextInvariant BY TextsKnown
<1> QED BY <1>1, <1>2, CallStart, CallsStep, PTL DEF StreamSpec

\* What is told of a call
LEMMA CallIsTold ==
  ASSUME CallInvariant, ~IndexRepeated, NEW i \in ToolIndexes
  PROVE  LET args == writer.message.calls[i]
         IN \/ args = <<>>
            \/ /\ args = <<"whole">>
               /\ \/ \E document \in Documents : IsPrefix(document, choice.tools[i].buffer)
                  \/ /\ upstream # <<>>
                     /\ \E call \in Range(upstream[Len(upstream)].message) :
                           call.index = i /\ call.args = "whole"
            \/ args = <<"empty">> /\ NamedLast(i)
<1> DEFINE args == writer.message.calls[i]
<1>1. ToldRight(args, choice.tools[i], LastMessage, i) BY DEF CallInvariant, CallKnown
<1>2. ASSUME Documented(choice.tools[i].buffer)
      PROVE  \E document \in Documents : IsPrefix(document, choice.tools[i].buffer)
  <2>1. PICK document \in Documents : Begins(document, choice.tools[i].buffer)
    BY <1>2 DEF Documented
  <2>2. IsPrefix(document, choice.tools[i].buffer) BY <2>1, BeginsPrefix
  <2> QED BY <2>2
<1>3. ASSUME NEW j \in DOMAIN LastMessage, LastMessage[j].index = i, LastMessage[j].args = "whole"
      PROVE  /\ upstream # <<>>
             /\ \E call \in Range(upstream[Len(upstream)].message) :
                   call.index = i /\ call.args = "whole"
  <2>1. upstream # <<>>
    <3>1. CASE upstream = <<>>
      <4>1. LastMessage = <<>> BY <3>1 DEF LastMessage
      <4>2. DOMAIN <<>> = {} OBVIOUS
      <4> QED BY <1>3, <4>1, <4>2
    <3> QED BY <3>1
  <2>2. LastMessage = upstream[Len(upstream)].message BY <2>1 DEF LastMessage
  <2>3. LastMessage[j] \in Range(LastMessage) BY DEF Range
  <2> QED BY <1>3, <2>1, <2>2, <2>3
<1>4. (\E j \in DOMAIN LastMessage : LastMessage[j].index = i /\ LastMessage[j].args = "whole") =>
        /\ upstream # <<>>
        /\ \E call \in Range(upstream[Len(upstream)].message) :
              call.index = i /\ call.args = "whole"
  BY <1>3
<1>5. choice.tools[i].name = EagerTool /\ ~Complete(choice.tools[i].buffer) => NamedLast(i)
  BY DEF CallInvariant, CallKnown
<1> QED BY <1>1, <1>2, <1>4, <1>5 DEF ToldRight

\* A message that the client sees completed is all that was yielded.
LEMMA CallIsFilled ==
  ASSUME StreamInvariant, TextInvariant, CallInvariant, ~IndexRepeated,
         Seen.stage = "complete", ~CutShort, NEW k \in ToolStarts
  PROVE  Cardinality(Fillings(k)) = 1
<1>1. Watched /\ SeenAfter(client).stage = "complete"
  <2>1. Unseen.stage # "complete" BY DEF Unseen
  <2>2. Anthropic /\ request.stream BY <2>1 DEF Seen
  <2> QED BY <2>2 DEF Seen, SeenAfter, Watched
<1>2. IsSequence(client) /\ IsSequence(outbox) BY DEF TextInvariant, TextParts
<1>3. CallStreamed BY <1>1 DEF CallInvariant
<1>4. outbox = <<>>
  <2>1. CASE phase = "ended" BY <1>3, <2>1 DEF CallStreamed
  <2>2. CASE phase # "ended"
    <3>1. Legal(client \o outbox)
      BY <1>1, <2>2 DEF StreamInvariant, AnswerKnown, Yielded
    <3> QED BY <1>1, <1>2, <3>1, NothingAfter
  <2> QED BY <2>1, <2>2
<1>5. Yielded = client BY <1>2, <1>4, EmptyAside DEF Yielded
<1>6. OnceFilled(client) BY <1>1, <1>3, <1>5 DEF CallStreamed
<1>7. DOMAIN client = 1 .. Len(client) BY <1>2, Bounds
<1>8. k \in 1 .. Len(client) /\ ToolStart(client[k]) BY <1>7 DEF ToolStarts, ToolStart
<1>9. PICK j \in 1 .. Len(client) : Fills(client, k) = {j} BY <1>6, <1>8 DEF OnceFilled
<1>10. Fillings(k) = {j} BY <1>9 DEF Fillings, Fills
<1> QED BY <1>10, FS_Singleton

LEMMA CallIsWhole == StreamInvariant /\ TextInvariant /\ CallInvariant => CallsWhole
<1> SUFFICES ASSUME StreamInvariant, TextInvariant, CallInvariant, ~IndexRepeated
             PROVE  CallsWhole
  BY DEF CallsWhole
<1>1. Seen.stage = "complete" /\ ~CutShort => \A k \in ToolStarts : Cardinality(Fillings(k)) = 1
  BY CallIsFilled
<1> QED BY <1>1, CallIsTold DEF CallsWhole

\* The client of /v1/messages or :generateContent is told of a call with the whole arguments
\* that upstream sent, in pieces or again in its last message, or with an empty object.  The
\* empty object stands for whatever arguments the call of a tool that requires none has: the
\* chunk that names it ends the answer, and the pieces that come after it are not read.  No block
\* of a tool is left unfilled or filled twice.
THEOREM CallsAreWhole == StreamSpec => []CallsWhole
BY StreamsKnown, TextsKnown, CallsKnown, CallIsWhole, PTL

===============================================================================
