---------------------------- MODULE MessageStream ----------------------------
(***************************************************************************)
(* The abstract promise of an Anthropic answer: what its client may see,   *)
(* one packet at a time.  A message starts, blocks with fresh numbers are  *)
(* opened, filled and closed, and a message whose blocks are all closed is *)
(* completed; an error ends the answer at any time.  Before the message    *)
(* starts a thinking block can be there, and then another attempt at the   *)
(* same answer may begin.                                                  *)
(***************************************************************************)
EXTENDS Naturals

CONSTANT Blocks   \* block numbers

VARIABLES
    stage,   \* "before", "message", "summed", "complete" or "error"
    open,    \* blocks that are open
    used,    \* blocks that were ever opened, by the current attempt
    filled   \* the block the last delta was for, 0 when that is closed

vars == <<stage, open, used, filled>>

Init == stage = "before" /\ open = {} /\ used = {} /\ filled = 0

Start == stage = "before" /\ stage' = "message" /\ UNCHANGED <<open, used, filled>>

OpenBlock(b) ==
    /\ stage \in {"before", "message"}
    /\ b \notin used
    /\ open' = open \cup {b}
    /\ used' = used \cup {b}
    /\ UNCHANGED <<stage, filled>>

FillBlock(b) == b \in open /\ filled' = b /\ UNCHANGED <<stage, open, used>>

CloseBlock(b) ==
    /\ b \in open
    /\ stage = "message"
    /\ open' = open \ {b}
    /\ filled' = IF filled = b THEN 0 ELSE filled
    /\ UNCHANGED <<stage, used>>

\* message_delta, with every block closed
Sum == stage = "message" /\ open = {} /\ stage' = "summed" /\ UNCHANGED <<open, used, filled>>

Complete == stage = "summed" /\ stage' = "complete" /\ UNCHANGED <<open, used, filled>>

Fail == stage \in {"before", "message"} /\ stage' = "error" /\ UNCHANGED <<open, used, filled>>

\* Nothing but blank thoughts was said: the next attempt starts over.
Restart == stage = "before" /\ open' = {} /\ used' = {} /\ filled' = 0 /\ UNCHANGED stage

Next == \/ Start \/ Sum \/ Complete \/ Fail \/ Restart
        \/ \E b \in Blocks : OpenBlock(b) \/ FillBlock(b) \/ CloseBlock(b)

Spec == Init /\ [][Next]_vars
===============================================================================
