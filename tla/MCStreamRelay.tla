---------------------------- MODULE MCStreamRelay ----------------------------
(* Three attempts nested in each other with two lines each, and a fourth one  *)
(* of a request whose open attempts were read for one line: what a generator  *)
(* does when a failover nested in the one it waits for raised.                *)
EXTENDS StreamRelay

LastIsShort == tried = MaxAttempts => \A i \in 1..Len(frames) : frames[i].lines <= 1
==============================================================================
