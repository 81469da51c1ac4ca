------------------------ MODULE MCInterruptionResume ------------------------
(* A request and its repetition. *)
EXTENDS InterruptionResume
CONSTANTS r1, r2
MCTwo == {r1, r2}
=============================================================================
