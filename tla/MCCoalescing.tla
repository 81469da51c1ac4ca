---------------------------- MODULE MCCoalescing ----------------------------
(* Three requests with one payload (an owner, one that may complete the     *)
(* owner's entry, and a waiter), and a request with another.                *)
EXTENDS Coalescing

CONSTANTS r1, r2, r3, r4, p, q

Mixed == [r \in Requests |-> IF r = r4 THEN q ELSE p]
=============================================================================
