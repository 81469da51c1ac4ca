----------------------------- MODULE MCKeyPool -----------------------------
(***************************************************************************)
(* Two threads over one route, from whose list the operator takes a key    *)
(* and gives it back.                                                      *)
(***************************************************************************)
EXTENDS KeyPool, TLC

CONSTANTS u1, k1, k2, t1, t2

One(keys) == [keys |-> u1 :> keys, twin |-> u1 :> u1]
Cut == {One(<<k1, k2>>), One(<<k2>>)}

Threads == Permutations(Users)
=============================================================================
