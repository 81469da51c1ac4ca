-------------------------- MODULE MCPaymentOrders --------------------------
(* Orders o1, o2 and o3 are of one account.  The first two have groups of   *)
(* their own, the plan of o3 has none; the fulfilment of o1 may be refused. *)
EXTENDS PaymentOrders, TLC

CONSTANTS o1, o2, o3, a, g1, g2, paid1, paid2, failed2

Three      == {o1, o2, o3}
OneOwner   == [o \in Three |-> a]
TheirGroup == (o1 :> g1) @@ (o2 :> g2) @@ (o3 :> None)
TheirOrder == (paid1 :> o1) @@ (paid2 :> o2) @@ (failed2 :> o2)
TheyReport == (paid1 :> "paid") @@ (paid2 :> "paid") @@ (failed2 :> "failed")
=============================================================================
