-------------------------- MODULE MCAccountLedger --------------------------
(* Code c1 is worth balance, c2 concurrency and c3 a subscription.          *)
EXTENDS AccountLedger

CONSTANTS c1, c2, c3

Types == [c \in Codes |-> CASE c = c1 -> "balance"
                            [] c = c2 -> "concurrency"
                            [] OTHER  -> "subscription"]
=============================================================================
