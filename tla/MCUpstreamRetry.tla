-------------------------- MODULE MCUpstreamRetry --------------------------
(***************************************************************************)
(* One request over two of three routes: a has two keys and one model, b   *)
(* has two models that may race and no key, c supports none of the models. *)
(***************************************************************************)
EXTENDS UpstreamRetry, TLC

CONSTANTS a, b, c, k1, k2

TheirKeys == (a :> {k1, k2}) @@ (b :> {}) @@ (c :> {})
NoTwins == [u \in Routes |-> u]
TheirModels == (a :> 1) @@ (b :> 2) @@ (c :> 0)
RetryOnce == (a :> 1) @@ (b :> 0) @@ (c :> 0)

\* Other requests mark the request's own routes only: no other mark is read.
Pairs ==
    /\ cands \in {{}, {a, b}, {b, c}}
    /\ cands # {} => coolingRoutes \subseteq cands /\ coolingKeys \subseteq cands \X Keys
=============================================================================
