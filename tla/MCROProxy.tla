----------------------------- MODULE MCROProxy ------------------------------
(***************************************************************************)
(* Instances of ROProxy.  Contexts created by the program have a ring of   *)
(* their own; the default context is constructed with ring 0.              *)
(***************************************************************************)
EXTENDS ROProxy, TLC

CONSTANTS w1, w2, ctx0, ctx1, default

(* One wavefront, with several lanes active, on a context of its own.      *)
OneContext == w1 :> {ctx0}
FirstRing == ctx0 :> 0

(* One wavefront on the default context, one on the first context.         *)
DefaultAndFirst == w1 :> {default} @@ w2 :> {ctx0}
SharedRing == default :> 0 @@ ctx0 :> 0
=============================================================================
