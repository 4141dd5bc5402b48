-------------------------- MODULE MCAlertPipeline ---------------------------
(* Instances of AlertPipeline for TLC. *)
EXTENDS AlertPipeline, TLC

CONSTANTS a1, a2, k1

\* Two alerts of one key.
TwoKeys == (a1 :> k1) @@ (a2 :> k1)
=============================================================================
