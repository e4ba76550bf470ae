------------------------------ MODULE MCHandoff ------------------------------
(***************************************************************************)
(* The hand-off on a small instance: a download Firefox holds and one that *)
(* is only reported.                                                       *)
(***************************************************************************)
EXTENDS Handoff, TLC

CONSTANTS t1, t2, u1, u2

MixedWays == (t1 :> {"request", "menu"}) @@ (t2 :> {"created"})
OneUrl == (t1 :> u1) @@ (t2 :> u1)
=============================================================================
