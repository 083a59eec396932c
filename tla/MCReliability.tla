---------------------------- MODULE MCReliability ----------------------------
(* Reliability with few messages, whose numbers wrap on the way. *)
EXTENDS Reliability

FairRelSpec == RelSpec /\ RelFairness
=============================================================================
