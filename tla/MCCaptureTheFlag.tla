-------------------------- MODULE MCCaptureTheFlag --------------------------
(* CaptureTheFlag with the host, one remote player and one who may come late. *)
EXTENDS CaptureTheFlag, TLC

\* The remote players are alike.
Remotes == Permutations(Remote)

FairCTFSpec == CTFSpec /\ FrameFairness /\ DeliveryFairness
=============================================================================
