---------------------------- MODULE MCChaosRunner ---------------------------
(***************************************************************************)
(* Instances of ChaosRunner for TLC.                                       *)
(***************************************************************************)
EXTENDS ChaosRunner

CONSTANTS w1, w2

=============================================================================
