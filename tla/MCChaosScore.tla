---------------------------- MODULE MCChaosScore ----------------------------
(* Small instances of the chaos scoring for TLC.                           *)
EXTENDS ChaosScore
=============================================================================
