------------------------------ MODULE MCProber ------------------------------
(* A small instance of the prober for TLC.                                 *)
EXTENDS Prober

CONSTANTS f1, f2, c1, c2
=============================================================================
