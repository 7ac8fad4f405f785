----------------------------- MODULE MCFIXClient -----------------------------
(* A small instance of the FIX session for TLC.                            *)
EXTENDS FIXAcceptor
=============================================================================
