------------------------------ MODULE MCUpload ------------------------------
(* A small instance of the upload flow for TLC.                            *)
EXTENDS Upload

CONSTANTS u1, u2, a1, a2, s, t
=============================================================================
