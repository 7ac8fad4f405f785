------------------------------ MODULE MCStore ------------------------------
(* A small instance of the telemetry store for TLC.                        *)
EXTENDS Store
=============================================================================
