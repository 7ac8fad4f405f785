---------------------------- MODULE MCTelemetry ----------------------------
(* Small instances of the telemetry readers for TLC.                       *)
EXTENDS Telemetry

CONSTANTS a, b  \* sessions
=============================================================================
