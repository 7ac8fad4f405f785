----------------------------- MODULE MCSandbox -----------------------------
(* Small instances of the sandbox manager for TLC.                         *)
EXTENDS SandboxManager, TLC

CONSTANTS s1, s2, c1, c2, p1, ip1, ip2, ip3

\* Requests that differ in nothing but their names.
Interchangeable == Permutations({s1, s2})
=============================================================================
