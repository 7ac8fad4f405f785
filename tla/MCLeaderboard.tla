--------------------------- MODULE MCLeaderboard ---------------------------
(* Small instances of the leaderboard hub for TLC.                         *)
EXTENDS LeaderboardHub
=============================================================================
