------------------------- MODULE MCLeaderboardCache -------------------------
(* An instance of the leaderboard cache for TLC. *)
EXTENDS LeaderboardCache, TLC

CONSTANTS u1

\* The first row of user u1 has a payload the relay rejects.
FirstRowCorrupt == {<<u1, 1>>}
=============================================================================
