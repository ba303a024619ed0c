------------------------- MODULE MCContestProjection -------------------------
(***************************************************************************)
(* A small contest.  Submission 1 is judged twice, submission 2 was        *)
(* rejudged and so invalidated, event 6 claims submission 3 for another    *)
(* user, event 7 comes from before the start and event 8 from the very end.*)
(***************************************************************************)
EXTENDS ContestProjection

Judged(id, s, u, p, v, at, judgedAt) ==
    [id |-> id, sub |-> s, user |-> u, problem |-> p, verdict |-> v, submittedAt |-> at,
     judgedAt |-> judgedAt, invalidated |-> FALSE]
Invalidated(id, s, u, p, at, when) ==
    [id |-> id, sub |-> s, user |-> u, problem |-> p, verdict |-> "SYSTEM_ERROR", submittedAt |-> at,
     judgedAt |-> when, invalidated |-> TRUE]

RejudgedContest ==
    {Judged(1, 1, "u1", "p1", "AC", 13, 20), Judged(2, 1, "u1", "p1", "CE", 13, 21),
     Judged(3, 2, "u1", "p1", "WA", 12, 20), Invalidated(4, 2, "u1", "p1", 12, 22),
     Judged(5, 3, "u1", "p1", "AC", 12, 23), Judged(6, 3, "u2", "p2", "AC", 12, 25),
     Judged(7, 4, "u1", "p1", "AC", 6, 20), Judged(8, 5, "u2", "p2", "AC", 16, 26)}
=============================================================================
