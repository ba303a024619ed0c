---------------------------- MODULE MCJudgeSystem ----------------------------
EXTENDS JudgeSystem

\* The result queue holds what the worker published; no event is free-standing.
NoResults == {}

\* Nothing reads answers: a state is the same whichever replies were lost.
ApartFromAnswers ==
    <<submissions, outbox, creates, rejudges, processed, calls, now, deliveryVars, workerVars, giveUps>>
=============================================================================
