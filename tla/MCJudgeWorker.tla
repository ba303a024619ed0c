---------------------------- MODULE MCJudgeWorker ----------------------------
EXTENDS JudgeWorker
=============================================================================
