SPECIFICATION SystemSpec
CONSTANTS
    SubIds = {1, 2}
    OutboxIds = {1, 2, 3}
    Callers = {c1}
    Keys = {k1}
    Bodies = {"b1"}
    Contests = {}
    Revisions = {"r1"}
    Verdicts = {"AC"}
    ResultEvents <- NoResults
    ContestStart = 0
    ContestEnd = 1
    MaxTime = 0
    TaskMsgs = {1, 2}
    RetryMsgs = {3}
    Slots = {w1}
    MaxRetries = 1
    MaxFaults = 1
    MaxGiveUps = 0
VIEW ApartFromAnswers
INVARIANTS NoSubmissionLost ResultsAreAcceptable
CHECK_DEADLOCK FALSE
