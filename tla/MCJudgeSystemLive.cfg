SPECIFICATION FairSystemSpec
CONSTANTS
    SubIds = {1}
    OutboxIds = {1, 2}
    Callers = {c1}
    Keys = {k1}
    Bodies = {"b1"}
    Contests = {7}
    Revisions = {"r1"}
    Verdicts = {"AC"}
    ResultEvents <- NoResults
    ContestStart = 0
    ContestEnd = 1
    MaxTime = 0
    TaskMsgs = {1}
    RetryMsgs = {2, 3}
    Slots = {w1}
    MaxRetries = 1
    MaxFaults = 1
    MaxGiveUps = 1
PROPERTY EventuallyJudged
CHECK_DEADLOCK FALSE
