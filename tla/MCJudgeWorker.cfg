SPECIFICATION FairWorkerSpec
CONSTANTS
    SubIds = {1}
    Revisions = {"r1"}
    Verdicts = {"AC"}
    TaskMsgs = {1, 2, 3}
    RetryMsgs = {4, 5, 6}
    Malformed = {3}
    Slots = {w1, w2}
    MaxRetries = 1
    MaxFaults = 1
INVARIANT NoTaskLost
PROPERTY EveryTaskAnswered
CHECK_DEADLOCK FALSE
