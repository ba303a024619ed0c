SPECIFICATION FairProjectionSpec
CONSTANTS
    StartAt = 10
    TicksPerSecond = 2
    EndAt = 16
    Consumers = {c1, c2}
    Participants = {"u1", "u2"}
    Problems = {"p1", "p2"}
    SubIds = {1, 2, 3, 4, 5}
    Events <- RejudgedContest
    MaxRollbacks = 1
INVARIANTS FactsFollowEvents ScoresFollowRules SummaryIsCurrent
PROPERTY EveryEventCounts
