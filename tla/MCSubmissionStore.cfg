SPECIFICATION Spec
CONSTANTS
    SubIds = {1, 2, 3}
    OutboxIds = {1, 2, 3, 4, 5, 6, 7}
    Callers = {c1, c2}
    Keys = {k1, k2}
    Bodies = {"b1", "b2"}
    Contests = {7}
    Revisions = {"r1", "r2"}
    Verdicts = {"AC", "WA"}
    ResultEvents <- DisagreeingResults
    ContestStart = 1
    ContestEnd = 2
    MaxTime = 2
CONSTRAINT Explored
SYMMETRY Interchangeable
INVARIANTS AnswersAgree OneOrigin RequestedOnce JudgedOnce ContestRowsInInterval
PROPERTY TerminalIsStable
CHECK_DEADLOCK FALSE
