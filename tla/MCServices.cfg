SPECIFICATION ServicesSpec
CONSTANTS
    SessionCalls = {c1, c2}
    RefreshTTL = 2
    MaxTokens = 3
    MaxUnread = 1
    MaxSessionTime = 2
    Clients = {a, b}
    MaxConcurrent = 1
    CallIds = {i1}
    MaxSequence = 3
    MaxFrames = 3
    Absent = Absent
    Contests <- ReceivedContests
    ProblemIds = {1, 2}
    Requests <- AllRequests
    Signers <- ComposeSigners
    Callers <- ComposeCallers
    TokenTTL = 2
    MaxTokenTTL = 3
    ClockSkew = 1
    CallTimeout = 2
    Tasks = {t}
    CodeRuns = {r1, r2}
    CaseCount = 2
    TaskPrograms <- SubmittedPrograms
    CodePrograms <- TriedPrograms
    NoRun = NoRun
    PageCalls = {q1, q2}
    PageTTL = 2
    PageCallTimeout = 1
    MaxProblemVersion = 3
SYMMETRY Interchangeable
INVARIANTS ExchangedTokenIsSpent LogoutEndsSession ClientSeesOneRun SlotsComeBack RefusedAtTheEdge ServedAsRequested OutcomeIsEarned CacheIsCleaned OldPagesGo
CHECK_DEADLOCK FALSE
