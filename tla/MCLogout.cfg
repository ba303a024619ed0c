SPECIFICATION SessionSpec
CONSTANTS
    SessionCalls = {c1}
    RefreshTTL = 2
    MaxTokens = 2
    MaxUnread = 1
    MaxSessionTime = 1
INVARIANT LogoutNeverPretends
CHECK_DEADLOCK FALSE
