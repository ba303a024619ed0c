SPECIFICATION ContestSpec
CONSTANTS
    Calls = {c1, c2, c3}
    Users = {"u1"}
    Forms <- ContestForms
    MaxTime = 3
    MaxToken = 3
    BoardReaders = {x1, x2}
    BoardPages = {p1, p2}
    PageReuse = 2
    FlightTimeout = 2
    Cooldown = 1
    QuerySlots = 1
    MaxRecent = 1
    CachedUsers = {v1}
    Relays = {r1, r2}
    Builders = {b1, b2}
    Gens = {g1, g2, g3}
    MaxVersion = 2
    MaxFaults = 1
    Corrupt = {}
    MaxAge = 0
    CallTimeout = 0
    MaxCacheTime = 0
SYMMETRY CallSymmetry
INVARIANTS AcceptedIsAdmissible SolutionsWithheld AnswersAreRecent AppliedIsCached
PROPERTIES NoLostEdit FrozenOnceAuthorised BoardNeverGoesBack
CHECK_DEADLOCK FALSE
