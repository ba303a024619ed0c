SPECIFICATION FairCacheSpec
CONSTANTS
    u1 = u1
    CachedUsers = {u1}
    MaxVersion = 2
    Relays = {r1}
    Builders = {b1}
    Gens = {g1, g2, g3}
    Corrupt <- FirstRowCorrupt
    MaxAge = 1
    CallTimeout = 1
    MaxCacheTime = 2
    MaxFaults = 1
INVARIANT ServedIsFresh
PROPERTY EventuallyOnBoard
