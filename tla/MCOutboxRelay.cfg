SPECIFICATION FairRelaySpec
CONSTANTS
    OutboxIds = {1, 2, 3}
    Relays = {r1, r2}
    Invalid = {3}
    MaxRetries = 2
    BatchSize = 2
    MaxFaults = 2
INVARIANTS PublishedIsAccepted DeadIsExhausted
PROPERTIES OutboxOnlyAdvances ImplementsAtLeastOnce EveryRowSettles
CHECK_DEADLOCK FALSE
