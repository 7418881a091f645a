SPECIFICATION FairSpec
CONSTANTS
    Addresses = {a1, a2}
    BootstrapTimeout = 2
    RetryMin = 1
    RetryMax = 4
    RefreshInterval = 5
    Moves = 2
    MaxFailures = 4
    NoUpstream = NoUpstream
INVARIANTS
    TypeOK
    EmptySlotRetried
PROPERTIES
    LookupsSpaced
    BackoffHonoured
    ResolverKept
    ImplementsSlot
    FollowsAddresses
    WorkerEnds
CHECK_DEADLOCK FALSE
