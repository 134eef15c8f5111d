CONSTANTS
    a1 = a1  a2 = a2
    Adapters = {a1, a2}
    RefreshLead = 2
    MaximumRefreshInterval = 2
    MinimumRetry = 1
    MaximumRetry = 4
    OwnerRestarts = FALSE
    MaxLease = 4
    MaxTime = 7
    MaxGeneration = 4
SPECIFICATION FairSpec
INVARIANTS
    SchedulerTypeOK
    InstalledIsLeased
    NeverStranded
PROPERTIES
    CompletionsHoldAuthority
    NoBusyLoop
    ExpiredIsRevoked
    RequestIsServed
CHECK_DEADLOCK FALSE
