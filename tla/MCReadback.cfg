CONSTANTS
    t1 = t1  t2 = t2
    Tabs = {t1, t2}
    FreshnessTtl = 1
    MaxAttempts = 1
    Backoff <- RetryDelay
    MaxInstalls = 2
    MaxFailures = 1
    MaxRevision = 20
    MaxTime = 1
SPECIFICATION FairSpec
INVARIANTS
    ReadbackTypeOK
PROPERTIES
    EvidenceAdvances
    StaleFailureIsHarmless
    EveryTabKnows
CHECK_DEADLOCK FALSE
