CONSTANTS
    i1 = i1  i2 = i2  i3 = i3
    r1 = r1  r2 = r2
    k1 = k1
    Intents = {i1, i2, i3}
    Relays = {r1, r2}
    Tokens = {1}
    NoToken = 0
    NoIntent = NoIntent
    ViewKeys = {k1}
    RecordKeys <- MCOneKey
    MaxIntents = 2
    MaxTargetsPerIntent = 2
    MaxViewRecords = 1
    MaxDedupeRecords = 1
    DeliveryBatch = 1
    CompactionBatch = 1
    AckRetention = 0
    DedupeRetention = 1
    MaxAttempts = 1
    Backoff <- MCBackoff
    Lease = 1
    MaxTime = 2
SPECIFICATION JournalSpec
INVARIANTS
    JournalTypeOK
    CountersMatchRows
    AggregatesMatchRows
    LatestIsStored
    StoresDisjoint
    WithinLimits
SYMMETRY JournalSymmetry
CHECK_DEADLOCK FALSE
