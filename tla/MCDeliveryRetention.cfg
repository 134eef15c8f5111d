CONSTANTS
    i1 = i1  i2 = i2
    r1 = r1  r2 = r2
    t1 = t1  t2 = t2
    k1 = k1
    Intents = {i1, i2}
    Relays = {r1, r2}
    Tabs = {t1}
    Tokens <- MCTokens
    NoToken = NoToken
    NoIntent = NoIntent
    ViewKeys = {k1}
    RecordKeys <- MCRecordKeys
    MaxIntents = 2
    MaxTargetsPerIntent = 2
    MaxViewRecords = 1
    MaxDedupeRecords = 1
    DeliveryBatch = 2
    CompactionBatch = 2
    AckRetention = 0
    DedupeRetention = 1
    MaxAttempts = 1
    Backoff <- MCBackoff
    MaxTime = 3
    Split = {r1}
    Readback = {r1}
    MaxClaims = 2
    Lease = 1
SPECIFICATION Spec
PROPERTIES
    CompactionRetainsUnresolved
CHECK_DEADLOCK FALSE
