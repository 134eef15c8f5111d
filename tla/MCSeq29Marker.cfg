CONSTANTS
    t1 = t1  t2 = t2
    h1 = h1  h2 = h2
    r1 = r1  r2 = r2
    Absent = Absent
    NoLocks = NoLocks
    Tabs = {t1}
    Intents = {h1}
    RelayOrder <- TwoRelays
    Lease = 1
    MaxTime = 1
    MaxPasses = 2
SPECIFICATION Spec
INVARIANTS
    MarkerKept
CHECK_DEADLOCK FALSE
