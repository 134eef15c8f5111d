CONSTANTS
    t1 = t1  t2 = t2
    h1 = h1  h2 = h2
    r1 = r1  r2 = r2
    Absent = Absent
    NoLocks = NoLocks
    Tabs = {t1, t2}
    Intents = {h1, h2}
    RelayOrder <- OneRelay
    Lease = 1
    MaxTime = 2
    MaxPasses = 2
SPECIFICATION Spec
SYMMETRY AuthorSymmetry
INVARIANTS
    PublicationTypeOK
    AuthorChain
    SuccessIsEvidence
    NoBlindResend
    NoFalseCorruption
PROPERTIES
    ImplementsLedger
CHECK_DEADLOCK FALSE
