CONSTANTS
    put1 = put1  put2 = put2  append1 = append1
    None = None
    Writes = {put1, put2, append1}
    SlotsOf <- MCSlotsOf
    MaxAttempts = 3
SPECIFICATION Spec
INVARIANTS
    PowTypeOK
    TokensBind
PROPERTIES
    OnlyIssuerHoldsSession
\* Each write is one action of the user, and there are three.
CHECK_DEADLOCK FALSE
