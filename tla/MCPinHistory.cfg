CONSTANTS
    page1 = page1  page2 = page2
    genesis = genesis  a1 = a1  a2 = a2  a3 = a3  b2 = b2
    None = None
    Pages = {page1, page2}
    Pins = {genesis, a1, a2, a3, b2}
    Genesis = genesis
    Before <- MCBefore
    SequenceOf <- MCSequence
    MaxSegments = 2
    MaxSeals = 4
    MaxLosses = 1
SPECIFICATION Spec
SYMMETRY PageSymmetry
INVARIANTS
    PinTypeOK
PROPERTIES
    WitnessAdvances
    RollbackRefused
