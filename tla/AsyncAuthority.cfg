SPECIFICATION AsyncSpec
CONSTANTS
    c1 = c1
    c2 = c2
    Capability <- MCCapability
    Aid = aid
    MaxEpoch = 3
    MaxKey = 2
SYMMETRY Symmetry
VIEW ReadState
INVARIANTS
    RevocationPersists
    LateRequestsContained
