SPECIFICATION Spec
CONSTANTS
    Capability <- MCCapability
    Aid = aid
    MaxEpoch = 2
    MaxKey = 2
INVARIANTS
    CarefulInv
    RevocationPersists
    StatesFromTree
    ChainIntact
PROPERTY RefinesLedger
