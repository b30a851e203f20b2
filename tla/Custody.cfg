SPECIFICATION CSpec
CONSTANTS
    Direct <- MCDirect
    Rights <- MCRights
    Epoch = {1, 3}
    MAX_DELEGATION_DEPTH = 2
    MaxCaps = 5
    MaxStates = 5
CHECK_DEADLOCK FALSE
INVARIANTS
    WithinARoot
    ChainTraceable
    KeptProofSound
    SignatureOutdated
PROPERTY RevokesOnlyItself
