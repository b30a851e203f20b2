SPECIFICATION Spec
CONSTANTS
    Capability <- MCCapability
    Revocable <- MCRevocable
    Stamp <- MCStamp
INVARIANTS
    ListsCanonical
    WitnessExact
    InclusionExact
    RootsBind
