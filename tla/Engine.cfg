SPECIFICATION EngineSpec
CONSTANTS
    r1 = r1
    r2 = r2
    Recipient <- Recipients
    Capability <- TwoCapabilities
    Cert <- OneCert
    Publishable <- PublishableTwo
    TemporalPolicy <- ShortPolicies
    ReqRights <- OpenRights
    MaxLog = 3
    MaxObjects = 2
    MaxSize = 4
SYMMETRY Symmetry
INVARIANTS
    RevokedNeverOpens
    WrappersCoherent
    OpenImpliesVerify
    OneCapabilityOpens
    NeverBeforeSeal
PROPERTY OpenSurvives
