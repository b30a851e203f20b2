SPECIFICATION EngineSpec
CONSTANTS
    r1 = r1
    r2 = r2
    Recipient <- OneRecipient
    Capability <- OneCapability
    Cert <- MCCert
    Publishable <- MCPublishable
    TemporalPolicy <- LongPolicies
    ReqRights <- OpenRights
    MaxLog = 3
    MaxObjects = 1
    MaxSize = 4
INVARIANT ResealNotNeeded
