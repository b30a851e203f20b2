SPECIFICATION LifecycleSpec
CONSTANTS
    Cap <- MCCap
    Capability <- MCCapability
    Recipient <- MCRecipient
    Cert <- MCCert
    Publishable <- MCPublishable
    TemporalPolicy <- MCPolicy
    ReqRights <- MCRights
    MaxLog = 4
    MaxObjects = 1
    MaxSize = 5
    VALIDITY_WINDOW = 2
    NoticeKey = {1, 2}
    NoticeEpoch = {2, 3}
    MaxNotices = 2
CHECK_DEADLOCK FALSE
INVARIANT OwnerOpens
INVARIANT ChangedNeverOpens
PROPERTY NoticeScope
