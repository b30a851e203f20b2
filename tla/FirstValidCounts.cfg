SPECIFICATION VSpec
CONSTANTS
    k1 = k1
    k2 = k2
    k3 = k3
    Key <- MCKey
    State <- MCState
    authorized_keys <- MCKeys
    threshold = 2
    MaxPartials = 4
    AuthorityState <- MCAuthorityState
    Proof <- MCProof
    Certificate <- MCCertificate
    Signature <- MCSignature
    Offered <- MCOffered
    RegistryKey <- MCRegistryKey
    MaxEntries = 1
    RootPk = "root"
    U64_MAX = 7
INVARIANT FirstValidCounts
