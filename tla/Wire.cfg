SPECIFICATION Spec
CONSTANTS
    Word = 5
    MAGIC <- MCMagic
    HASH_LEN = 1
    NONCE_LEN = 1
    CAP_NONCE_LEN = 2
    SIG_LEN = 2
    Jobs <- MCJobs
CHECK_DEADLOCK FALSE
INVARIANTS
    RecodesPrefix
    Canonical
    DecodesExactly
PROPERTY DecoderStops
