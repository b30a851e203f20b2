SPECIFICATION Spec
CONSTANTS
    a1 = a1
    a2 = a2
    r1 = r1
    r2 = r2
    h1 = h1
    AuthorityId <- MCAuthorityId
    Root <- MCRoot
    ChainHash <- MCChainHash
    MaxEpoch = 1
SYMMETRY Symmetry
INVARIANTS
    EveryCommitVerifies
    NoEquivocation
    OneHistory
    FreshProofs
PROPERTY AppendOnly
