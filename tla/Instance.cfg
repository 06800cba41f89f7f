SPECIFICATION Spec
CONSTANTS
    Request = {r1, r2}
    Environment <- MCEnvironment
    Ask <- MCAsk
    Atoi <- MCAtoi
    Plain <- MCPlain
    Digest <- MCDigest
    MaxLen = 2
    MaxInstant = 1
    WordHalf = 16
    LongHalf = 64
    NsPerMs = 4
    MaxBurn = 8
SYMMETRY Requests
INVARIANTS
    TypeOK
    AuthenticPush
    NothingMissing
    Traceable
    ParkedIsFound
    NamesStayInPrefix
    PoolAsConfigured
    BurnsAsAsked
    ServesAsTold
