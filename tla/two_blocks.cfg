SPECIFICATION Spec
CONSTANTS
    r1 = r1
    r2 = r2
    b1 = b1
    b2 = b2
    b3 = b3
    b4 = b4
    a1 = a1
    a2 = a2
    a3 = a3
    blank = blank
    k1 = k1
    k2 = k2
    Null = Null
    NoBucket = NoBucket
    NoState = NoState
    BlankAlias = blank
    BucketIds = {b1, b2, b3}
    Aliases = {a1, a2, a3}
    QuotaFields = {"maxObjects"}
    Limits = {0}
    Keys = {k1, k2}
    Resources = {r1, r2}
    Configs <- TwoBlocksConfigs
    Budget <- TwoBlocksBudget
    S3Configured = TRUE
SYMMETRY BucketSymmetry
INVARIANTS TypeOK HandlerShape Exclusive NoSilentOrphan AppliedAsPlanned RenameNeverRefused
PROPERTIES ForceDestroyIsOptIn EmptiesItsOwnBucket ResultAsPlanned StaysUpToDate
CHECK_DEADLOCK FALSE
