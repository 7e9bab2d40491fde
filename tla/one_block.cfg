SPECIFICATION Spec
CONSTANTS
    r1 = r1
    r2 = r2
    b1 = b1
    b2 = b2
    b3 = b3
    b4 = b4
    a1 = a1
    a2 = a2
    a3 = a3
    blank = blank
    k1 = k1
    k2 = k2
    Null = Null
    NoBucket = NoBucket
    NoState = NoState
    BlankAlias = blank
    BucketIds = {b1, b2, b3, b4}
    Aliases = {a1, a2, blank}
    QuotaFields = {"maxSize", "maxObjects"}
    Limits = {0}
    Keys = {k1}
    Resources = {r1}
    Configs <- OneBlockConfigs
    Budget <- OneBlockBudget
    S3Configured = FALSE
SYMMETRY BucketSymmetry
INVARIANTS NoSilentOrphan AppliedAsPlanned
PROPERTIES CustodySpec
CHECK_DEADLOCK FALSE
