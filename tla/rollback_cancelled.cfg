SPECIFICATION Spec
CONSTANTS
    r1 = r1
    r2 = r2
    b1 = b1
    b2 = b2
    b3 = b3
    b4 = b4
    a1 = a1
    a2 = a2
    a3 = a3
    blank = blank
    k1 = k1
    k2 = k2
    Null = Null
    NoBucket = NoBucket
    NoState = NoState
    BlankAlias = blank
    BucketIds = {b1}
    Aliases = {a1}
    QuotaFields = {"maxObjects"}
    Limits = {0}
    Keys = {k1}
    Resources = {r1}
    Configs <- OneConfig
    Budget <- RollbackBudget
    S3Configured = FALSE
PROPERTIES RollbackSucceeds
CHECK_DEADLOCK FALSE
