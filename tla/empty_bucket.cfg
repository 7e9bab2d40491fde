SPECIFICATION Spec
CONSTANTS
    Keys <- SomeKeys
    PageSize = 2
INVARIANTS TypeOK NothingSkipped
PROPERTIES PagesMoveOn PurgeSpec LoopSpec
CHECK_DEADLOCK FALSE
