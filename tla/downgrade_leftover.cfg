SPECIFICATION Spec
CONSTANTS
    Schemas <- AllSchemas
    Values <- SomeValues
    walk <- Walk
    Accepts <- Meaning
    parts <- Parts
    rank <- Depth
INVARIANTS NoNullUnionLeft
CHECK_DEADLOCK FALSE
