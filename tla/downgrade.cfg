SPECIFICATION Spec
CONSTANTS
    Schemas <- AllSchemas
    Values <- SomeValues
    walk <- Walk
    Accepts <- Meaning
    parts <- Parts
    rank <- Depth
INVARIANTS StillAccepted NothingMoreAccepted IdiomsRewritten
CHECK_DEADLOCK FALSE
