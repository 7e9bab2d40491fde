SPECIFICATION Spec
CONSTANTS
    Null = Null
    Unknown = Unknown
    NoData = NoData
    ConfigEndpoints <- SomeConfigEndpoints
    EnvEndpoints <- SomeEnvEndpoints
    ClusterStatuses <- SomeClusterStatuses
INVARIANTS TypeOK OneTarget UsableClient S3AsConfigured InfoTellsAll
CHECK_DEADLOCK FALSE
