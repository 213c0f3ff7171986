\* Installed configurations, two deliveries, crashes and six environments.
CONSTANTS
    Configs <- SomeConfigs
    Initial <- SomeInitial
    Delivered <- SomeDelivered
    Envs <- SomeEnvs
    NoConfig <- NothingSet
    Patch <- PatchCollectorConfig
    Enrich <- EnrichCollectorConfig
    Cuts <- CutAt
    Empty = Empty
    Broken = Broken
    Missing = Missing
    Lost = Lost
    NoEnv = NoEnv
    MaxDeliveries = 2
SPECIFICATION Spec
INVARIANTS TypeOK NoDrift SettingsSurvive DetectorsConfigured ProcessorDefined
PROPERTIES IsRegister FollowsVerdict
