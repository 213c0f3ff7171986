\* Two applications that can be instrumented, one that may not; one delivered
\* configuration; two incidents, at any moment.
CONSTANTS
    NumApps = 3
    Clusters <- SomeClusters
    MaxConfigs = 1
    MaxIncidents = 2
SPECIFICATION Spec
INVARIANTS TypeOK RolloutsHaveCauses
PROPERTIES RolloutIsWhole Converges
