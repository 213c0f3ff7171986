\* Does an application that is disabled lose its annotation?
CONSTANTS
    NumApps = 2
    Clusters <- OneCluster
    MaxConfigs = 0
    MaxIncidents = 2
SPECIFICATION Spec
PROPERTIES RemovalHappens
