SPECIFICATION Spec
CONSTANTS
    Collections <- TwoCollections
    SetNames <- OneSet
    CollectorParts <- SigningKey
    MonitoringParts <- Prometheus
    Keys = {k1, k2}
    MaxLives = 1
    MaxChanges = 1
    MaxFaults = 0
    ResyncOn = FALSE
    None = None
    k1 = k1
    k2 = k2
CHECK_DEADLOCK FALSE
PROPERTIES
    KeptSetsSurvive
