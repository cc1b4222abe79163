SPECIFICATION FairSpec
CONSTANTS
    Collections <- OneCollection
    SetNames <- OneSet
    CollectorParts <- SigningKey
    MonitoringParts <- Prometheus
    Keys = {k1, k2}
    MaxLives = 2
    MaxChanges = 3
    MaxFaults = 1
    ResyncOn = TRUE
    None = None
    k1 = k1
    k2 = k2
CHECK_DEADLOCK FALSE
INVARIANTS
    TypeOK
PROPERTIES
    KeptSetsSurvive
    NoOrphans
    KeyIsKept
    Converges
