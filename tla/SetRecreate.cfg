SPECIFICATION FairSpec
CONSTANTS
    Secrets = {"collectorTokens", "tokens"}
    MaxLives = 2
    MaxEdits = 0
    MaxCommit = 0
    Broken = {}
    MaxFaults = 1
    ClonePersists = TRUE
    ResyncOn = TRUE
    None = None
CHECK_DEADLOCK FALSE
INVARIANTS
    TypeOK
    FinalizerProtects
PROPERTIES
    NoOrphans
    ImplementsLife
    ProgressesLikeLife
    Converges
