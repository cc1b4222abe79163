SPECIFICATION FairSpec
CONSTANTS
    Secrets = {"tokens"}
    MaxLives = 1
    MaxEdits = 1
    MaxCommit = 3
    Broken = {2}
    MaxFaults = 1
    ClonePersists = TRUE
    ResyncOn = FALSE
    None = None
CHECK_DEADLOCK FALSE
INVARIANTS
    DataNotOlder
PROPERTIES
    NeverGoesBack
    Converges
    DeletionCompletes
