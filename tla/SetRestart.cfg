SPECIFICATION FairSpec
CONSTANTS
    Secrets = {"tokens"}
    MaxLives = 1
    MaxEdits = 1
    MaxCommit = 2
    Broken = {1}
    MaxFaults = 1
    ClonePersists = FALSE
    ResyncOn = FALSE
    None = None
CHECK_DEADLOCK FALSE
PROPERTIES
    WatchedAfterRestart
