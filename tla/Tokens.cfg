SPECIFICATION FairSpec
CONSTANTS
    Clients = {c1}
    DstName = "upstream"
    MaxVersion = 1
    None = None
    c1 = c1
INVARIANTS
    TypeOK
    DataNeverEmpty
    LoopOnlyWhileRegistered
PROPERTIES
    NoLostUpdate
    StopReturns
    CollectorTokensArrive
