SPECIFICATION FairSpec
CONSTANTS
    GlideinSets = {g1, g2}
    Urls = {u1}
    Pollers = {p1, p2}
    Retries = 1
    UrlMayChange = FALSE
    MayRestart = FALSE
    Deleting = Deleting
    None = None
    g1 = g1
    g2 = g2
    u1 = u1
    p1 = p1
    p2 = p2
INVARIANTS
    RemovedIsUnwatched
PROPERTIES
    StopReturns
    PollsWhileRegistered
