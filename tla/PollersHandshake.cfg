SPECIFICATION FairSpec
CONSTANTS
    GlideinSets = {g1}
    Urls = {u1}
    Pollers = {p1}
    Retries = 2
    UrlMayChange = FALSE
    MayRestart = FALSE
    Deleting = Deleting
    None = None
    g1 = g1
    u1 = u1
    p1 = p1
PROPERTIES
    HandshakeUntilItWorks
