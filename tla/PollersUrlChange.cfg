SPECIFICATION Spec
CONSTANTS
    GlideinSets = {g1, g2}
    Urls = {u1, u2}
    Pollers = {p1, p2}
    Retries = 2
    UrlMayChange = TRUE
    MayRestart = TRUE
    Deleting = Deleting
    None = None
    g1 = g1
    g2 = g2
    u1 = u1
    u2 = u2
    p1 = p1
    p2 = p2
SYMMETRY Symmetry
INVARIANTS
    RemovedIsUnwatched
