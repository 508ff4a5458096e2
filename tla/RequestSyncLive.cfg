CONSTANTS
    r1 = r1
    w1 = w1
    h1 = h1
    h2 = h2
    None = None
    Requests = {r1}
    Works = {w1}
    TaskIds = {w1}
    Handlers = {h1, h2}
    RequestEdges <- SeededRequestEdges
    WorkEdges <- RenamedWorkEdges
    Bodies <- FullBodies
    MaxVersion = 3
SPECIFICATION FairSpec
PROPERTY CallsEnd
CHECK_DEADLOCK FALSE
