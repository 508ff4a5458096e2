CONSTANTS
    r1 = r1
    w1 = w1
    w2 = w2
    h1 = h1
    h2 = h2
    None = None
    Requests = {r1}
    Works = {w1, w2}
    TaskIds = {w2}
    Handlers = {h1}
    RequestEdges <- SeededRequestEdges
    WorkEdges <- RenamedWorkEdges
    Bodies <- FullBodies
    MaxVersion = 100
VIEW View
SPECIFICATION Spec
INVARIANT ConflictHasAWayOut
CHECK_DEADLOCK FALSE
