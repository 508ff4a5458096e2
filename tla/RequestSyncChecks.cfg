CONSTANTS
    r1 = r1
    w1 = w1
    h1 = h1
    h2 = h2
    None = None
    Requests = {r1}
    Works = {w1}
    TaskIds = {}
    Handlers = {h1, h2}
    RequestEdges <- SeededRequestEdges
    WorkEdges <- RenamedWorkEdges
    Bodies <- SomeBodies
    MaxVersion = 100
VIEW View
SYMMETRY Symmetry
SPECIFICATION Spec
INVARIANT SyncPassesChecks
CHECK_DEADLOCK FALSE
