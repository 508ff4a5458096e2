CONSTANTS
    s1 = s1
    t1 = t1
    t2 = t2
    h1 = h1
    h2 = h2
    None = None
    Rows = {s1, t1, t2}
    Handlers = {h1, h2}
    Statuses <- SomeStatuses
    Edges <- SomeEdges
    Nesting <- AroundInACircle
    MaxVersion = 100
VIEW View
SYMMETRY Symmetry
SPECIFICATION Spec
INVARIANT TypeOK
PROPERTY StatusMovesVersion
CHECK_DEADLOCK FALSE
