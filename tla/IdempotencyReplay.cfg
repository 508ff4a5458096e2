CONSTANTS
    c1 = c1
    c2 = c2
    c3 = c3
    a = a
    b = b
    Null = Null
    Calls = {c1, c2, c3}
    Hashes = {a, b}
    Attempts = 3
    MaxEffects = 2
SYMMETRY Symmetry
SPECIFICATION Spec
CONSTRAINT NothingExpires
INVARIANT ReplayIsOwnAnswer
CHECK_DEADLOCK FALSE
