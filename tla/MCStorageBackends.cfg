CONSTANTS
    Accounts = {a, b}
    Externals = {x, y}
    Groups = {g}
    Ids = {i, j}
    Values = {1, 2}
    MaxHistory = 1
    MaxTime = 2
    MaxCalls = 4
    None = None
SPECIFICATION Spec
SYMMETRY Sym
INVARIANTS NothingLeft SameRows SameCaches
CHECK_DEADLOCK FALSE
