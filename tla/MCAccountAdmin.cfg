CONSTANTS
    Accounts = {a, b}
    Externals = {x}
    RandomKeys = {y}
    Groups = {g, i}
    Keys = {k}
    Subs = {s}
    Exclusive = {g, i}
    Handlers = {h1, h2}
    MaxCalls = 3
    None = None
SPECIFICATION Spec
SYMMETRY Sym
CONSTRAINTS Paired FormsAgree
INVARIANTS OrphansRaced ExclusiveApart
PROPERTIES NothingComesBack NothingLost
CHECK_DEADLOCK FALSE
