CONSTANTS
    Candidates = {m1, m2, m3, m4}
    None = None
SPECIFICATION RaceSpec
SYMMETRY Sym
INVARIANTS LosersClosed WinnerIfAccepted
CHECK_DEADLOCK FALSE
