CONSTANTS
    r1 = r1
    r2 = r2
    r3 = r3
    r4 = r4
    p = p
    q = q
    Requests = {r1, r2, r3, r4}
    Payloads = {p, q}
    KeyOf <- Mixed
    NoEntry = NoEntry
SPECIFICATION CoFairSpec
INVARIANT CompletedOnce
PROPERTY EndsOrStranded
CHECK_DEADLOCK FALSE
