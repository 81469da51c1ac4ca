CONSTANTS
    c1 = c1
    c2 = c2
    c3 = c3
    LedgerAccounts = {a1, a2}
    Codes = {c1, c2, c3}
    TypeOf <- Types
    Handlers = {h1, h2}
    Balances = {0}
    MaxRequests = 3
    MaxCrashes = 2
    LedgerNone = LedgerNone
SPECIFICATION LedgerSpec
INVARIANTS RecordedWasPaid OnceInTurn
PROPERTY NothingLost
CHECK_DEADLOCK FALSE
