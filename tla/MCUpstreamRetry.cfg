SPECIFICATION FairSpec
CONSTANTS
    a = a
    b = b
    c = c
    k1 = k1
    k2 = k2
    NoKey = NoKey
    Routes = {a, b, c}
    Keys = {k1, k2}
    KeysOf <- TheirKeys
    Twin <- NoTwins
    ModelCount <- TheirModels
    RaceRoutes = {b}
    RaceLimit = 2
    RateRetries <- RetryOnce
    MaxRetries = 0
    NoBackoff = FALSE
    Variants = 3
CONSTRAINT Pairs
INVARIANTS
    FailedKeyNotReused
    OnlyReturnedResponseOpen
    FailureMeansExhausted
PROPERTIES
    Terminates
CHECK_DEADLOCK FALSE
