CONSTANTS
    u1 = u1
    k1 = k1
    k2 = k2
    t1 = t1
    t2 = t2
    Routes = {u1}
    Keys = {k1, k2}
    NoKey = NoKey
    Configs <- Cut
    Users = {t1, t2}
    Threshold = 2
    Cooldown = 1
    HasStorage = TRUE
    MaxTime = 1
    MaxFailures = 2
SPECIFICATION Spec
INVARIANTS
    BoundedBypass
    CoolingKeysHaveFailed
PROPERTY CooldownHonoured
SYMMETRY Threads
