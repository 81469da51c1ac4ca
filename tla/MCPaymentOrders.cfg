CONSTANTS
    o1 = o1
    o2 = o2
    o3 = o3
    a = a
    g1 = g1
    g2 = g2
    paid1 = paid1
    paid2 = paid2
    failed2 = failed2
    Orders <- Three
    Accounts = {a}
    Groups = {g1, g2}
    AccountOf <- OneOwner
    GroupOf <- TheirGroup
    Events = {paid1, paid2, failed2}
    OrderOf <- TheirOrder
    StatusOf <- TheyReport
    Contested = {o1}
    Subscriptions = {s1, s2, s3, s4}
    Handlers = {h1}
    MaxCrashes = 1
    None = None
SPECIFICATION FairSpec
INVARIANTS PaidHasSubscription ProcessedDelivered PaidHasGroup
PROPERTY EventSettled
CHECK_DEADLOCK FALSE
