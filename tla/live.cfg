SPECIFICATION LiveSpec
CONSTANTS
    p1 = p1
    p2 = p2
    w1 = w1
    QueueClaims = 3
    j1 = j1
    j2 = j2
    j3 = j3
    j4 = j4
    a1 = a1
    a2 = a2
    t1 = t1
    t2 = t2
    ig = ig
    threads = threads
    off = off
    s1 = s1
    s2 = s2
    None = None
    Jobs = {j1, j2, j3, j4}
    Accounts = {a1, a2}
    Targets = {t1, t2}
    Platforms = {ig, off}
    Schedulers = {s1}
    AccountOf <- MCAccountOf
    TargetOf <- MCTargetOf
    PlatformOf <- MCPlatformOf
    Limits <- MCLimits
    Cooldown = 2
    AccountPace = 3
    RateWindow = 4
    MaxDispatch = 1
    Renewed = {}
    Faults = {}
INVARIANTS PaceSlotIsUsed
PROPERTIES BudgetResets EveryJobIsSent NoStranding EveryJobSettles
CHECK_DEADLOCK FALSE
