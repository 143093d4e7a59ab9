SPECIFICATION Spec
CONSTANTS
    j1 = j1
    j2 = j2
    j3 = j3
    j4 = j4
    a1 = a1
    a2 = a2
    t1 = t1
    t2 = t2
    ig = ig
    threads = threads
    off = off
    s1 = s1
    s2 = s2
    None = None
    Jobs = {j1, j3, j4}
    Accounts = {a1, a2}
    Targets = {t1, t2}
    Platforms = {ig, off}
    Schedulers = {s1, s2}
    AccountOf <- MCAccountOf
    TargetOf <- MCTargetOf
    PlatformOf <- MCPlatformOf
    Limits <- MCLimits
    Cooldown = 3
    AccountPace = 2
    RateWindow = 8
    MaxDispatch = 1
    Renewed = {j1, j3}
    Faults = {"redis_error", "reply_lost", "expire_error", "api_crash"}
INVARIANTS TypeOK SpacedOut BudgetKept
CONSTRAINT OffAlone
SYMMETRY Alike
