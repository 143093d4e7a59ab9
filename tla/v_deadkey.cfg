SPECIFICATION FairSpec
CONSTANTS
    j1 = j1
    j2 = j2
    j3 = j3
    j4 = j4
    a1 = a1
    a2 = a2
    t1 = t1
    t2 = t2
    ig = ig
    threads = threads
    off = off
    s1 = s1
    s2 = s2
    None = None
    Jobs = {j4}
    Accounts = {a2}
    Targets = {t1}
    Platforms = {threads, ig}
    Schedulers = {s1}
    AccountOf <- MCAccountOf
    TargetOf <- MCTargetOf
    PlatformOf <- MCPlatformOf
    Limits <- MCLimits
    Cooldown = 2
    AccountPace = 3
    RateWindow = 4
    MaxDispatch = 1
    Renewed = {}
    Faults = {"expire_error"}
PROPERTIES BudgetResets
