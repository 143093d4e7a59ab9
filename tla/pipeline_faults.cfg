SPECIFICATION Spec
CONSTANTS
    j1 = j1
    j2 = j2
    a1 = a1
    a2 = a2
    w1 = w1
    w2 = w2
    None = None
    Jobs = {j1}
    Accounts = {a1}
    Workers = {w1, w2}
    Schedulers = {s1}
    AccountOf <- MCAccountOf
    MaxAttempts = 2
    CallbackTries = 2
    MaxClaims = 2
    Faults = {"api_crash", "worker_crash", "store_error", "callback_lost", "callback_timeout", "ambiguous_push", "repack"}
    DryRun = {TRUE, FALSE}
INVARIANTS TypeOK LogIsGrounded SuccessIsGrounded NothingUnclaimed PerformedOnce
SYMMETRY WorkerSymmetry
CONSTRAINTS FewCalls ShortQueues
VIEW WithoutCharges
CHECK_DEADLOCK FALSE
