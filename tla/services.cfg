SPECIFICATION ServicesSpec
CONSTANTS
    j1 = j1
    j2 = j2
    a1 = a1
    a2 = a2
    w1 = w1
    w2 = w2
    n1 = n1
    n2 = n2
    n3 = n3
    q1 = q1
    q2 = q2
    t1 = t1
    t2 = t2
    i1 = i1
    h1 = h1
    u1 = u1
    m1 = m1
    m2 = m2
    s1 = s1
    s2 = s2
    None = None
    Jobs = {j1}
    Accounts = {a1}
    Workers = {w1, w2}
    Schedulers = {s1, s2}
    AccountOf <- MCAccountOf
    MaxAttempts = 2
    CallbackTries = 2
    MaxClaims = 4
    Faults = {"worker_crash", "store_error", "callback_lost", "repack"}
    DryRun = {TRUE, FALSE}
    Nobody = Nobody
    Names = {n1, n2, n3}
    Networks <- MCNetworks
    MaxBoxes = 3
    Ports = {1, 2}
    MaxPerContainer = 1
    AutoCreate = TRUE
    MaxImportRows = 1
    ScoreMax = 1
    QuarantineThreshold = 1
    FailPenalty = 1
    RecoverBonus = 1
    AuthPenalty = 1
    RatePenalty = 1
    Reqs = {q1, q2}
    MaxOps = 3
    MaxAborts = 1
    NoPost = NoPost
    Tasks = {t1, t2}
    Posts = {i1, h1}
    ThreadsPosts = {h1}
    Deliverable <- MCDeliverable
    MaxItems = 1
    SearchAttempts = 2
    MaxHurts = 1
    NoJob = NoJob
    ScrapeJobs = {j1, j2}
    ActorAccount <- MCActorAccount
    ScrapeSchedulers = {s1, s2}
    MaxScrapeAttempts = 3
    TickBudget = 2
    MaxMishaps = 1
    NoText = NoText
    Batches = {b1}
    Targets = {u1}
    Templates = {m1}
    MaxBatch = 2
    MaxSlips = 1
    MaxTweaks = 1
    NoUser = NoUser
    Users = {u1, u2}
    TeamCalls = {c1, c2}
    MaxSessions = 2
    MaxStumbles = 1
    NoMonitored = NoMonitored
    Monitored = {m1, m2}
    Ingests = {cron}
    BatchSize = 2
    MaxIngests = 2
    Unseen = Unseen
    Watched = {w1, w2}
    TopN = 1
    Views = {0, 1, 3}
    MaxDays = 1
    NoHolder = NoHolder
    Streams = {s1, s2}
    Publishers = {p1, p2}
    HubBuffer = 1
    MaxEvents = 3
    Exports = {q1, q2}
    Logins = {a1}
    Holders = {w1, w2}
    MaxVersions = 3
    MaxPosts = 2
    MaxMoves = 1
INVARIANTS
    ServicesTypeOK SingleOwner ChargedOnce
    CapOverrunBounded PortSharersBounded PausedIsReleased LowScoreIsPulled
    BatchIsItsRun StuckOnlyByFault SuccessHasPost
    AttemptsBounded RunningIsHeld AllOrNothing OwnTextPosted
    OwnersLeft TrailIsTrue RunVerdictIsTrue FetchedMeansData LatestIsObserved NoSilentGap ExportIsOwn
PROPERTIES ImplementsLifecycle AlertIsReal
CONSTRAINT OneSearch
CHECK_DEADLOCK FALSE
