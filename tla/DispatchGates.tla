---------------------------- MODULE DispatchGates ----------------------------
(***************************************************************************)
(* The three gates a claimed action job passes in Redis before it is       *)
(* published, with their clocks:                                           *)
(*                                                                         *)
(*   cooldown   SET NX EX on a key per (account, target)                   *)
(*   budget     INCR on a counter per platform, EXPIRE when it was new     *)
(*   pace       SET NX EX on a key per account                             *)
(*                                                                         *)
(* A refusal reschedules the job and gives nothing back: what the earlier  *)
(* gates granted is spent.  ActionPipeline shows the rest of a job's life; *)
(* here it is enqueued, claimed, gated and sent.  Time is counted in ticks *)
(* and every clock runs down to zero, so that behaviours have no horizon.  *)
(***************************************************************************)
EXTENDS Integers, FiniteSets, FiniteSetsExt

CONSTANTS
    Jobs, Accounts, Targets, Platforms,
    AccountOf,      \* job -> account
    TargetOf,       \* job -> target
    PlatformOf,     \* account -> platform
    Schedulers,     \* action-scheduler loops (one per API replica)
    Limits,         \* RateLimits: platform -> units per window, 0 = off
    Cooldown,       \* ActionSchedulerConfig.Cooldown, in ticks
    AccountPace,    \* ActionSchedulerConfig.AccountPace, in ticks
    RateWindow,     \* ActionSchedulerConfig.RateWindow, in ticks
    MaxDispatch,    \* a dispatch takes at most so many ticks (Redis timeouts)
    Renewed,        \* jobs that come again once sent: retries, new rows alike
    Faults,         \* the faults the environment may inject
    None            \* no job

(***************************************************************************)
(*   redis_error   a command is not applied and reports an error           *)
(*   reply_lost    a command is applied but its reply is lost, and the     *)
(*                 client's own retry applies it again                     *)
(*   expire_error  EXPIRE is not applied and reports an error              *)
(*   api_crash     a dispatch dies with its process                        *)
(***************************************************************************)
FaultKinds == {"redis_error", "reply_lost", "expire_error", "api_crash"}

ASSUME DispatchFaults == Faults \subseteq FaultKinds
ASSUME DispatchMaps ==
    /\ AccountOf \in [Jobs -> Accounts]
    /\ TargetOf \in [Jobs -> Targets]
    /\ PlatformOf \in [Accounts -> Platforms]
    /\ Limits \in [Platforms -> Nat]
    /\ Renewed \subseteq Jobs
    /\ None \notin Jobs
ASSUME DispatchClocks ==
    /\ {Cooldown, AccountPace, RateWindow} \subseteq Nat \ {0}
    /\ MaxDispatch \in Nat

VARIABLES
    job,    \* the action_job rows: status, and ticks until scheduled_at
    disp,   \* where each scheduler is in dispatchOne, and for how long
    slot,   \* remaining life of the cooldown keys, 0 = no key
    pace,   \* remaining life of the pace keys, 0 = no key
    rate,   \* the counters: their value and remaining life
    sent,   \* history: per platform, how long ago the last were sent, last first
    since   \* history: ticks since the last publish for (account, target)

vars == <<job, disp, slot, pace, rate, sent, since>>

Pairs == Accounts \X Targets
PairOf(j) == <<AccountOf[j], TargetOf[j]>>

\* A counter INCR has created and EXPIRE has not been applied to.
NoTTL == -1
NoCounter == [n |-> 0, ttl |-> 0]

\* Longer ago than any property can tell.
LongAgo == Cooldown + AccountPace

Idle == [stage |-> "idle", job |-> None, age |-> 0]
Gates == {"claimed", "cooled", "anchor", "spent", "budgeted", "paced"}

Init ==
    /\ job = [j \in Jobs |-> [status |-> "none", delay |-> 0]]
    /\ disp = [s \in Schedulers |-> Idle]
    /\ slot = [k \in Pairs |-> 0]
    /\ pace = [a \in Accounts |-> 0]
    /\ rate = [p \in Platforms |-> NoCounter]
    /\ sent = [p \in Platforms |-> [i \in 1 .. 2 * Limits[p] + 1 |-> RateWindow]]
    /\ since = [k \in Pairs |-> LongAgo]

-----------------------------------------------------------------------------
(***************************************************************************)
(* The job under dispatch, and the keys it needs.                          *)
(***************************************************************************)
Acct(s) == AccountOf[disp[s].job]
Pair(s) == PairOf(disp[s].job)
Plat(s) == PlatformOf[Acct(s)]
At(s, stage) == disp[s].stage = stage

Goto(s, stage) == disp' = [disp EXCEPT ![s].stage = stage]

\* reschedule: the job is PENDING again, `delay' ticks from now.
Reschedule(s, delay) ==
    /\ job' = [job EXCEPT ![disp[s].job] = [status |-> "PENDING", delay |-> delay]]
    /\ disp' = [disp EXCEPT ![s] = Idle]

\* A platform switched off, or a spent budget: how long until it is worth
\* trying again.  TTL answers a negative number for a key without one.
RetryAfter(p) == IF rate[p].ttl > 0 THEN rate[p].ttl ELSE RateWindow

\* INCR creates the key without a TTL and leaves the TTL of an existing one.
\* Beyond Limits[p] + 1 no count differs from another.
Incremented(p, by) ==
    [n |-> Min({rate[p].n + by, Limits[p] + 1}),
     ttl |-> IF rate[p].n = 0 THEN NoTTL ELSE rate[p].ttl]

-----------------------------------------------------------------------------
Enqueue(j) ==
    /\ job[j].status = "none" \/ (job[j].status = "SENT" /\ j \in Renewed)
    /\ job' = [job EXCEPT ![j] = [status |-> "PENDING", delay |-> 0]]
    /\ UNCHANGED <<disp, slot, pace, rate, sent, since>>

\* A due row is claimed and survives the lookups that precede the gates.
Claim(s, j) ==
    /\ At(s, "idle")
    /\ job[j] = [status |-> "PENDING", delay |-> 0]
    /\ job' = [job EXCEPT ![j].status = "RUNNING"]
    /\ disp' = [disp EXCEPT ![s] = [stage |-> "claimed", job |-> j, age |-> 0]]
    /\ UNCHANGED <<slot, pace, rate, sent, since>>

\* Mutant: SET without NX.
AcquireCooldownAnyway(s) ==
    /\ At(s, "claimed")
    /\ slot' = [slot EXCEPT ![Pair(s)] = Cooldown]
    /\ Goto(s, "cooled")
    /\ UNCHANGED <<job, pace, rate, sent, since>>

\* Mutant: the pacing slot is claimed with the cooldown, ahead of the budget.
AcquireBoth(s) ==
    /\ At(s, "claimed")
    /\ slot[Pair(s)] = 0
    /\ slot' = [slot EXCEPT ![Pair(s)] = Cooldown]
    /\ pace' = [pace EXCEPT ![Acct(s)] = AccountPace]
    /\ Goto(s, "cooled")
    /\ UNCHANGED <<job, rate, sent, since>>

\* Gate 1: SETNX finds no key, or one: "target is cooling down".
AcquireCooldown(s) ==
    /\ At(s, "claimed")
    /\ slot[Pair(s)] = 0
    /\ slot' = [slot EXCEPT ![Pair(s)] = Cooldown]
    /\ Goto(s, "cooled")
    /\ UNCHANGED <<job, pace, rate, sent, since>>

CoolingDown(s) ==
    /\ At(s, "claimed")
    /\ slot[Pair(s)] > 0
    /\ Reschedule(s, Cooldown)
    /\ UNCHANGED <<slot, pace, rate, sent, since>>

\* Gate 2: a platform without a budget is refused unasked.
PlatformOff(s) ==
    /\ At(s, "cooled")
    /\ Limits[Plat(s)] = 0
    /\ Reschedule(s, RateWindow)
    /\ UNCHANGED <<slot, pace, rate, sent, since>>

\* Mutant: the limit is not looked at before the counter.
TakeUnitUnasked(s) ==
    LET n == rate[Plat(s)].n + 1 IN
    /\ At(s, "cooled")
    /\ rate' = [rate EXCEPT ![Plat(s)] = Incremented(Plat(s), 1)]
    /\ Goto(s, IF n = 1 THEN "anchor"
               ELSE IF n <= Limits[Plat(s)] THEN "budgeted" ELSE "spent")
    /\ UNCHANGED <<job, slot, pace, sent, since>>

\* INCR: the first unit anchors the window, the units above the limit are
\* refused.
TakeUnit(s) ==
    LET n == rate[Plat(s)].n + 1 IN
    /\ At(s, "cooled")
    /\ Limits[Plat(s)] > 0
    /\ rate' = [rate EXCEPT ![Plat(s)] = Incremented(Plat(s), 1)]
    /\ Goto(s, IF n = 1 THEN "anchor"
               ELSE IF n <= Limits[Plat(s)] THEN "budgeted" ELSE "spent")
    /\ UNCHANGED <<job, slot, pace, sent, since>>

\* Mutant: the window is not anchored.
AnchorNothing(s) ==
    /\ At(s, "anchor")
    /\ Goto(s, "budgeted")
    /\ UNCHANGED <<job, slot, pace, rate, sent, since>>

Anchor(s) ==
    /\ At(s, "anchor")
    /\ rate' = [rate EXCEPT ![Plat(s)].ttl = RateWindow]
    /\ Goto(s, "budgeted")
    /\ UNCHANGED <<job, slot, pace, sent, since>>

BudgetSpent(s) ==
    /\ At(s, "spent")
    /\ Reschedule(s, RetryAfter(Plat(s)))
    /\ UNCHANGED <<slot, pace, rate, sent, since>>

\* Gate 3: the same SETNX, on a key of the account alone.
AcquirePace(s) ==
    /\ At(s, "budgeted")
    /\ pace[Acct(s)] = 0
    /\ pace' = [pace EXCEPT ![Acct(s)] = AccountPace]
    /\ Goto(s, "paced")
    /\ UNCHANGED <<job, slot, rate, sent, since>>

\* Mutant: a paced job is dropped from the queue.
PacingDrops(s) ==
    /\ At(s, "budgeted")
    /\ pace[Acct(s)] > 0
    /\ disp' = [disp EXCEPT ![s] = Idle]
    /\ UNCHANGED <<job, slot, pace, rate, sent, since>>

Pacing(s) ==
    /\ At(s, "budgeted")
    /\ pace[Acct(s)] > 0
    /\ Reschedule(s, AccountPace)
    /\ UNCHANGED <<slot, pace, rate, sent, since>>

Publish(s) ==
    /\ At(s, "paced")
    /\ job' = [job EXCEPT ![disp[s].job].status = "SENT"]
    /\ disp' = [disp EXCEPT ![s] = Idle]
    /\ sent' = [sent EXCEPT ![Plat(s)] = [i \in DOMAIN @ |-> IF i = 1 THEN 0 ELSE @[i - 1]]]
    /\ since' = [since EXCEPT ![Pair(s)] = 0]
    /\ UNCHANGED <<slot, pace, rate>>

-----------------------------------------------------------------------------
\* A command reports an error without having been applied; each gate names
\* the delay of its own.
GateError(s) ==
    /\ \/ /\ "redis_error" \in Faults
          /\ disp[s].stage \in {"claimed", "spent", "budgeted", "paced"}
       \/ "redis_error" \in Faults /\ At(s, "cooled") /\ Limits[Plat(s)] > 0
       \/ "expire_error" \in Faults /\ At(s, "anchor")
    /\ Reschedule(s, IF At(s, "budgeted") THEN AccountPace ELSE Cooldown)
    /\ UNCHANGED <<slot, pace, rate, sent, since>>

\* The client sends an applied SETNX again: the dispatch meets its own key
\* and is refused.
OwnKey(s) ==
    /\ "reply_lost" \in Faults
    /\ \/ /\ At(s, "claimed")
          /\ slot[Pair(s)] = 0
          /\ slot' = [slot EXCEPT ![Pair(s)] = Cooldown]
          /\ Reschedule(s, Cooldown)
          /\ UNCHANGED pace
       \/ /\ At(s, "budgeted")
          /\ pace[Acct(s)] = 0
          /\ pace' = [pace EXCEPT ![Acct(s)] = AccountPace]
          /\ Reschedule(s, AccountPace)
          /\ UNCHANGED slot
    /\ UNCHANGED <<rate, sent, since>>

\* An applied INCR sent again counts twice, and no call sees it return 1.
CountedTwice(s) ==
    LET n == rate[Plat(s)].n + 2 IN
    /\ "reply_lost" \in Faults
    /\ At(s, "cooled")
    /\ Limits[Plat(s)] > 0
    /\ rate' = [rate EXCEPT ![Plat(s)] = Incremented(Plat(s), 2)]
    /\ Goto(s, IF n <= Limits[Plat(s)] THEN "budgeted" ELSE "spent")
    /\ UNCHANGED <<job, slot, pace, sent, since>>

\* The replica stops between two calls; nobody sweeps the RUNNING row.
ApiCrash(s) ==
    /\ "api_crash" \in Faults
    /\ disp[s].stage # "idle"
    /\ disp' = [disp EXCEPT ![s] = Idle]
    /\ UNCHANGED <<job, slot, pace, rate, sent, since>>

-----------------------------------------------------------------------------
Down(t) == IF t > 0 THEN t - 1 ELSE t

\* Mutant: the counter outlives its window by one tick.
RunDownLate(r) == IF r.ttl = 0 THEN NoCounter ELSE [r EXCEPT !.ttl = Down(@)]

\* A key whose life has run out is gone.
RunDown(r) == IF r.ttl = 1 THEN NoCounter ELSE [r EXCEPT !.ttl = Down(@)]

\* One tick passes, unless a dispatch has used up its time.
Tick ==
    /\ \A s \in Schedulers : disp[s].stage # "idle" => disp[s].age < MaxDispatch
    /\ job' = [j \in Jobs |-> [job[j] EXCEPT !.delay = Down(@)]]
    /\ disp' = [s \in Schedulers |->
                  IF At(s, "idle") THEN Idle ELSE [disp[s] EXCEPT !.age = @ + 1]]
    /\ slot' = [k \in Pairs |-> Down(slot[k])]
    /\ pace' = [a \in Accounts |-> Down(pace[a])]
    /\ rate' = [p \in Platforms |-> RunDown(rate[p])]
    /\ sent' = [p \in Platforms |->
                  [i \in DOMAIN sent[p] |-> Min({sent[p][i] + 1, RateWindow})]]
    /\ since' = [k \in Pairs |-> Min({since[k] + 1, LongAgo})]

Dispatch(s) ==
    \/ AcquireCooldown(s) \/ CoolingDown(s)
    \/ PlatformOff(s) \/ TakeUnit(s) \/ Anchor(s) \/ BudgetSpent(s)
    \/ AcquirePace(s) \/ Pacing(s) \/ Publish(s)

Fault(s) == GateError(s) \/ OwnKey(s) \/ CountedTwice(s) \/ ApiCrash(s)

Next ==
    \/ \E j \in Jobs : Enqueue(j)
    \/ \E s \in Schedulers, j \in Jobs : Claim(s, j)
    \/ \E s \in Schedulers : Dispatch(s) \/ Fault(s)
    \/ Tick

Spec == Init /\ [][Next]_vars

-----------------------------------------------------------------------------
(***************************************************************************)
(* Properties.                                                             *)
(***************************************************************************)
Dispatches ==
    {Idle} \cup [stage : Gates, job : Jobs, age : 0 .. MaxDispatch]

Counters(p) ==
    {NoCounter} \cup [n : 1 .. Limits[p] + 1, ttl : {NoTTL} \cup 1 .. RateWindow]

\* The last publishes of a platform, one more than two windows may see.
Lately(p) == [1 .. 2 * Limits[p] + 1 -> 0 .. RateWindow]

\* Every variable has the shape its comment says; in particular a counter
\* with a value has a TTL or none, never one that has run out.
TypeOK ==
    /\ job \in [Jobs -> [status : {"none", "PENDING", "RUNNING", "SENT"}, delay : Nat]]
    /\ disp \in [Schedulers -> Dispatches]
    /\ slot \in [Pairs -> 0 .. Cooldown]
    /\ pace \in [Accounts -> 0 .. AccountPace]
    /\ rate \in [Platforms -> UNION {Counters(p) : p \in Platforms}]
    /\ \A p \in Platforms : rate[p] \in Counters(p)
    /\ DOMAIN sent = Platforms /\ \A p \in Platforms : sent[p] \in Lately(p)
    /\ since \in [Pairs -> 0 .. LongAgo]

\* The point of the gates: when a scheduler is about to publish, the last
\* publish for the same account and target lies a cooldown back, and the last
\* one for the account a pace back, up to the time a dispatch may take.  Two
\* schedulers, crashes and retried commands must not break it
\* (AcquireCooldown, AcquirePace, Publish).
SpacedOut ==
    \A s \in Schedulers :
        At(s, "paced") =>
            /\ since[Pair(s)] + MaxDispatch >= Cooldown
            /\ \A t \in Targets : since[<<Acct(s), t>>] + MaxDispatch >= AccountPace

\* "A fixed window can overspend by at most `limit' once, at a boundary
\* rollover": no RateWindow ticks see more than twice the limit of publishes,
\* for one more always lies a window back, and a platform that is off sees
\* none (TakeUnit, Anchor).
BudgetKept ==
    \A p \in Platforms : sent[p][2 * Limits[p] + 1] >= RateWindow

\* "A job that fails an earlier gate never burns this account's pacing slot":
\* while the pace key lives, an action of the account has been published
\* since it was taken, or is just about to be (AcquirePace, Publish).
PaceSlotIsUsed ==
    \A a \in Accounts :
        pace[a] > 0 =>
            \/ \E t \in Targets : since[<<a, t>>] <= AccountPace - pace[a]
            \/ \E s \in Schedulers : At(s, "paced") /\ Acct(s) = a

-----------------------------------------------------------------------------
(***************************************************************************)
(* Fairness: time passes and a dispatch goes on.  A due job is overtaken   *)
(* in the claims only by jobs scheduled before it: claims go               *)
(* by scheduled_at, and whoever is rescheduled or enqueued comes later.    *)
(* They are finitely many, hence strong fairness for each job.             *)
(***************************************************************************)
Fairness ==
    /\ WF_vars(Tick)
    /\ \A s \in Schedulers : WF_vars(Dispatch(s))
    /\ \A j \in Jobs : SF_vars(\E s \in Schedulers : Claim(s, j))

FairSpec == Spec /\ Fairness

\* "A boundary reset then clears the whole budget at once": a budget that is
\* spent does not stay spent (TakeUnit, Anchor, RunDown).
BudgetResets ==
    \A p \in Platforms : rate[p].n > Limits[p] ~> rate[p].n <= Limits[p]

\* A job the gates refuse gets through in the end, although every refusal has
\* spent the slots and units of the gates before it, its own among them
\* (CoolingDown, BudgetSpent, Pacing).
EveryJobIsSent ==
    \A j \in Jobs :
        Limits[PlatformOf[AccountOf[j]]] > 0 =>
            (job[j].status = "PENDING" ~> job[j].status = "SENT")

=============================================================================
