--------------------------- MODULE ActionPipeline ---------------------------
(***************************************************************************)
(* The life of an action job (like, comment, reply) through the three      *)
(* processes that share it:                                                *)
(*                                                                         *)
(*   - the API's action scheduler claims a due row, walks it through the   *)
(*     gates and LPUSHes it on the list of the worker that owns the        *)
(*     account;                                                            *)
(*   - the worker container BLPOPs one message, performs the action, waits *)
(*     out its jitter and POSTs the verdict, trying CallbackTries times;   *)
(*     in a dry run it performs nothing and reports a success;             *)
(*   - the API's callback handler upserts the attempt's log row, projects  *)
(*     the verdict on the job row and charges the account's health.        *)
(*                                                                         *)
(* Every store, queue and network operation is a step of its own.  The     *)
(* gates are abstracted to "may refuse" and the delay of a reschedule to   *)
(* the flag `due'.                                                         *)
(***************************************************************************)
EXTENDS Integers, Sequences, FiniteSets

CONSTANTS
    Jobs,           \* action_job rows that may be enqueued
    Accounts,       \* accounts the jobs act as
    AccountOf,      \* the account of each job
    Workers,        \* worker containers, each with a list queue:action:<id>
    Schedulers,     \* action-scheduler loops (one per API replica)
    MaxAttempts,    \* RetryPolicy.MaxAttempts: tries of a retryable failure
    CallbackTries,  \* POSTs a worker spends on one verdict
    MaxClaims,      \* bound: the claims of one job that are explored
    Faults,         \* the faults the environment may inject
    DryRun,         \* the values of ACTION_DRY_RUN among the containers
    None            \* no worker, no message, no verdict

(***************************************************************************)
(* What may go wrong around the code:                                      *)
(*   api_crash         an API replica dies, its tick and handlers with it  *)
(*   worker_crash      a container is killed or told to stop               *)
(*   store_error       a statement fails and is not applied                *)
(*   callback_lost     a POST never reaches the API                        *)
(*   callback_timeout  the worker gives up on a POST still being handled   *)
(*   ambiguous_push    LPUSH is applied but reported as an error           *)
(*   retried_push      LPUSH is applied, its reply is lost, and the Redis  *)
(*                     client sends it again                               *)
(*   repack            an account moves to another worker, or to none      *)
(***************************************************************************)
FaultKinds == {"api_crash", "worker_crash", "store_error", "callback_lost",
               "callback_timeout", "ambiguous_push", "retried_push", "repack"}

ASSUME FaultsAssumption == Faults \subseteq FaultKinds
ASSUME DryRunAssumption == DryRun \subseteq BOOLEAN
ASSUME BoundsAssumption ==
    /\ MaxAttempts \in Nat \ {0}
    /\ CallbackTries \in Nat \ {0}
    /\ MaxClaims \in Nat \ {0}
ASSUME AccountAssumption == AccountOf \in [Jobs -> Accounts]
ASSUME NoneAssumption == None \notin Workers

VARIABLES
    job,      \* the action_job rows: status, attempts, and whether due
    home,     \* account -> the worker it is packed in (account.worker_id)
    sched,    \* where each scheduler loop is in dispatchOne
    queue,    \* worker -> its Redis list, head first
    worker,   \* where each worker's action loop is
    calls,    \* action-callback requests the API is handling
    log,      \* the action_log rows: the verdict of each (job, attempt)
    done,     \* history: what workers made of (job, attempt)
    charged   \* history: health charges made for (job, attempt)

vars == <<job, home, sched, queue, worker, calls, log, done, charged>>

Attempts == 1 .. MaxClaims

\* What performing an action comes to: verified on the platform, failed with
\* a class the policy retries (TRANSIENT, RATE_LIMIT), failed for good.
Outcomes == {"success", "retryable", "final"}

\* What a worker makes of a message: it performs the action, unless its
\* container runs dry, and then the platform sees nothing.  A container
\* that is created anew may have another setting.
Results ==
    {o \in Outcomes : FALSE \in DryRun} \cup {x \in {"skipped"} : TRUE \in DryRun}

\* What it reports of it.
VerdictOf(r) == IF r = "skipped" THEN "success" ELSE r

Terminal == {"SUCCESS", "FAILED"}
Messages == [job : Jobs, attempt : Attempts]

IdleTick == [stage |-> "idle", msg |-> None, worker |-> None]
IdleLoop == [stage |-> "idle", msg |-> None, verdict |-> None, try |-> 0]

Init ==
    /\ job = [j \in Jobs |-> [status |-> "none", attempts |-> 0, due |-> FALSE]]
    /\ home \in [Accounts -> Workers]
    /\ sched = [s \in Schedulers |-> IdleTick]
    /\ queue = [w \in Workers |-> <<>>]
    /\ worker = [w \in Workers |-> IdleLoop]
    /\ calls = {}
    /\ log = [j \in Jobs |-> [n \in Attempts |-> None]]
    /\ done = [j \in Jobs |-> [n \in Attempts |-> {}]]
    /\ charged = [j \in Jobs |-> [n \in Attempts |-> 0]]

-----------------------------------------------------------------------------
(***************************************************************************)
(* The statements on action_job.  RescheduleActionJob and                  *)
(* CompleteActionJob match on the id alone: whatever the row's status or   *)
(* attempt was, it is overwritten.                                         *)
(***************************************************************************)
CreateActionJob(j) ==
    job' = [job EXCEPT ![j] = [status |-> "PENDING", attempts |-> 0, due |-> TRUE]]

\* Mutant: the claim forgets to count itself.
ClaimUncounted(j) ==
    job' = [job EXCEPT ![j] =
              [status |-> "RUNNING", attempts |-> @.attempts, due |-> @.due]]

ClaimActionJob(j) ==
    job' = [job EXCEPT ![j] =
              [status |-> "RUNNING", attempts |-> @.attempts + 1, due |-> @.due]]

\* Mutant: a job that goes back starts a new count.
RescheduleAfresh(j) ==
    job' = [job EXCEPT ![j] = [status |-> "PENDING", attempts |-> 0, due |-> FALSE]]

RescheduleActionJob(j) ==
    job' = [job EXCEPT ![j] =
              [status |-> "PENDING", attempts |-> @.attempts, due |-> FALSE]]

CompleteActionJob(j, status) ==
    job' = [job EXCEPT ![j] =
              [status |-> status, attempts |-> @.attempts, due |-> @.due]]

-----------------------------------------------------------------------------
(***************************************************************************)
(* The operator enqueues, time passes, the packer moves accounts.          *)
(***************************************************************************)
Enqueue(j) ==
    /\ job[j].status = "none"
    /\ CreateActionJob(j)
    /\ UNCHANGED <<home, sched, queue, worker, calls, log, done, charged>>

\* scheduled_at comes to lie in the past.
BecomeDue(j) ==
    /\ job[j].status = "PENDING"
    /\ ~job[j].due
    /\ job' = [job EXCEPT ![j].due = TRUE]
    /\ UNCHANGED <<home, sched, queue, worker, calls, log, done, charged>>

Repack(a, w) ==
    /\ "repack" \in Faults
    /\ home[a] # w
    /\ home' = [home EXCEPT ![a] = w]
    /\ UNCHANGED <<job, sched, queue, worker, calls, log, done, charged>>

-----------------------------------------------------------------------------
(***************************************************************************)
(* The scheduler: one tick claims a job and dispatches it.                 *)
(***************************************************************************)
\* Mutant: the claim takes any due row, whatever its status.
ClaimAnyStatus(s, j) ==
    /\ sched[s].stage = "idle"
    /\ job[j].due
    /\ job[j].attempts < MaxClaims
    /\ ClaimActionJob(j)
    /\ sched' = [sched EXCEPT ![s] =
                   [stage |-> "claimed",
                    msg |-> [job |-> j, attempt |-> job[j].attempts + 1],
                    worker |-> None]]
    /\ UNCHANGED <<home, queue, worker, calls, log, done, charged>>

Claim(s, j) ==
    /\ sched[s].stage = "idle"
    /\ job[j].status = "PENDING"
    /\ job[j].due
    /\ job[j].attempts < MaxClaims
    /\ ClaimActionJob(j)
    /\ sched' = [sched EXCEPT ![s] =
                   [stage |-> "claimed",
                    msg |-> [job |-> j, attempt |-> job[j].attempts + 1],
                    worker |-> None]]
    /\ UNCHANGED <<home, queue, worker, calls, log, done, charged>>

\* Target and account lookups; the account's worker is read here and used
\* until the publish.
Resolve(s) ==
    LET w == home[AccountOf[sched[s].msg.job]] IN
    /\ sched[s].stage = "claimed"
    /\ w # None
    /\ sched' = [sched EXCEPT ![s] = [stage |-> "resolved", msg |-> @.msg, worker |-> w]]
    /\ UNCHANGED <<job, home, queue, worker, calls, log, done, charged>>

\* A lookup fails, or no comment text may ship: the job is FAILED.
Reject(s) ==
    /\ sched[s].stage \in {"claimed", "resolved"}
    /\ CompleteActionJob(sched[s].msg.job, "FAILED")
    /\ sched' = [sched EXCEPT ![s] = IdleTick]
    /\ UNCHANGED <<home, queue, worker, calls, log, done, charged>>

\* The tick gives the claimed job up without a publish it knows of: the
\* account has no worker, a gate refuses or cannot answer, or the push
\* reports an error.
GivesBack(s) ==
    \/ sched[s].stage = "claimed" /\ home[AccountOf[sched[s].msg.job]] = None
    \/ sched[s].stage = "resolved"
    \/ sched[s].stage = "pushed" /\ "ambiguous_push" \in Faults

\* Mutant: a refused job is skipped, not rescheduled.
PutBackSkips(s) ==
    /\ GivesBack(s)
    /\ sched' = [sched EXCEPT ![s] = IdleTick]
    /\ UNCHANGED <<job, home, queue, worker, calls, log, done, charged>>

PutBack(s) ==
    /\ GivesBack(s)
    /\ RescheduleActionJob(sched[s].msg.job)
    /\ sched' = [sched EXCEPT ![s] = IdleTick]
    /\ UNCHANGED <<home, queue, worker, calls, log, done, charged>>

\* reschedule() and fail() log a store error and return: the row stays
\* RUNNING and the tick moves on.
ForgetJob(s) ==
    /\ "store_error" \in Faults
    /\ GivesBack(s) \/ sched[s].stage = "claimed"
    /\ sched' = [sched EXCEPT ![s] = IdleTick]
    /\ UNCHANGED <<job, home, queue, worker, calls, log, done, charged>>

\* LPUSH puts the message at the head, where BLPOP takes it.
Push(s) ==
    queue' = [queue EXCEPT ![sched[s].worker] = <<sched[s].msg>> \o @]

Publish(s) ==
    /\ \/ sched[s].stage = "resolved"
       \/ sched[s].stage = "pushed" /\ "retried_push" \in Faults
    /\ Push(s)
    /\ sched' = [sched EXCEPT ![s] = IdleTick]
    /\ UNCHANGED <<job, home, worker, calls, log, done, charged>>

\* The list has the message but the tick has no reply: the client then
\* sends it again (Publish) or returns an error (PutBack).
PushReplyLost(s) ==
    /\ Faults \cap {"ambiguous_push", "retried_push"} # {}
    /\ sched[s].stage = "resolved"
    /\ Push(s)
    /\ sched' = [sched EXCEPT ![s].stage = "pushed"]
    /\ UNCHANGED <<job, home, worker, calls, log, done, charged>>

-----------------------------------------------------------------------------
(***************************************************************************)
(* The worker: strictly one message at a time.                             *)
(***************************************************************************)
\* Mutant: the worker peeks at its list and leaves the message there.
PopPeeks(w) ==
    /\ worker[w].stage = "idle"
    /\ queue[w] # <<>>
    /\ worker' = [worker EXCEPT ![w] =
                    [stage |-> "running", msg |-> Head(queue[w]), verdict |-> None, try |-> 0]]
    /\ UNCHANGED <<job, home, sched, queue, calls, log, done, charged>>

Pop(w) ==
    /\ worker[w].stage = "idle"
    /\ queue[w] # <<>>
    /\ worker' = [worker EXCEPT ![w] =
                    [stage |-> "running", msg |-> Head(queue[w]), verdict |-> None, try |-> 0]]
    /\ queue' = [queue EXCEPT ![w] = Tail(@)]
    /\ UNCHANGED <<job, home, sched, calls, log, done, charged>>

\* The platform sees the action and the controller classes what came of it,
\* or the message is skipped (r = "skipped") and passed off as a success.
Perform(w, r) ==
    LET m == worker[w].msg IN
    /\ worker[w].stage = "running"
    /\ done' = [done EXCEPT ![m.job][m.attempt] = @ \cup {r}]
    /\ worker' = [worker EXCEPT ![w] =
                    [stage |-> "reporting", msg |-> m, verdict |-> VerdictOf(r), try |-> 1]]
    /\ UNCHANGED <<job, home, sched, queue, calls, log, charged>>

\* The request reaches the API, which starts to handle it.
Post(w) ==
    LET l == worker[w] IN
    /\ l.stage = "reporting"
    /\ calls' = calls \cup {[client |-> w, try |-> l.try, msg |-> l.msg,
                             verdict |-> l.verdict, stage |-> "log"]}
    /\ worker' = [worker EXCEPT ![w].stage = "waiting"]
    /\ UNCHANGED <<job, home, sched, queue, log, done, charged>>

\* Mutant: one try too many.
AfterFailureExtra(l) ==
    IF l.try <= CallbackTries
    THEN [l EXCEPT !.stage = "reporting", !.try = @ + 1]
    ELSE IdleLoop

\* A failed POST: back off and try again, or give the verdict up.
AfterFailure(l) ==
    IF l.try < CallbackTries
    THEN [l EXCEPT !.stage = "reporting", !.try = @ + 1]
    ELSE IdleLoop

PostLost(w) ==
    /\ "callback_lost" \in Faults
    /\ worker[w].stage = "reporting"
    /\ worker' = [worker EXCEPT ![w] = AfterFailure(@)]
    /\ UNCHANGED <<job, home, sched, queue, calls, log, done, charged>>

\* The request of worker w is still handled, but nobody reads its reply.
Orphaned(w) ==
    {IF c.client = w THEN [c EXCEPT !.client = None] ELSE c : c \in calls}

PostTimesOut(w) ==
    /\ "callback_timeout" \in Faults
    /\ worker[w].stage = "waiting"
    /\ worker' = [worker EXCEPT ![w] = AfterFailure(@)]
    /\ calls' = Orphaned(w)
    /\ UNCHANGED <<job, home, sched, queue, log, done, charged>>

\* process.exit in the middle of anything: the popped message is gone.
WorkerCrash(w) ==
    /\ "worker_crash" \in Faults
    /\ worker[w].stage # "idle"
    /\ worker' = [worker EXCEPT ![w] = IdleLoop]
    /\ calls' = Orphaned(w)
    /\ UNCHANGED <<job, home, sched, queue, log, done, charged>>

-----------------------------------------------------------------------------
(***************************************************************************)
(* The callback handler: RecordAttempt, one statement per step.            *)
(***************************************************************************)
Advance(c, stage) == calls' = (calls \ {c}) \cup {[c EXCEPT !.stage = stage]}

\* The client of a request that is answered goes to state l.
Answered(c, l) ==
    IF c.client = None THEN worker ELSE [worker EXCEPT ![c.client] = l]

\* Mutant: the row is keyed by the job's latest attempt, not the message's.
RecordLatest(c) ==
    /\ c.stage = "log"
    /\ log' = [log EXCEPT ![c.msg.job][job[c.msg.job].attempts] = c.verdict]
    /\ Advance(c, "verdict")
    /\ UNCHANGED <<job, home, sched, queue, worker, done, charged>>

\* UpsertActionLog: one row per (job, attempt), the last writer wins.
RecordLog(c) ==
    /\ c.stage = "log"
    /\ log' = [log EXCEPT ![c.msg.job][c.msg.attempt] = c.verdict]
    /\ Advance(c, "verdict")
    /\ UNCHANGED <<job, home, sched, queue, worker, done, charged>>

\* Mutant: the retry budget is off by one.
ApplyVerdictExtra(c) ==
    /\ c.stage = "verdict"
    /\ IF c.verdict = "retryable" /\ c.msg.attempt <= MaxAttempts
       THEN RescheduleActionJob(c.msg.job)
       ELSE CompleteActionJob(c.msg.job, IF c.verdict = "success" THEN "SUCCESS" ELSE "FAILED")
    /\ Advance(c, "health")
    /\ UNCHANGED <<home, sched, queue, worker, log, done, charged>>

\* Mutant: whatever is not retried is taken for a success.
ApplyVerdictKindly(c) ==
    /\ c.stage = "verdict"
    /\ IF c.verdict = "retryable" /\ c.msg.attempt < MaxAttempts
       THEN RescheduleActionJob(c.msg.job)
       ELSE CompleteActionJob(c.msg.job, "SUCCESS")
    /\ Advance(c, "health")
    /\ UNCHANGED <<home, sched, queue, worker, log, done, charged>>

\* applyVerdict decides from the attempt the message carries.
ApplyVerdict(c) ==
    /\ c.stage = "verdict"
    /\ \/ /\ c.verdict = "success"
          /\ CompleteActionJob(c.msg.job, "SUCCESS")
       \/ /\ c.verdict = "retryable"
          /\ c.msg.attempt < MaxAttempts
          /\ RescheduleActionJob(c.msg.job)
       \/ /\ c.verdict \in {"retryable", "final"}
          /\ c.verdict = "final" \/ c.msg.attempt >= MaxAttempts
          /\ CompleteActionJob(c.msg.job, "FAILED")
    /\ Advance(c, "health")
    /\ UNCHANGED <<home, sched, queue, worker, log, done, charged>>

\* applyHealth: best effort, a failed read or write is swallowed.
ApplyHealth(c) ==
    /\ c.stage = "health"
    /\ \/ charged' = [charged EXCEPT ![c.msg.job][c.msg.attempt] = @ + 1]
       \/ ("store_error" \in Faults \/ c.client = None) /\ UNCHANGED charged
    /\ IF c.client = None THEN calls' = calls \ {c} ELSE Advance(c, "reply")
    /\ UNCHANGED <<job, home, sched, queue, worker, log, done>>

\* Mutant: the reply is an error although all is applied, and is sent again.
ReplyError(c) ==
    /\ c.stage = "reply"
    /\ calls' = calls \ {c}
    /\ worker' = IF c.client = None THEN worker
                 ELSE Answered(c, AfterFailure(worker[c.client]))
    /\ UNCHANGED <<job, home, sched, queue, log, done, charged>>

Reply(c) ==
    /\ c.stage = "reply"
    /\ calls' = calls \ {c}
    /\ worker' = Answered(c, IdleLoop)
    /\ UNCHANGED <<job, home, sched, queue, log, done, charged>>

\* A statement fails, or the request's context was cancelled with its
\* client: the handler returns an error and applies nothing further.
HandlerFails(c) ==
    /\ c.stage \in {"log", "verdict"}
    /\ "store_error" \in Faults \/ c.client = None
    /\ calls' = calls \ {c}
    /\ worker' = IF c.client = None THEN worker
                 ELSE Answered(c, AfterFailure(worker[c.client]))
    /\ UNCHANGED <<job, home, sched, queue, log, done, charged>>

\* A replica dies with its tick and with the requests C it was handling; the
\* workers that wait for them see the connection drop.
ApiCrash(s, C) ==
    /\ "api_crash" \in Faults
    /\ sched' = [sched EXCEPT ![s] = IdleTick]
    /\ calls' = calls \ C
    /\ worker' = [w \in Workers |->
                    IF \E c \in C : c.client = w THEN AfterFailure(worker[w])
                    ELSE worker[w]]
    /\ UNCHANGED <<job, home, queue, log, done, charged>>

-----------------------------------------------------------------------------
SchedulerStep(s) ==
    \/ \E j \in Jobs : Claim(s, j)
    \/ Resolve(s) \/ Reject(s) \/ PutBack(s) \/ ForgetJob(s)
    \/ Publish(s) \/ PushReplyLost(s)

WorkerStep(w) ==
    \/ Pop(w)
    \/ \E r \in Results : Perform(w, r)
    \/ Post(w) \/ PostLost(w) \/ PostTimesOut(w) \/ WorkerCrash(w)

HandlerStep(c) ==
    RecordLog(c) \/ ApplyVerdict(c) \/ ApplyHealth(c) \/ Reply(c) \/ HandlerFails(c)

Next ==
    \/ \E j \in Jobs : Enqueue(j) \/ BecomeDue(j)
    \/ \E a \in Accounts, w \in Workers \cup {None} : Repack(a, w)
    \/ \E s \in Schedulers : SchedulerStep(s)
    \/ \E w \in Workers : WorkerStep(w)
    \/ \E c \in calls : HandlerStep(c)
    \/ \E s \in Schedulers, C \in SUBSET calls : ApiCrash(s, C)

Spec == Init /\ [][Next]_vars

-----------------------------------------------------------------------------
(***************************************************************************)
(* Properties.                                                             *)
(***************************************************************************)
\* What is waiting to be performed: a claimed job not yet published, or a
\* popped message.
Ticking(s) == sched[s].stage \in {"claimed", "resolved"}
Running(w) == worker[w].stage = "running"
Queued(w) == 1 .. Len(queue[w])

Calls == [client : Workers \cup {None}, try : 1 .. CallbackTries,
          msg : Messages, verdict : Outcomes,
          stage : {"log", "verdict", "health", "reply"}]

JobRows == [status : {"none", "PENDING", "RUNNING"} \cup Terminal,
            attempts : 0 .. MaxClaims, due : BOOLEAN]

Ticks ==
    {IdleTick}
    \cup [stage : {"claimed"}, msg : Messages, worker : {None}]
    \cup [stage : {"resolved", "pushed"}, msg : Messages, worker : Workers]

Loops ==
    {IdleLoop}
    \cup [stage : {"running"}, msg : Messages, verdict : {None}, try : {0}]
    \cup [stage : {"reporting", "waiting"}, msg : Messages,
          verdict : Outcomes, try : 1 .. CallbackTries]

\* Every variable has the shape its comment says.
TypeOK ==
    /\ job \in [Jobs -> JobRows]
    /\ home \in [Accounts -> Workers \cup {None}]
    /\ sched \in [Schedulers -> Ticks]
    /\ queue \in [Workers -> Seq(Messages)]
    /\ worker \in [Workers -> Loops]
    /\ calls \subseteq Calls
    /\ log \in [Jobs -> [Attempts -> Outcomes \cup {None}]]
    /\ done \in [Jobs -> [Attempts -> SUBSET Results]]
    /\ charged \in [Jobs -> [Attempts -> Nat]]

\* No attempt is carried out twice: when a worker is about to perform a
\* message, nobody has performed or skipped that (job, attempt) before,
\* whatever crashed, timed out or was pushed twice by mistake (Publish, Pop).
PerformedOnce ==
    \A w \in Workers :
        Running(w) => done[worker[w].msg.job][worker[w].msg.attempt] = {}

\* The log is the source of truth: a row of action_log says what performing
\* that very attempt produced, even after replayed and late callbacks
\* (RecordLog).  The one exception is a dry run, whose "success" says of
\* that very attempt that it was skipped (Perform).
LogIsGrounded ==
    \A j \in Jobs, n \in Attempts :
        log[j][n] # None =>
            \/ log[j][n] \in done[j][n]
            \/ log[j][n] = "success" /\ "skipped" \in done[j][n]

\* A job row says SUCCESS only if one of its attempts did succeed on the
\* platform, or was skipped by a container in dry run (ApplyVerdict, Reject).
SuccessIsGrounded ==
    \A j \in Jobs :
        job[j].status = "SUCCESS" =>
            \E n \in Attempts : done[j][n] \cap {"success", "skipped"} # {}

\* No SUCCESS without verification: the log and the job rows never claim a
\* success that the platform did not see.  It takes containers of which none
\* runs dry.
SuccessIsReal ==
    /\ \A j \in Jobs, n \in Attempts : log[j][n] # None => log[j][n] \in done[j][n]
    /\ \A j \in Jobs :
         job[j].status = "SUCCESS" => \E n \in Attempts : "success" \in done[j][n]

\* Nothing is performed that was not claimed: an attempt number above the
\* row's counter never reached a worker (Claim, Publish).
NothingUnclaimed ==
    \A j \in Jobs, n \in Attempts : n > job[j].attempts => done[j][n] = {}

\* Places where an attempt is still to be performed, reported or projected
\* on its row, each with the message it carries.
Tokens ==
    {[at |-> <<"tick", s>>, msg |-> sched[s].msg] : s \in {x \in Schedulers : Ticking(x)}}
    \cup (UNION {{[at |-> <<"queue", w, i>>, msg |-> queue[w][i]] : i \in Queued(w)}
                   : w \in Workers})
    \cup {[at |-> <<"worker", w>>, msg |-> worker[w].msg]
            : w \in {x \in Workers : worker[x].stage \in {"running", "reporting"}}}
    \cup {[at |-> <<"call", c>>, msg |-> c.msg]
            : c \in {x \in calls : x.stage \in {"log", "verdict"}}}

\* A job row and the message that stands for it agree: whatever is in flight
\* belongs to a RUNNING row, to its latest attempt, and is alone.  It takes
\* the scheduler, the list, the worker and the handler together to break it.
SingleOwner ==
    \A t \in Tokens :
        /\ job[t.msg.job].status = "RUNNING"
        /\ job[t.msg.job].attempts = t.msg.attempt
        /\ \A u \in Tokens : u.msg.job = t.msg.job => u = t

\* No claimed job is forgotten: somewhere between the tick and the callback
\* the message of a RUNNING row's latest attempt is on its way, even after
\* pushes that were applied and reported as errors, or sent twice, and after
\* verdicts of earlier attempts (PutBack, Pop, Post, ApplyVerdict).  It holds
\* as long as nothing dies, no statement fails and no callback is given up.
RunningIsCarried ==
    \A j \in Jobs :
        job[j].status = "RUNNING" =>
            \E t \in Tokens : t.msg = [job |-> j, attempt |-> job[j].attempts]

\* An attempt costs the account's health at most once, although its verdict
\* may be posted several times (ApplyHealth, AfterFailure).
ChargedOnce ==
    \A j \in Jobs, n \in Attempts : charged[j][n] <= 1

\* A job whose action succeeded is not performed again: the publisher takes
\* an error of the push to mean that nothing was delivered (PutBack).
SuccessNotRepeated ==
    \A w \in Workers :
        Running(w) => \A n \in Attempts : "success" \notin done[worker[w].msg.job][n]

\* A row that is SUCCESS or FAILED stays so, however often and however late
\* a verdict is replayed (CompleteActionJob, RescheduleActionJob).
TerminalIsFinal ==
    [][\A j \in Jobs :
        job[j].status \in Terminal => job'[j].status = job[j].status]_vars

\* The pipeline as one sees it from the queue page.
Tries(j) == {n \in Attempts : done[j][n] # {}}

Fate(j) ==
    IF job[j].status = "RUNNING" /\ job[j].attempts \in Tries(j)
    THEN CHOOSE r \in done[j][job[j].attempts] : TRUE
    ELSE None

Lifecycle == INSTANCE ActionLifecycle WITH
    status <- [j \in Jobs |-> job[j].status],
    taken <- [j \in Jobs |-> job[j].attempts],
    tries <- [j \in Jobs |-> Cardinality(Tries(j))],
    fate <- [j \in Jobs |-> Fate(j)]

\* Scheduler, list, worker and callback together implement the promise of
\* ActionLifecycle.
ImplementsLifecycle == Lifecycle!Spec

-----------------------------------------------------------------------------
(***************************************************************************)
(* Fairness: the ticker fires, an idle worker polls its list, requests are *)
(* served and clocks advance.  Nothing is assumed of a fault, of an        *)
(* operator or of the packer.                                              *)
(***************************************************************************)
Fairness ==
    /\ \A j \in Jobs : WF_vars(BecomeDue(j))
    /\ \A s \in Schedulers :
         WF_vars((\E j \in Jobs : Claim(s, j)) \/ Resolve(s) \/ PutBack(s) \/ Publish(s))
    /\ \A w \in Workers :
         /\ WF_vars(Pop(w) \/ (\E r \in Results : Perform(w, r)) \/ Post(w))
         /\ WF_vars(\E c \in calls : c.client = w /\
                (RecordLog(c) \/ ApplyVerdict(c) \/ ApplyHealth(c) \/ Reply(c)))

FairSpec == Spec /\ Fairness

\* No claimed job is forgotten: a RUNNING row leaves RUNNING (Claim, PutBack,
\* Pop, ApplyVerdict).
NoStranding ==
    \A j \in Jobs : job[j].status = "RUNNING" ~> job[j].status # "RUNNING"

\* Every enqueued job is eventually SUCCESS or FAILED, unless the gates kept
\* refusing it for as many claims as are explored.
EveryJobSettles ==
    \A j \in Jobs : job[j].status = "PENDING" ~>
        (job[j].status \in Terminal \/ job[j].attempts = MaxClaims)

=============================================================================
