------------------------ MODULE ActionPipelineProofs ------------------------
(***************************************************************************)
(* Theorems about ActionPipeline, for every number of jobs, workers and    *)
(* scheduler loops, every retry budget and every set of faults: what the   *)
(* log and the job rows say is what happened on the platform, no attempt   *)
(* is performed twice and, while every verdict is delivered once, a        *)
(* claimed job has one owner, is charged once and takes the steps of       *)
(* ActionLifecycle.                                                        *)
(***************************************************************************)
EXTENDS ActionPipeline, FiniteSetTheorems, TLAPS

-----------------------------------------------------------------------------
(***************************************************************************)
(* A stage determines the shape of the record it is found in.              *)
(***************************************************************************)

\* A tick that is not idle holds a message, and its worker once resolved.
LEMMA TickShape ==
    ASSUME TypeOK, NEW s \in Schedulers, sched[s].stage # "idle"
    PROVE  /\ sched[s].msg \in Messages
           /\ sched[s].msg.job \in Jobs
           /\ sched[s].msg.attempt \in Attempts
           /\ sched[s].stage \in {"claimed", "resolved", "pushed"}
           /\ sched[s].stage \in {"resolved", "pushed"} => sched[s].worker \in Workers
           /\ sched[s] = [stage |-> sched[s].stage, msg |-> sched[s].msg,
                          worker |-> sched[s].worker]
BY DEF TypeOK, Ticks, IdleTick, Messages

\* What is reported is an outcome, in a dry run too.
LEMMA VerdictShape ==
    \A r \in Results : VerdictOf(r) \in Outcomes
BY DEF Results, VerdictOf, Outcomes

\* A worker loop that is not idle holds a message, and a verdict once the
\* message is performed.
LEMMA LoopShape ==
    ASSUME TypeOK, NEW w \in Workers, worker[w].stage # "idle"
    PROVE  /\ worker[w].msg \in Messages
           /\ worker[w].msg.job \in Jobs
           /\ worker[w].msg.attempt \in Attempts
           /\ worker[w].stage \in {"running", "reporting", "waiting"}
           /\ worker[w].stage # "running" =>
                worker[w].verdict \in Outcomes /\ worker[w].try \in 1 .. CallbackTries
           /\ worker[w] = [stage |-> worker[w].stage, msg |-> worker[w].msg,
                           verdict |-> worker[w].verdict, try |-> worker[w].try]
BY DEF TypeOK, Loops, IdleLoop, Messages

\* A request under way has the fields the handler reads.
LEMMA CallShape ==
    ASSUME TypeOK, NEW c \in calls
    PROVE  /\ c.client \in Workers \cup {None}
           /\ c.msg \in Messages
           /\ c.msg.job \in Jobs
           /\ c.msg.attempt \in Attempts
           /\ c.verdict \in Outcomes
           /\ c.stage \in {"log", "verdict", "health", "reply"}
           /\ \A x \in {"log", "verdict", "health", "reply"} :
                [c EXCEPT !.stage = x] \in Calls
           /\ [c EXCEPT !.client = None] \in Calls
BY DEF TypeOK, Calls, Messages

\* A failed POST leaves a well-formed loop behind: idle, or one try further.
LEMMA AfterFailureShape ==
    ASSUME TypeOK, NEW w \in Workers, worker[w].stage \in {"reporting", "waiting"}
    PROVE  AfterFailure(worker[w]) \in Loops
<1>1. /\ worker[w].try \in 1 .. CallbackTries
      /\ worker[w].verdict \in Outcomes
      /\ worker[w].msg \in Messages
      /\ worker[w] = [stage |-> worker[w].stage, msg |-> worker[w].msg,
                      verdict |-> worker[w].verdict, try |-> worker[w].try]
  BY LoopShape
<1>2. CASE worker[w].try < CallbackTries
  <2>1. worker[w].try + 1 \in 1 .. CallbackTries
    BY <1>1, <1>2, BoundsAssumption
  <2>2. AfterFailure(worker[w]) =
          [stage |-> "reporting", msg |-> worker[w].msg,
           verdict |-> worker[w].verdict, try |-> worker[w].try + 1]
    BY <1>1, <1>2 DEF AfterFailure
  <2> QED BY <1>1, <2>1, <2>2 DEF Loops
<1>3. CASE ~(worker[w].try < CallbackTries)
  BY <1>3 DEF AfterFailure, Loops
<1> QED BY <1>2, <1>3

\* The statements that put a job back or finish it keep the row's shape.
LEMMA JobUpdates ==
    ASSUME TypeOK, NEW j \in Jobs
    PROVE  /\ RescheduleActionJob(j) => job' \in [Jobs -> JobRows]
           /\ \A x \in Terminal : CompleteActionJob(j, x) => job' \in [Jobs -> JobRows]
<1>1. job \in [Jobs -> JobRows]
  BY DEF TypeOK
<1>2. job[j].attempts \in 0 .. MaxClaims /\ job[j].due \in BOOLEAN
  BY <1>1 DEF JobRows
<1>3. [status |-> "PENDING", attempts |-> job[j].attempts, due |-> FALSE] \in JobRows
  BY <1>2 DEF JobRows
<1>4. \A x \in Terminal :
        [status |-> x, attempts |-> job[j].attempts, due |-> job[j].due] \in JobRows
  BY <1>2 DEF JobRows
<1> QED BY <1>1, <1>3, <1>4 DEF RescheduleActionJob, CompleteActionJob

\* The client of a request is a worker that waits, and for this one only.
WaitingClients ==
    \A c \in calls : c.client # None =>
        /\ worker[c.client].stage = "waiting"
        /\ \A d \in calls : d.client = c.client => d = c

ClientInv == TypeOK /\ WaitingClients

-----------------------------------------------------------------------------
(***************************************************************************)
(* Type correctness.                                                       *)
(***************************************************************************)
LEMMA InitTypeOK == Init => TypeOK
BY BoundsAssumption DEF Init, TypeOK, JobRows, Ticks, Loops, Attempts, Calls, IdleTick, IdleLoop

\* Enqueueing and the passing of time keep the types.
LEMMA OperatorTypeOK ==
    ASSUME TypeOK, NEW j \in Jobs, Enqueue(j) \/ BecomeDue(j)
    PROVE  TypeOK'
<1>1. Enqueue(j) => job' \in [Jobs -> JobRows]
  BY BoundsAssumption DEF Enqueue, CreateActionJob, TypeOK, JobRows
<1>2. [job[j] EXCEPT !.due = TRUE] \in JobRows
  BY DEF TypeOK, JobRows
<1>3. BecomeDue(j) => job' \in [Jobs -> JobRows]
  BY <1>2 DEF BecomeDue, TypeOK
<1> QED BY <1>1, <1>3 DEF Enqueue, BecomeDue, TypeOK

\* Moving an account keeps the types.
LEMMA RepackTypeOK ==
    ASSUME TypeOK, NEW a \in Accounts, NEW w \in Workers \cup {None}, Repack(a, w)
    PROVE  TypeOK'
BY DEF Repack, TypeOK

\* Every step of dispatchOne keeps the types.
LEMMA SchedulerTypeOK ==
    ASSUME TypeOK, NEW s \in Schedulers, SchedulerStep(s)
    PROVE  TypeOK'
<1>1. ASSUME NEW j \in Jobs, Claim(s, j) PROVE TypeOK'
  <2>1. job[j].attempts + 1 \in Attempts
    BY <1>1, BoundsAssumption DEF Claim, TypeOK, JobRows, Attempts
  <2>2. job' \in [Jobs -> JobRows]
    BY <1>1, <2>1 DEF Claim, ClaimActionJob, TypeOK, JobRows, Attempts
  <2>3. sched' \in [Schedulers -> Ticks]
    BY <1>1, <2>1 DEF Claim, TypeOK, Ticks, Messages
  <2> QED BY <1>1, <2>2, <2>3 DEF Claim, TypeOK
<1>2. CASE Resolve(s)
  <2>1. home[AccountOf[sched[s].msg.job]] \in Workers
    BY <1>2, TickShape, AccountAssumption DEF Resolve, TypeOK
  <2>2. sched' \in [Schedulers -> Ticks]
    BY <1>2, <2>1, TickShape DEF Resolve, TypeOK, Ticks
  <2> QED BY <1>2, <2>2 DEF Resolve, TypeOK
<1>3. CASE Reject(s) \/ PutBack(s) \/ ForgetJob(s)
  <2>1. sched[s].msg.job \in Jobs
    BY <1>3, TickShape DEF Reject, PutBack, ForgetJob, GivesBack
  <2>2. job' \in [Jobs -> JobRows]
    BY <1>3, <2>1, JobUpdates DEF Reject, PutBack, ForgetJob, TypeOK, Terminal
  <2>3. sched' \in [Schedulers -> Ticks]
    BY <1>3 DEF Reject, PutBack, ForgetJob, TypeOK, Ticks
  <2> QED BY <1>3, <2>2, <2>3 DEF Reject, PutBack, ForgetJob, TypeOK
<1>4. CASE Publish(s) \/ PushReplyLost(s)
  <2>1. sched[s].msg \in Messages /\ sched[s].worker \in Workers
    BY <1>4, TickShape DEF Publish, PushReplyLost
  <2>2. <<sched[s].msg>> \o queue[sched[s].worker] \in Seq(Messages)
    BY <2>1 DEF TypeOK
  <2>3. queue' \in [Workers -> Seq(Messages)]
    BY <1>4, <2>1, <2>2 DEF Publish, PushReplyLost, Push, TypeOK
  <2>4. IdleTick \in Ticks
    BY DEF Ticks
  <2>5. PushReplyLost(s) => [sched[s] EXCEPT !.stage = "pushed"] \in Ticks
    <3> SUFFICES ASSUME PushReplyLost(s) PROVE [sched[s] EXCEPT !.stage = "pushed"] \in Ticks
      OBVIOUS
    <3>1. sched[s] = [stage |-> sched[s].stage, msg |-> sched[s].msg,
                      worker |-> sched[s].worker]
      BY TickShape DEF PushReplyLost
    <3>2. [sched[s] EXCEPT !.stage = "pushed"] =
            [stage |-> "pushed", msg |-> sched[s].msg, worker |-> sched[s].worker]
      BY <3>1
    <3> QED BY <2>1, <3>2 DEF Ticks
  <2>6. sched' \in [Schedulers -> Ticks]
    BY <1>4, <2>4, <2>5 DEF Publish, PushReplyLost, TypeOK
  <2> QED BY <1>4, <2>3, <2>6 DEF Publish, PushReplyLost, TypeOK
<1> QED BY <1>1, <1>2, <1>3, <1>4 DEF SchedulerStep

\* Every step of a worker's action loop keeps the types.
LEMMA WorkerTypeOK ==
    ASSUME TypeOK, NEW w \in Workers, WorkerStep(w)
    PROVE  TypeOK'
<1>1. CASE Pop(w)
  <2>1. Head(queue[w]) \in Messages /\ Tail(queue[w]) \in Seq(Messages)
    BY <1>1 DEF Pop, TypeOK
  <2>2. worker' \in [Workers -> Loops]
    BY <1>1, <2>1 DEF Pop, TypeOK, Loops, IdleLoop
  <2> QED BY <1>1, <2>1, <2>2 DEF Pop, TypeOK
<1>2. ASSUME NEW r \in Results, Perform(w, r) PROVE TypeOK'
  <2>1. worker' \in [Workers -> Loops]
    BY <1>2, LoopShape, VerdictShape, BoundsAssumption DEF Perform, TypeOK, Loops
  <2>2. done' \in [Jobs -> [Attempts -> SUBSET Results]]
    BY <1>2, LoopShape DEF Perform, TypeOK
  <2> QED BY <1>2, <2>1, <2>2 DEF Perform, TypeOK
<1>3. CASE Post(w)
  <2>0. [worker[w] EXCEPT !.stage = "waiting"] \in Loops
    <3>1. /\ worker[w].msg \in Messages
          /\ worker[w].verdict \in Outcomes
          /\ worker[w].try \in 1 .. CallbackTries
          /\ worker[w] = [stage |-> worker[w].stage, msg |-> worker[w].msg,
                          verdict |-> worker[w].verdict, try |-> worker[w].try]
      BY <1>3, LoopShape DEF Post
    <3>2. [worker[w] EXCEPT !.stage = "waiting"] =
            [stage |-> "waiting", msg |-> worker[w].msg,
             verdict |-> worker[w].verdict, try |-> worker[w].try]
      BY <3>1
    <3> QED BY <3>1, <3>2 DEF Loops
  <2>1. worker' \in [Workers -> Loops]
    BY <1>3, <2>0 DEF Post, TypeOK
  <2>2. calls' \subseteq Calls
    BY <1>3, LoopShape DEF Post, TypeOK, Calls
  <2> QED BY <1>3, <2>1, <2>2 DEF Post, TypeOK
<1>4. CASE PostLost(w) \/ PostTimesOut(w) \/ WorkerCrash(w)
  <2>1. worker' \in [Workers -> Loops]
    <3>1. IdleLoop \in Loops
      BY DEF Loops
    <3> QED BY <1>4, <3>1, AfterFailureShape
            DEF PostLost, PostTimesOut, WorkerCrash, TypeOK
  <2>2. Orphaned(w) \subseteq Calls
    BY CallShape DEF Orphaned, TypeOK
  <2> QED BY <1>4, <2>1, <2>2 DEF PostLost, PostTimesOut, WorkerCrash, TypeOK
<1> QED BY <1>1, <1>2, <1>3, <1>4 DEF WorkerStep

\* Every step of the callback handler keeps the types, replies included:
\* a worker that is answered is one that waits.
LEMMA HandlerTypeOK ==
    ASSUME TypeOK, WaitingClients, NEW c \in calls, HandlerStep(c)
    PROVE  TypeOK'
<1>1. \A x \in {"log", "verdict", "health", "reply"} :
        Advance(c, x) => calls' \subseteq Calls
  BY CallShape DEF Advance, TypeOK
<1>2. (calls \ {c}) \subseteq Calls
  BY DEF TypeOK
<1>3. CASE RecordLog(c)
  <2>1. log' \in [Jobs -> [Attempts -> Outcomes \cup {None}]]
    BY <1>3, CallShape DEF RecordLog, TypeOK
  <2> QED BY <1>1, <1>3, <2>1 DEF RecordLog, TypeOK
<1>4. CASE ApplyVerdict(c)
  <2>1. job' \in [Jobs -> JobRows]
    BY <1>4, CallShape, JobUpdates DEF ApplyVerdict, Terminal
  <2> QED BY <1>1, <1>4, <2>1 DEF ApplyVerdict, TypeOK
<1>5. CASE ApplyHealth(c)
  <2>1. charged' \in [Jobs -> [Attempts -> Nat]]
    <3>0. charged \in [Jobs -> [Attempts -> Nat]]
          /\ c.msg.job \in Jobs /\ c.msg.attempt \in Attempts
      BY CallShape DEF TypeOK
    <3>1. charged[c.msg.job][c.msg.attempt] \in Nat
      BY <3>0
    <3>2. [charged[c.msg.job] EXCEPT ![c.msg.attempt] = @ + 1] \in [Attempts -> Nat]
      BY <3>0, <3>1
    <3> QED BY <1>5, <3>0, <3>2 DEF ApplyHealth
  <2> QED BY <1>1, <1>2, <1>5, <2>1 DEF ApplyHealth, TypeOK
<1>6. CASE Reply(c)
  <2>1. worker' \in [Workers -> Loops]
    BY <1>6, CallShape DEF Reply, Answered, TypeOK, Loops
  <2> QED BY <1>2, <1>6, <2>1 DEF Reply, TypeOK
<1>7. CASE HandlerFails(c)
  <2>1. worker' \in [Workers -> Loops]
    BY <1>7, CallShape, AfterFailureShape DEF HandlerFails, Answered, TypeOK, WaitingClients
  <2> QED BY <1>2, <1>7, <2>1 DEF HandlerFails, TypeOK
<1> QED BY <1>3, <1>4, <1>5, <1>6, <1>7 DEF HandlerStep

\* What the death of a replica leaves: only waiting workers notice, each
\* because its own request is gone.
LEMMA CrashedWorkers ==
    ASSUME ClientInv, NEW s \in Schedulers, NEW C \in SUBSET calls, ApiCrash(s, C),
           NEW w \in Workers
    PROVE  \/ worker'[w] = worker[w]
           \/ /\ worker[w].stage = "waiting" /\ worker'[w] = AfterFailure(worker[w])
              /\ \A c \in calls' : c.client # w
<1>1. CASE \E c \in C : c.client = w
  <2>1. PICK c \in C : c.client = w
    BY <1>1
  <2>2. worker[w].stage = "waiting" /\ \A d \in calls : d.client = w => d = c
    BY <2>1, NoneAssumption DEF ClientInv, WaitingClients
  <2> QED BY <1>1, <2>1, <2>2 DEF ApiCrash
<1>2. CASE ~\E c \in C : c.client = w
  BY <1>2 DEF ApiCrash
<1> QED BY <1>1, <1>2

\* It keeps the types.
LEMMA ApiCrashTypeOK ==
    ASSUME ClientInv, NEW s \in Schedulers, NEW C \in SUBSET calls, ApiCrash(s, C)
    PROVE  TypeOK'
<1>1. \A w \in Workers : worker'[w] \in Loops
  BY CrashedWorkers, AfterFailureShape DEF ClientInv, TypeOK
<1>2. worker' \in [Workers -> Loops]
  BY <1>1 DEF ApiCrash
<1>3. sched' \in [Schedulers -> Ticks]
  BY DEF ApiCrash, ClientInv, TypeOK, Ticks
<1> QED BY <1>2, <1>3 DEF ApiCrash, ClientInv, TypeOK

-----------------------------------------------------------------------------
(***************************************************************************)
(* Requests and the workers that wait for them.                            *)
(***************************************************************************)
LEMMA InitClients == Init => WaitingClients
BY DEF Init, WaitingClients

\* Steps that touch neither the requests nor a waiting worker.
LEMMA WorkerClients ==
    ASSUME ClientInv, NEW w \in Workers, WorkerStep(w)
    PROVE  WaitingClients'
<1> USE DEF ClientInv
<1>1. CASE Pop(w) \/ (\E r \in Results : Perform(w, r)) \/ PostLost(w)
  <2>1. worker[w].stage # "waiting" /\ calls' = calls
    BY <1>1 DEF Pop, Perform, PostLost
  <2>2. \A v \in Workers : v # w => worker'[v] = worker[v]
    BY <1>1 DEF Pop, Perform, PostLost, TypeOK
  <2>3. \A c \in calls : c.client # None => c.client # w /\ c.client \in Workers
    BY <2>1, CallShape DEF WaitingClients
  <2> QED BY <2>1, <2>2, <2>3 DEF WaitingClients
<1>2. CASE Post(w)
  <2>1. \A c \in calls : c.client # None => c.client # w /\ c.client \in Workers
    BY <1>2, CallShape DEF WaitingClients, Post
  <2>2. w # None
    BY NoneAssumption
  <2>3. PICK c \in calls' : c.client = w /\ calls' = calls \cup {c}
    BY <1>2 DEF Post
  <2>4. worker'[w].stage = "waiting"
    BY <1>2 DEF Post, TypeOK
  <2>5. \A v \in Workers : v # w => worker'[v] = worker[v]
    BY <1>2 DEF Post, TypeOK
  <2>6. \A d \in calls' : d = c \/ d \in calls
    BY <2>3
  <2> QED BY <2>1, <2>2, <2>3, <2>4, <2>5, <2>6 DEF WaitingClients
<1>3. CASE PostTimesOut(w) \/ WorkerCrash(w)
  <2>1. calls' = Orphaned(w)
    BY <1>3 DEF PostTimesOut, WorkerCrash
  <2>2. \A v \in Workers : v # w => worker'[v] = worker[v]
    BY <1>3 DEF PostTimesOut, WorkerCrash, TypeOK
  <2>3. \A c \in calls' : c.client # None => c \in calls /\ c.client # w /\ c.client \in Workers
    <3>1. \A c \in calls : [c EXCEPT !.client = None].client = None
      BY CallShape DEF TypeOK, Calls
    <3> QED BY <2>1, <3>1, CallShape DEF Orphaned
  <2> QED BY <2>2, <2>3 DEF WaitingClients
<1> QED BY <1>1, <1>2, <1>3 DEF WorkerStep

\* A request that moves on keeps its client; one that ends frees it.
LEMMA HandlerClients ==
    ASSUME ClientInv, NEW c \in calls, HandlerStep(c)
    PROVE  WaitingClients'
<1> USE DEF ClientInv
<1>1. ASSUME NEW x \in {"verdict", "health", "reply"}, Advance(c, x), worker' = worker
      PROVE  WaitingClients'
  <2> DEFINE d == [c EXCEPT !.stage = x]
  <2>1. d.client = c.client
    BY DEF TypeOK, Calls
  <2>2. calls' = (calls \ {c}) \cup {d}
    BY <1>1 DEF Advance
  <2> HIDE DEF d
  <2> QED BY <1>1, <2>1, <2>2 DEF WaitingClients
<1>2. ASSUME calls' = calls \ {c},
             \A v \in Workers : v # c.client => worker'[v] = worker[v]
      PROVE  WaitingClients'
  <2>1. \A d \in calls' : d \in calls /\ (d.client # None => d.client # c.client)
    BY <1>2 DEF WaitingClients
  <2>2. \A d \in calls' : d.client # None => worker'[d.client] = worker[d.client]
    BY <1>2, <2>1, CallShape
  <2> QED BY <2>1, <2>2 DEF WaitingClients
<1>3. CASE RecordLog(c) \/ ApplyVerdict(c)
  BY <1>1, <1>3 DEF RecordLog, ApplyVerdict
<1>4. CASE ApplyHealth(c)
  BY <1>1, <1>2, <1>4 DEF ApplyHealth
<1>5. CASE Reply(c) \/ HandlerFails(c)
  <2>1. \A v \in Workers : v # c.client => worker'[v] = worker[v]
    BY <1>5 DEF Reply, HandlerFails, Answered, TypeOK
  <2> QED BY <1>2, <1>5, <2>1 DEF Reply, HandlerFails
<1> QED BY <1>3, <1>4, <1>5 DEF HandlerStep

\* The invariant of waiting clients is inductive.
LEMMA ClientStep == ClientInv /\ [Next]_vars => ClientInv'
<1> SUFFICES ASSUME ClientInv, [Next]_vars PROVE ClientInv'
  OBVIOUS
<1> USE DEF ClientInv
<1>1. CASE \E j \in Jobs : Enqueue(j) \/ BecomeDue(j)
  BY <1>1, OperatorTypeOK DEF Enqueue, BecomeDue, WaitingClients
<1>2. CASE \E a \in Accounts, w \in Workers \cup {None} : Repack(a, w)
  BY <1>2, RepackTypeOK DEF Repack, WaitingClients
<1>3. CASE \E s \in Schedulers : SchedulerStep(s)
  <2>1. UNCHANGED <<worker, calls>>
    BY <1>3 DEF SchedulerStep, Claim, Resolve, Reject, PutBack, ForgetJob, Publish,
                PushReplyLost
  <2> QED BY <1>3, <2>1, SchedulerTypeOK DEF WaitingClients
<1>4. CASE \E w \in Workers : WorkerStep(w)
  BY <1>4, WorkerTypeOK, WorkerClients
<1>5. CASE \E c \in calls : HandlerStep(c)
  BY <1>5, HandlerTypeOK, HandlerClients
<1>6. ASSUME NEW s \in Schedulers, NEW C \in SUBSET calls, ApiCrash(s, C)
      PROVE  TypeOK' /\ WaitingClients'
  <2>1. TypeOK'
    BY <1>6, ApiCrashTypeOK
  <2>2. calls' \subseteq calls
    BY <1>6 DEF ApiCrash
  <2>3. ASSUME NEW c \in calls', c.client # None PROVE worker'[c.client] = worker[c.client]
    <3>1. c.client \in Workers
      BY <2>2, <2>3 DEF ClientInv, TypeOK, Calls
    <3> QED BY <1>6, <3>1, CrashedWorkers
  <2> QED BY <2>1, <2>2, <2>3 DEF ClientInv, WaitingClients
<1>7. CASE UNCHANGED vars
  BY <1>7 DEF vars, TypeOK, WaitingClients
<1> QED BY <1>1, <1>2, <1>3, <1>4, <1>5, <1>6, <1>7 DEF Next

\* The client of a request that still has one is waiting for its reply.
THEOREM ClientsWait == Spec => []ClientInv
<1>1. Init => ClientInv
  BY InitTypeOK, InitClients DEF ClientInv
<1> QED BY <1>1, ClientStep, PTL DEF Spec

\* Every variable keeps its shape, whatever the faults.
THEOREM TypeCorrect == Spec => []TypeOK
<1>1. ClientInv => TypeOK
  BY DEF ClientInv
<1> QED BY <1>1, ClientsWait, PTL

-----------------------------------------------------------------------------
(***************************************************************************)
(* Grounding: a verdict on its way from the worker to the job row is that  *)
(* of something the worker did with this very attempt.                     *)
(***************************************************************************)
\* What may be reported of an attempt.
Reportable(j, n) == {VerdictOf(r) : r \in done[j][n]}

VerdictsAreGrounded ==
    /\ \A w \in Workers :
         worker[w].stage \in {"reporting", "waiting"} =>
            worker[w].verdict \in Reportable(worker[w].msg.job, worker[w].msg.attempt)
    /\ \A c \in calls : c.verdict \in Reportable(c.msg.job, c.msg.attempt)

GroundInv ==
    /\ ClientInv
    /\ VerdictsAreGrounded
    /\ LogIsGrounded
    /\ SuccessIsGrounded

\* What has happened stays in the history.
LEMMA DoneGrows ==
    ASSUME ClientInv, [Next]_vars, NEW j \in Jobs, NEW n \in Attempts
    PROVE  done[j][n] \subseteq done'[j][n]
<1> USE DEF ClientInv
<1>1. ASSUME NEW w \in Workers, NEW r \in Results, Perform(w, r)
      PROVE  done[j][n] \subseteq done'[j][n]
  BY <1>1, LoopShape DEF Perform, TypeOK
<1>2. ASSUME UNCHANGED done PROVE done[j][n] \subseteq done'[j][n]
  BY <1>2
<1>3. CASE \E i \in Jobs : Enqueue(i) \/ BecomeDue(i)
  BY <1>2, <1>3 DEF Enqueue, BecomeDue
<1>4. CASE \E a \in Accounts, w \in Workers \cup {None} : Repack(a, w)
  BY <1>2, <1>4 DEF Repack
<1>5. CASE \E s \in Schedulers : SchedulerStep(s)
  BY <1>2, <1>5 DEF SchedulerStep, Claim, Resolve, Reject, PutBack, ForgetJob,
                    Publish, PushReplyLost
<1>6. CASE \E w \in Workers : WorkerStep(w)
  BY <1>1, <1>2, <1>6 DEF WorkerStep, Pop, Post, PostLost, PostTimesOut, WorkerCrash
<1>7. CASE \E c \in calls : HandlerStep(c)
  BY <1>2, <1>7 DEF HandlerStep, RecordLog, ApplyVerdict, ApplyHealth, Reply, HandlerFails
<1>8. CASE (\E s \in Schedulers, C \in SUBSET calls : ApiCrash(s, C)) \/ UNCHANGED vars
  BY <1>2, <1>8 DEF ApiCrash, vars
<1> QED BY <1>3, <1>4, <1>5, <1>6, <1>7, <1>8 DEF Next

\* Nor is anything reportable forgotten.
LEMMA ReportableGrows ==
    ASSUME ClientInv, [Next]_vars, NEW j \in Jobs, NEW n \in Attempts
    PROVE  Reportable(j, n) \subseteq Reportable(j, n)'
BY DoneGrows DEF Reportable

\* A success that is reported stands for a success or a dry run.
LEMMA ReportableIs ==
    ASSUME NEW j \in Jobs, NEW n \in Attempts, NEW o \in Reportable(j, n)
    PROVE  /\ done[j][n] # {}
           /\ o \in done[j][n] \/ (o = "success" /\ "skipped" \in done[j][n])
BY DEF Reportable, VerdictOf

\* A loop after a failed POST is idle or keeps its message and verdict.
LEMMA AfterFailureKeeps ==
    ASSUME TypeOK, NEW w \in Workers, worker[w].stage \in {"reporting", "waiting"},
           AfterFailure(worker[w]).stage # "idle"
    PROVE  /\ AfterFailure(worker[w]).stage = "reporting"
           /\ AfterFailure(worker[w]).msg = worker[w].msg
           /\ AfterFailure(worker[w]).verdict = worker[w].verdict
<1>1. worker[w] = [stage |-> worker[w].stage, msg |-> worker[w].msg,
                   verdict |-> worker[w].verdict, try |-> worker[w].try]
  BY LoopShape
<1>2. AfterFailure(worker[w]) = [worker[w] EXCEPT !.stage = "reporting", !.try = @ + 1]
  BY DEF AfterFailure, IdleLoop
<1>3. AfterFailure(worker[w]) =
        [stage |-> "reporting", msg |-> worker[w].msg,
         verdict |-> worker[w].verdict, try |-> worker[w].try + 1]
  BY <1>1, <1>2
<1> QED BY <1>3

\* It never leaves a worker about to perform its message again.
LEMMA AfterFailureStops ==
    ASSUME TypeOK, NEW w \in Workers, worker[w].stage \in {"reporting", "waiting"}
    PROVE  AfterFailure(worker[w]).stage # "running"
<1>1. AfterFailure(worker[w]).stage \in {"idle", "reporting"}
  BY AfterFailureKeeps
<1> QED BY <1>1

\* How the loop of a worker that has performed its message may have come about.
LEMMA ReportingSteps ==
    ASSUME ClientInv, [Next]_vars, NEW w \in Workers,
           worker'[w].stage \in {"reporting", "waiting"}
    PROVE  \/ /\ worker[w].stage \in {"reporting", "waiting"}
              /\ worker'[w].msg = worker[w].msg
              /\ worker'[w].verdict = worker[w].verdict
           \/ \E r \in Results : Perform(w, r)
<1> USE DEF ClientInv
<1> DEFINE Kept == /\ worker[w].stage \in {"reporting", "waiting"}
                   /\ worker'[w].msg = worker[w].msg
                   /\ worker'[w].verdict = worker[w].verdict
<1>1. ASSUME worker'[w] = worker[w] PROVE Kept
  BY <1>1
<1>2. ASSUME worker[w].stage \in {"reporting", "waiting"},
             worker'[w] = AfterFailure(worker[w])
      PROVE  Kept
  BY <1>2, AfterFailureKeeps
<1>3. worker'[w] # IdleLoop
  BY DEF IdleLoop
<1>4. CASE \E i \in Jobs : Enqueue(i) \/ BecomeDue(i)
  BY <1>1, <1>4 DEF Enqueue, BecomeDue
<1>5. CASE \E a \in Accounts, v \in Workers \cup {None} : Repack(a, v)
  BY <1>1, <1>5 DEF Repack
<1>6. CASE \E s \in Schedulers : SchedulerStep(s)
  BY <1>1, <1>6 DEF SchedulerStep, Claim, Resolve, Reject, PutBack, ForgetJob,
                    Publish, PushReplyLost
<1>7. CASE \E v \in Workers : WorkerStep(v)
  <2>1. PICK v \in Workers : WorkerStep(v)
    BY <1>7
  <2>2. CASE v # w
    <3>1. worker'[w] = worker[w]
      BY <2>1, <2>2 DEF WorkerStep, Pop, Perform, Post, PostLost, PostTimesOut,
                        WorkerCrash, TypeOK
    <3> QED BY <1>1, <3>1
  <2>3. CASE v = w
    <3>1. CASE Pop(w)
      BY <3>1 DEF Pop, TypeOK
    <3>2. CASE \E r \in Results : Perform(w, r)
      BY <3>2
    <3>3. CASE Post(w)
      <4>1. worker[w] = [stage |-> worker[w].stage, msg |-> worker[w].msg,
                         verdict |-> worker[w].verdict, try |-> worker[w].try]
        BY <3>3, LoopShape DEF Post
      <4>2. worker'[w] = [worker[w] EXCEPT !.stage = "waiting"]
        BY <3>3 DEF Post, TypeOK
      <4>3. worker'[w] = [stage |-> "waiting", msg |-> worker[w].msg,
                          verdict |-> worker[w].verdict, try |-> worker[w].try]
        BY <4>1, <4>2
      <4> QED BY <3>3, <4>3 DEF Post
    <3>4. CASE PostLost(w) \/ PostTimesOut(w)
      BY <1>2, <3>4 DEF PostLost, PostTimesOut, TypeOK
    <3>5. CASE WorkerCrash(w)
      BY <1>3, <3>5 DEF WorkerCrash, TypeOK
    <3> QED BY <2>1, <2>3, <3>1, <3>2, <3>3, <3>4, <3>5 DEF WorkerStep
  <2> QED BY <2>2, <2>3
<1>8. CASE \E c \in calls : HandlerStep(c)
  <2>1. PICK c \in calls : HandlerStep(c)
    BY <1>8
  <2>2. CASE RecordLog(c) \/ ApplyVerdict(c) \/ ApplyHealth(c)
    BY <1>1, <2>2 DEF RecordLog, ApplyVerdict, ApplyHealth
  <2>3. CASE (Reply(c) \/ HandlerFails(c)) /\ c.client # w
    <3>1. worker'[w] = worker[w]
      BY <2>3 DEF Reply, HandlerFails, Answered, TypeOK
    <3> QED BY <1>1, <3>1
  <2>4. CASE Reply(c) /\ c.client = w
    BY <1>3, <2>4, NoneAssumption DEF Reply, Answered, TypeOK
  <2>5. CASE HandlerFails(c) /\ c.client = w
    <3>1. worker'[w] = AfterFailure(worker[w]) /\ worker[w].stage = "waiting"
      BY <2>5, NoneAssumption DEF HandlerFails, Answered, TypeOK, WaitingClients
    <3> QED BY <1>2, <3>1
  <2> QED BY <2>1, <2>2, <2>3, <2>4, <2>5 DEF HandlerStep
<1>9. CASE \E s \in Schedulers, C \in SUBSET calls : ApiCrash(s, C)
  BY <1>1, <1>2, <1>9, CrashedWorkers DEF ClientInv
<1>10. CASE UNCHANGED vars
  BY <1>1, <1>10 DEF vars
<1> QED BY <1>4, <1>5, <1>6, <1>7, <1>8, <1>9, <1>10 DEF Next

\* A request in the next state carries what a request, or a worker that is
\* reporting, carries now.
LEMMA CallSteps ==
    ASSUME ClientInv, [Next]_vars, NEW c \in calls'
    PROVE  \/ \E d \in calls : c.msg = d.msg /\ c.verdict = d.verdict
           \/ \E w \in Workers :
                /\ worker[w].stage = "reporting"
                /\ c.msg = worker[w].msg
                /\ c.verdict = worker[w].verdict
<1> USE DEF ClientInv
<1> DEFINE Kept == \E d \in calls : c.msg = d.msg /\ c.verdict = d.verdict
<1>1. ASSUME calls' \subseteq calls PROVE Kept
  BY <1>1
<1>2. ASSUME NEW d \in calls, NEW x \in {"verdict", "health", "reply"}, Advance(d, x)
      PROVE  Kept
  <2> DEFINE e == [d EXCEPT !.stage = x]
  <2>1. e.msg = d.msg /\ e.verdict = d.verdict
    BY DEF TypeOK, Calls
  <2>2. c \in calls \/ c = e
    BY <1>2 DEF Advance
  <2> QED BY <2>1, <2>2
<1>3. ASSUME NEW w \in Workers, calls' = Orphaned(w) PROVE Kept
  <2>1. PICK d \in calls : c = IF d.client = w THEN [d EXCEPT !.client = None] ELSE d
    BY <1>3 DEF Orphaned
  <2>2. [d EXCEPT !.client = None].msg = d.msg
        /\ [d EXCEPT !.client = None].verdict = d.verdict
    BY DEF TypeOK, Calls
  <2> QED BY <2>1, <2>2
<1>4. CASE \E i \in Jobs : Enqueue(i) \/ BecomeDue(i)
  BY <1>1, <1>4 DEF Enqueue, BecomeDue
<1>5. CASE \E a \in Accounts, v \in Workers \cup {None} : Repack(a, v)
  BY <1>1, <1>5 DEF Repack
<1>6. CASE \E s \in Schedulers : SchedulerStep(s)
  BY <1>1, <1>6 DEF SchedulerStep, Claim, Resolve, Reject, PutBack, ForgetJob,
                    Publish, PushReplyLost
<1>7. CASE \E w \in Workers : WorkerStep(w)
  <2>1. PICK w \in Workers : WorkerStep(w)
    BY <1>7
  <2>2. CASE Pop(w) \/ (\E r \in Results : Perform(w, r)) \/ PostLost(w)
    BY <1>1, <2>2 DEF Pop, Perform, PostLost
  <2>3. CASE Post(w)
    BY <2>3 DEF Post
  <2>4. CASE PostTimesOut(w) \/ WorkerCrash(w)
    BY <1>3, <2>4 DEF PostTimesOut, WorkerCrash
  <2> QED BY <2>1, <2>2, <2>3, <2>4 DEF WorkerStep
<1>8. CASE \E d \in calls : HandlerStep(d)
  <2>1. PICK d \in calls : HandlerStep(d)
    BY <1>8
  <2>2. CASE RecordLog(d) \/ ApplyVerdict(d)
    BY <1>2, <2>2 DEF RecordLog, ApplyVerdict
  <2>3. CASE ApplyHealth(d)
    <3>1. calls' \subseteq calls \/ Advance(d, "reply")
      BY <2>3 DEF ApplyHealth
    <3> QED BY <1>1, <1>2, <3>1
  <2>4. CASE Reply(d) \/ HandlerFails(d)
    BY <1>1, <2>4 DEF Reply, HandlerFails
  <2> QED BY <2>1, <2>2, <2>3, <2>4 DEF HandlerStep
<1>9. CASE (\E s \in Schedulers, C \in SUBSET calls : ApiCrash(s, C)) \/ UNCHANGED vars
  BY <1>1, <1>9 DEF ApiCrash, vars
<1> QED BY <1>4, <1>5, <1>6, <1>7, <1>8, <1>9 DEF Next

\* Verdicts stay grounded, whoever takes a step.
LEMMA VerdictsStep ==
    ASSUME ClientInv, VerdictsAreGrounded, [Next]_vars
    PROVE  VerdictsAreGrounded'
<1> USE DEF ClientInv
<1>1. TypeOK'
  BY ClientStep
<1>2. ASSUME NEW w \in Workers, worker'[w].stage \in {"reporting", "waiting"}
      PROVE  worker'[w].verdict \in Reportable(worker[w].msg.job, worker[w].msg.attempt)'
  <2>1. CASE /\ worker[w].stage \in {"reporting", "waiting"}
             /\ worker'[w].msg = worker[w].msg
             /\ worker'[w].verdict = worker[w].verdict
    <3>1. worker[w].msg.job \in Jobs /\ worker[w].msg.attempt \in Attempts
      BY <2>1, LoopShape
    <3>2. worker[w].verdict \in Reportable(worker[w].msg.job, worker[w].msg.attempt)
      BY <2>1 DEF VerdictsAreGrounded
    <3> QED BY <2>1, <3>1, <3>2, ReportableGrows
  <2>2. CASE \E r \in Results : Perform(w, r)
    <3>1. PICK r \in Results : Perform(w, r)
      BY <2>2
    <3>2. /\ worker'[w].msg = worker[w].msg /\ worker'[w].verdict = VerdictOf(r)
          /\ r \in done'[worker[w].msg.job][worker[w].msg.attempt]
      BY <3>1, LoopShape DEF Perform, TypeOK
    <3> QED BY <3>2 DEF Reportable
  <2> QED BY <1>2, <2>1, <2>2, ReportingSteps
<1>3. ASSUME NEW c \in calls'
      PROVE  c.verdict \in Reportable(c.msg.job, c.msg.attempt)'
  <2>1. CASE \E d \in calls : c.msg = d.msg /\ c.verdict = d.verdict
    <3>1. PICK d \in calls : c.msg = d.msg /\ c.verdict = d.verdict
      BY <2>1
    <3>2. d.msg.job \in Jobs /\ d.msg.attempt \in Attempts
      BY CallShape
    <3>3. d.verdict \in Reportable(d.msg.job, d.msg.attempt)
      BY DEF VerdictsAreGrounded
    <3> QED BY <3>1, <3>2, <3>3, ReportableGrows
  <2>2. CASE \E w \in Workers :
               /\ worker[w].stage = "reporting"
               /\ c.msg = worker[w].msg
               /\ c.verdict = worker[w].verdict
    <3>1. PICK w \in Workers : /\ worker[w].stage = "reporting"
                               /\ c.msg = worker[w].msg
                               /\ c.verdict = worker[w].verdict
      BY <2>2
    <3>2. worker[w].msg.job \in Jobs /\ worker[w].msg.attempt \in Attempts
      BY <3>1, LoopShape
    <3>3. worker[w].verdict \in Reportable(worker[w].msg.job, worker[w].msg.attempt)
      BY <3>1 DEF VerdictsAreGrounded
    <3> QED BY <3>1, <3>2, <3>3, ReportableGrows
  <2> QED BY <2>1, <2>2, CallSteps
<1> QED BY <1>2, <1>3 DEF VerdictsAreGrounded

\* Log rows stay grounded: only RecordLog writes one, from a request.
LEMMA LogStep ==
    ASSUME GroundInv, [Next]_vars
    PROVE  LogIsGrounded'
<1> USE DEF GroundInv, ClientInv
<1>1. SUFFICES ASSUME NEW j \in Jobs, NEW n \in Attempts, log'[j][n] # None
               PROVE  \/ log'[j][n] \in done'[j][n]
                      \/ log'[j][n] = "success" /\ "skipped" \in done'[j][n]
  BY DEF LogIsGrounded
<1> DEFINE Goal == \/ log'[j][n] \in done'[j][n]
                   \/ log'[j][n] = "success" /\ "skipped" \in done'[j][n]
<1>2. ASSUME log'[j][n] = log[j][n] PROVE Goal
  BY <1>1, <1>2, DoneGrows DEF LogIsGrounded
<1>3. ASSUME NEW c \in calls, RecordLog(c) PROVE Goal
  <2>1. CASE j = c.msg.job /\ n = c.msg.attempt
    <3>1. log'[j][n] = c.verdict
      BY <1>3, <2>1 DEF RecordLog, TypeOK
    <3>2. c.verdict \in Reportable(j, n)
      BY <2>1 DEF VerdictsAreGrounded
    <3>3. c.verdict \in done[j][n] \/ (c.verdict = "success" /\ "skipped" \in done[j][n])
      BY <3>2, ReportableIs
    <3> QED BY <3>1, <3>3, DoneGrows
  <2>2. CASE ~(j = c.msg.job /\ n = c.msg.attempt)
    BY <1>2, <1>3, <2>2 DEF RecordLog, TypeOK
  <2> QED BY <2>1, <2>2
<1>4. CASE \E i \in Jobs : Enqueue(i) \/ BecomeDue(i)
  BY <1>2, <1>4 DEF Enqueue, BecomeDue
<1>5. CASE \E a \in Accounts, v \in Workers \cup {None} : Repack(a, v)
  BY <1>2, <1>5 DEF Repack
<1>6. CASE \E s \in Schedulers : SchedulerStep(s)
  BY <1>2, <1>6 DEF SchedulerStep, Claim, Resolve, Reject, PutBack, ForgetJob,
                    Publish, PushReplyLost
<1>7. CASE \E w \in Workers : WorkerStep(w)
  BY <1>2, <1>7 DEF WorkerStep, Pop, Perform, Post, PostLost, PostTimesOut, WorkerCrash
<1>8. CASE \E c \in calls : HandlerStep(c)
  BY <1>2, <1>3, <1>8 DEF HandlerStep, ApplyVerdict, ApplyHealth, Reply, HandlerFails
<1>9. CASE (\E s \in Schedulers, C \in SUBSET calls : ApiCrash(s, C)) \/ UNCHANGED vars
  BY <1>2, <1>9 DEF ApiCrash, vars
<1> QED BY <1>4, <1>5, <1>6, <1>7, <1>8, <1>9 DEF Next

\* Only a success verdict makes a row SUCCESS.
LEMMA SuccessStep ==
    ASSUME GroundInv, [Next]_vars
    PROVE  SuccessIsGrounded'
<1> USE DEF GroundInv, ClientInv
<1>1. SUFFICES ASSUME NEW j \in Jobs, job'[j].status = "SUCCESS"
               PROVE  \E n \in Attempts : done'[j][n] \cap {"success", "skipped"} # {}
  BY DEF SuccessIsGrounded
<1> DEFINE Goal == \E n \in Attempts : done'[j][n] \cap {"success", "skipped"} # {}
<1>2. ASSUME job[j].status = "SUCCESS" PROVE Goal
  <2>1. PICK n \in Attempts : done[j][n] \cap {"success", "skipped"} # {}
    BY <1>2 DEF SuccessIsGrounded
  <2> QED BY <2>1, DoneGrows
<1>4. ASSUME NEW i \in Jobs, RescheduleActionJob(i) \/ CompleteActionJob(i, "FAILED")
      PROVE  Goal
  <2>1. j # i => job'[j] = job[j]
    BY <1>4 DEF RescheduleActionJob, CompleteActionJob, TypeOK
  <2>2. job'[i].status \in {"PENDING", "FAILED"}
    BY <1>4 DEF RescheduleActionJob, CompleteActionJob, TypeOK
  <2> QED BY <1>1, <1>2, <2>1, <2>2
<1>5. ASSUME NEW c \in calls, ApplyVerdict(c) PROVE Goal
  <2>1. c.msg.job \in Jobs /\ c.msg.attempt \in Attempts
    BY CallShape
  <2>2. CASE c.verdict = "success" /\ CompleteActionJob(c.msg.job, "SUCCESS")
    <3>1. CASE j = c.msg.job
      <4>1. done[j][c.msg.attempt] \cap {"success", "skipped"} # {}
        <5>1. "success" \in Reportable(j, c.msg.attempt)
          BY <2>2, <3>1 DEF VerdictsAreGrounded
        <5> QED BY <2>1, <5>1, ReportableIs
      <4> QED BY <2>1, <4>1, DoneGrows
    <3>2. CASE j # c.msg.job
      BY <1>1, <1>2, <2>2, <3>2 DEF CompleteActionJob, TypeOK
    <3> QED BY <3>1, <3>2
  <2>3. CASE RescheduleActionJob(c.msg.job) \/ CompleteActionJob(c.msg.job, "FAILED")
    BY <1>4, <2>1, <2>3
  <2> QED BY <1>5, <2>2, <2>3 DEF ApplyVerdict
<1>6. CASE \E i \in Jobs : Enqueue(i) \/ BecomeDue(i)
  <2>1. PICK i \in Jobs : Enqueue(i) \/ BecomeDue(i)
    BY <1>6
  <2>2. j # i => job'[j] = job[j]
    BY <2>1 DEF Enqueue, CreateActionJob, BecomeDue, TypeOK
  <2>3. j = i => job'[j].status = "PENDING" \/ job'[j].status = job[j].status
    <3>1. Enqueue(i) => job'[i].status = "PENDING"
      BY DEF Enqueue, CreateActionJob, TypeOK
    <3>2. BecomeDue(i) => job'[i].status = job[i].status
      <4>1. job[i] \in JobRows
        BY DEF TypeOK
      <4>2. BecomeDue(i) => job'[i] = [job[i] EXCEPT !.due = TRUE]
        BY DEF BecomeDue, TypeOK
      <4> QED BY <4>1, <4>2 DEF JobRows
    <3> QED BY <2>1, <3>1, <3>2
  <2> QED BY <1>1, <1>2, <2>2, <2>3
<1>7. CASE \E a \in Accounts, v \in Workers \cup {None} : Repack(a, v)
  BY <1>1, <1>2, <1>7 DEF Repack
<1>8. CASE \E s \in Schedulers : SchedulerStep(s)
  <2>1. PICK s \in Schedulers : SchedulerStep(s)
    BY <1>8
  <2>2. CASE \E i \in Jobs : Claim(s, i)
    BY <1>1, <1>2, <2>2 DEF Claim, ClaimActionJob, TypeOK
  <2>3. CASE Reject(s) \/ PutBack(s)
    <3>1. sched[s].msg.job \in Jobs
      BY <2>3, TickShape DEF Reject, PutBack, GivesBack
    <3> QED BY <1>4, <2>3, <3>1 DEF Reject, PutBack
  <2>4. CASE Resolve(s) \/ ForgetJob(s) \/ Publish(s) \/ PushReplyLost(s)
    BY <1>1, <1>2, <2>4 DEF Resolve, ForgetJob, Publish, PushReplyLost
  <2> QED BY <2>1, <2>2, <2>3, <2>4 DEF SchedulerStep
<1>9. CASE \E w \in Workers : WorkerStep(w)
  BY <1>1, <1>2, <1>9 DEF WorkerStep, Pop, Perform, Post, PostLost, PostTimesOut,
                          WorkerCrash
<1>10. CASE \E c \in calls : HandlerStep(c)
  BY <1>1, <1>2, <1>5, <1>10 DEF HandlerStep, RecordLog, ApplyHealth, Reply, HandlerFails
<1>11. CASE (\E s \in Schedulers, C \in SUBSET calls : ApiCrash(s, C)) \/ UNCHANGED vars
  BY <1>1, <1>2, <1>11 DEF ApiCrash, vars
<1> QED BY <1>6, <1>7, <1>8, <1>9, <1>10, <1>11 DEF Next

\* The three grounding invariants hold together in every behaviour.
THEOREM Grounded == Spec => []GroundInv
<1>1. Init => GroundInv
  <2> SUFFICES ASSUME Init PROVE GroundInv
    OBVIOUS
  <2>1. ClientInv
    BY InitTypeOK, InitClients DEF ClientInv
  <2>2. VerdictsAreGrounded /\ LogIsGrounded /\ SuccessIsGrounded
    BY DEF Init, IdleLoop, VerdictsAreGrounded, LogIsGrounded, SuccessIsGrounded
  <2> QED BY <2>1, <2>2 DEF GroundInv
<1>2. GroundInv /\ [Next]_vars => GroundInv'
  BY ClientStep, VerdictsStep, LogStep, SuccessStep DEF GroundInv
<1> QED BY <1>1, <1>2, PTL DEF Spec

\* A row of action_log holds what performing that attempt produced, or the
\* success of a dry run that skipped that very attempt.
THEOREM LogTellsTheTruth == Spec => []LogIsGrounded
<1>1. GroundInv => LogIsGrounded
  BY DEF GroundInv
<1> QED BY <1>1, Grounded, PTL

\* A job row says SUCCESS only if the action did succeed on the platform, or a
\* container in dry run skipped it.
THEOREM SuccessTellsTheTruth == Spec => []SuccessIsGrounded
<1>1. GroundInv => SuccessIsGrounded
  BY DEF GroundInv
<1> QED BY <1>1, Grounded, PTL

\* No SUCCESS without verification, as long as no container runs dry: neither
\* the log nor a job row then claims a success the platform did not see,
\* whatever crashes, is lost, repeated or late (Perform, RecordLog,
\* ApplyVerdict).
THEOREM LiveSuccessIsReal ==
    ASSUME TRUE \notin DryRun
    PROVE  Spec => []SuccessIsReal
<1>1. "skipped" \notin Results
  BY DEF Results, Outcomes
<1>2. GroundInv => SuccessIsReal
  <2> SUFFICES ASSUME GroundInv PROVE SuccessIsReal
    OBVIOUS
  <2>1. \A j \in Jobs, n \in Attempts : "skipped" \notin done[j][n]
    BY <1>1 DEF GroundInv, ClientInv, TypeOK
  <2> QED BY <2>1 DEF GroundInv, LogIsGrounded, SuccessIsGrounded, SuccessIsReal
<1> QED BY <1>2, Grounded, PTL

-----------------------------------------------------------------------------
(***************************************************************************)
(* No attempt is performed twice, as long as the Redis client does not     *)
(* send a push again.  A message that is still to be performed sits in one *)
(* place only, is fresh (nobody performed it) and has been claimed.        *)
(***************************************************************************)
Unperformed(m) == done[m.job][m.attempt] = {}
Claimed(m) == m.attempt <= job[m.job].attempts

TicksFresh ==
    \A s \in Schedulers : Ticking(s) => Unperformed(sched[s].msg) /\ Claimed(sched[s].msg)

QueuesFresh ==
    \A w \in Workers : \A i \in Queued(w) : Unperformed(queue[w][i]) /\ Claimed(queue[w][i])

RunningFresh ==
    \A w \in Workers : Running(w) => Unperformed(worker[w].msg) /\ Claimed(worker[w].msg)

TicksApart ==
    \A s \in Schedulers : Ticking(s) =>
        /\ \A t \in Schedulers : Ticking(t) /\ sched[t].msg = sched[s].msg => t = s
        /\ \A w \in Workers : \A i \in Queued(w) : queue[w][i] # sched[s].msg
        /\ \A w \in Workers : Running(w) => worker[w].msg # sched[s].msg

QueuesApart ==
    \A w \in Workers : \A i \in Queued(w) :
        /\ \A v \in Workers : \A k \in Queued(v) :
             queue[v][k] = queue[w][i] => v = w /\ k = i
        /\ \A v \in Workers : Running(v) => worker[v].msg # queue[w][i]

RunningApart ==
    \A v, w \in Workers :
        Running(v) /\ Running(w) /\ worker[v].msg = worker[w].msg => v = w

NewRows == \A j \in Jobs : job[j].status = "none" => job[j].attempts = 0

FreshInv == TicksFresh /\ QueuesFresh /\ RunningFresh
ApartInv == TicksApart /\ QueuesApart /\ RunningApart
OnceInv == ClientInv /\ FreshInv /\ ApartInv /\ NothingUnclaimed /\ NewRows

\* A row's claims are never forgotten.
LEMMA AttemptsGrow ==
    ASSUME ClientInv, NewRows, [Next]_vars
    PROVE  NewRows' /\ \A j \in Jobs : job[j].attempts <= job'[j].attempts
<1> USE DEF ClientInv
<1> DEFINE Grows == NewRows' /\ \A j \in Jobs : job[j].attempts <= job'[j].attempts
<1>1. \A j \in Jobs : job[j].attempts \in Nat
  BY BoundsAssumption DEF TypeOK, JobRows
<1>2. ASSUME UNCHANGED job PROVE Grows
  BY <1>1, <1>2 DEF NewRows
<1>3. ASSUME NEW i \in Jobs, \A j \in Jobs : j # i => job'[j] = job[j],
             job'[i].attempts >= job[i].attempts, job'[i].status # "none"
      PROVE  Grows
  BY <1>1, <1>3 DEF NewRows
<1>4. ASSUME NEW i \in Jobs,
             RescheduleActionJob(i) \/ \E x \in Terminal : CompleteActionJob(i, x)
      PROVE  Grows
  <2>1. \A j \in Jobs : j # i => job'[j] = job[j]
    BY <1>4 DEF RescheduleActionJob, CompleteActionJob, TypeOK
  <2>2. job'[i].attempts = job[i].attempts /\ job'[i].status # "none"
    BY <1>4 DEF RescheduleActionJob, CompleteActionJob, TypeOK, Terminal
  <2> QED BY <1>1, <1>3, <2>1, <2>2
<1>5. CASE \E i \in Jobs : Enqueue(i) \/ BecomeDue(i)
  <2>1. PICK i \in Jobs : Enqueue(i) \/ BecomeDue(i)
    BY <1>5
  <2>2. \A j \in Jobs : j # i => job'[j] = job[j]
    BY <2>1 DEF Enqueue, CreateActionJob, BecomeDue, TypeOK
  <2>3. CASE Enqueue(i)
    <3>1. job'[i].attempts = 0 /\ job'[i].status = "PENDING" /\ job[i].attempts = 0
      BY <2>3 DEF Enqueue, CreateActionJob, TypeOK, NewRows
    <3> QED BY <1>3, <2>2, <3>1
  <2>4. CASE BecomeDue(i)
    <3>1. job[i] \in JobRows /\ job'[i] = [job[i] EXCEPT !.due = TRUE]
      BY <2>4 DEF BecomeDue, TypeOK
    <3>2. job'[i].attempts = job[i].attempts /\ job'[i].status = job[i].status
      BY <3>1 DEF JobRows
    <3> QED BY <1>1, <1>3, <2>2, <2>4, <3>2 DEF BecomeDue
  <2> QED BY <2>1, <2>3, <2>4
<1>6. CASE \E a \in Accounts, v \in Workers \cup {None} : Repack(a, v)
  BY <1>2, <1>6 DEF Repack
<1>7. CASE \E s \in Schedulers : SchedulerStep(s)
  <2>1. PICK s \in Schedulers : SchedulerStep(s)
    BY <1>7
  <2>2. ASSUME NEW i \in Jobs, Claim(s, i) PROVE Grows
    <3>1. \A j \in Jobs : j # i => job'[j] = job[j]
      BY <2>2 DEF Claim, ClaimActionJob, TypeOK
    <3>2. job'[i].attempts = job[i].attempts + 1 /\ job'[i].status = "RUNNING"
      BY <2>2 DEF Claim, ClaimActionJob, TypeOK
    <3> QED BY <1>1, <1>3, <3>1, <3>2
  <2>3. CASE Reject(s) \/ PutBack(s)
    <3>1. sched[s].msg.job \in Jobs
      BY <2>3, TickShape DEF Reject, PutBack, GivesBack
    <3> QED BY <1>4, <2>3, <3>1 DEF Reject, PutBack, Terminal
  <2>4. CASE Resolve(s) \/ ForgetJob(s) \/ Publish(s) \/ PushReplyLost(s)
    BY <1>2, <2>4 DEF Resolve, ForgetJob, Publish, PushReplyLost
  <2> QED BY <2>1, <2>2, <2>3, <2>4 DEF SchedulerStep
<1>8. CASE \E w \in Workers : WorkerStep(w)
  BY <1>2, <1>8 DEF WorkerStep, Pop, Perform, Post, PostLost, PostTimesOut, WorkerCrash
<1>9. CASE \E c \in calls : HandlerStep(c)
  <2>1. PICK c \in calls : HandlerStep(c)
    BY <1>9
  <2>2. CASE ApplyVerdict(c)
    <3>1. c.msg.job \in Jobs
      BY CallShape
    <3> QED BY <1>4, <2>2, <3>1 DEF ApplyVerdict, Terminal
  <2>3. CASE RecordLog(c) \/ ApplyHealth(c) \/ Reply(c) \/ HandlerFails(c)
    BY <1>2, <2>3 DEF RecordLog, ApplyHealth, Reply, HandlerFails
  <2> QED BY <2>1, <2>2, <2>3 DEF HandlerStep
<1>10. CASE (\E s \in Schedulers, C \in SUBSET calls : ApiCrash(s, C)) \/ UNCHANGED vars
  BY <1>2, <1>10 DEF ApiCrash, vars
<1> QED BY <1>5, <1>6, <1>7, <1>8, <1>9, <1>10 DEF Next

\* The messages still to be performed are messages.
LEMMA PendingShape ==
    ASSUME ClientInv
    PROVE  /\ \A s \in Schedulers : Ticking(s) =>
                /\ sched[s].msg \in Messages /\ sched[s].msg.job \in Jobs
                /\ sched[s].msg.attempt \in Attempts
           /\ \A w \in Workers : \A i \in Queued(w) :
                /\ queue[w][i] \in Messages /\ queue[w][i].job \in Jobs
                /\ queue[w][i].attempt \in Attempts
           /\ \A w \in Workers : Running(w) =>
                /\ worker[w].msg \in Messages /\ worker[w].msg.job \in Jobs
                /\ worker[w].msg.attempt \in Attempts
<1>1. \A s \in Schedulers : Ticking(s) => sched[s].stage # "idle"
  BY DEF Ticking
<1>2. \A w \in Workers : Running(w) => worker[w].stage # "idle"
  BY DEF Running
<1>3. \A w \in Workers : \A i \in Queued(w) : queue[w][i] \in Messages
  BY DEF Queued, ClientInv, TypeOK
<1> QED BY <1>1, <1>2, <1>3, TickShape, LoopShape DEF ClientInv, Messages

\* A step that only takes messages away keeps the others fresh and apart.
LEMMA Shrink ==
    ASSUME OnceInv, UNCHANGED <<done, queue>>,
           \A j \in Jobs : job[j].attempts \in Nat /\ job'[j].attempts \in Nat
                            /\ job[j].attempts <= job'[j].attempts,
           \A s \in Schedulers : Ticking(s)' => Ticking(s) /\ sched'[s].msg = sched[s].msg,
           \A w \in Workers : Running(w)' => Running(w) /\ worker'[w].msg = worker[w].msg
    PROVE  FreshInv' /\ ApartInv'
<1> USE DEF OnceInv, FreshInv, ApartInv
<1>1. \A w \in Workers : Queued(w)' = Queued(w)
  BY DEF Queued
<1>2. \A m \in Messages : Unperformed(m) => Unperformed(m)'
  BY DEF Unperformed
<1>3. \A m \in Messages : Claimed(m) => Claimed(m)'
  BY BoundsAssumption DEF Claimed, Messages, Attempts
<1>4. TicksFresh'
  BY <1>2, <1>3, PendingShape DEF TicksFresh
<1>5. QueuesFresh'
  BY <1>1, <1>2, <1>3, PendingShape DEF QueuesFresh
<1>6. RunningFresh'
  BY <1>2, <1>3, PendingShape DEF RunningFresh
<1>7. TicksApart'
  BY <1>1 DEF TicksApart
<1>8. QueuesApart'
  BY <1>1 DEF QueuesApart
<1>9. RunningApart'
  BY DEF RunningApart
<1> QED BY <1>4, <1>5, <1>6, <1>7, <1>8, <1>9

\* The counter of a row is a number.
LEMMA AttemptsNat ==
    ASSUME TypeOK PROVE \A j \in Jobs : job[j].attempts \in Nat
BY BoundsAssumption DEF TypeOK, JobRows

\* A claim makes a message nobody has seen: its attempt is above the row's.
LEMMA ClaimOnce ==
    ASSUME OnceInv, TypeOK', NEW s \in Schedulers, NEW j \in Jobs, Claim(s, j)
    PROVE  FreshInv' /\ ApartInv'
<1> USE DEF OnceInv, FreshInv, ApartInv
<1>0. PICK m : m = [job |-> j, attempt |-> job[j].attempts + 1]
  OBVIOUS
<1>1. job[j].attempts \in Nat
  BY AttemptsNat DEF ClientInv
<1>2. /\ sched'[s].msg = m
      /\ job'[j].attempts = job[j].attempts + 1
      /\ \A t \in Schedulers : t # s => sched'[t] = sched[t]
      /\ \A i \in Jobs : i # j => job'[i] = job[i]
      /\ UNCHANGED <<queue, worker, done>>
  BY <1>0 DEF Claim, ClaimActionJob, ClientInv, TypeOK
<1>3. m.attempt \in Attempts
  BY <1>0, <1>1, BoundsAssumption DEF Claim, Attempts
<1>4. done[j][m.attempt] = {}
  BY <1>0, <1>1, <1>3 DEF NothingUnclaimed
<1>5. \A x \in Messages : Claimed(x) => x # m
  BY <1>0, <1>1 DEF Claimed
<1>6. \A x \in Messages : Claimed(x) => Claimed(x)'
  BY <1>1, <1>2 DEF Claimed, Messages, Attempts
<1>7. \A w \in Workers : Queued(w)' = Queued(w) /\ (Running(w)' <=> Running(w))
  BY <1>2 DEF Queued, Running
<1>8. \A t \in Schedulers : t # s => (Ticking(t)' <=> Ticking(t))
  BY <1>2 DEF Ticking
<1>9. Unperformed(m)' /\ Claimed(m)'
  BY <1>0, <1>1, <1>2, <1>4 DEF Unperformed, Claimed
<1>10. \A x \in Messages : Unperformed(x)' <=> Unperformed(x)
  BY <1>2 DEF Unperformed
<1>11. TicksFresh'
  BY <1>2, <1>6, <1>8, <1>9, <1>10, PendingShape DEF TicksFresh
<1>12. QueuesFresh'
  BY <1>2, <1>6, <1>7, <1>10, PendingShape DEF QueuesFresh
<1>13. RunningFresh'
  BY <1>2, <1>6, <1>7, <1>10, PendingShape DEF RunningFresh
<1>14. TicksApart'
  <2> SUFFICES ASSUME NEW t \in Schedulers, Ticking(t)'
               PROVE  /\ \A u \in Schedulers : Ticking(u)' /\ sched'[u].msg = sched'[t].msg => u = t
                      /\ \A w \in Workers : \A i \in Queued(w)' : queue'[w][i] # sched'[t].msg
                      /\ \A w \in Workers : Running(w)' => worker'[w].msg # sched'[t].msg
    BY DEF TicksApart
  <2>1. CASE t = s
    <3>1. \A u \in Schedulers : u # s /\ Ticking(u) => sched[u].msg # m
      BY <1>5, PendingShape DEF TicksFresh
    <3>2. \A w \in Workers : \A i \in Queued(w) : queue[w][i] # m
      BY <1>5, PendingShape DEF QueuesFresh
    <3>3. \A w \in Workers : Running(w) => worker[w].msg # m
      BY <1>5, PendingShape DEF RunningFresh
    <3> QED BY <1>2, <1>7, <1>8, <2>1, <3>1, <3>2, <3>3
  <2>2. CASE t # s
    <3>1. Ticking(t) /\ sched'[t].msg = sched[t].msg
      BY <1>2, <1>8, <2>2
    <3>2. sched[t].msg # m
      BY <1>5, <3>1, PendingShape DEF TicksFresh
    <3> QED BY <1>2, <1>7, <1>8, <3>1, <3>2 DEF TicksApart
  <2> QED BY <2>1, <2>2
<1>15. QueuesApart'
  BY <1>2, <1>7 DEF QueuesApart
<1>16. RunningApart'
  BY <1>2, <1>7 DEF RunningApart
<1> QED BY <1>11, <1>12, <1>13, <1>14, <1>15, <1>16

\* A push moves a tick's message to the head of a list.
LEMMA PushOnce ==
    ASSUME OnceInv, TypeOK', NEW s \in Schedulers, sched[s].stage = "resolved", Push(s),
           sched'[s].stage \notin {"claimed", "resolved"},
           \A t \in Schedulers : t # s => sched'[t] = sched[t],
           UNCHANGED <<job, worker, done>>
    PROVE  FreshInv' /\ ApartInv'
<1> USE DEF OnceInv, FreshInv, ApartInv
<1> DEFINE m == sched[s].msg
           w0 == sched[s].worker
<1>1. m \in Messages /\ w0 \in Workers
  BY TickShape DEF ClientInv
<1>2. Ticking(s) /\ ~Ticking(s)'
  BY DEF Ticking
<1>3. \A t \in Schedulers : Ticking(t)' => t # s /\ Ticking(t) /\ sched'[t].msg = sched[t].msg
  BY <1>2 DEF Ticking
<1>4. queue[w0] \in Seq(Messages) /\ queue'[w0] = <<m>> \o queue[w0]
  BY <1>1 DEF Push, ClientInv, TypeOK
<1>5. \A v \in Workers : v # w0 => queue'[v] = queue[v]
  BY <1>1 DEF Push, ClientInv, TypeOK
<1>6. /\ Len(queue'[w0]) = Len(queue[w0]) + 1
      /\ queue'[w0][1] = m
      /\ \A i \in 2 .. Len(queue[w0]) + 1 : queue'[w0][i] = queue[w0][i - 1]
  BY <1>1, <1>4
<1> DEFINE Old(v, i) == IF v = w0 THEN i - 1 ELSE i
<1>7. Len(queue[w0]) \in Nat
  BY <1>4
<1>8. \A v \in Workers : \A i \in Queued(v)' :
        \/ v = w0 /\ i = 1 /\ queue'[v][i] = m
        \/ /\ Old(v, i) \in Queued(v)
           /\ queue'[v][i] = queue[v][Old(v, i)]
           /\ ~(v = w0 /\ i = 1)
  <2> SUFFICES ASSUME NEW v \in Workers, NEW i \in Queued(v)'
               PROVE  \/ v = w0 /\ i = 1 /\ queue'[v][i] = m
                      \/ /\ Old(v, i) \in Queued(v)
                         /\ queue'[v][i] = queue[v][Old(v, i)]
                         /\ ~(v = w0 /\ i = 1)
    OBVIOUS
  <2>1. CASE v # w0
    BY <1>5, <2>1 DEF Queued
  <2>2. CASE v = w0 /\ i = 1
    BY <1>6, <2>2
  <2>3. CASE v = w0 /\ i # 1
    <3>1. i \in 2 .. Len(queue[w0]) + 1
      BY <1>6, <1>7, <2>3 DEF Queued
    <3> QED BY <1>6, <1>7, <2>3, <3>1 DEF Queued
  <2> QED BY <2>1, <2>2, <2>3
<1>9. \A w \in Workers : Running(w)' <=> Running(w)
  BY DEF Running
<1>10. \A x : (Unperformed(x)' <=> Unperformed(x)) /\ (Claimed(x)' <=> Claimed(x))
  BY DEF Unperformed, Claimed
<1>11. /\ Unperformed(m) /\ Claimed(m)
       /\ \A t \in Schedulers : t # s /\ Ticking(t) => sched[t].msg # m
       /\ \A v \in Workers : \A i \in Queued(v) : queue[v][i] # m
       /\ \A v \in Workers : Running(v) => worker[v].msg # m
  BY <1>2 DEF TicksFresh, TicksApart
<1>12. \A v \in Workers : \A i, k \in Queued(v)' :
         ~(v = w0 /\ i = 1) /\ ~(v = w0 /\ k = 1) /\ Old(v, i) = Old(v, k) => i = k
  BY <1>6, <1>7 DEF Queued
<1> HIDE DEF m, w0, Old
<1>13. TicksFresh'
  BY <1>3, <1>10 DEF TicksFresh
<1>14. QueuesFresh'
  BY <1>8, <1>10, <1>11 DEF QueuesFresh
<1>15. RunningFresh'
  BY <1>9, <1>10 DEF RunningFresh
<1>16. TicksApart'
  BY <1>3, <1>8, <1>9, <1>11 DEF TicksApart
<1>17. QueuesApart'
  BY <1>8, <1>9, <1>11, <1>12 DEF QueuesApart
<1>18. RunningApart'
  BY <1>9 DEF RunningApart
<1> QED BY <1>13, <1>14, <1>15, <1>16, <1>17, <1>18

\* A pop moves the head of a list to an idle worker.
LEMMA PopOnce ==
    ASSUME OnceInv, NEW w \in Workers, Pop(w)
    PROVE  FreshInv' /\ ApartInv'
<1> USE DEF OnceInv, FreshInv, ApartInv
<1>0. PICK m : m = Head(queue[w])
  OBVIOUS
<1>1. queue[w] \in Seq(Messages) /\ queue[w] # <<>>
  BY DEF Pop, ClientInv, TypeOK
<1>2. /\ 1 \in Queued(w)
      /\ m = queue[w][1]
      /\ \A i \in 1 .. Len(queue[w]) - 1 : Tail(queue[w])[i] = queue[w][i + 1]
      /\ Len(Tail(queue[w])) = Len(queue[w]) - 1
  BY <1>0, <1>1 DEF Queued
<1>3. /\ queue'[w] = Tail(queue[w])
      /\ \A v \in Workers : v # w => queue'[v] = queue[v] /\ worker'[v] = worker[v]
      /\ worker'[w].msg = m
      /\ UNCHANGED <<job, sched, done>>
  BY <1>0 DEF Pop, ClientInv, TypeOK
<1> DEFINE Old(v, i) == IF v = w THEN i + 1 ELSE i
<1>4. Len(queue[w]) \in Nat
  BY <1>1
<1>5. \A v \in Workers : \A i \in Queued(v)' :
        /\ Old(v, i) \in Queued(v)
        /\ queue'[v][i] = queue[v][Old(v, i)]
        /\ ~(v = w /\ Old(v, i) = 1)
  <2> SUFFICES ASSUME NEW v \in Workers, NEW i \in Queued(v)'
               PROVE  /\ Old(v, i) \in Queued(v)
                      /\ queue'[v][i] = queue[v][Old(v, i)]
                      /\ ~(v = w /\ Old(v, i) = 1)
    OBVIOUS
  <2>1. CASE v # w
    BY <1>3, <2>1 DEF Queued
  <2>2. CASE v = w
    <3>1. i \in 1 .. Len(queue[w]) - 1
      BY <1>2, <1>3, <2>2 DEF Queued
    <3>2. i + 1 \in Queued(w) /\ i + 1 # 1
      BY <1>4, <3>1 DEF Queued
    <3>3. queue'[w][i] = queue[w][i + 1]
      BY <1>2, <1>3, <3>1
    <3> QED BY <2>2, <3>2, <3>3
  <2> QED BY <2>1, <2>2
<1>6. \A v \in Workers : \A i, k \in Queued(v)' : Old(v, i) = Old(v, k) => i = k
  BY <1>2, <1>3, <1>4 DEF Queued
<1>7. \A v \in Workers : v # w => (Running(v)' <=> Running(v))
  BY <1>3 DEF Running
<1>8. \A s \in Schedulers : Ticking(s)' <=> Ticking(s)
  BY <1>3 DEF Ticking
<1>9. \A x : (Unperformed(x)' <=> Unperformed(x)) /\ (Claimed(x)' <=> Claimed(x))
  BY <1>3 DEF Unperformed, Claimed
<1>10. /\ Unperformed(m) /\ Claimed(m)
       /\ \A s \in Schedulers : Ticking(s) => sched[s].msg # m
       /\ \A v \in Workers : \A i \in Queued(v) : queue[v][i] = m => v = w /\ i = 1
       /\ \A v \in Workers : Running(v) => worker[v].msg # m
  BY <1>2 DEF QueuesFresh, TicksApart, QueuesApart
<1> HIDE DEF Old
<1>11. TicksFresh'
  BY <1>3, <1>8, <1>9 DEF TicksFresh
<1>12. QueuesFresh'
  BY <1>5, <1>9 DEF QueuesFresh
<1>13. RunningFresh'
  BY <1>3, <1>7, <1>9, <1>10 DEF RunningFresh
<1>14. TicksApart'
  BY <1>3, <1>5, <1>7, <1>8, <1>10 DEF TicksApart
<1>15. QueuesApart'
  BY <1>3, <1>5, <1>6, <1>7, <1>10 DEF QueuesApart
<1>16. RunningApart'
  BY <1>3, <1>7, <1>10 DEF RunningApart
<1> QED BY <1>11, <1>12, <1>13, <1>14, <1>15, <1>16

\* Performing a message leaves the others as fresh as they were.
LEMMA PerformOnce ==
    ASSUME OnceInv, NEW w \in Workers, NEW r \in Results, Perform(w, r)
    PROVE  FreshInv' /\ ApartInv' /\ NothingUnclaimed'
<1> USE DEF OnceInv, FreshInv, ApartInv
<1>0. PICK m : m = worker[w].msg
  OBVIOUS
<1>1. m \in Messages /\ m.job \in Jobs /\ m.attempt \in Attempts /\ Running(w)
  BY <1>0, LoopShape DEF Perform, Running, ClientInv
<1>2. /\ \A j \in Jobs, n \in Attempts :
           ~(j = m.job /\ n = m.attempt) => done'[j][n] = done[j][n]
      /\ \A v \in Workers : v # w => worker'[v] = worker[v]
      /\ worker'[w].stage = "reporting"
      /\ UNCHANGED <<job, sched, queue>>
  BY <1>0, <1>1 DEF Perform, ClientInv, TypeOK
<1>3. \A x \in Messages : x # m /\ Unperformed(x) => Unperformed(x)'
  BY <1>1, <1>2 DEF Unperformed, Messages
<1>4. \A x : Claimed(x)' <=> Claimed(x)
  BY <1>2 DEF Claimed
<1>5. \A v \in Workers : Queued(v)' = Queued(v)
  BY <1>2 DEF Queued
<1>6. \A v \in Workers : Running(v)' => v # w /\ Running(v) /\ worker'[v].msg = worker[v].msg
  BY <1>2 DEF Running
<1>7. \A s \in Schedulers : Ticking(s)' <=> Ticking(s)
  BY <1>2 DEF Ticking
<1>8. TicksFresh'
  <2>1. \A s \in Schedulers : Ticking(s) => sched[s].msg # m
    BY <1>0, <1>1 DEF TicksApart
  <2> QED BY <1>2, <1>3, <1>4, <1>7, <2>1, PendingShape DEF TicksFresh
<1>9. QueuesFresh'
  <2>1. \A v \in Workers : \A i \in Queued(v) : queue[v][i] # m
    BY <1>0, <1>1 DEF QueuesApart
  <2> QED BY <1>2, <1>3, <1>4, <1>5, <2>1, PendingShape DEF QueuesFresh
<1>10. RunningFresh'
  <2>1. \A v \in Workers : v # w /\ Running(v) => worker[v].msg # m
    BY <1>0, <1>1 DEF RunningApart
  <2> QED BY <1>2, <1>3, <1>4, <1>6, <2>1, PendingShape DEF RunningFresh
<1>11. ApartInv'
  <2>1. TicksApart'
    BY <1>2, <1>5, <1>6, <1>7 DEF TicksApart
  <2>2. QueuesApart'
    BY <1>2, <1>5, <1>6 DEF QueuesApart
  <2>3. RunningApart'
    BY <1>6 DEF RunningApart
  <2> QED BY <2>1, <2>2, <2>3
<1>12. NothingUnclaimed'
  <2>1. Claimed(m)
    BY <1>0, <1>1 DEF RunningFresh
  <2>2. \A j \in Jobs, n \in Attempts :
          n > job[j].attempts => ~(j = m.job /\ n = m.attempt)
    BY <1>1, <2>1, AttemptsNat DEF Claimed, Attempts, ClientInv
  <2> QED BY <1>2, <2>2 DEF NothingUnclaimed
<1> QED BY <1>8, <1>9, <1>10, <1>11, <1>12

\* Without a second push of the same message the invariant is inductive.
LEMMA OnceStep ==
    ASSUME "retried_push" \notin Faults, OnceInv, [Next]_vars
    PROVE  OnceInv'
<1> USE DEF OnceInv
<1>1. ClientInv' /\ TypeOK'
  BY ClientStep DEF ClientInv
<1>2. NewRows' /\ \A j \in Jobs : /\ job[j].attempts <= job'[j].attempts
                                /\ job[j].attempts \in Nat
                                /\ job'[j].attempts \in Nat
  <2>1. \A j \in Jobs : job[j].attempts \in Nat
    BY AttemptsNat DEF ClientInv
  <2>2. \A j \in Jobs : job'[j].attempts \in Nat
    BY <1>1, BoundsAssumption DEF TypeOK, JobRows
  <2> QED BY <2>1, <2>2, AttemptsGrow
<1>3. UNCHANGED done => NothingUnclaimed'
  BY <1>2 DEF NothingUnclaimed, Attempts
<1> DEFINE Goal == FreshInv' /\ ApartInv' /\ NothingUnclaimed'
<1>4. ASSUME UNCHANGED <<done, queue>>,
             \A s \in Schedulers : Ticking(s)' => Ticking(s) /\ sched'[s].msg = sched[s].msg,
             \A w \in Workers : Running(w)' => Running(w) /\ worker'[w].msg = worker[w].msg
      PROVE  Goal
  BY <1>2, <1>3, <1>4, Shrink
<1>5. ASSUME UNCHANGED <<done, queue, sched, worker>> PROVE Goal
  <2>1. \A s \in Schedulers : Ticking(s)' => Ticking(s) /\ sched'[s].msg = sched[s].msg
    BY <1>5 DEF Ticking
  <2>2. \A w \in Workers : Running(w)' => Running(w) /\ worker'[w].msg = worker[w].msg
    BY <1>5 DEF Running
  <2> QED BY <1>4, <1>5, <2>1, <2>2
<1>6. ASSUME \E i \in Jobs : Enqueue(i) \/ BecomeDue(i) PROVE Goal
  <2>1. UNCHANGED <<done, queue, sched, worker>>
    BY <1>6 DEF Enqueue, BecomeDue
  <2> QED BY <1>5, <2>1
<1>7. ASSUME \E a \in Accounts, v \in Workers \cup {None} : Repack(a, v) PROVE Goal
  <2>1. UNCHANGED <<done, queue, sched, worker>>
    BY <1>7 DEF Repack
  <2> QED BY <1>5, <2>1
<1>8. ASSUME NEW s \in Schedulers, SchedulerStep(s) PROVE Goal
  <2>1. ASSUME NEW j \in Jobs, Claim(s, j) PROVE Goal
    BY <1>1, <1>3, <2>1, ClaimOnce DEF Claim
  <2>2. CASE Resolve(s) \/ Reject(s) \/ PutBack(s) \/ ForgetJob(s)
    <3>1. UNCHANGED <<done, queue, worker>>
      BY <2>2 DEF Resolve, Reject, PutBack, ForgetJob
    <3>2. \A t \in Schedulers : t # s => sched'[t] = sched[t]
      BY <2>2 DEF Resolve, Reject, PutBack, ForgetJob, ClientInv, TypeOK
    <3>3. \/ sched'[s] = IdleTick
          \/ Ticking(s) /\ sched'[s].msg = sched[s].msg
      BY <2>2 DEF Resolve, Reject, PutBack, ForgetJob, ClientInv, TypeOK, Ticking
    <3> QED BY <1>4, <3>1, <3>2, <3>3 DEF Ticking, Running, IdleTick
  <2>3. CASE Publish(s)
    <3>1. sched[s].stage = "resolved" /\ sched'[s].stage = "idle"
      BY <2>3 DEF Publish, ClientInv, TypeOK, IdleTick
    <3>2. \A t \in Schedulers : t # s => sched'[t] = sched[t]
      BY <2>3 DEF Publish, ClientInv, TypeOK
    <3> QED BY <1>1, <1>3, <2>3, <3>1, <3>2, PushOnce DEF Publish
  <2>4. CASE PushReplyLost(s)
    <3>1. sched[s].stage = "resolved" /\ sched'[s].stage = "pushed"
      BY <2>4 DEF PushReplyLost, ClientInv, TypeOK
    <3>2. \A t \in Schedulers : t # s => sched'[t] = sched[t]
      BY <2>4 DEF PushReplyLost, ClientInv, TypeOK
    <3> QED BY <1>1, <1>3, <2>4, <3>1, <3>2, PushOnce DEF PushReplyLost
  <2> QED BY <1>8, <2>1, <2>2, <2>3, <2>4 DEF SchedulerStep
<1>9. ASSUME NEW w \in Workers, WorkerStep(w) PROVE Goal
  <2>1. CASE Pop(w)
    BY <1>3, <2>1, PopOnce DEF Pop
  <2>2. ASSUME NEW r \in Results, Perform(w, r) PROVE Goal
    BY <2>2, PerformOnce
  <2>3. CASE Post(w) \/ PostLost(w) \/ PostTimesOut(w) \/ WorkerCrash(w)
    <3>1. UNCHANGED <<done, queue, sched>>
      BY <2>3 DEF Post, PostLost, PostTimesOut, WorkerCrash
    <3>2. \A v \in Workers : v # w => worker'[v] = worker[v]
      BY <2>3 DEF Post, PostLost, PostTimesOut, WorkerCrash, ClientInv, TypeOK
    <3>3. CASE Post(w)
      <4>1. worker'[w] = [worker[w] EXCEPT !.stage = "waiting"]
        BY <3>3 DEF Post, ClientInv, TypeOK
      <4>2. worker[w] = [stage |-> worker[w].stage, msg |-> worker[w].msg,
                         verdict |-> worker[w].verdict, try |-> worker[w].try]
        BY <3>3, LoopShape DEF Post, ClientInv
      <4>3. worker'[w].stage = "waiting"
        BY <4>1, <4>2
      <4> QED BY <1>4, <3>1, <3>2, <4>3 DEF Ticking, Running
    <3>4. CASE PostLost(w) \/ PostTimesOut(w) \/ WorkerCrash(w)
      <4>1. worker'[w].stage # "running"
        BY <3>4, AfterFailureStops
           DEF PostLost, PostTimesOut, WorkerCrash, ClientInv, TypeOK, IdleLoop
      <4> QED BY <1>4, <3>1, <3>2, <4>1 DEF Ticking, Running
    <3> QED BY <2>3, <3>3, <3>4
  <2> QED BY <1>9, <2>1, <2>2, <2>3 DEF WorkerStep
<1>10. ASSUME NEW c \in calls, HandlerStep(c) PROVE Goal
  <2>1. UNCHANGED <<done, queue, sched>>
    BY <1>10 DEF HandlerStep, RecordLog, ApplyVerdict, ApplyHealth, Reply, HandlerFails
  <2>2. CASE RecordLog(c) \/ ApplyVerdict(c) \/ ApplyHealth(c)
    BY <1>5, <2>1, <2>2 DEF RecordLog, ApplyVerdict, ApplyHealth
  <2>3. CASE Reply(c) \/ HandlerFails(c)
    <3>1. \A v \in Workers : v # c.client => worker'[v] = worker[v]
      BY <2>3 DEF Reply, HandlerFails, Answered, ClientInv, TypeOK
    <3>2. c.client \in Workers => worker'[c.client].stage # "running"
      <4>1. c.client \in Workers => worker[c.client].stage = "waiting"
        BY NoneAssumption DEF ClientInv, WaitingClients
      <4> QED BY <2>3, <4>1, AfterFailureStops, NoneAssumption
              DEF Reply, HandlerFails, Answered, ClientInv, TypeOK, IdleLoop
    <3> QED BY <1>4, <2>1, <3>1, <3>2 DEF Ticking, Running
  <2> QED BY <1>10, <2>2, <2>3 DEF HandlerStep
<1>11. ASSUME NEW s \in Schedulers, NEW C \in SUBSET calls, ApiCrash(s, C) PROVE Goal
  <2>1. \A r \in Schedulers : sched'[r].stage = "idle" \/ sched'[r] = sched[r]
    BY <1>11 DEF ApiCrash, IdleTick, ClientInv, TypeOK
  <2>2. \A w \in Workers : worker'[w].stage = "running" => worker'[w] = worker[w]
    BY <1>11, CrashedWorkers, AfterFailureStops DEF ClientInv
  <2>3. \A r \in Schedulers : Ticking(r)' => Ticking(r) /\ sched'[r].msg = sched[r].msg
    BY <2>1 DEF Ticking
  <2>4. \A w \in Workers : Running(w)' => Running(w) /\ worker'[w].msg = worker[w].msg
    BY <2>2 DEF Running
  <2> QED BY <1>4, <1>11, <2>3, <2>4 DEF ApiCrash
<1>12. ASSUME UNCHANGED vars PROVE Goal
  BY <1>5, <1>12 DEF vars
<1> QED BY <1>1, <1>2, <1>6, <1>7, <1>8, <1>9, <1>10, <1>11, <1>12 DEF Next

\* No (job, attempt) is performed twice, under every fault but a Redis client
\* that sends a push again: not when the API or a worker crashes, not when
\* callbacks are lost or late, not when a delivered push is reported as failed.
THEOREM AttemptsPerformedOnce ==
    ASSUME "retried_push" \notin Faults
    PROVE  Spec => []PerformedOnce
<1>1. Init => OnceInv
  <2> SUFFICES ASSUME Init PROVE OnceInv
    OBVIOUS
  <2>1. ClientInv
    BY InitTypeOK, InitClients DEF ClientInv
  <2>2. /\ \A s \in Schedulers : ~Ticking(s)
        /\ \A w \in Workers : ~Running(w) /\ Queued(w) = {}
    BY DEF Init, IdleTick, IdleLoop, Ticking, Running, Queued
  <2>3. FreshInv /\ ApartInv
    BY <2>2 DEF FreshInv, ApartInv, TicksFresh, QueuesFresh, RunningFresh,
                TicksApart, QueuesApart, RunningApart
  <2>4. NothingUnclaimed /\ NewRows
    BY DEF Init, NothingUnclaimed, NewRows
  <2> QED BY <2>1, <2>3, <2>4 DEF OnceInv
<1>2. OnceInv /\ [Next]_vars => OnceInv'
  BY OnceStep
<1>3. OnceInv => PerformedOnce
  BY DEF OnceInv, FreshInv, RunningFresh, Unperformed, PerformedOnce
<1> QED BY <1>1, <1>2, <1>3, PTL DEF Spec

-----------------------------------------------------------------------------
(***************************************************************************)
(* Nothing unclaimed is performed, whatever goes wrong: every message on   *)
(* its way, repeated or not, carries an attempt its row has counted.       *)
(***************************************************************************)
TicksClaimed == \A s \in Schedulers : sched[s].stage # "idle" => Claimed(sched[s].msg)
QueuesClaimed == \A w \in Workers : \A i \in Queued(w) : Claimed(queue[w][i])
RunningClaimed == \A w \in Workers : Running(w) => Claimed(worker[w].msg)

CountInv ==
    ClientInv /\ NewRows /\ TicksClaimed /\ QueuesClaimed /\ RunningClaimed /\ NothingUnclaimed

\* Where the messages of the next state come from: a tick's is its own or has
\* just been claimed, a list's was in it or in a tick, a worker's was its own
\* or in its list.
LEMMA MessagesMove ==
    ASSUME ClientInv, [Next]_vars
    PROVE  /\ \A s \in Schedulers : sched'[s].stage # "idle" =>
                \/ sched[s].stage # "idle" /\ sched'[s].msg = sched[s].msg
                \/ Claimed(sched[s].msg)'
           /\ \A w \in Workers : \A i \in Queued(w)' :
                \/ \E k \in Queued(w) : queue'[w][i] = queue[w][k]
                \/ \E s \in Schedulers :
                     sched[s].stage # "idle" /\ queue'[w][i] = sched[s].msg
           /\ \A w \in Workers : Running(w)' =>
                \/ Running(w) /\ worker'[w].msg = worker[w].msg
                \/ \E k \in Queued(w) : worker'[w].msg = queue[w][k]
<1> USE DEF ClientInv
<1> DEFINE T == \A s \in Schedulers : sched'[s].stage # "idle" =>
                  \/ sched[s].stage # "idle" /\ sched'[s].msg = sched[s].msg
                  \/ Claimed(sched[s].msg)'
           Q == \A w \in Workers : \A i \in Queued(w)' :
                  \/ \E k \in Queued(w) : queue'[w][i] = queue[w][k]
                  \/ \E s \in Schedulers :
                       sched[s].stage # "idle" /\ queue'[w][i] = sched[s].msg
           R == \A w \in Workers : Running(w)' =>
                  \/ Running(w) /\ worker'[w].msg = worker[w].msg
                  \/ \E k \in Queued(w) : worker'[w].msg = queue[w][k]
<1>1. UNCHANGED sched => T
  OBVIOUS
<1>2. UNCHANGED queue => Q
  BY DEF Queued
<1>3. UNCHANGED worker => R
  BY DEF Running
<1>4. ASSUME NEW s \in Schedulers, SchedulerStep(s) PROVE T /\ Q /\ R
  <2>1. UNCHANGED worker
    BY <1>4 DEF SchedulerStep, Claim, Resolve, Reject, PutBack, ForgetJob, Publish, PushReplyLost
  <2>2. \A t \in Schedulers : t # s => sched'[t] = sched[t]
    BY <1>4 DEF SchedulerStep, Claim, Resolve, Reject, PutBack, ForgetJob, Publish,
                PushReplyLost, TypeOK
  <2>3. ASSUME NEW j \in Jobs, Claim(s, j) PROVE T
    <3>1. sched'[s].msg.job = j /\ sched'[s].msg.attempt = job[j].attempts + 1
      BY <2>3 DEF Claim, TypeOK
    <3>2. job'[j].attempts = job[j].attempts + 1 /\ job[j].attempts \in Nat
      BY <2>3, AttemptsNat DEF Claim, ClaimActionJob, TypeOK
    <3>3. Claimed(sched[s].msg)'
      BY <3>1, <3>2 DEF Claimed
    <3> QED BY <2>2, <3>3
  <2>4. ASSUME ~\E j \in Jobs : Claim(s, j) PROVE T
    <3>1. CASE Resolve(s) \/ Reject(s) \/ PutBack(s) \/ ForgetJob(s) \/ Publish(s)
      <4>1. \/ sched'[s] = IdleTick
            \/ sched[s].stage # "idle" /\ sched'[s].msg = sched[s].msg
        BY <3>1 DEF Resolve, Reject, PutBack, ForgetJob, Publish, TypeOK
      <4> QED BY <2>2, <4>1 DEF IdleTick
    <3>2. CASE PushReplyLost(s)
      <4>1. sched'[s] = [sched[s] EXCEPT !.stage = "pushed"]
        BY <3>2 DEF PushReplyLost, TypeOK
      <4>2. sched[s] = [stage |-> sched[s].stage, msg |-> sched[s].msg,
                        worker |-> sched[s].worker]
        BY <3>2, TickShape DEF PushReplyLost
      <4>3. sched'[s].msg = sched[s].msg /\ sched[s].stage # "idle"
        BY <3>2, <4>1, <4>2 DEF PushReplyLost
      <4> QED BY <2>2, <4>3
    <3> QED BY <1>4, <2>4, <3>1, <3>2 DEF SchedulerStep
  <2>5. ASSUME Push(s), sched[s].stage \in {"resolved", "pushed"} PROVE Q
    <3>1. PICK m, u : m = sched[s].msg /\ u = sched[s].worker /\ m \in Messages /\ u \in Workers
      BY <2>5, TickShape
    <3>2. queue[u] \in Seq(Messages) /\ queue'[u] = <<m>> \o queue[u]
      BY <2>5, <3>1 DEF Push, TypeOK
    <3>3. \A v \in Workers : v # u => queue'[v] = queue[v]
      BY <2>5, <3>1 DEF Push, TypeOK
    <3>4. \A i \in 1 .. Len(queue'[u]) :
            \/ queue'[u][i] = m
            \/ i - 1 \in 1 .. Len(queue[u]) /\ queue'[u][i] = queue[u][i - 1]
      BY <3>1, <3>2
    <3>5. \A i \in Queued(u)' : queue'[u][i] = m \/ \E k \in Queued(u) : queue'[u][i] = queue[u][k]
      BY <3>4 DEF Queued
    <3>6. \A v \in Workers : v # u => Queued(v)' = Queued(v) /\ queue'[v] = queue[v]
      BY <3>3 DEF Queued
    <3>7. sched[s].stage # "idle"
      BY <2>5
    <3> HIDE DEF Q
    <3>8. SUFFICES ASSUME NEW v \in Workers, NEW i \in Queued(v)'
                   PROVE  \/ \E k \in Queued(v) : queue'[v][i] = queue[v][k]
                          \/ \E t \in Schedulers :
                               sched[t].stage # "idle" /\ queue'[v][i] = sched[t].msg
      BY DEF Q
    <3>9. CASE v = u
      BY <3>1, <3>5, <3>7, <3>9
    <3>10. CASE v # u
      BY <3>6, <3>10
    <3> QED BY <3>9, <3>10
  <2>6. UNCHANGED queue \/ (Push(s) /\ sched[s].stage \in {"resolved", "pushed"})
    BY <1>4 DEF SchedulerStep, Claim, Resolve, Reject, PutBack, ForgetJob, Publish, PushReplyLost
  <2> QED BY <1>2, <1>3, <2>1, <2>3, <2>4, <2>5, <2>6
<1>5. ASSUME NEW w \in Workers, WorkerStep(w) PROVE T /\ Q /\ R
  <2>1. UNCHANGED sched
    BY <1>5 DEF WorkerStep, Pop, Perform, Post, PostLost, PostTimesOut, WorkerCrash
  <2>2. \A v \in Workers : v # w => worker'[v] = worker[v]
    BY <1>5 DEF WorkerStep, Pop, Perform, Post, PostLost, PostTimesOut, WorkerCrash, TypeOK
  <2>3. CASE Pop(w)
    <3>1. queue[w] \in Seq(Messages) /\ queue[w] # <<>>
      BY <2>3 DEF Pop, TypeOK
    <3>2. queue'[w] = Tail(queue[w]) /\ worker'[w].msg = Head(queue[w])
      BY <2>3 DEF Pop, TypeOK
    <3>3. \A v \in Workers : v # w => queue'[v] = queue[v]
      BY <2>3 DEF Pop, TypeOK
    <3>4. \A i \in 1 .. Len(queue'[w]) :
            i + 1 \in 1 .. Len(queue[w]) /\ queue'[w][i] = queue[w][i + 1]
      BY <3>1, <3>2
    <3>5. 1 \in 1 .. Len(queue[w]) /\ worker'[w].msg = queue[w][1]
      BY <3>1, <3>2
    <3>6. Q
      BY <3>3, <3>4 DEF Queued
    <3>7. R
      BY <2>2, <3>5 DEF Queued, Running
    <3> QED BY <1>1, <2>1, <3>6, <3>7
  <2>4. CASE ~Pop(w)
    <3>1. UNCHANGED queue
      BY <1>5, <2>4 DEF WorkerStep, Perform, Post, PostLost, PostTimesOut, WorkerCrash
    <3>2. ASSUME NEW r \in Results, Perform(w, r) PROVE worker'[w].stage # "running"
      BY <3>2 DEF Perform, TypeOK
    <3>3. ASSUME Post(w) PROVE worker'[w].stage # "running"
      <4>1. worker'[w] = [worker[w] EXCEPT !.stage = "waiting"]
        BY <3>3 DEF Post, TypeOK
      <4>2. worker[w] = [stage |-> worker[w].stage, msg |-> worker[w].msg,
                         verdict |-> worker[w].verdict, try |-> worker[w].try]
        BY <3>3, LoopShape DEF Post
      <4> QED BY <4>1, <4>2
    <3>4. ASSUME PostLost(w) \/ PostTimesOut(w) \/ WorkerCrash(w)
          PROVE  worker'[w].stage # "running"
      BY <3>4, AfterFailureStops
         DEF PostLost, PostTimesOut, WorkerCrash, TypeOK, IdleLoop
    <3>5. worker'[w].stage # "running"
      BY <1>5, <2>4, <3>2, <3>3, <3>4 DEF WorkerStep
    <3>6. R
      BY <2>2, <3>5 DEF Running
    <3> QED BY <1>1, <1>2, <2>1, <3>1, <3>6
  <2> QED BY <2>3, <2>4
<1>6. ASSUME NEW c \in calls, HandlerStep(c) PROVE T /\ Q /\ R
  <2>1. UNCHANGED <<queue, sched>>
    BY <1>6 DEF HandlerStep, RecordLog, ApplyVerdict, ApplyHealth, Reply, HandlerFails
  <2>2. CASE RecordLog(c) \/ ApplyVerdict(c) \/ ApplyHealth(c)
    BY <1>1, <1>2, <1>3, <2>1, <2>2 DEF RecordLog, ApplyVerdict, ApplyHealth
  <2>3. CASE Reply(c) \/ HandlerFails(c)
    <3>1. \A v \in Workers : v # c.client => worker'[v] = worker[v]
      BY <2>3 DEF Reply, HandlerFails, Answered, TypeOK
    <3>2. c.client \in Workers => worker'[c.client].stage # "running"
      <4>1. c.client \in Workers => worker[c.client].stage = "waiting"
        BY NoneAssumption DEF WaitingClients
      <4> QED BY <2>3, <4>1, AfterFailureStops, NoneAssumption
              DEF Reply, HandlerFails, Answered, TypeOK, IdleLoop
    <3> QED BY <1>1, <1>2, <2>1, <3>1, <3>2 DEF Running
  <2> QED BY <1>6, <2>2, <2>3 DEF HandlerStep
<1>7. ASSUME NEW s \in Schedulers, NEW C \in SUBSET calls, ApiCrash(s, C)
      PROVE  T /\ Q /\ R
  <2>1. \A r \in Schedulers : sched'[r].stage = "idle" \/ sched'[r] = sched[r]
    BY <1>7 DEF ApiCrash, IdleTick, TypeOK
  <2>2. \A w \in Workers : worker'[w].stage = "running" => worker'[w] = worker[w]
    BY <1>7, CrashedWorkers, AfterFailureStops DEF ClientInv
  <2> QED BY <1>2, <1>7, <2>1, <2>2 DEF ApiCrash, Running
<1>8. ASSUME UNCHANGED <<sched, queue, worker>> PROVE T /\ Q /\ R
  BY <1>1, <1>2, <1>3, <1>8
<1>9. \/ \E s \in Schedulers : SchedulerStep(s)
      \/ \E w \in Workers : WorkerStep(w)
      \/ \E c \in calls : HandlerStep(c)
      \/ \E s \in Schedulers, C \in SUBSET calls : ApiCrash(s, C)
      \/ UNCHANGED <<sched, queue, worker>>
  BY DEF Next, vars, Enqueue, BecomeDue, Repack
<1> QED BY <1>4, <1>5, <1>6, <1>7, <1>8, <1>9

\* No attempt number above a row's counter ever reaches the platform, under
\* every fault, the repeated push included.
THEOREM ClaimsComeFirst == Spec => []NothingUnclaimed
<1>1. Init => CountInv
  BY InitTypeOK, InitClients
     DEF Init, ClientInv, CountInv, NewRows, TicksClaimed, QueuesClaimed, RunningClaimed,
         NothingUnclaimed, IdleTick, IdleLoop, Running, Queued
<1>2. CountInv /\ [Next]_vars => CountInv'
  <2> SUFFICES ASSUME CountInv, [Next]_vars PROVE CountInv'
    OBVIOUS
  <2> USE DEF CountInv
  <2>1. ClientInv'
    BY ClientStep
  <2>2. NewRows' /\ \A j \in Jobs : /\ job[j].attempts <= job'[j].attempts
                                  /\ job[j].attempts \in Nat
                                  /\ job'[j].attempts \in Nat
    <3>1. \A j \in Jobs : job[j].attempts \in Nat
      BY AttemptsNat DEF ClientInv
    <3>2. \A j \in Jobs : job'[j].attempts \in Nat
      BY <2>1, BoundsAssumption DEF ClientInv, TypeOK, JobRows
    <3> QED BY <3>1, <3>2, AttemptsGrow
  <2>3. \A m \in Messages : Claimed(m) => Claimed(m)'
    BY <2>2 DEF Claimed, Messages, Attempts
  <2>4. TicksClaimed'
    <3>1. SUFFICES ASSUME NEW s \in Schedulers, sched'[s].stage # "idle"
                   PROVE  Claimed(sched[s].msg)'
      BY DEF TicksClaimed
    <3>2. CASE sched[s].stage # "idle" /\ sched'[s].msg = sched[s].msg
      <4>1. sched[s].msg \in Messages /\ Claimed(sched[s].msg)
        BY <3>2, TickShape DEF TicksClaimed, ClientInv
      <4> QED BY <2>3, <3>2, <4>1 DEF Claimed
    <3> QED BY <3>1, <3>2, MessagesMove
  <2>5. QueuesClaimed'
    <3>1. \A w \in Workers : \A i \in Queued(w) : queue[w][i] \in Messages
      BY DEF Queued, ClientInv, TypeOK
    <3>2. \A w \in Workers : \A i \in Queued(w) : 
                queue[w][i].attempt <= job'[queue[w][i].job].attempts
      BY <2>3, <3>1 DEF QueuesClaimed, Claimed
    <3>3. \A s \in Schedulers : sched[s].stage # "idle" =>
                sched[s].msg.attempt <= job'[sched[s].msg.job].attempts
      <4>1. TypeOK
        BY DEF ClientInv
      <4>2. \A s \in Schedulers : sched[s].stage # "idle" => sched[s].msg \in Messages
        BY <4>1, TickShape
      <4> QED BY <2>3, <4>2 DEF TicksClaimed, Claimed
    <3>4. SUFFICES ASSUME NEW w \in Workers, NEW i \in Queued(w)'
                   PROVE  queue'[w][i].attempt <= job'[queue'[w][i].job].attempts
      BY DEF QueuesClaimed, Claimed
    <3>5. \/ \E k \in Queued(w) : queue'[w][i] = queue[w][k]
          \/ \E s \in Schedulers : sched[s].stage # "idle" /\ queue'[w][i] = sched[s].msg
      BY MessagesMove
    <3> QED BY <3>2, <3>3, <3>5
  <2>6. RunningClaimed'
    <3>1. \A w \in Workers : \A i \in Queued(w) : queue[w][i] \in Messages
      BY DEF Queued, ClientInv, TypeOK
    <3>2. \A w \in Workers : Running(w) => worker[w].msg \in Messages
      BY LoopShape DEF Running, ClientInv
    <3> QED BY <2>3, <3>1, <3>2, MessagesMove DEF QueuesClaimed, RunningClaimed
  <2>7. NothingUnclaimed'
    <3>1. CASE UNCHANGED done
      BY <2>2, <3>1 DEF NothingUnclaimed, Attempts
    <3>2. ASSUME NEW w \in Workers, NEW r \in Results, Perform(w, r)
          PROVE  NothingUnclaimed'
      <4>1. PICK m : m = worker[w].msg /\ m \in Messages /\ m.job \in Jobs /\ m.attempt \in Attempts
        BY <3>2, LoopShape DEF Perform, ClientInv
      <4>2. Claimed(m)
        BY <3>2, <4>1 DEF RunningClaimed, Running, Perform
      <4>3. \A j \in Jobs, n \in Attempts :
              ~(j = m.job /\ n = m.attempt) => done'[j][n] = done[j][n]
        BY <3>2, <4>1 DEF Perform, ClientInv, TypeOK
      <4>4. UNCHANGED job
        BY <3>2 DEF Perform
      <4>5. ASSUME NEW j \in Jobs, NEW n \in Attempts, n > job'[j].attempts
            PROVE  done'[j][n] = done[j][n] /\ n > job[j].attempts
        <5>1. n > job[j].attempts /\ job[j].attempts \in Nat /\ n \in Int
          BY <2>2, <4>4, <4>5 DEF Attempts
        <5>2. ~(j = m.job /\ n = m.attempt)
          <6>1. CASE j = m.job
            <7>1. m.attempt <= job[j].attempts
              BY Zenon, <4>2, <6>1 DEF Claimed
            <7> QED BY <5>1, <7>1
          <6> QED BY Zenon, <6>1
        <5> QED BY <4>3, <5>1, <5>2
      <4> QED BY <4>5 DEF NothingUnclaimed
    <3>3. UNCHANGED done \/ \E w \in Workers, r \in Results : Perform(w, r)
      BY Zenon DEF Next, vars, Enqueue, BecomeDue, Repack, SchedulerStep, Claim, Resolve, Reject,
             PutBack, ForgetJob, Publish, PushReplyLost, WorkerStep, Pop, Post, PostLost,
             PostTimesOut, WorkerCrash, HandlerStep, RecordLog, ApplyVerdict, ApplyHealth,
             Reply, HandlerFails, ApiCrash
    <3> QED BY <3>1, <3>2, <3>3
  <2> QED BY <2>1, <2>2, <2>4, <2>5, <2>6, <2>7
<1>3. CountInv => NothingUnclaimed
  BY DEF CountInv
<1> QED BY <1>1, <1>2, <1>3, PTL DEF Spec

-----------------------------------------------------------------------------
(***************************************************************************)
(* One owner and one charge.  As long as every verdict is delivered once - *)
(* the API does not crash, no worker gives up on a POST that is being      *)
(* handled, and a push is applied exactly when it says so -, a message has *)
(* one place from its claim to its verdict, and one request after that.    *)
(***************************************************************************)
DeliveredOnce ==
    Faults \cap {"api_crash", "callback_timeout", "ambiguous_push", "retried_push"} = {}

Reported(w) == worker[w].stage \in {"reporting", "waiting"}
Reporting(w) == worker[w].stage = "reporting"
Unapplied(c) == c.stage \in {"log", "verdict"}

\* A worker waits for a request with its message; workers that have performed
\* theirs have different ones, requests too, and a worker about to POST has
\* none on its way.
ClientsMatch == \A c \in calls : c.client # None => worker[c.client].msg = c.msg
ReportersApart ==
    \A v, w \in Workers : Reported(v) /\ Reported(w) /\ worker[v].msg = worker[w].msg => v = w
CallsApart == \A c, d \in calls : c.msg = d.msg => c = d
RetriesAlone ==
    \A w \in Workers : Reporting(w) => \A c \in calls : c.msg # worker[w].msg

ReportInv == ClientsMatch /\ ReportersApart /\ CallsApart /\ RetriesAlone

\* The places of SingleOwner, and what their messages are to their rows.
InHand(m) ==
    \/ \E s \in Schedulers : Ticking(s) /\ sched[s].msg = m
    \/ \E w \in Workers : \E i \in Queued(w) : queue[w][i] = m
    \/ \E w \in Workers : (Running(w) \/ Reporting(w)) /\ worker[w].msg = m
    \/ \E c \in calls : Unapplied(c) /\ c.msg = m

Owned(m) ==
    /\ job[m.job].status = "RUNNING"
    /\ job[m.job].attempts = m.attempt
    /\ charged[m.job][m.attempt] = 0

OwnedInv == \A m \in Messages : InHand(m) => Owned(m)
HealthUncharged == \A c \in calls : c.stage = "health" => charged[c.msg.job][c.msg.attempt] = 0
NothingAhead ==
    \A j \in Jobs, n \in Attempts : n > job[j].attempts => charged[j][n] = 0

HandInv ==
    OnceInv /\ VerdictsAreGrounded /\ ReportInv /\ OwnedInv /\ HealthUncharged /\ NothingAhead
    /\ ChargedOnce

\* A message nobody has performed yet is in no report and in no request.
LEMMA FreshUnreported ==
    ASSUME OnceInv, VerdictsAreGrounded, NEW m, Unperformed(m)
    PROVE  /\ \A w \in Workers : Reported(w) => worker[w].msg # m
           /\ \A c \in calls : c.msg # m
BY DEF Unperformed, Reported, VerdictsAreGrounded, Reportable

\* The message a request carries is in no tick and no list, and no worker is
\* performing it.
LEMMA PostedNotFresh ==
    ASSUME OnceInv, VerdictsAreGrounded, NEW m, ~Unperformed(m)
    PROVE  /\ \A s \in Schedulers : Ticking(s) => sched[s].msg # m
           /\ \A w \in Workers : \A i \in Queued(w) : queue[w][i] # m
           /\ \A w \in Workers : Running(w) => worker[w].msg # m
BY DEF OnceInv, FreshInv, TicksFresh, QueuesFresh, RunningFresh

-----------------------------------------------------------------------------
(***************************************************************************)
(* Reports and requests.                                                   *)
(***************************************************************************)

\* Nobody starts to report a message that has been reported.
LEMMA ReportersStep ==
    ASSUME OnceInv, VerdictsAreGrounded, ReportersApart, [Next]_vars
    PROVE  ReportersApart'
<1> SUFFICES ASSUME NEW v \in Workers, NEW w \in Workers, Reported(v)', Reported(w)',
                    worker'[v].msg = worker'[w].msg, v # w
             PROVE  FALSE
  BY DEF ReportersApart
<1> DEFINE Kept(x) == Reported(x) /\ worker'[x].msg = worker[x].msg
           Performs(x) == \E r \in Results : Perform(x, r)
<1>1. (Kept(v) \/ Performs(v)) /\ (Kept(w) \/ Performs(w))
  BY ReportingSteps DEF Reported, OnceInv
<1>2. ASSUME NEW x \in Workers, NEW y \in Workers, x # y, Performs(x)
      PROVE  /\ Running(x) /\ worker'[x].msg = worker[x].msg /\ Unperformed(worker[x].msg)
             /\ worker'[y] = worker[y]
  BY <1>2 DEF Perform, Running, OnceInv, ClientInv, TypeOK, FreshInv, RunningFresh
<1>3. ASSUME NEW x \in Workers, NEW y \in Workers, x # y, Performs(x), Reported(y)'
      PROVE  worker'[x].msg # worker'[y].msg
  <2>1. Reported(y)
    BY <1>2, <1>3 DEF Reported
  <2> QED BY <1>2, <1>3, <2>1, FreshUnreported
<1>4. CASE Kept(v) /\ Kept(w)
  BY <1>4 DEF ReportersApart
<1>5. CASE Performs(v)
  BY <1>3, <1>5
<1>6. CASE Performs(w)
  BY <1>3, <1>6
<1> QED BY <1>1, <1>4, <1>5, <1>6

\* Requests come and go one by one, and a worker tries again only after its
\* own has gone.
LEMMA ReportStep ==
    ASSUME DeliveredOnce, OnceInv, VerdictsAreGrounded, ReportInv, [Next]_vars
    PROVE  ReportInv'
<1> USE DEF ReportInv
<1> DEFINE Goal == ClientsMatch' /\ CallsApart' /\ RetriesAlone'
<1>1. TypeOK /\ WaitingClients
  BY DEF OnceInv, ClientInv
<1>2. \A c \in calls : c.client # None => c.client \in Workers /\ worker[c.client].stage = "waiting"
  BY <1>1, CallShape DEF WaitingClients
<1>3. ASSUME UNCHANGED <<worker, calls>> PROVE Goal
  BY <1>3 DEF ClientsMatch, CallsApart, RetriesAlone, Reporting
<1>4. ASSUME NEW w \in Workers, WorkerStep(w) PROVE Goal
  <2>1. \A v \in Workers : v # w => worker'[v] = worker[v]
    BY <1>1, <1>4 DEF WorkerStep, Pop, Perform, Post, PostLost, PostTimesOut, WorkerCrash, TypeOK
  <2>2. CASE Pop(w) \/ (\E r \in Results : Perform(w, r)) \/ PostLost(w)
    <3>1. UNCHANGED calls /\ worker[w].stage # "waiting"
      BY <2>2 DEF Pop, Perform, PostLost
    <3>2. ClientsMatch'
      BY <1>2, <2>1, <3>1 DEF ClientsMatch
    <3>3. Reporting(w)' => \A c \in calls : c.msg # worker'[w].msg
      <4>1. CASE Pop(w)
        BY <1>1, <4>1 DEF Pop, Reporting, TypeOK
      <4>2. CASE \E r \in Results : Perform(w, r)
        <5>1. worker'[w].msg = worker[w].msg /\ Running(w)
          BY <1>1, <4>2 DEF Perform, Running, TypeOK
        <5> QED BY <5>1, FreshUnreported DEF OnceInv, FreshInv, RunningFresh
      <4>3. CASE PostLost(w)
        <5>1. worker'[w] = AfterFailure(worker[w]) /\ Reporting(w)
          BY <1>1, <4>3 DEF PostLost, Reporting, TypeOK
        <5>2. Reporting(w)' => worker'[w].msg = worker[w].msg
          BY <1>1, <5>1, AfterFailureKeeps DEF Reporting
        <5> QED BY <5>1, <5>2 DEF RetriesAlone
      <4> QED BY <2>2, <4>1, <4>2, <4>3
    <3> QED BY <2>1, <3>1, <3>2, <3>3 DEF CallsApart, RetriesAlone, Reporting
  <2>3. CASE Post(w)
    <3>1. PICK c : /\ calls' = calls \cup {c}
                   /\ c = [client |-> w, try |-> worker[w].try, msg |-> worker[w].msg,
                           verdict |-> worker[w].verdict, stage |-> "log"]
      BY <2>3 DEF Post
    <3>2. worker'[w] = [worker[w] EXCEPT !.stage = "waiting"] /\ Reporting(w)
      BY <1>1, <2>3 DEF Post, Reporting, TypeOK
    <3>3. worker'[w].stage = "waiting" /\ worker'[w].msg = worker[w].msg
      BY <1>1, <3>2, LoopShape DEF Reporting
    <3>4. \A d \in calls : d.msg # c.msg
      BY <3>1, <3>2 DEF RetriesAlone
    <3>5. \A v \in Workers : Reporting(v)' => v # w /\ Reporting(v) /\ worker'[v].msg = worker[v].msg
      BY <2>1, <3>3 DEF Reporting
    <3>6. \A v \in Workers : Reporting(v)' => worker'[v].msg # c.msg
      BY <3>1, <3>2, <3>5 DEF ReportersApart, Reported, Reporting
    <3>7. \A d \in calls' : d = c \/ d \in calls
      BY <3>1
    <3>8. ClientsMatch'
      <4>1. c.client = w /\ c.msg = worker'[w].msg
        BY <3>1, <3>3
      <4>2. \A d \in calls : d.client # None => d.client \in Workers /\ d.client # w
        BY <1>2, <3>2 DEF Reporting
      <4> QED BY <2>1, <3>7, <4>1, <4>2 DEF ClientsMatch
    <3>9. CallsApart'
      BY <3>4, <3>7 DEF CallsApart
    <3>10. RetriesAlone'
      BY <3>5, <3>6, <3>7 DEF RetriesAlone
    <3> QED BY <3>8, <3>9, <3>10
  <2>4. CASE WorkerCrash(w)
    <3>1. calls' = Orphaned(w) /\ ~Reporting(w)'
      BY <1>1, <2>4 DEF WorkerCrash, Reporting, IdleLoop, TypeOK
    <3>2. \A c \in calls' : \E d \in calls :
             /\ c.msg = d.msg
             /\ c = IF d.client = w THEN [d EXCEPT !.client = None] ELSE d
             /\ c.client # None => c.client = d.client /\ c.client # w
      BY <1>1, <3>1 DEF Orphaned, TypeOK, Calls
    <3>3. ClientsMatch'
      BY <1>2, <2>1, <3>2 DEF ClientsMatch
    <3>4. CallsApart'
      BY <3>2 DEF CallsApart
    <3>5. RetriesAlone'
      BY <2>1, <3>1, <3>2 DEF RetriesAlone, Reporting
    <3> QED BY <3>3, <3>4, <3>5
  <2>5. ~PostTimesOut(w)
    BY DEF PostTimesOut, DeliveredOnce
  <2> QED BY <1>4, <2>2, <2>3, <2>4, <2>5 DEF WorkerStep
<1>5. ASSUME NEW c \in calls, NEW x \in {"verdict", "health", "reply"}, Advance(c, x),
             UNCHANGED worker
      PROVE  Goal
  <2> DEFINE e == [c EXCEPT !.stage = x]
  <2>1. e.msg = c.msg /\ e.client = c.client
    BY <1>1 DEF TypeOK, Calls
  <2>2. \A d \in calls' : d = e \/ (d \in calls /\ d # c)
    BY <1>5 DEF Advance
  <2> HIDE DEF e
  <2> QED BY <1>5, <2>1, <2>2 DEF ClientsMatch, CallsApart, RetriesAlone, Reporting
<1>6. ASSUME NEW c \in calls, calls' = calls \ {c},
             \A v \in Workers : v # c.client => worker'[v] = worker[v],
             c.client \in Workers /\ Reporting(c.client)' => worker'[c.client].msg = c.msg
      PROVE  Goal
  <2>1. \A d \in calls' : d \in calls /\ d # c /\ (d.client # None => d.client # c.client)
    BY <1>1, <1>6 DEF WaitingClients
  <2>2. ClientsMatch'
    BY <1>2, <1>6, <2>1 DEF ClientsMatch
  <2>3. CallsApart'
    BY <2>1 DEF CallsApart
  <2>4. RetriesAlone'
    BY <1>6, <2>1 DEF RetriesAlone, CallsApart, Reporting
  <2> QED BY <2>2, <2>3, <2>4
<1>7. ASSUME NEW c \in calls, HandlerStep(c) PROVE Goal
  <2>1. CASE RecordLog(c) \/ ApplyVerdict(c)
    BY <1>5, <2>1 DEF RecordLog, ApplyVerdict
  <2>2. CASE ApplyHealth(c)
    <3>1. CASE c.client = None
      BY <1>6, <2>2, <3>1, NoneAssumption DEF ApplyHealth
    <3>2. CASE c.client # None
      BY <1>5, <2>2, <3>2 DEF ApplyHealth
    <3> QED BY <3>1, <3>2
  <2>3. CASE Reply(c) \/ HandlerFails(c)
    <3>1. \A v \in Workers : v # c.client => worker'[v] = worker[v]
      BY <1>1, <2>3 DEF Reply, HandlerFails, Answered, TypeOK
    <3>2. ASSUME c.client \in Workers, Reporting(c.client)'
          PROVE  worker'[c.client].msg = c.msg
      <4>1. worker[c.client].stage = "waiting" /\ worker[c.client].msg = c.msg
        BY <1>2, <3>2, NoneAssumption DEF ClientsMatch
      <4>2. \/ worker'[c.client] = IdleLoop
            \/ worker'[c.client] = AfterFailure(worker[c.client])
        BY <1>1, <2>3, <3>2, NoneAssumption DEF Reply, HandlerFails, Answered, TypeOK
      <4> QED BY <1>1, <3>2, <4>1, <4>2, AfterFailureKeeps DEF Reporting, IdleLoop
    <3> QED BY <1>6, <2>3, <3>1, <3>2 DEF Reply, HandlerFails
  <2> QED BY <1>7, <2>1, <2>2, <2>3 DEF HandlerStep
<1>8. \A s \in Schedulers, C \in SUBSET calls : ~ApiCrash(s, C)
  BY DEF ApiCrash, DeliveredOnce
<1>9. ASSUME NEW s \in Schedulers, SchedulerStep(s) PROVE UNCHANGED <<worker, calls>>
  BY <1>9 DEF SchedulerStep, Claim, Resolve, Reject, PutBack, ForgetJob, Publish, PushReplyLost
<1>10. Goal
  BY <1>3, <1>4, <1>7, <1>8, <1>9 DEF Next, vars, Enqueue, BecomeDue, Repack
<1> QED BY <1>10, ReportersStep

-----------------------------------------------------------------------------
(***************************************************************************)
(* Messages in hand.                                                       *)
(***************************************************************************)

\* Two messages in hand of one job are the same.
LEMMA OneMessage ==
    ASSUME OwnedInv, NEW m \in Messages, NEW n \in Messages, InHand(m), InHand(n),
           m.job = n.job
    PROVE  m = n
<1>1. m.attempt = n.attempt
  BY DEF OwnedInv, Owned
<1> QED BY <1>1 DEF Messages

\* The message of a tick is in no other place.
LEMMA TickAlone ==
    ASSUME OnceInv, VerdictsAreGrounded, NEW s \in Schedulers, Ticking(s)
    PROVE  /\ \A t \in Schedulers : Ticking(t) /\ t # s => sched[t].msg # sched[s].msg
           /\ \A w \in Workers : \A i \in Queued(w) : queue[w][i] # sched[s].msg
           /\ \A w \in Workers : Running(w) \/ Reporting(w) => worker[w].msg # sched[s].msg
           /\ \A c \in calls : c.msg # sched[s].msg
<1>1. Unperformed(sched[s].msg)
  BY DEF OnceInv, FreshInv, TicksFresh
<1> QED BY <1>1, FreshUnreported DEF OnceInv, ApartInv, TicksApart, Reported, Reporting

\* Nor is that of a request.
LEMMA CallAlone ==
    ASSUME OnceInv, VerdictsAreGrounded, ReportInv, NEW c \in calls
    PROVE  /\ \A s \in Schedulers : Ticking(s) => sched[s].msg # c.msg
           /\ \A w \in Workers : \A i \in Queued(w) : queue[w][i] # c.msg
           /\ \A w \in Workers : Running(w) \/ Reporting(w) => worker[w].msg # c.msg
           /\ \A d \in calls : d # c => d.msg # c.msg
<1>1. ~Unperformed(c.msg)
  BY DEF Unperformed, VerdictsAreGrounded, Reportable
<1> QED BY <1>1, PostedNotFresh DEF ReportInv, CallsApart, RetriesAlone

\* A step that leaves the lists alone, takes no tick or worker up, and adds no
\* request but that of a worker, puts no message in hand.
LEMMA HandShrinks ==
    ASSUME UNCHANGED queue, NEW m, InHand(m)',
           \A s \in Schedulers : Ticking(s)' => Ticking(s) /\ sched'[s].msg = sched[s].msg,
           \A w \in Workers : Running(w)' \/ Reporting(w)' => InHand(worker'[w].msg),
           \A c \in calls' : Unapplied(c) => InHand(c.msg)
    PROVE  InHand(m)
<1>1. CASE \E s \in Schedulers : Ticking(s)' /\ sched'[s].msg = m
  BY <1>1 DEF InHand
<1>2. CASE \E w \in Workers : \E i \in Queued(w)' : queue'[w][i] = m
  BY <1>2 DEF InHand, Queued
<1>3. CASE \E w \in Workers : (Running(w)' \/ Reporting(w)') /\ worker'[w].msg = m
  BY <1>3
<1>4. CASE \E c \in calls' : Unapplied(c) /\ c.msg = m
  BY <1>4
<1> QED BY <1>1, <1>2, <1>3, <1>4 DEF InHand

\* Only a claim puts a message in hand.
LEMMA HandSteps ==
    ASSUME DeliveredOnce, OnceInv, ClientsMatch, [Next]_vars, NEW m, InHand(m)'
    PROVE  \/ InHand(m)
           \/ \E s \in Schedulers, j \in Jobs :
                Claim(s, j) /\ m = [job |-> j, attempt |-> job[j].attempts + 1]
<1>1. TypeOK /\ WaitingClients
  BY DEF OnceInv, ClientInv
<1>2. ASSUME UNCHANGED <<sched, queue, worker, calls>> PROVE InHand(m)
  BY <1>2 DEF InHand, Ticking, Queued, Running, Reporting
<1>3. ASSUME NEW s \in Schedulers, SchedulerStep(s)
      PROVE  \/ InHand(m)
             \/ \E j \in Jobs : Claim(s, j) /\ m = [job |-> j, attempt |-> job[j].attempts + 1]
  <2>1. UNCHANGED <<worker, calls>>
    BY <1>3 DEF SchedulerStep, Claim, Resolve, Reject, PutBack, ForgetJob, Publish, PushReplyLost
  <2>2. \A t \in Schedulers : t # s => sched'[t] = sched[t]
    BY <1>1, <1>3 DEF SchedulerStep, Claim, Resolve, Reject, PutBack, ForgetJob, Publish,
                      PushReplyLost, TypeOK
  <2>3. ~PushReplyLost(s)
    BY DEF PushReplyLost, DeliveredOnce
  <2>4. ASSUME NEW j \in Jobs, Claim(s, j)
        PROVE  InHand(m) \/ m = [job |-> j, attempt |-> job[j].attempts + 1]
    <3>1. UNCHANGED queue /\ sched'[s].msg = [job |-> j, attempt |-> job[j].attempts + 1]
      BY <1>1, <2>4 DEF Claim, TypeOK
    <3> QED BY <2>1, <2>2, <3>1 DEF InHand, Ticking, Queued, Running, Reporting
  <2>5. CASE Resolve(s) \/ Reject(s) \/ PutBack(s) \/ ForgetJob(s)
    <3>1. UNCHANGED queue
      BY <2>5 DEF Resolve, Reject, PutBack, ForgetJob
    <3>2. \/ sched'[s] = IdleTick
          \/ Ticking(s) /\ sched'[s].msg = sched[s].msg
      BY <1>1, <2>5 DEF Resolve, Reject, PutBack, ForgetJob, TypeOK, Ticking
    <3> QED BY <2>1, <2>2, <3>1, <3>2 DEF InHand, Ticking, Queued, Running, Reporting, IdleTick
  <2>6. CASE Publish(s)
    <3>1. /\ Ticking(s) /\ ~Ticking(s)' /\ Push(s)
          /\ sched[s].msg \in Messages /\ sched[s].worker \in Workers
      BY <1>1, <2>6, TickShape DEF Publish, Ticking, IdleTick, TypeOK, DeliveredOnce
    <3>2. \A w \in Workers : \A i \in Queued(w)' :
             \/ queue'[w][i] = sched[s].msg
             \/ \E k \in Queued(w) : queue'[w][i] = queue[w][k]
      <4>1. PICK x, u : x = sched[s].msg /\ u = sched[s].worker
        OBVIOUS
      <4>2. queue[u] \in Seq(Messages) /\ queue'[u] = <<x>> \o queue[u]
        BY <1>1, <3>1, <4>1 DEF Push, TypeOK
      <4>3. \A v \in Workers : v # u => queue'[v] = queue[v]
        BY <1>1, <3>1, <4>1 DEF Push, TypeOK
      <4>4. \A i \in 1 .. Len(queue'[u]) :
               \/ queue'[u][i] = x
               \/ i - 1 \in 1 .. Len(queue[u]) /\ queue'[u][i] = queue[u][i - 1]
        BY <3>1, <4>1, <4>2
      <4>5. \A i \in Queued(u)' : queue'[u][i] = x \/ \E k \in Queued(u) : queue'[u][i] = queue[u][k]
        BY <4>4 DEF Queued
      <4>6. \A v \in Workers : v # u => Queued(v)' = Queued(v) /\ queue'[v] = queue[v]
        BY <4>3 DEF Queued
      <4>7. SUFFICES ASSUME NEW v \in Workers, NEW i \in Queued(v)'
                     PROVE  queue'[v][i] = x \/ \E k \in Queued(v) : queue'[v][i] = queue[v][k]
        BY <4>1
      <4>8. CASE v = u
        BY <4>5, <4>8
      <4>9. CASE v # u
        BY <4>6, <4>9
      <4> QED BY <4>8, <4>9
    <3> QED BY <2>1, <2>2, <3>1, <3>2 DEF InHand, Ticking, Running, Reporting
  <2> QED BY <1>3, <2>3, <2>4, <2>5, <2>6 DEF SchedulerStep
<1>4. ASSUME NEW w \in Workers, WorkerStep(w) PROVE InHand(m)
  <2>1. \A v \in Workers : v # w => worker'[v] = worker[v]
    BY <1>1, <1>4 DEF WorkerStep, Pop, Perform, Post, PostLost, PostTimesOut, WorkerCrash, TypeOK
  <2>2. UNCHANGED sched
    BY <1>4 DEF WorkerStep, Pop, Perform, Post, PostLost, PostTimesOut, WorkerCrash
  <2>3. CASE Pop(w)
    <3>1. queue[w] \in Seq(Messages) /\ queue[w] # <<>> /\ UNCHANGED calls
      BY <1>1, <2>3 DEF Pop, TypeOK
    <3>2. queue'[w] = Tail(queue[w]) /\ worker'[w].msg = Head(queue[w])
      BY <1>1, <2>3 DEF Pop, TypeOK
    <3>3. \A v \in Workers : v # w => queue'[v] = queue[v]
      BY <1>1, <2>3 DEF Pop, TypeOK
    <3>4. \A i \in 1 .. Len(queue'[w]) :
             i + 1 \in 1 .. Len(queue[w]) /\ queue'[w][i] = queue[w][i + 1]
      BY <3>1, <3>2
    <3>5. 1 \in 1 .. Len(queue[w]) /\ worker'[w].msg = queue[w][1]
      BY <3>1, <3>2
    <3>6. \A v \in Workers : \A i \in Queued(v)' : \E k \in Queued(v) : queue'[v][i] = queue[v][k]
      BY <3>3, <3>4 DEF Queued
    <3>7. \E k \in Queued(w) : worker'[w].msg = queue[w][k]
      BY <3>5 DEF Queued
    <3> QED BY <2>1, <2>2, <3>1, <3>6, <3>7 DEF InHand, Ticking, Running, Reporting
  <2>4. ASSUME UNCHANGED queue,
               Running(w)' \/ Reporting(w)' => InHand(worker'[w].msg),
               \A c \in calls' : Unapplied(c) => InHand(c.msg)
        PROVE  InHand(m)
    <3>1. \A s \in Schedulers : Ticking(s)' => Ticking(s) /\ sched'[s].msg = sched[s].msg
      BY <2>2 DEF Ticking
    <3>2. \A v \in Workers : Running(v)' \/ Reporting(v)' => InHand(worker'[v].msg)
      BY <2>1, <2>4 DEF InHand, Running, Reporting
    <3> QED BY <2>4, <3>1, <3>2, HandShrinks
  <2>5. \A c \in calls : Unapplied(c) => InHand(c.msg)
    BY DEF InHand
  <2>6. CASE (\E r \in Results : Perform(w, r)) \/ PostLost(w)
    <3>1. UNCHANGED <<queue, calls>> /\ (Running(w) \/ Reporting(w))
      BY <2>6 DEF Perform, PostLost, Running, Reporting
    <3>2. Running(w)' \/ Reporting(w)' => worker'[w].msg = worker[w].msg
      <4>1. CASE \E r \in Results : Perform(w, r)
        BY <1>1, <4>1 DEF Perform, TypeOK
      <4>2. CASE PostLost(w)
        BY <1>1, <4>2, AfterFailureKeeps DEF PostLost, TypeOK, Running, Reporting
      <4> QED BY <2>6, <4>1, <4>2
    <3> QED BY <2>4, <2>5, <3>1, <3>2 DEF InHand
  <2>7. CASE Post(w)
    <3>1. PICK c : /\ calls' = calls \cup {c}
                   /\ c = [client |-> w, try |-> worker[w].try, msg |-> worker[w].msg,
                           verdict |-> worker[w].verdict, stage |-> "log"]
      BY <2>7 DEF Post
    <3>2. InHand(c.msg) /\ UNCHANGED queue
      BY <2>7, <3>1 DEF Post, InHand, Reporting
    <3>3. worker'[w] = [worker[w] EXCEPT !.stage = "waiting"] /\ worker[w].stage # "idle"
      BY <1>1, <2>7 DEF Post, TypeOK
    <3>4. worker'[w].stage = "waiting"
      BY <1>1, <3>3, LoopShape
    <3> QED BY <2>4, <2>5, <3>1, <3>2, <3>4 DEF Running, Reporting
  <2>8. CASE WorkerCrash(w)
    <3>1. calls' = Orphaned(w) /\ UNCHANGED queue /\ worker'[w] = IdleLoop
      BY <1>1, <2>8 DEF WorkerCrash, TypeOK
    <3>2. \A c \in calls' : \E d \in calls : c.msg = d.msg /\ c.stage = d.stage
      BY <1>1, <3>1 DEF Orphaned, TypeOK, Calls
    <3> QED BY <2>4, <2>5, <3>1, <3>2 DEF Running, Reporting, IdleLoop, Unapplied
  <2>9. ~PostTimesOut(w)
    BY DEF PostTimesOut, DeliveredOnce
  <2> QED BY <1>4, <2>3, <2>6, <2>7, <2>8, <2>9 DEF WorkerStep
<1>5. ASSUME NEW c \in calls, HandlerStep(c) PROVE InHand(m)
  <2>1. UNCHANGED <<sched, queue>>
    BY <1>5 DEF HandlerStep, RecordLog, ApplyVerdict, ApplyHealth, Reply, HandlerFails
  <2>2. ASSUME \A w \in Workers : Running(w)' \/ Reporting(w)' => InHand(worker'[w].msg),
               \A d \in calls' : Unapplied(d) => InHand(d.msg)
        PROVE  InHand(m)
    BY <2>1, <2>2, HandShrinks DEF Ticking
  <2>3. \A d \in calls : Unapplied(d) => InHand(d.msg)
    BY DEF InHand
  <2>4. \A w \in Workers : Running(w) \/ Reporting(w) => InHand(worker[w].msg)
    BY DEF InHand
  <2>5. CASE RecordLog(c) \/ ApplyVerdict(c) \/ ApplyHealth(c)
    <3>1. UNCHANGED worker
      BY <2>5 DEF RecordLog, ApplyVerdict, ApplyHealth
    <3>2. \A d \in calls' : d \in calls \/ (d.msg = c.msg /\ (Unapplied(d) => Unapplied(c)))
      BY <1>1, <2>5 DEF RecordLog, ApplyVerdict, ApplyHealth, Advance, TypeOK, Calls, Unapplied
    <3> QED BY <2>2, <2>3, <2>4, <3>1, <3>2 DEF Running, Reporting
  <2>6. CASE Reply(c) \/ HandlerFails(c)
    <3>1. calls' = calls \ {c}
      BY <2>6 DEF Reply, HandlerFails
    <3>2. \A v \in Workers : v # c.client => worker'[v] = worker[v]
      BY <1>1, <2>6 DEF Reply, HandlerFails, Answered, TypeOK
    <3>3. ASSUME c.client \in Workers, Running(c.client)' \/ Reporting(c.client)'
          PROVE  InHand(worker'[c.client].msg)
      <4>1. worker[c.client].stage = "waiting"
        BY <1>1, <3>3, NoneAssumption DEF WaitingClients
      <4>2. CASE Reply(c)
        BY <1>1, <3>3, <4>2, NoneAssumption
           DEF Reply, Answered, TypeOK, IdleLoop, Running, Reporting
      <4>3. CASE HandlerFails(c)
        <5>1. Unapplied(c) /\ worker'[c.client] = AfterFailure(worker[c.client])
          BY <1>1, <3>3, <4>3, NoneAssumption DEF HandlerFails, Answered, TypeOK, Unapplied
        <5>2. worker'[c.client].msg = worker[c.client].msg
          BY <1>1, <3>3, <4>1, <5>1, AfterFailureKeeps DEF Running, Reporting
        <5> QED BY <3>3, <5>1, <5>2, NoneAssumption DEF ClientsMatch, InHand
      <4> QED BY <2>6, <4>2, <4>3
    <3> QED BY <2>2, <2>3, <2>4, <3>1, <3>2, <3>3 DEF Running, Reporting
  <2> QED BY <1>5, <2>5, <2>6 DEF HandlerStep
<1>6. \A s \in Schedulers, C \in SUBSET calls : ~ApiCrash(s, C)
  BY DEF ApiCrash, DeliveredOnce
<1> QED BY <1>2, <1>3, <1>4, <1>5, <1>6 DEF Next, vars, Enqueue, BecomeDue, Repack

-----------------------------------------------------------------------------
(***************************************************************************)
(* Rows and charges.                                                       *)
(***************************************************************************)

\* A row changes only while its message is being taken out of hand, or while
\* it has none; the claim has just put one in.
LEMMA OwnedStep ==
    ASSUME DeliveredOnce, HandInv, [Next]_vars
    PROVE  OwnedInv'
<1> USE DEF HandInv
<1>1. TypeOK /\ WaitingClients
  BY DEF OnceInv, ClientInv
<1>2. \A m \in Messages : m.job \in Jobs /\ m.attempt \in Attempts
  BY DEF Messages
<1>3. ASSUME UNCHANGED <<job, charged>>, ~\E s \in Schedulers, j \in Jobs : Claim(s, j)
      PROVE  OwnedInv'
  BY <1>3, HandSteps DEF OwnedInv, Owned, ReportInv
<1>4. ASSUME NEW i \in Jobs, job[i].status # "RUNNING", UNCHANGED charged,
             \A j \in Jobs : j # i => job'[j] = job[j],
             ~\E s \in Schedulers, j \in Jobs : Claim(s, j)
      PROVE  OwnedInv'
  <2>1. \A m \in Messages : InHand(m) => m.job # i
    BY <1>4 DEF OwnedInv, Owned
  <2> QED BY <1>2, <1>4, <2>1, HandSteps DEF OwnedInv, Owned, ReportInv
<1>5. ASSUME NEW i \in Jobs, Enqueue(i) \/ BecomeDue(i) PROVE OwnedInv'
  <2>1. job[i].status # "RUNNING" /\ UNCHANGED <<charged, sched>>
    BY <1>5 DEF Enqueue, BecomeDue
  <2>2. \A j \in Jobs : j # i => job'[j] = job[j]
    BY <1>1, <1>5 DEF Enqueue, CreateActionJob, BecomeDue, TypeOK
  <2>3. ~\E s \in Schedulers, j \in Jobs : Claim(s, j)
    BY <1>1, <2>1 DEF Claim, TypeOK
  <2> QED BY <1>4, <2>1, <2>2, <2>3
<1>6. ASSUME NEW s \in Schedulers, NEW i \in Jobs, Claim(s, i) PROVE OwnedInv'
  <2>1. PICK n : n = job[i].attempts + 1
    OBVIOUS
  <2>2. /\ job[i].status = "PENDING" /\ n \in Attempts /\ n > job[i].attempts
        /\ job'[i].status = "RUNNING" /\ job'[i].attempts = n
        /\ sched'[s].msg = [job |-> i, attempt |-> n]
        /\ \A j \in Jobs : j # i => job'[j] = job[j]
        /\ UNCHANGED charged
    BY <1>1, <1>6, <2>1, AttemptsNat, BoundsAssumption
       DEF Claim, ClaimActionJob, TypeOK, Attempts
  <2>3. charged[i][n] = 0
    BY <2>2 DEF NothingAhead
  <2>4. \A m \in Messages : InHand(m) => m.job # i
    BY <2>2 DEF OwnedInv, Owned
  <2>5. \A m \in Messages : InHand(m)' => InHand(m) \/ m = [job |-> i, attempt |-> n]
    <3>1. \A t \in Schedulers, j \in Jobs : Claim(t, j) => j = i
      BY <1>1, <2>2 DEF Claim, ClaimActionJob, TypeOK
    <3> QED BY <2>1, <3>1, HandSteps DEF ReportInv
  <2>6. ASSUME NEW m \in Messages, InHand(m)' PROVE Owned(m)'
    <3>1. CASE InHand(m)
      BY <1>2, <2>2, <2>4, <3>1 DEF OwnedInv, Owned
    <3>2. CASE m = [job |-> i, attempt |-> n]
      BY <2>2, <2>3, <3>2 DEF Owned
    <3> QED BY <2>5, <2>6, <3>1, <3>2
  <2> QED BY <2>6 DEF OwnedInv
<1>7. ASSUME NEW k \in Messages, InHand(k), UNCHANGED charged,
             \A m \in Messages : InHand(m)' => InHand(m) /\ m # k,
             \A j \in Jobs : j # k.job => job'[j] = job[j]
      PROVE  OwnedInv'
  <2>1. \A m \in Messages : InHand(m)' => InHand(m) /\ m.job # k.job
    BY <1>7, OneMessage
  <2> QED BY <1>2, <1>7, <2>1 DEF OwnedInv, Owned
<1>8. ASSUME NEW s \in Schedulers, Reject(s) \/ PutBack(s) PROVE OwnedInv'
  <2>1. Ticking(s) /\ sched[s].msg \in Messages /\ InHand(sched[s].msg)
    BY <1>1, <1>8, TickShape DEF Reject, PutBack, GivesBack, DeliveredOnce, Ticking, InHand
  <2>2. /\ UNCHANGED <<charged, queue, worker, calls>>
        /\ ~Ticking(s)'
        /\ \A t \in Schedulers : t # s => sched'[t] = sched[t]
    BY <1>1, <1>8 DEF Reject, PutBack, Ticking, IdleTick, TypeOK
  <2>3. \A j \in Jobs : j # sched[s].msg.job => job'[j] = job[j]
    BY <1>1, <1>8 DEF Reject, PutBack, RescheduleActionJob, CompleteActionJob, TypeOK
  <2>4. \A m : InHand(m)' => InHand(m) /\ m # sched[s].msg
    <3>1. \A m : InHand(m)' =>
             \/ \E t \in Schedulers : t # s /\ Ticking(t) /\ sched[t].msg = m
             \/ \E w \in Workers : \E i \in Queued(w) : queue[w][i] = m
             \/ \E w \in Workers : (Running(w) \/ Reporting(w)) /\ worker[w].msg = m
             \/ \E c \in calls : Unapplied(c) /\ c.msg = m
      BY <2>2 DEF InHand, Ticking, Queued, Running, Reporting
    <3>2. /\ \A t \in Schedulers : Ticking(t) /\ t # s => sched[t].msg # sched[s].msg
          /\ \A w \in Workers : \A i \in Queued(w) : queue[w][i] # sched[s].msg
          /\ \A w \in Workers : Running(w) \/ Reporting(w) => worker[w].msg # sched[s].msg
          /\ \A c \in calls : c.msg # sched[s].msg
      BY <2>1, TickAlone
    <3>3. \A m : InHand(m)' => m # sched[s].msg
      BY <3>1, <3>2
    <3>4. \A m : InHand(m)' => InHand(m)
      BY <3>1 DEF InHand
    <3> QED BY <3>3, <3>4
  <2> QED BY <1>7, <2>1, <2>2, <2>3, <2>4
<1>9. ASSUME NEW c \in calls, ApplyVerdict(c) \/ ApplyHealth(c)
      PROVE  \A m : InHand(m)' => InHand(m) /\ m # c.msg
  <2>1. UNCHANGED <<sched, queue, worker>>
    BY <1>9 DEF ApplyVerdict, ApplyHealth
  <2>2. \A d \in calls' : Unapplied(d) => d \in calls /\ d # c
    BY <1>1, <1>9 DEF ApplyVerdict, ApplyHealth, Advance, Unapplied, TypeOK, Calls
  <2>3. \A m : InHand(m)' =>
           \/ \E s \in Schedulers : Ticking(s) /\ sched[s].msg = m
           \/ \E w \in Workers : \E i \in Queued(w) : queue[w][i] = m
           \/ \E w \in Workers : (Running(w) \/ Reporting(w)) /\ worker[w].msg = m
           \/ \E d \in calls : d # c /\ Unapplied(d) /\ d.msg = m
    BY <2>1, <2>2 DEF InHand, Ticking, Queued, Running, Reporting
  <2>4. /\ \A s \in Schedulers : Ticking(s) => sched[s].msg # c.msg
        /\ \A w \in Workers : \A i \in Queued(w) : queue[w][i] # c.msg
        /\ \A w \in Workers : Running(w) \/ Reporting(w) => worker[w].msg # c.msg
        /\ \A d \in calls : d # c => d.msg # c.msg
    BY CallAlone
  <2>5. \A m : InHand(m)' => m # c.msg
    BY <2>3, <2>4
  <2>6. \A m : InHand(m)' => InHand(m)
    BY <2>3 DEF InHand
  <2> QED BY <2>5, <2>6
<1>10. ASSUME NEW c \in calls, HandlerStep(c) PROVE OwnedInv'
  <2>1. c.msg \in Messages /\ c.msg.job \in Jobs /\ c.msg.attempt \in Attempts
    BY <1>1, CallShape
  <2>2. CASE ApplyVerdict(c)
    <3>1. \A j \in Jobs : j # c.msg.job => job'[j] = job[j]
      BY <1>1, <2>2 DEF ApplyVerdict, RescheduleActionJob, CompleteActionJob, TypeOK
    <3>2. UNCHANGED charged /\ InHand(c.msg)
      BY <2>2 DEF ApplyVerdict, InHand, Unapplied
    <3> QED BY <1>7, <1>9, <2>1, <2>2, <3>1, <3>2
  <2>3. CASE ApplyHealth(c)
    <3>1. UNCHANGED job
      BY <2>3 DEF ApplyHealth
    <3>2. \A j \in Jobs, n \in Attempts :
             ~(j = c.msg.job /\ n = c.msg.attempt) => charged'[j][n] = charged[j][n]
      BY <1>1, <2>1, <2>3 DEF ApplyHealth, TypeOK
    <3>3. \A m \in Messages : m # c.msg => ~(m.job = c.msg.job /\ m.attempt = c.msg.attempt)
      BY <2>1 DEF Messages
    <3> QED BY <1>2, <1>9, <2>3, <3>1, <3>2, <3>3 DEF OwnedInv, Owned
  <2>4. CASE RecordLog(c) \/ Reply(c) \/ HandlerFails(c)
    <3>1. UNCHANGED <<job, charged, sched>>
      BY <2>4 DEF RecordLog, Reply, HandlerFails
    <3>2. ~\E s \in Schedulers, j \in Jobs : Claim(s, j)
      BY <1>1, <3>1 DEF Claim, TypeOK
    <3> QED BY <1>3, <3>1, <3>2
  <2> QED BY <1>10, <2>2, <2>3, <2>4 DEF HandlerStep
<1>11. ASSUME UNCHANGED <<job, charged>> PROVE OwnedInv'
  <2>1. ~\E s \in Schedulers, j \in Jobs : Claim(s, j)
    BY <1>1, <1>11, AttemptsNat DEF Claim, ClaimActionJob, TypeOK
  <2> QED BY <1>3, <1>11, <2>1
<1>12. \A s \in Schedulers, C \in SUBSET calls : ~ApiCrash(s, C)
  BY DEF ApiCrash, DeliveredOnce
<1>13. ASSUME NEW s \in Schedulers, SchedulerStep(s) PROVE OwnedInv'
  BY <1>6, <1>8, <1>11, <1>13 DEF SchedulerStep, Resolve, ForgetJob, Publish, PushReplyLost
<1>14. ASSUME NEW w \in Workers, WorkerStep(w) PROVE OwnedInv'
  BY <1>11, <1>14 DEF WorkerStep, Pop, Perform, Post, PostLost, PostTimesOut, WorkerCrash
<1> QED BY <1>5, <1>10, <1>11, <1>12, <1>13, <1>14 DEF Next, vars, Repack

\* A charge is made for a request whose attempt has not been charged.
LEMMA ChargeStep ==
    ASSUME DeliveredOnce, HandInv, [Next]_vars
    PROVE  HealthUncharged' /\ NothingAhead' /\ ChargedOnce'
<1> USE DEF HandInv
<1>1. TypeOK /\ TypeOK' /\ NewRows
  BY ClientStep DEF OnceInv, ClientInv
<1>2. \A c \in calls : c.msg \in Messages /\ c.msg.job \in Jobs /\ c.msg.attempt \in Attempts
  BY <1>1, CallShape
<1>3. \A j \in Jobs : /\ job[j].attempts \in Nat /\ job'[j].attempts \in Nat
                    /\ job[j].attempts <= job'[j].attempts
  <2>1. \A j \in Jobs : job'[j].attempts \in Nat
    BY <1>1, BoundsAssumption DEF TypeOK, JobRows
  <2> QED BY <1>1, <2>1, AttemptsGrow, AttemptsNat DEF OnceInv
<1>4. ASSUME UNCHANGED charged PROVE NothingAhead' /\ ChargedOnce'
  BY <1>3, <1>4 DEF NothingAhead, ChargedOnce, Attempts
<1>5. ASSUME NEW c \in calls, ApplyHealth(c)
      PROVE  HealthUncharged' /\ NothingAhead' /\ ChargedOnce'
  <2>1. PICK j, n : j = c.msg.job /\ n = c.msg.attempt /\ j \in Jobs /\ n \in Attempts
    BY <1>2
  <2>2. charged[j][n] = 0 /\ UNCHANGED job
    BY <1>5, <2>1 DEF ApplyHealth, HealthUncharged
  <2>3. /\ charged'[j][n] \in {0, 1}
        /\ \A i \in Jobs, k \in Attempts : ~(i = j /\ k = n) => charged'[i][k] = charged[i][k]
    <3>1. charged \in [Jobs -> [Attempts -> Nat]]
      BY <1>1 DEF TypeOK
    <3>2. CASE charged' = [charged EXCEPT ![j][n] = charged[j][n] + 1]
      <4>1. /\ charged'[j] = [charged[j] EXCEPT ![n] = charged[j][n] + 1]
            /\ \A i \in Jobs : i # j => charged'[i] = charged[i]
        BY <2>1, <3>1, <3>2
      <4>2. charged'[j][n] = charged[j][n] + 1
        BY <2>1, <3>1, <4>1
      <4>3. \A k \in Attempts : k # n => charged'[j][k] = charged[j][k]
        BY <2>1, <3>1, <4>1
      <4>4. ASSUME NEW i \in Jobs, NEW k \in Attempts, ~(i = j /\ k = n)
            PROVE  charged'[i][k] = charged[i][k]
        <5>1. CASE i = j
          BY <4>3, <4>4, <5>1
        <5>2. CASE i # j
          BY <4>1, <5>2
        <5> QED BY <5>1, <5>2
      <4>5. charged'[j][n] = 1
        BY <2>2, <4>2
      <4> QED BY <4>4, <4>5
    <3>3. CASE UNCHANGED charged
      BY <2>2, <3>3
    <3> QED BY <1>5, <2>1, <3>2, <3>3 DEF ApplyHealth
  <2>4. ~(n > job[j].attempts)
    BY <2>1 DEF OnceInv, NothingUnclaimed, VerdictsAreGrounded, Reportable
  <2>5. NothingAhead'
    BY <2>2, <2>3, <2>4 DEF NothingAhead
  <2>6. ChargedOnce'
    BY <2>3 DEF ChargedOnce
  <2>7. \A d \in calls' : d.stage = "health" => d \in calls /\ d # c
    BY <1>1, <1>5 DEF ApplyHealth, Advance, TypeOK, Calls
  <2>8. \A d \in calls : d # c => ~(d.msg.job = j /\ d.msg.attempt = n)
    <3>1. \A d \in calls : d # c => d.msg # c.msg
      BY CallAlone
    <3> QED BY <1>2, <2>1, <3>1 DEF Messages
  <2>9. HealthUncharged'
    BY <1>2, <2>3, <2>7, <2>8 DEF HealthUncharged
  <2> QED BY <2>5, <2>6, <2>9
<1>6. ASSUME UNCHANGED charged,
             \A d \in calls' : d.stage = "health" =>
                \E c \in calls : d.msg = c.msg /\ (Unapplied(c) \/ c.stage = "health")
      PROVE  HealthUncharged'
  <2>1. \A c \in calls : Unapplied(c) => charged[c.msg.job][c.msg.attempt] = 0
    BY <1>2 DEF OwnedInv, Owned, InHand
  <2> QED BY <1>6, <2>1 DEF HealthUncharged
<1>7. ASSUME NEW w \in Workers, WorkerStep(w)
      PROVE  /\ UNCHANGED charged
             /\ \A d \in calls' : d.stage = "health" =>
                  \E c \in calls : d.msg = c.msg /\ c.stage = "health"
  <2>1. UNCHANGED charged
    BY <1>7 DEF WorkerStep, Pop, Perform, Post, PostLost, PostTimesOut, WorkerCrash
  <2>2. CASE UNCHANGED calls
    BY <2>1, <2>2
  <2>3. CASE Post(w)
    BY <2>1, <2>3 DEF Post
  <2>4. CASE calls' = Orphaned(w)
    BY <1>1, <2>1, <2>4 DEF Orphaned, TypeOK, Calls
  <2> QED BY <1>7, <2>2, <2>3, <2>4
          DEF WorkerStep, Pop, Perform, PostLost, PostTimesOut, WorkerCrash
<1>8. ASSUME NEW c \in calls, HandlerStep(c), ~ApplyHealth(c)
      PROVE  /\ UNCHANGED charged
             /\ \A d \in calls' : d.stage = "health" =>
                  \E e \in calls : d.msg = e.msg /\ (Unapplied(e) \/ e.stage = "health")
  <2>1. UNCHANGED charged
    BY <1>8 DEF HandlerStep, RecordLog, ApplyVerdict, Reply, HandlerFails
  <2>2. CASE calls' = calls \ {c}
    BY <2>1, <2>2
  <2>3. CASE RecordLog(c) \/ ApplyVerdict(c)
    BY <1>1, <2>1, <2>3 DEF RecordLog, ApplyVerdict, Advance, Unapplied, TypeOK, Calls
  <2> QED BY <1>8, <2>2, <2>3 DEF HandlerStep, Reply, HandlerFails
<1>9. ASSUME UNCHANGED <<charged, calls>> PROVE HealthUncharged'
  BY <1>9 DEF HealthUncharged
<1>10. \A s \in Schedulers, C \in SUBSET calls : ~ApiCrash(s, C)
  BY DEF ApiCrash, DeliveredOnce
<1>11. ASSUME NEW s \in Schedulers, SchedulerStep(s) PROVE UNCHANGED <<charged, calls>>
  BY <1>11 DEF SchedulerStep, Claim, Resolve, Reject, PutBack, ForgetJob, Publish, PushReplyLost
<1> QED BY <1>4, <1>5, <1>6, <1>7, <1>8, <1>9, <1>10, <1>11
        DEF Next, vars, Enqueue, BecomeDue, Repack

\* What is in hand is in one place, and its row is RUNNING with its attempt.
LEMMA HandIsOwner ==
    ASSUME HandInv
    PROVE  SingleOwner
<1> USE DEF HandInv
<1> DEFINE IsTick(t, s) == Ticking(s) /\ t = [at |-> <<"tick", s>>, msg |-> sched[s].msg]
           IsEntry(t, w, i) == t = [at |-> <<"queue", w, i>>, msg |-> queue[w][i]]
           IsLoop(t, w) == /\ Running(w) \/ Reporting(w)
                           /\ t = [at |-> <<"worker", w>>, msg |-> worker[w].msg]
           IsCall(t, c) == Unapplied(c) /\ t = [at |-> <<"call", c>>, msg |-> c.msg]
<1>1. \A t \in Tokens :
        \/ \E s \in Schedulers : IsTick(t, s)
        \/ \E w \in Workers : \E i \in Queued(w) : IsEntry(t, w, i)
        \/ \E w \in Workers : IsLoop(t, w)
        \/ \E c \in calls : IsCall(t, c)
  <2> SUFFICES ASSUME NEW t \in Tokens
               PROVE  \/ \E s \in Schedulers : IsTick(t, s)
                      \/ \E w \in Workers : \E i \in Queued(w) : IsEntry(t, w, i)
                      \/ \E w \in Workers : IsLoop(t, w)
                      \/ \E c \in calls : IsCall(t, c)
    OBVIOUS
  <2> DEFINE Ticks_ == {[at |-> <<"tick", s>>, msg |-> sched[s].msg]
                          : s \in {x \in Schedulers : Ticking(x)}}
             EntriesOf(w) == {[at |-> <<"queue", w, i>>, msg |-> queue[w][i]] : i \in Queued(w)}
             Entries == UNION {EntriesOf(w) : w \in Workers}
             Loops_ == {[at |-> <<"worker", w>>, msg |-> worker[w].msg]
                          : w \in {x \in Workers : worker[x].stage \in {"running", "reporting"}}}
             Calls_ == {[at |-> <<"call", c>>, msg |-> c.msg]
                          : c \in {x \in calls : x.stage \in {"log", "verdict"}}}
  <2>1. t \in Ticks_ \cup Entries \cup Loops_ \cup Calls_
    BY DEF Tokens
  <2>2. CASE t \in Ticks_
    BY <2>2
  <2>3. CASE t \in Entries
    <3>1. PICK w \in Workers : t \in EntriesOf(w)
      BY <2>3
    <3> QED BY <3>1
  <2>4. CASE t \in Loops_
    BY <2>4 DEF Running, Reporting
  <2>5. CASE t \in Calls_
    BY <2>5 DEF Unapplied
  <2> HIDE DEF Ticks_, Entries, Loops_, Calls_, IsTick, IsEntry, IsLoop, IsCall
  <2> QED BY <2>1, <2>2, <2>3, <2>4, <2>5
<1>2. \A t \in Tokens : t.msg \in Messages /\ InHand(t.msg)
  <2>1. /\ \A s \in Schedulers : Ticking(s) => sched[s].msg \in Messages
        /\ \A w \in Workers : \A i \in Queued(w) : queue[w][i] \in Messages
        /\ \A w \in Workers : Running(w) \/ Reporting(w) => worker[w].msg \in Messages
        /\ \A c \in calls : c.msg \in Messages
    BY PendingShape, LoopShape, CallShape DEF Reporting, OnceInv, ClientInv
  <2> QED BY <1>1, <2>1 DEF InHand
<1>3. ASSUME NEW t \in Tokens, NEW u \in Tokens, t.msg = u.msg PROVE t = u
  <2>1. CASE \E s \in Schedulers : IsTick(t, s)
    BY <1>1, <1>3, <2>1, TickAlone
  <2>2. CASE \E s \in Schedulers : IsTick(u, s)
    BY <1>1, <1>3, <2>2, TickAlone
  <2>3. CASE \E c \in calls : IsCall(t, c)
    BY <1>1, <1>3, <2>3, CallAlone
  <2>4. CASE \E c \in calls : IsCall(u, c)
    BY <1>1, <1>3, <2>4, CallAlone
  <2>5. ASSUME NEW w \in Workers, NEW i \in Queued(w), NEW v \in Workers,
               queue[w][i] = worker[v].msg, Running(v) \/ Reporting(v)
        PROVE  FALSE
    <3>1. Unperformed(queue[w][i])
      BY DEF OnceInv, FreshInv, QueuesFresh
    <3> QED BY <2>5, <3>1, FreshUnreported DEF OnceInv, ApartInv, QueuesApart, Reported, Reporting
  <2>6. ASSUME NEW w \in Workers, NEW v \in Workers, worker[w].msg = worker[v].msg,
               Running(v) \/ Reporting(v), Running(w) \/ Reporting(w)
        PROVE  v = w
    <3>1. \A y \in Workers : Running(y) => Unperformed(worker[y].msg)
      BY DEF OnceInv, FreshInv, RunningFresh
    <3> QED BY <2>6, <3>1, FreshUnreported
            DEF OnceInv, ApartInv, RunningApart, ReportInv, ReportersApart, Reported, Reporting
  <2>7. CASE (\E w \in Workers : \E i \in Queued(w) : IsEntry(t, w, i))
             /\ (\E w \in Workers : \E i \in Queued(w) : IsEntry(u, w, i))
    BY <1>3, <2>7 DEF OnceInv, ApartInv, QueuesApart
  <2>8. CASE (\E w \in Workers : IsLoop(t, w)) /\ (\E w \in Workers : IsLoop(u, w))
    BY <1>3, <2>6, <2>8
  <2>9. ~(/\ \E w \in Workers : IsLoop(t, w)
          /\ \E w \in Workers : \E i \in Queued(w) : IsEntry(u, w, i))
    BY <1>3, <2>5
  <2>10. ~(/\ \E w \in Workers : IsLoop(u, w)
           /\ \E w \in Workers : \E i \in Queued(w) : IsEntry(t, w, i))
    BY <1>3, <2>5
  <2> QED BY <1>1, <2>1, <2>2, <2>3, <2>4, <2>7, <2>8, <2>9, <2>10
<1>4. \A t, u \in Tokens : t.msg.job = u.msg.job => t.msg = u.msg
  BY <1>2, OneMessage
<1>5. \A t \in Tokens : Owned(t.msg)
  BY <1>2 DEF OwnedInv
<1> QED BY <1>3, <1>4, <1>5 DEF SingleOwner, Owned

LEMMA InitHand == Init => HandInv
<1> SUFFICES ASSUME Init PROVE HandInv
  OBVIOUS
<1>1. ClientInv
  BY InitTypeOK, InitClients DEF ClientInv
<1>2. /\ \A s \in Schedulers : ~Ticking(s)
      /\ \A w \in Workers : ~Running(w) /\ ~Reported(w) /\ ~Reporting(w) /\ Queued(w) = {}
      /\ calls = {}
  BY DEF Init, IdleTick, IdleLoop, Ticking, Running, Reported, Reporting, Queued
<1>3. FreshInv /\ ApartInv
  BY <1>2 DEF FreshInv, ApartInv, TicksFresh, QueuesFresh, RunningFresh,
              TicksApart, QueuesApart, RunningApart
<1>4. NothingUnclaimed /\ NewRows
  BY DEF Init, NothingUnclaimed, NewRows
<1>5. VerdictsAreGrounded
  BY <1>2 DEF VerdictsAreGrounded, Reported
<1>6. ReportInv
  BY <1>2 DEF ReportInv, ClientsMatch, ReportersApart, CallsApart, RetriesAlone
<1>7. OwnedInv /\ HealthUncharged
  BY <1>2 DEF OwnedInv, InHand, HealthUncharged
<1>8. NothingAhead /\ ChargedOnce
  BY DEF Init, NothingAhead, ChargedOnce
<1> QED BY <1>1, <1>3, <1>4, <1>5, <1>6, <1>7, <1>8 DEF HandInv, OnceInv

LEMMA HandStep ==
    ASSUME DeliveredOnce
    PROVE  HandInv /\ [Next]_vars => HandInv'
<1> SUFFICES ASSUME HandInv, [Next]_vars PROVE HandInv'
  OBVIOUS
<1>1. "retried_push" \notin Faults
  BY DEF DeliveredOnce
<1>2. OnceInv'
  BY <1>1, OnceStep DEF HandInv
<1>3. VerdictsAreGrounded'
  BY VerdictsStep DEF HandInv, OnceInv
<1>4. ReportInv'
  BY ReportStep DEF HandInv
<1> QED BY <1>2, <1>3, <1>4, OwnedStep, ChargeStep DEF HandInv

\* Scheduler, list, worker and handler hand a claimed job from one to the
\* next and never hold it twice: as long as every verdict is delivered once,
\* what is in flight belongs to a RUNNING row, to its latest attempt, and is
\* alone, with any number of workers crashing, statements failing, POSTs
\* lost and accounts repacked (Claim, PutBack, Publish, Pop, ApplyVerdict).
THEOREM OneOwner ==
    ASSUME DeliveredOnce
    PROVE  Spec => []SingleOwner
<1>1. HandInv /\ [Next]_vars => HandInv'
  BY HandStep
<1> QED BY InitHand, <1>1, HandIsOwner, PTL DEF Spec

\* Under the same assumption an attempt costs the account's health at most
\* once, although its verdict may be posted several times (ApplyHealth,
\* AfterFailure).
THEOREM ChargesOnce ==
    ASSUME DeliveredOnce
    PROVE  Spec => []ChargedOnce
<1>1. HandInv /\ [Next]_vars => HandInv'
  BY HandStep
<1>2. HandInv => ChargedOnce
  BY DEF HandInv
<1> QED BY InitHand, <1>1, <1>2, PTL DEF Spec

-----------------------------------------------------------------------------
(***************************************************************************)
(* The pipeline implements ActionLifecycle, as long as every verdict is    *)
(* delivered once.  Besides HandInv the refinement needs that an attempt   *)
(* has one outcome, and that a row that may still be performed has been    *)
(* performed under attempt numbers below MaxAttempts only: the row may be  *)
(* claimed any number of times by ticks the gates refuse, but it comes     *)
(* back after a performing only from an attempt the policy retries.        *)
(***************************************************************************)
Untried(j) ==
    \/ job[j].status = "PENDING"
    \/ job[j].status = "RUNNING" /\ job[j].attempts \notin Tries(j)

SingleFate == \A j \in Jobs, n \in Attempts : \A r, q \in done[j][n] : r = q
BudgetLeft == \A j \in Jobs : Untried(j) => \A n \in Tries(j) : n < MaxAttempts

LifeInv == HandInv /\ SingleFate /\ BudgetLeft

\* What attempts a job was performed under, and how many they are.
LEMMA TriesCounted ==
    ASSUME HandInv, NEW j \in Jobs
    PROVE  /\ Tries(j) \subseteq 1 .. job[j].attempts
           /\ job[j].attempts \in Nat
           /\ IsFiniteSet(Tries(j))
           /\ Cardinality(Tries(j)) \in Nat
           /\ \A k \in Nat : (\A n \in Tries(j) : n <= k) => Cardinality(Tries(j)) <= k
<1>1. job[j].attempts \in Nat
  BY AttemptsNat DEF HandInv, OnceInv, ClientInv
<1>2. Tries(j) \subseteq 1 .. job[j].attempts
  BY <1>1, BoundsAssumption DEF HandInv, OnceInv, NothingUnclaimed, Tries, Attempts
<1>3. ASSUME NEW k \in Nat, \A n \in Tries(j) : n <= k
      PROVE  IsFiniteSet(Tries(j)) /\ Cardinality(Tries(j)) <= k
  <2>1. Tries(j) \subseteq 1 .. k
    BY <1>3, BoundsAssumption DEF Tries, Attempts
  <2>2. IsFiniteSet(1 .. k) /\ Cardinality(1 .. k) = k
    BY FS_Interval
  <2> QED BY <2>1, <2>2, FS_Subset
<1>4. IsFiniteSet(Tries(j))
  <2>1. \A n \in Tries(j) : n <= job[j].attempts
    BY <1>1, <1>2
  <2> QED BY <1>1, <1>3, <2>1
<1> QED BY <1>1, <1>2, <1>3, <1>4, FS_CardinalityType

\* The fate of a row is the outcome of its latest attempt.
LEMMA FateIs ==
    ASSUME SingleFate, TypeOK, NEW j \in Jobs, job[j].status = "RUNNING",
           job[j].attempts \in Attempts, NEW o \in done[j][job[j].attempts]
    PROVE  Fate(j) = o
<1>1. job[j].attempts \in Tries(j)
  BY DEF Tries
<1>2. (CHOOSE p \in done[j][job[j].attempts] : TRUE) \in done[j][job[j].attempts]
  OBVIOUS
<1> QED BY <1>1, <1>2 DEF Fate, SingleFate

\* Nor does the fate of a row change, unless its row or its history does.
FateOf(S) == CHOOSE o \in S : TRUE

LEMMA FateKept ==
    ASSUME NEW j \in Jobs,
           job'[j].status = job[j].status, job'[j].attempts = job[j].attempts,
           \A n \in Attempts : done'[j][n] = done[j][n]
    PROVE  Tries(j)' = Tries(j) /\ Fate(j)' = Fate(j)
<1>1. Fate(j) = IF job[j].status = "RUNNING" /\ job[j].attempts \in Tries(j)
                THEN FateOf(done[j][job[j].attempts]) ELSE None
  BY DEF Fate, FateOf
<1>2. Fate(j)' = IF job'[j].status = "RUNNING" /\ job'[j].attempts \in Tries(j)'
                 THEN FateOf(done'[j][job'[j].attempts]) ELSE None
  BY DEF Fate, FateOf
<1>3. Tries(j)' = Tries(j)
  BY DEF Tries
<1>4. job[j].attempts \in Tries(j) => done'[j][job'[j].attempts] = done[j][job[j].attempts]
  BY DEF Tries
<1> QED BY <1>1, <1>2, <1>3, <1>4

\* What is in hand before it is performed has no fate.
LEMMA FreshIsUntried ==
    ASSUME HandInv, NEW m \in Messages, InHand(m), Unperformed(m)
    PROVE  /\ m.job \in Jobs /\ m.attempt \in Attempts
           /\ job[m.job].status = "RUNNING" /\ job[m.job].attempts = m.attempt
           /\ m.attempt \notin Tries(m.job)
           /\ Fate(m.job) = None
BY DEF HandInv, OwnedInv, Owned, Unperformed, Tries, Fate, Messages

LEMMA InitLife == Init => LifeInv
<1> SUFFICES ASSUME Init PROVE LifeInv
  OBVIOUS
<1>1. \A j \in Jobs, n \in Attempts : done[j][n] = {}
  BY DEF Init
<1> QED BY <1>1, InitHand DEF LifeInv, SingleFate, BudgetLeft, Tries

-----------------------------------------------------------------------------
(***************************************************************************)
(* The steps of the lifecycle, each from what a step of the pipeline does  *)
(* to one row.                                                             *)
(***************************************************************************)
\* How often each row was taken.
Taken == [j \in Jobs |-> job[j].attempts]

\* Only the count of the row that is rewritten changes.
LEMMA TakenOf ==
    ASSUME NEW i \in Jobs, \A j \in Jobs : j # i => job'[j] = job[j]
    PROVE  /\ job'[i].attempts = job[i].attempts => Taken' = Taken
           /\ job'[i].attempts = job[i].attempts + 1 => Taken' = [Taken EXCEPT ![i] = @ + 1]
BY DEF Taken

\* Nothing a reader of the queue sees has changed.
LEMMA LifeStutters ==
    ASSUME \A j \in Jobs : job'[j].status = job[j].status /\ Fate(j)' = Fate(j),
           \A j \in Jobs : Tries(j)' = Tries(j),
           \A j \in Jobs : job'[j].attempts = job[j].attempts
    PROVE  UNCHANGED Lifecycle!vars
<1>1. [j \in Jobs |-> job'[j].status] = [j \in Jobs |-> job[j].status]
  OBVIOUS
<1>2. [j \in Jobs |-> Cardinality(Tries(j)')] = [j \in Jobs |-> Cardinality(Tries(j))]
  OBVIOUS
<1>3. [j \in Jobs |-> Fate(j)'] = [j \in Jobs |-> Fate(j)]
  OBVIOUS
<1>4. [j \in Jobs |-> job'[j].attempts] = [j \in Jobs |-> job[j].attempts]
  OBVIOUS
<1> QED BY <1>1, <1>2, <1>3, <1>4 DEF Lifecycle!vars

\* The row of job i goes to status x and has no fate there.
LEMMA LifeBecomes ==
    ASSUME NEW i \in Jobs, NEW x, job'[i].status = x, Fate(i)' = None,
           \A j \in Jobs : j # i => job'[j].status = job[j].status /\ Fate(j)' = Fate(j),
           \A j \in Jobs : Tries(j)' = Tries(j)
    PROVE  Lifecycle!Become(i, x)
<1>1. [j \in Jobs |-> job'[j].status] = [[j \in Jobs |-> job[j].status] EXCEPT ![i] = x]
  OBVIOUS
<1>2. [j \in Jobs |-> Cardinality(Tries(j)')] = [j \in Jobs |-> Cardinality(Tries(j))]
  OBVIOUS
<1>3. [j \in Jobs |-> Fate(j)'] = [[j \in Jobs |-> Fate(j)] EXCEPT ![i] = None]
  OBVIOUS
<1> QED BY <1>1, <1>2, <1>3 DEF Lifecycle!Become

\* What a step has to show of the lifecycle.
LifeGoes == SingleFate' /\ BudgetLeft' /\ [Lifecycle!Next]_(Lifecycle!vars)

\* A step that performs nothing and leaves status and count of every row.
LEMMA LifeUnseen ==
    ASSUME LifeInv, UNCHANGED done,
           \A j \in Jobs : job'[j].status = job[j].status /\ job'[j].attempts = job[j].attempts
    PROVE  LifeGoes
<1>1. \A j \in Jobs : Tries(j)' = Tries(j)
  BY DEF Tries
<1>2. \A j \in Jobs : Fate(j)' = Fate(j)
  BY FateKept
<1>3. SingleFate' /\ BudgetLeft'
  BY <1>1 DEF LifeInv, SingleFate, BudgetLeft, Untried
<1>4. UNCHANGED Lifecycle!vars
  BY <1>1, <1>2, LifeStutters
<1> QED BY <1>3, <1>4 DEF LifeGoes

\* A step that performs nothing and rewrites the row of job i, which has no
\* fate there.
LEMMA LifeOfOneRow ==
    ASSUME LifeInv, UNCHANGED done, NEW i \in Jobs, NEW x,
           \A j \in Jobs : j # i => job'[j] = job[j],
           job'[i].status = x, Fate(i)' = None,
           Untried(i)' => \A n \in Tries(i) : n < MaxAttempts
    PROVE  SingleFate' /\ BudgetLeft' /\ Lifecycle!Become(i, x)
<1>1. \A j \in Jobs : Tries(j)' = Tries(j)
  BY DEF Tries
<1>2. \A j \in Jobs : j # i => job'[j].status = job[j].status /\ Fate(j)' = Fate(j)
  BY FateKept
<1>3. SingleFate' /\ BudgetLeft'
  BY <1>1 DEF LifeInv, SingleFate, BudgetLeft, Untried
<1> QED BY <1>1, <1>2, <1>3, LifeBecomes

LEMMA EnqueueLife ==
    ASSUME LifeInv, NEW i \in Jobs, Enqueue(i)
    PROVE  LifeGoes
<1>1. TypeOK
  BY DEF LifeInv, HandInv, OnceInv, ClientInv
<1>2. /\ job[i].status = "none" /\ job'[i].status = "PENDING" /\ UNCHANGED done
      /\ \A j \in Jobs : j # i => job'[j] = job[j]
  BY <1>1 DEF Enqueue, CreateActionJob, TypeOK
<1>3. Tries(i) = {}
  <2>1. job[i].attempts = 0
    BY <1>2 DEF LifeInv, HandInv, OnceInv, NewRows
  <2> QED BY <2>1, TriesCounted DEF LifeInv
<1>4. Fate(i)' = None
  BY <1>2 DEF Fate
<1>5. SingleFate' /\ BudgetLeft' /\ Lifecycle!Become(i, "PENDING")
  BY <1>2, <1>3, <1>4, LifeOfOneRow
<1>6. Taken' = Taken
  <2>1. job'[i].attempts = 0 /\ job[i].attempts = 0
    BY <1>1, <1>2 DEF Enqueue, CreateActionJob, TypeOK, LifeInv, HandInv, OnceInv, NewRows
  <2> QED BY <1>2, <2>1, TakenOf
<1>7. Lifecycle!Create(i)
  BY <1>2, <1>5, <1>6 DEF Lifecycle!Create, Taken
<1> QED BY <1>5, <1>7 DEF LifeGoes, Lifecycle!Next

LEMMA ClaimLife ==
    ASSUME LifeInv, NEW s \in Schedulers, NEW i \in Jobs, Claim(s, i)
    PROVE  LifeGoes
<1>1. TypeOK
  BY DEF LifeInv, HandInv, OnceInv, ClientInv
<1>2. /\ job[i].status = "PENDING" /\ job'[i].status = "RUNNING" /\ UNCHANGED done
      /\ job'[i].attempts = job[i].attempts + 1
      /\ \A j \in Jobs : j # i => job'[j] = job[j]
  BY <1>1 DEF Claim, ClaimActionJob, TypeOK
<1>3. job'[i].attempts \notin Tries(i)
  BY <1>2, TriesCounted DEF LifeInv
<1>4. Fate(i)' = None
  BY <1>2, <1>3 DEF Fate, Tries
<1>5. \A n \in Tries(i) : n < MaxAttempts
  BY <1>2 DEF LifeInv, BudgetLeft, Untried
<1>6. SingleFate' /\ BudgetLeft' /\ Lifecycle!Become(i, "RUNNING")
  BY <1>2, <1>4, <1>5, LifeOfOneRow
<1>7. Taken' = [Taken EXCEPT ![i] = @ + 1]
  BY <1>2, TakenOf
<1>8. Lifecycle!Take(i)
  BY <1>2, <1>6, <1>7 DEF Lifecycle!Take, Taken
<1> QED BY <1>6, <1>8 DEF LifeGoes, Lifecycle!Next

\* The tick gives its job up: nobody has performed the claim.
LEMMA GiveUpLife ==
    ASSUME DeliveredOnce, LifeInv, NEW s \in Schedulers, Reject(s) \/ PutBack(s)
    PROVE  LifeGoes
<1>1. TypeOK
  BY DEF LifeInv, HandInv, OnceInv, ClientInv
<1>2. Ticking(s) /\ sched[s].msg \in Messages /\ InHand(sched[s].msg)
  BY <1>1, TickShape DEF Reject, PutBack, GivesBack, DeliveredOnce, Ticking, InHand
<1>3. Unperformed(sched[s].msg)
  BY <1>2 DEF LifeInv, HandInv, OnceInv, FreshInv, TicksFresh
<1>4. PICK i : i = sched[s].msg.job
  OBVIOUS
<1>5. /\ i \in Jobs /\ job[i].status = "RUNNING" /\ job[i].attempts \notin Tries(i)
      /\ Fate(i) = None
  BY <1>2, <1>3, <1>4, FreshIsUntried DEF LifeInv
<1>6. /\ \A j \in Jobs : j # i => job'[j] = job[j]
      /\ job'[i].status \in {"PENDING", "FAILED"} /\ job'[i].attempts = job[i].attempts
      /\ UNCHANGED done
  BY <1>1, <1>4, <1>5 DEF Reject, PutBack, RescheduleActionJob, CompleteActionJob, TypeOK
<1>7. PICK x : x = job'[i].status
  OBVIOUS
<1>8. Fate(i)' = None
  BY <1>6 DEF Fate
<1>9. \A n \in Tries(i) : n < MaxAttempts
  BY <1>5 DEF LifeInv, BudgetLeft, Untried
<1>10. SingleFate' /\ BudgetLeft' /\ Lifecycle!Become(i, x)
  BY <1>5, <1>6, <1>7, <1>8, <1>9, LifeOfOneRow
<1>11. Taken' = Taken
  BY <1>5, <1>6, TakenOf
<1>12. Lifecycle!Undo(i)
  BY <1>5, <1>6, <1>7, <1>10, <1>11 DEF Lifecycle!Undo, Taken
<1> QED BY <1>5, <1>10, <1>12 DEF LifeGoes, Lifecycle!Next

LEMMA PerformLife ==
    ASSUME LifeInv, NEW w \in Workers, NEW r \in Results, Perform(w, r)
    PROVE  LifeGoes
<1>1. TypeOK
  BY DEF LifeInv, HandInv, OnceInv, ClientInv
<1>2. Running(w) /\ worker[w].msg \in Messages /\ InHand(worker[w].msg)
  BY <1>1, LoopShape DEF Perform, Running, InHand
<1>3. Unperformed(worker[w].msg)
  BY <1>2 DEF LifeInv, HandInv, OnceInv, FreshInv, RunningFresh
<1>4. PICK i, k : i = worker[w].msg.job /\ k = worker[w].msg.attempt
  OBVIOUS
<1>5. /\ i \in Jobs /\ k \in Attempts /\ job[i].status = "RUNNING" /\ job[i].attempts = k
      /\ k \notin Tries(i) /\ Fate(i) = None /\ done[i][k] = {}
  BY <1>2, <1>3, <1>4, FreshIsUntried DEF LifeInv, Unperformed
<1>6. /\ UNCHANGED job
      /\ done'[i][k] = {r}
      /\ \A j \in Jobs, n \in Attempts : ~(j = i /\ n = k) => done'[j][n] = done[j][n]
  <2>1. done \in [Jobs -> [Attempts -> SUBSET Results]]
    BY <1>1 DEF TypeOK
  <2>2. done' = [done EXCEPT ![i][k] = done[i][k] \cup {r}]
    BY <1>4 DEF Perform
  <2>3. /\ done'[i] = [done[i] EXCEPT ![k] = done[i][k] \cup {r}]
        /\ \A j \in Jobs : j # i => done'[j] = done[j]
    BY <1>5, <2>1, <2>2
  <2>4. done'[i][k] = {r} /\ \A n \in Attempts : n # k => done'[i][n] = done[i][n]
    BY <1>5, <2>1, <2>3
  <2>5. UNCHANGED job
    BY DEF Perform
  <2> QED BY <2>3, <2>4, <2>5
<1>7. Tries(i)' = Tries(i) \cup {k} /\ \A j \in Jobs : j # i => Tries(j)' = Tries(j)
  BY <1>5, <1>6 DEF Tries
<1>8. SingleFate'
  BY <1>6 DEF LifeInv, SingleFate
<1>9. BudgetLeft'
  BY <1>5, <1>6, <1>7 DEF LifeInv, BudgetLeft, Untried
<1>10. Fate(i)' = r
  BY <1>1, <1>5, <1>6, <1>7 DEF Fate
<1>11. \A j \in Jobs : j # i => Fate(j)' = Fate(j)
  BY <1>6, FateKept
<1>12. /\ Cardinality(Tries(i)) \in Nat
       /\ Cardinality(Tries(i)) < MaxAttempts
       /\ Cardinality(Tries(i)') = Cardinality(Tries(i)) + 1
  <2>1. \A n \in Tries(i) : n \in Nat /\ n <= MaxAttempts - 1
    BY <1>5, BoundsAssumption DEF LifeInv, BudgetLeft, Untried, Tries, Attempts
  <2>2. MaxAttempts - 1 \in Nat
    BY BoundsAssumption
  <2>3. /\ Cardinality(Tries(i)) <= MaxAttempts - 1
        /\ IsFiniteSet(Tries(i)) /\ Cardinality(Tries(i)) \in Nat
    BY <1>5, <2>1, <2>2, TriesCounted DEF LifeInv
  <2>4. Cardinality(Tries(i) \cup {k}) = Cardinality(Tries(i)) + 1
    BY <1>5, <2>3, FS_AddElement
  <2>5. Cardinality(Tries(i)') = Cardinality(Tries(i)) + 1
    BY <1>7, <2>4
  <2> QED BY <2>3, <2>5, BoundsAssumption
<1>13. Lifecycle!Perform(i, r)
  <2>1. [j \in Jobs |-> job'[j].status] = [j \in Jobs |-> job[j].status]
    BY <1>6
  <2>2. [j \in Jobs |-> Cardinality(Tries(j)')]
          = [[j \in Jobs |-> Cardinality(Tries(j))] EXCEPT ![i] = @ + 1]
    BY <1>5, <1>7, <1>12
  <2>3. [j \in Jobs |-> Fate(j)'] = [[j \in Jobs |-> Fate(j)] EXCEPT ![i] = r]
    BY <1>10, <1>11
  <2>4. Taken' = Taken
    BY <1>6 DEF Taken
  <2> QED BY <1>5, <1>12, <2>1, <2>2, <2>3, <2>4 DEF Lifecycle!Perform, Taken
<1>14. r \in Lifecycle!Outcomes
  BY DEF Lifecycle!Outcomes, Results, Outcomes
<1> QED BY <1>5, <1>8, <1>9, <1>13, <1>14 DEF LifeGoes, Lifecycle!Next

\* The verdict that is applied is the outcome of the latest attempt.
LEMMA SettleLife ==
    ASSUME LifeInv, NEW c \in calls, ApplyVerdict(c)
    PROVE  LifeGoes
<1>1. TypeOK
  BY DEF LifeInv, HandInv, OnceInv, ClientInv
<1>2. /\ c.msg \in Messages /\ InHand(c.msg)
      /\ c.verdict \in Reportable(c.msg.job, c.msg.attempt)
  BY <1>1, CallShape DEF ApplyVerdict, InHand, Unapplied, LifeInv, HandInv, VerdictsAreGrounded
<1>3. PICK i, k : i = c.msg.job /\ k = c.msg.attempt
  OBVIOUS
<1>4. /\ i \in Jobs /\ k \in Attempts /\ job[i].status = "RUNNING" /\ job[i].attempts = k
      /\ c.verdict \in Reportable(i, k)
  BY <1>2, <1>3 DEF LifeInv, HandInv, OwnedInv, Owned, Messages
<1>5. Fate(i) = c.verdict \/ (Fate(i) = "skipped" /\ c.verdict = "success")
  BY <1>1, <1>4, FateIs, ReportableIs DEF LifeInv
<1>6. /\ \A j \in Jobs : j # i => job'[j] = job[j]
      /\ UNCHANGED done /\ job'[i].attempts = job[i].attempts
      /\ \/ c.verdict = "success" /\ job'[i].status = "SUCCESS"
         \/ c.verdict = "retryable" /\ k < MaxAttempts /\ job'[i].status = "PENDING"
         \/ c.verdict = "retryable" /\ k >= MaxAttempts /\ job'[i].status = "FAILED"
         \/ c.verdict = "final" /\ job'[i].status = "FAILED"
  BY <1>1, <1>3, <1>4 DEF ApplyVerdict, RescheduleActionJob, CompleteActionJob, TypeOK
<1>7. PICK x : x = job'[i].status
  OBVIOUS
<1>8. Fate(i)' = None
  BY <1>6 DEF Fate
<1>9. \A n \in Tries(i) : n \in Nat /\ n <= k
  BY <1>4, TriesCounted DEF LifeInv
<1>10. Untried(i)' => \A n \in Tries(i) : n < MaxAttempts
  BY <1>4, <1>6, <1>9, BoundsAssumption DEF Untried, Attempts
<1>11. SingleFate' /\ BudgetLeft' /\ Lifecycle!Become(i, x)
  BY <1>4, <1>6, <1>7, <1>8, <1>10, LifeOfOneRow
<1>12. Taken' = Taken /\ Taken[i] = k
  BY <1>4, <1>6, TakenOf DEF Taken
<1>13. Lifecycle!Settle(i)
  BY <1>4, <1>5, <1>6, <1>7, <1>11, <1>12 DEF Lifecycle!Settle, Taken
<1> QED BY <1>4, <1>11, <1>13 DEF LifeGoes, Lifecycle!Next

\* Every step is one of the lifecycle or leaves it alone.
LEMMA LifeStep ==
    ASSUME DeliveredOnce, LifeInv, [Next]_vars
    PROVE  LifeGoes
<1>1. ASSUME UNCHANGED <<job, done>> PROVE LifeGoes
  BY <1>1, LifeUnseen
<1>2. ASSUME NEW i \in Jobs, Enqueue(i) \/ BecomeDue(i) PROVE LifeGoes
  <2>1. CASE BecomeDue(i)
    <3>1. \A j \in Jobs : job'[j].status = job[j].status /\ job'[j].attempts = job[j].attempts
      BY <2>1 DEF BecomeDue, LifeInv, HandInv, OnceInv, ClientInv, TypeOK, JobRows
    <3> QED BY <2>1, <3>1, LifeUnseen DEF BecomeDue
  <2> QED BY <1>2, <2>1, EnqueueLife
<1>3. ASSUME NEW a \in Accounts, NEW w \in Workers \cup {None}, Repack(a, w) PROVE LifeGoes
  BY <1>1, <1>3 DEF Repack
<1>4. ASSUME NEW s \in Schedulers, SchedulerStep(s) PROVE LifeGoes
  BY <1>1, <1>4, ClaimLife, GiveUpLife
     DEF SchedulerStep, Resolve, ForgetJob, Publish, PushReplyLost
<1>5. ASSUME NEW w \in Workers, WorkerStep(w) PROVE LifeGoes
  BY <1>1, <1>5, PerformLife DEF WorkerStep, Pop, Post, PostLost, PostTimesOut, WorkerCrash
<1>6. ASSUME NEW c \in calls, HandlerStep(c) PROVE LifeGoes
  BY <1>1, <1>6, SettleLife DEF HandlerStep, RecordLog, ApplyHealth, Reply, HandlerFails
<1>7. ASSUME NEW s \in Schedulers, NEW C \in SUBSET calls, ApiCrash(s, C) PROVE LifeGoes
  BY <1>1, <1>7 DEF ApiCrash
<1>8. CASE UNCHANGED vars
  BY <1>1, <1>8 DEF vars
<1> QED BY <1>2, <1>3, <1>4, <1>5, <1>6, <1>7, <1>8 DEF Next

\* Scheduler, lists, workers and callback handler together implement the
\* promise of ActionLifecycle, as long as every verdict is delivered once: a
\* row is taken, carried out at most once per taking and at most MaxAttempts
\* times in all, and settled by what that came to, a retryable failure as
\* FAILED exactly from its MaxAttempts-th taking on (Claim, PutBack, Reject,
\* Perform, ApplyVerdict), with workers crashing, statements failing and POSTs
\* lost.
THEOREM PipelineImplementsLifecycle ==
    ASSUME DeliveredOnce
    PROVE  Spec => ImplementsLifecycle
<1>1. Init => Lifecycle!Init
  <2> SUFFICES ASSUME Init PROVE Lifecycle!Init
    OBVIOUS
  <2>1. \A j \in Jobs : job[j].status = "none" /\ Tries(j) = {} /\ Fate(j) = None
    BY DEF Init, Tries, Fate
  <2>2. Cardinality({}) = 0
    BY FS_EmptySet
  <2>3. [j \in Jobs |-> job[j].status] = [j \in Jobs |-> "none"]
    BY <2>1
  <2>4. [j \in Jobs |-> Cardinality(Tries(j))] = [j \in Jobs |-> 0]
    BY <2>1, <2>2
  <2>5. [j \in Jobs |-> Fate(j)] = [j \in Jobs |-> None]
    BY <2>1
  <2>6. [j \in Jobs |-> job[j].attempts] = [j \in Jobs |-> 0]
    BY DEF Init
  <2> QED BY <2>3, <2>4, <2>5, <2>6 DEF Lifecycle!Init
<1>2. LifeInv /\ [Next]_vars => LifeInv'
  BY HandStep, LifeStep DEF LifeInv, LifeGoes
<1>3. LifeInv /\ [Next]_vars => [Lifecycle!Next]_(Lifecycle!vars)
  BY LifeStep DEF LifeGoes
<1> QED BY InitLife, <1>1, <1>2, <1>3, PTL DEF Spec, ImplementsLifecycle, Lifecycle!Spec

\* A row that is SUCCESS or FAILED stays so under the same assumption: the two
\* statements that overwrite a row whatever it holds are then only applied to
\* rows that are RUNNING (CompleteActionJob, RescheduleActionJob).
THEOREM TerminalStays ==
    ASSUME DeliveredOnce
    PROVE  Spec => TerminalIsFinal
<1>1. LifeInv /\ [Next]_vars => LifeInv'
  BY HandStep, LifeStep DEF LifeInv, LifeGoes
<1>2. ASSUME LifeInv, [Next]_vars, NEW i \in Jobs, job[i].status \in Terminal
      PROVE  job'[i].status = job[i].status
  <2>1. TypeOK
    BY <1>2 DEF LifeInv, HandInv, OnceInv, ClientInv
  <2>2. \A m \in Messages : InHand(m) => m.job # i
    BY <1>2 DEF LifeInv, HandInv, OwnedInv, Owned, Terminal
  <2>3. ASSUME UNCHANGED job PROVE job'[i].status = job[i].status
    BY <2>3
  <2>4. ASSUME NEW j \in Jobs, Enqueue(j) \/ BecomeDue(j) PROVE job'[i].status = job[i].status
    BY <1>2, <2>1, <2>4 DEF Enqueue, CreateActionJob, BecomeDue, TypeOK, Terminal
  <2>5. ASSUME NEW s \in Schedulers, SchedulerStep(s) PROVE job'[i].status = job[i].status
    <3>1. ASSUME NEW j \in Jobs, Claim(s, j) PROVE job'[i].status = job[i].status
      BY <1>2, <2>1, <3>1 DEF Claim, ClaimActionJob, TypeOK, Terminal
    <3>2. CASE Reject(s) \/ PutBack(s)
      <4>1. Ticking(s) /\ sched[s].msg \in Messages /\ InHand(sched[s].msg)
        BY <2>1, <3>2, TickShape DEF Reject, PutBack, GivesBack, DeliveredOnce, Ticking, InHand
      <4> QED BY <2>1, <2>2, <3>2, <4>1
              DEF Reject, PutBack, RescheduleActionJob, CompleteActionJob, TypeOK
    <3> QED BY <2>3, <2>5, <3>1, <3>2 DEF SchedulerStep, Resolve, ForgetJob, Publish, PushReplyLost
  <2>6. ASSUME NEW w \in Workers, WorkerStep(w) PROVE job'[i].status = job[i].status
    BY <2>3, <2>6 DEF WorkerStep, Pop, Perform, Post, PostLost, PostTimesOut, WorkerCrash
  <2>7. ASSUME NEW c \in calls, HandlerStep(c) PROVE job'[i].status = job[i].status
    <3>1. CASE ApplyVerdict(c)
      <4>1. c.msg \in Messages /\ InHand(c.msg)
        BY <2>1, <3>1, CallShape DEF ApplyVerdict, InHand, Unapplied
      <4> QED BY <2>1, <2>2, <3>1, <4>1
              DEF ApplyVerdict, RescheduleActionJob, CompleteActionJob, TypeOK
    <3> QED BY <2>3, <2>7, <3>1 DEF HandlerStep, RecordLog, ApplyHealth, Reply, HandlerFails
  <2> QED BY <1>2, <2>3, <2>4, <2>5, <2>6, <2>7 DEF Next, vars, Repack, ApiCrash
<1>3. LifeInv /\ [Next]_vars =>
        \A j \in Jobs : job[j].status \in Terminal => job'[j].status = job[j].status
  BY <1>2
<1>4. LifeInv /\ [Next]_vars =>
        [\A j \in Jobs : job[j].status \in Terminal => job'[j].status = job[j].status]_vars
  BY <1>3
<1> QED BY InitLife, <1>1, <1>4, PTL DEF Spec, TerminalIsFinal

-----------------------------------------------------------------------------
(***************************************************************************)
(* No action is repeated.  An attempt that succeeded is the last one: its  *)
(* row waits for that verdict or has it.                                   *)
(***************************************************************************)
SuccessSettled ==
    \A j \in Jobs, n \in Attempts :
        "success" \in done[j][n] =>
            \/ job[j].status = "SUCCESS"
            \/ job[j].status = "RUNNING" /\ job[j].attempts = n

\* A row one of whose attempts is in hand, and fresh, has not succeeded yet.
LEMMA FreshHasNotSucceeded ==
    ASSUME LifeInv, SuccessSettled, NEW m \in Messages, InHand(m), Unperformed(m)
    PROVE  \A n \in Attempts : "success" \notin done[m.job][n]
<1>1. /\ m.job \in Jobs /\ m.attempt \in Attempts
      /\ job[m.job].status = "RUNNING" /\ job[m.job].attempts = m.attempt
  BY DEF LifeInv, HandInv, OwnedInv, Owned, Messages
<1> QED BY <1>1 DEF SuccessSettled, Unperformed

LEMMA SettledStep ==
    ASSUME DeliveredOnce, LifeInv, SuccessSettled, [Next]_vars
    PROVE  SuccessSettled'
<1>1. TypeOK
  BY DEF LifeInv, HandInv, OnceInv, ClientInv
<1>2. CASE UNCHANGED <<job, done>>
  BY <1>2 DEF SuccessSettled
<1>3. ASSUME UNCHANGED done, NEW i \in Jobs, \A n \in Attempts : "success" \notin done[i][n],
             \A j \in Jobs : j # i => job'[j] = job[j]
      PROVE  SuccessSettled'
  BY <1>3 DEF SuccessSettled
<1>4. ASSUME NEW i \in Jobs, job[i].status \in {"none", "PENDING"}, UNCHANGED done,
             \A j \in Jobs : j # i => job'[j] = job[j]
      PROVE  SuccessSettled'
  <2>1. \A n \in Attempts : "success" \notin done[i][n]
    BY <1>4 DEF SuccessSettled
  <2> QED BY <1>3, <1>4, <2>1
<1>5. ASSUME NEW i \in Jobs, Enqueue(i) \/ BecomeDue(i) PROVE SuccessSettled'
  <2>1. /\ job[i].status \in {"none", "PENDING"} /\ UNCHANGED done
        /\ \A j \in Jobs : j # i => job'[j] = job[j]
    BY <1>1, <1>5 DEF Enqueue, BecomeDue, CreateActionJob, TypeOK
  <2> QED BY <1>4, <2>1
<1>6. ASSUME NEW s \in Schedulers, SchedulerStep(s) PROVE SuccessSettled'
  <2>1. ASSUME NEW i \in Jobs, Claim(s, i) PROVE SuccessSettled'
    <3>1. /\ job[i].status \in {"none", "PENDING"} /\ UNCHANGED done
          /\ \A j \in Jobs : j # i => job'[j] = job[j]
      BY <1>1, <2>1 DEF Claim, ClaimActionJob, TypeOK
    <3> QED BY <1>4, <3>1
  <2>2. CASE Reject(s) \/ PutBack(s)
    <3>1. Ticking(s) /\ sched[s].msg \in Messages /\ InHand(sched[s].msg)
      BY <1>1, <2>2, TickShape DEF Reject, PutBack, GivesBack, DeliveredOnce, Ticking, InHand
    <3>2. Unperformed(sched[s].msg)
      BY <3>1 DEF LifeInv, HandInv, OnceInv, FreshInv, TicksFresh
    <3>3. PICK i \in Jobs : i = sched[s].msg.job
      BY <3>1 DEF Messages
    <3>4. UNCHANGED done /\ \A j \in Jobs : j # i => job'[j] = job[j]
      BY <1>1, <2>2, <3>3 DEF Reject, PutBack, RescheduleActionJob, CompleteActionJob, TypeOK
    <3>5. \A n \in Attempts : "success" \notin done[i][n]
      BY <3>1, <3>2, <3>3, FreshHasNotSucceeded
    <3> QED BY <1>3, <3>4, <3>5
  <2> QED BY <1>2, <1>6, <2>1, <2>2 DEF SchedulerStep, Resolve, ForgetJob, Publish, PushReplyLost
<1>7. ASSUME NEW w \in Workers, WorkerStep(w) PROVE SuccessSettled'
  <2>1. ASSUME NEW r \in Results, Perform(w, r) PROVE SuccessSettled'
    <3>1. Running(w) /\ worker[w].msg \in Messages /\ InHand(worker[w].msg)
      BY <1>1, <2>1, LoopShape DEF Perform, Running, InHand
    <3>2. PICK i, k : i = worker[w].msg.job /\ k = worker[w].msg.attempt
      OBVIOUS
    <3>3. /\ i \in Jobs /\ k \in Attempts
          /\ job[i].status = "RUNNING" /\ job[i].attempts = k
      BY <3>1, <3>2 DEF LifeInv, HandInv, OwnedInv, Owned, Messages
    <3>4. UNCHANGED job /\ done' = [done EXCEPT ![i][k] = done[i][k] \cup {r}]
      BY <2>1, <3>2 DEF Perform
    <3>5. done \in [Jobs -> [Attempts -> SUBSET Results]]
      BY <1>1 DEF TypeOK
    <3>6. /\ done'[i] = [done[i] EXCEPT ![k] = done[i][k] \cup {r}]
          /\ \A j \in Jobs : j # i => done'[j] = done[j]
      BY <3>3, <3>4, <3>5
    <3>7. \A j \in Jobs, n \in Attempts : ~(j = i /\ n = k) => done'[j][n] = done[j][n]
      BY <3>3, <3>5, <3>6
    <3> QED BY <3>3, <3>4, <3>7 DEF SuccessSettled
  <2> QED BY <1>2, <1>7, <2>1 DEF WorkerStep, Pop, Post, PostLost, PostTimesOut, WorkerCrash
<1>8. ASSUME NEW c \in calls, HandlerStep(c) PROVE SuccessSettled'
  <2>1. CASE ApplyVerdict(c)
    <3>1. /\ c.msg \in Messages /\ InHand(c.msg)
          /\ c.verdict \in Reportable(c.msg.job, c.msg.attempt)
      BY <1>1, <2>1, CallShape
         DEF ApplyVerdict, InHand, Unapplied, LifeInv, HandInv, VerdictsAreGrounded
    <3>2. PICK i, k : i = c.msg.job /\ k = c.msg.attempt
      OBVIOUS
    <3>3. /\ i \in Jobs /\ k \in Attempts
          /\ job[i].status = "RUNNING" /\ job[i].attempts = k
      BY <3>1, <3>2 DEF LifeInv, HandInv, OwnedInv, Owned, Messages
    <3>4. UNCHANGED done /\ \A j \in Jobs : j # i => job'[j] = job[j]
      BY <1>1, <2>1, <3>2, <3>3 DEF ApplyVerdict, RescheduleActionJob, CompleteActionJob, TypeOK
    <3>5. c.verdict = "success" => job'[i].status = "SUCCESS"
      BY <1>1, <2>1, <3>2, <3>3 DEF ApplyVerdict, CompleteActionJob, TypeOK
    <3>6. \A n \in Attempts : "success" \in done[i][n] => c.verdict = "success"
      <4>1. \A n \in Attempts : "success" \in done[i][n] => n = k
        BY <3>3 DEF SuccessSettled
      <4>2. "success" \in done[i][k] => c.verdict = "success"
        BY <3>1, <3>2, <3>3 DEF LifeInv, SingleFate, Reportable, VerdictOf
      <4> QED BY <4>1, <4>2
    <3> QED BY <3>3, <3>4, <3>5, <3>6 DEF SuccessSettled
  <2> QED BY <1>2, <1>8, <2>1 DEF HandlerStep, RecordLog, ApplyHealth, Reply, HandlerFails
<1> QED BY <1>2, <1>5, <1>6, <1>7, <1>8 DEF Next, vars, Repack, ApiCrash

\* A job whose action succeeded on the platform is not performed again, as
\* long as every verdict is delivered once: the statement of the publisher
\* that an error of the push means nothing was delivered is then true
\* (PutBack, Pop), with workers crashing before they report the success,
\* statements failing and POSTs lost.
THEOREM SuccessOnce ==
    ASSUME DeliveredOnce
    PROVE  Spec => []SuccessNotRepeated
<1> DEFINE Inv == LifeInv /\ SuccessSettled
<1>1. Init => Inv
  BY InitLife DEF Init, SuccessSettled
<1>2. Inv /\ [Next]_vars => Inv'
  BY HandStep, LifeStep, SettledStep DEF LifeInv, LifeGoes
<1>3. Inv => SuccessNotRepeated
  <2> SUFFICES ASSUME Inv, NEW w \in Workers, Running(w)
               PROVE  \A n \in Attempts : "success" \notin done[worker[w].msg.job][n]
    BY DEF SuccessNotRepeated
  <2>1. worker[w].msg \in Messages
    BY LoopShape DEF LifeInv, HandInv, OnceInv, ClientInv, Running
  <2>2. InHand(worker[w].msg) /\ Unperformed(worker[w].msg)
    BY DEF InHand, LifeInv, HandInv, OnceInv, FreshInv, RunningFresh
  <2> QED BY <2>1, <2>2, FreshHasNotSucceeded
<1> HIDE DEF Inv
<1> QED BY <1>1, <1>2, <1>3, PTL DEF Spec

-----------------------------------------------------------------------------
(***************************************************************************)
(* Nothing is forgotten.  As long as no process dies, no statement fails   *)
(* and no callback is given up, the message of a RUNNING row's latest      *)
(* attempt is in hand, even when pushes lie about what they did.           *)
(***************************************************************************)
NothingLost ==
    Faults \cap {"api_crash", "worker_crash", "store_error", "callback_lost",
                 "callback_timeout"} = {}

\* Every request has a worker that waits for its reply.
Attended == \A c \in calls : c.client # None

IsLatest(m) == job[m.job].status = "RUNNING" /\ job[m.job].attempts = m.attempt

RunningHeld ==
    \A m \in [job : Jobs, attempt : 0 .. MaxClaims] : IsLatest(m) => InHand(m)

CarryInv == ClientInv /\ Attended /\ RunningHeld

\* Requests keep their clients while nothing is lost.
LEMMA AttendedStep ==
    ASSUME NothingLost, ClientInv, Attended, [Next]_vars
    PROVE  Attended'
<1>1. CASE UNCHANGED calls
  BY <1>1 DEF Attended
<1>2. ASSUME NEW w \in Workers, WorkerStep(w), calls' # calls PROVE Attended'
  <2>1. Post(w)
    BY <1>2 DEF WorkerStep, Pop, Perform, PostLost, PostTimesOut, WorkerCrash, NothingLost
  <2>2. w # None
    BY NoneAssumption
  <2>3. \A c \in calls' : c \in calls \/ c.client = w
    BY <2>1 DEF Post
  <2> QED BY <2>2, <2>3 DEF Attended
<1>3. ASSUME NEW c \in calls, HandlerStep(c) PROVE Attended'
  <2>1. \A x \in {"log", "verdict", "health", "reply"} : [c EXCEPT !.stage = x].client = c.client
    BY DEF ClientInv, TypeOK, Calls
  <2>2. \/ calls' \subseteq calls
        \/ \E x \in {"log", "verdict", "health", "reply"} : Advance(c, x)
    BY <1>3 DEF HandlerStep, RecordLog, ApplyVerdict, ApplyHealth, Reply, HandlerFails
  <2>3. \A d \in calls' : d \in calls \/ d.client = c.client
    BY <2>1, <2>2 DEF Advance
  <2> QED BY <2>3 DEF Attended
<1>4. \A s \in Schedulers, C \in SUBSET calls : ~ApiCrash(s, C)
  BY DEF ApiCrash, NothingLost
<1> QED BY <1>1, <1>2, <1>3, <1>4
        DEF Next, vars, Enqueue, BecomeDue, Repack, SchedulerStep, Claim, Resolve, Reject, PutBack,
            ForgetJob, Publish, PushReplyLost

\* What a scheduler does to a message in hand: it keeps it, passes it on to a
\* list, or takes its row out of RUNNING.
LEMMA SchedulerCarries ==
    ASSUME NothingLost, ClientInv, NEW s \in Schedulers, SchedulerStep(s), NEW m, InHand(m),
           m.job \in Jobs
    PROVE  InHand(m)' \/ job'[m.job].status # "RUNNING"
<1> USE DEF ClientInv
<1>1. UNCHANGED <<worker, calls>>
  BY DEF SchedulerStep, Claim, Resolve, Reject, PutBack, ForgetJob, Publish, PushReplyLost
<1>2. \A t \in Schedulers : t # s => sched'[t] = sched[t]
  BY DEF SchedulerStep, Claim, Resolve, Reject, PutBack, ForgetJob, Publish, PushReplyLost, TypeOK
<1>3. ASSUME \A w \in Workers : \A i \in Queued(w) :
               \E k \in Queued(w)' : queue'[w][k] = queue[w][i],
             Ticking(s) /\ sched[s].msg = m => InHand(m)'
      PROVE  InHand(m)'
  <2>1. CASE \E t \in Schedulers : Ticking(t) /\ sched[t].msg = m
    <3>1. PICK t \in Schedulers : Ticking(t) /\ sched[t].msg = m
      BY <2>1
    <3>2. CASE t = s
      BY <1>3, <3>1, <3>2
    <3>3. CASE t # s
      BY <1>2, <3>1, <3>3 DEF InHand, Ticking
    <3> QED BY <3>2, <3>3
  <2>2. CASE \E w \in Workers : \E i \in Queued(w) : queue[w][i] = m
    BY <1>3, <2>2 DEF InHand
  <2>3. CASE \E w \in Workers : (Running(w) \/ Reporting(w)) /\ worker[w].msg = m
    BY <1>1, <2>3 DEF InHand, Running, Reporting
  <2>4. CASE \E c \in calls : Unapplied(c) /\ c.msg = m
    BY <1>1, <2>4 DEF InHand, Unapplied
  <2> QED BY <2>1, <2>2, <2>3, <2>4 DEF InHand
<1>4. UNCHANGED queue =>
        \A w \in Workers : \A i \in Queued(w) : \E k \in Queued(w)' : queue'[w][k] = queue[w][i]
  BY DEF Queued
<1>5. CASE (\E j \in Jobs : Claim(s, j)) \/ Resolve(s)
  <2>1. UNCHANGED queue /\ (Ticking(s) => Ticking(s)' /\ sched'[s].msg = sched[s].msg)
    BY <1>5 DEF Claim, Resolve, Ticking, TypeOK
  <2> QED BY <1>3, <1>4, <2>1 DEF InHand
<1>6. CASE Reject(s) \/ PutBack(s)
  <2>1. UNCHANGED queue /\ sched[s].stage # "idle"
    BY <1>6 DEF Reject, PutBack, GivesBack
  <2>2. sched[s].msg.job \in Jobs
    BY <2>1, TickShape
  <2>3. job'[sched[s].msg.job].status # "RUNNING"
    BY <1>6, <2>2 DEF Reject, PutBack, CompleteActionJob, RescheduleActionJob, TypeOK
  <2> QED BY <1>3, <1>4, <2>1, <2>3
<1>7. CASE Publish(s) \/ PushReplyLost(s)
  <2>1. Push(s) /\ sched[s].msg \in Messages /\ sched[s].worker \in Workers
    BY <1>7, TickShape DEF Publish, PushReplyLost
  <2>2. PICK x, u : x = sched[s].msg /\ u = sched[s].worker
    OBVIOUS
  <2>3. queue[u] \in Seq(Messages) /\ queue'[u] = <<x>> \o queue[u]
    BY <2>1, <2>2 DEF Push, TypeOK
  <2>4. \A v \in Workers : v # u => queue'[v] = queue[v]
    BY <2>1, <2>2 DEF Push, TypeOK
  <2>5. 1 \in 1 .. Len(queue'[u]) /\ queue'[u][1] = x
    BY <2>1, <2>2, <2>3
  <2>6. \A i \in 1 .. Len(queue[u]) :
          i + 1 \in 1 .. Len(queue'[u]) /\ queue'[u][i + 1] = queue[u][i]
    BY <2>1, <2>2, <2>3
  <2>7. \A i \in Queued(u) : \E k \in Queued(u)' : queue'[u][k] = queue[u][i]
    BY <2>6 DEF Queued
  <2>8. \A v \in Workers : v # u =>
          \A i \in Queued(v) : \E k \in Queued(v)' : queue'[v][k] = queue[v][i]
    BY <2>4 DEF Queued
  <2>9. u \in Workers /\ \E k \in Queued(u)' : queue'[u][k] = x
    BY <2>1, <2>2, <2>5 DEF Queued
  <2>10. sched[s].msg = m => InHand(m)'
    BY <2>2, <2>9 DEF InHand
  <2> QED BY <1>3, <2>7, <2>8, <2>10
<1>8. ~ForgetJob(s)
  BY DEF ForgetJob, NothingLost
<1> QED BY <1>5, <1>6, <1>7, <1>8 DEF SchedulerStep

\* A worker passes the message of its list on to the request it sends.
LEMMA WorkerCarries ==
    ASSUME NothingLost, ClientInv, NEW w \in Workers, WorkerStep(w), NEW m, InHand(m)
    PROVE  InHand(m)'
<1> USE DEF ClientInv
<1>1. UNCHANGED sched
  BY DEF WorkerStep, Pop, Perform, Post, PostLost, PostTimesOut, WorkerCrash
<1>2. \A v \in Workers : v # w => worker'[v] = worker[v]
  BY DEF WorkerStep, Pop, Perform, Post, PostLost, PostTimesOut, WorkerCrash, TypeOK
<1>3. ~PostLost(w) /\ ~PostTimesOut(w) /\ ~WorkerCrash(w)
  BY DEF PostLost, PostTimesOut, WorkerCrash, NothingLost
<1>4. calls \subseteq calls'
  BY <1>3 DEF WorkerStep, Pop, Perform, Post
<1>5. CASE \E s \in Schedulers : Ticking(s) /\ sched[s].msg = m
  BY <1>1, <1>5 DEF InHand, Ticking
<1>6. CASE \E c \in calls : Unapplied(c) /\ c.msg = m
  BY <1>4, <1>6 DEF InHand, Unapplied
<1>7. ASSUME NEW v \in Workers, NEW i \in Queued(v), queue[v][i] = m PROVE InHand(m)'
  <2>1. CASE Pop(w) /\ v = w
    <3>1. queue[w] \in Seq(Messages) /\ queue[w] # <<>>
      BY <2>1 DEF Pop, TypeOK
    <3>2. queue'[w] = Tail(queue[w]) /\ Running(w)' /\ worker'[w].msg = Head(queue[w])
      BY <2>1 DEF Pop, TypeOK, Running
    <3>3. i \in 1 .. Len(queue[w])
      BY <1>7, <2>1 DEF Queued
    <3>4. CASE i = 1
      BY <1>7, <2>1, <3>1, <3>2, <3>4 DEF InHand
    <3>5. CASE i # 1
      <4>1. i - 1 \in 1 .. Len(queue'[w]) /\ queue'[w][i - 1] = queue[w][i]
        BY <3>1, <3>2, <3>3, <3>5
      <4> QED BY <1>7, <2>1, <4>1 DEF InHand, Queued
    <3> QED BY <3>4, <3>5
  <2>2. CASE ~(Pop(w) /\ v = w)
    <3>1. queue'[v] = queue[v]
      BY <1>3, <2>2 DEF WorkerStep, Pop, Perform, Post, TypeOK
    <3> QED BY <1>7, <3>1 DEF InHand, Queued
  <2> QED BY <2>1, <2>2
<1>8. ASSUME NEW v \in Workers, Running(v) \/ Reporting(v), worker[v].msg = m PROVE InHand(m)'
  <2>1. CASE v # w
    BY <1>2, <1>8, <2>1 DEF InHand, Running, Reporting
  <2>2. CASE v = w /\ \E r \in Results : Perform(w, r)
    <3>1. Reporting(w)' /\ worker'[w].msg = worker[w].msg
      BY <2>2 DEF Perform, TypeOK, Reporting
    <3> QED BY <1>8, <2>2, <3>1 DEF InHand
  <2>3. CASE v = w /\ Post(w)
    <3>1. PICK c : c = [client |-> w, try |-> worker[w].try, msg |-> worker[w].msg,
                        verdict |-> worker[w].verdict, stage |-> "log"]
      OBVIOUS
    <3>2. c \in calls' /\ c.msg = m /\ c.stage = "log"
      BY <1>8, <2>3, <3>1 DEF Post
    <3> QED BY <3>2 DEF InHand, Unapplied
  <2>4. CASE v = w /\ Pop(w)
    BY <1>8, <2>4 DEF Pop, Running, Reporting
  <2> QED BY <1>3, <2>1, <2>2, <2>3, <2>4 DEF WorkerStep
<1> QED BY <1>5, <1>6, <1>7, <1>8 DEF InHand

\* A handler keeps a message until it has applied its verdict to the row.
LEMMA HandlerCarries ==
    ASSUME NothingLost, ClientInv, Attended, NEW c \in calls, HandlerStep(c), NEW m, InHand(m)
    PROVE  InHand(m)' \/ job'[m.job].status # "RUNNING"
<1> USE DEF ClientInv
<1>1. UNCHANGED <<sched, queue>>
  BY DEF HandlerStep, RecordLog, ApplyVerdict, ApplyHealth, Reply, HandlerFails
<1>2. ~HandlerFails(c)
  BY DEF HandlerFails, NothingLost, Attended
<1>3. \A v \in Workers : Running(v) \/ Reporting(v) => worker'[v] = worker[v]
  <2>1. CASE RecordLog(c) \/ ApplyVerdict(c) \/ ApplyHealth(c)
    BY <2>1 DEF RecordLog, ApplyVerdict, ApplyHealth
  <2>2. CASE Reply(c)
    <3>1. worker[c.client].stage = "waiting"
      BY DEF Attended, WaitingClients
    <3>2. \A v \in Workers : v # c.client => worker'[v] = worker[v]
      BY <2>2 DEF Reply, Answered, TypeOK
    <3> QED BY <3>1, <3>2 DEF Running, Reporting
  <2> QED BY <1>2, <2>1, <2>2 DEF HandlerStep
<1>4. CASE \E s \in Schedulers : Ticking(s) /\ sched[s].msg = m
  BY <1>1, <1>4 DEF InHand, Ticking
<1>5. CASE \E w \in Workers : \E i \in Queued(w) : queue[w][i] = m
  BY <1>1, <1>5 DEF InHand, Queued
<1>6. CASE \E w \in Workers : (Running(w) \/ Reporting(w)) /\ worker[w].msg = m
  BY <1>3, <1>6 DEF InHand, Running, Reporting
<1>7. ASSUME NEW d \in calls, Unapplied(d), d.msg = m
      PROVE  InHand(m)' \/ job'[m.job].status # "RUNNING"
  <2>1. CASE d # c
    <3>1. d \in calls'
      BY <1>2, <2>1 DEF HandlerStep, RecordLog, ApplyVerdict, ApplyHealth, Reply, Advance
    <3> QED BY <1>7, <3>1 DEF InHand, Unapplied
  <2>2. CASE d = c /\ RecordLog(c)
    <3>1. PICK e : e = [c EXCEPT !.stage = "verdict"]
      OBVIOUS
    <3>2. e \in calls' /\ e.stage = "verdict" /\ e.msg = c.msg
      BY <2>2, <3>1 DEF RecordLog, Advance, TypeOK, Calls
    <3> QED BY <1>7, <2>2, <3>2 DEF InHand, Unapplied
  <2>3. CASE d = c /\ ApplyVerdict(c)
    <3>1. c.msg.job \in Jobs
      BY CallShape
    <3> QED BY <1>7, <2>3, <3>1
            DEF ApplyVerdict, CompleteActionJob, RescheduleActionJob, TypeOK
  <2>4. CASE d = c /\ (ApplyHealth(c) \/ Reply(c))
    BY <1>7, <2>4 DEF ApplyHealth, Reply, Unapplied
  <2> QED BY <1>2, <2>1, <2>2, <2>3, <2>4 DEF HandlerStep
<1> QED BY <1>4, <1>5, <1>6, <1>7 DEF InHand

\* A row comes to be RUNNING with an attempt by the claim of that attempt.
LEMMA RunningStays ==
    ASSUME ClientInv, [Next]_vars, NEW m \in [job : Jobs, attempt : 0 .. MaxClaims],
           IsLatest(m)'
    PROVE  \/ IsLatest(m)
           \/ \E s \in Schedulers :
                /\ Claim(s, m.job)
                /\ sched'[s].stage = "claimed"
                /\ sched'[s].msg = m
<1> USE DEF ClientInv, IsLatest
<1>0. PICK j \in Jobs : j = m.job
  OBVIOUS
<1>1. CASE UNCHANGED job
  BY <1>1
<1>2. ASSUME NEW i \in Jobs, Enqueue(i) \/ BecomeDue(i) PROVE IsLatest(m)
  <2>1. job \in [Jobs -> JobRows]
    BY DEF TypeOK
  <2>2. CASE Enqueue(i)
    BY <1>0, <2>1, <2>2 DEF Enqueue, CreateActionJob
  <2>3. CASE BecomeDue(i)
    BY <1>0, <2>1, <2>3 DEF BecomeDue, JobRows
  <2> QED BY <1>2, <2>2, <2>3
<1>3. ASSUME NEW i \in Jobs, \/ RescheduleActionJob(i)
                            \/ \E x \in Terminal : CompleteActionJob(i, x)
      PROVE  IsLatest(m)
  <2>1. job \in [Jobs -> JobRows]
    BY DEF TypeOK
  <2>2. job'[i].status # "RUNNING" /\ \A k \in Jobs : k # i => job'[k] = job[k]
    BY <1>3, <2>1 DEF RescheduleActionJob, CompleteActionJob, Terminal
  <2> QED BY <1>0, <2>2
<1>4. ASSUME NEW s \in Schedulers, SchedulerStep(s), job' # job
      PROVE  IsLatest(m) \/ /\ Claim(s, m.job)
                                /\ sched'[s].stage = "claimed"
                                /\ sched'[s].msg = m
  <2>1. ASSUME NEW i \in Jobs, Claim(s, i)
        PROVE  IsLatest(m) \/ /\ Claim(s, m.job)
                                  /\ sched'[s].stage = "claimed"
                                  /\ sched'[s].msg = m
    <3>1. job \in [Jobs -> JobRows] /\ sched \in [Schedulers -> Ticks]
      BY DEF TypeOK
    <3>2. CASE i # j
      BY <1>0, <2>1, <3>1, <3>2 DEF Claim, ClaimActionJob
    <3>3. CASE i = j
      <4>1. job'[j].attempts = job[j].attempts + 1
        BY <2>1, <3>1, <3>3 DEF Claim, ClaimActionJob
      <4>2. /\ sched'[s].stage = "claimed"
            /\ sched'[s].msg = [job |-> j, attempt |-> job[j].attempts + 1]
        BY <2>1, <3>1, <3>3 DEF Claim
      <4>3. m = [job |-> m.job, attempt |-> m.attempt]
        OBVIOUS
      <4> QED BY <1>0, <2>1, <3>3, <4>1, <4>2, <4>3
    <3> QED BY <3>2, <3>3
  <2>2. CASE Reject(s) \/ PutBack(s)
    <3>1. sched[s].stage # "idle"
      BY <2>2 DEF Reject, PutBack, GivesBack
    <3>2. sched[s].msg.job \in Jobs
      BY <3>1, TickShape
    <3> QED BY <1>3, <2>2, <3>2 DEF Reject, PutBack, Terminal
  <2> QED BY <1>4, <2>1, <2>2 DEF SchedulerStep, Resolve, ForgetJob, Publish, PushReplyLost
<1>5. ASSUME NEW c \in calls, HandlerStep(c), job' # job PROVE IsLatest(m)
  <2>1. ApplyVerdict(c)
    BY <1>5 DEF HandlerStep, RecordLog, ApplyHealth, Reply, HandlerFails
  <2>2. c.msg.job \in Jobs
    BY CallShape
  <2> QED BY <1>3, <2>1, <2>2 DEF ApplyVerdict, Terminal
<1>6. \A w \in Workers : WorkerStep(w) => UNCHANGED job
  BY DEF WorkerStep, Pop, Perform, Post, PostLost, PostTimesOut, WorkerCrash
<1> QED BY <1>1, <1>2, <1>4, <1>5, <1>6 DEF Next, vars, Repack, ApiCrash

LEMMA CarryStep ==
    ASSUME NothingLost
    PROVE  CarryInv /\ [Next]_vars => CarryInv'
<1> SUFFICES ASSUME CarryInv, [Next]_vars PROVE CarryInv'
  OBVIOUS
<1>1. ClientInv /\ Attended
  BY DEF CarryInv
<1>2. ASSUME NEW m \in [job : Jobs, attempt : 0 .. MaxClaims], IsLatest(m)'
      PROVE  InHand(m)'
  <2>1. ASSUME NEW s \in Schedulers, sched'[s].stage = "claimed", sched'[s].msg = m
        PROVE  InHand(m)'
    BY <2>1 DEF InHand, Ticking
  <2>2. CASE IsLatest(m)
    <3>1. InHand(m)
      BY <2>2 DEF CarryInv, RunningHeld
    <3>2. job'[m.job].status = "RUNNING" /\ m.job \in Jobs
      BY <1>2 DEF IsLatest
    <3>3. UNCHANGED <<sched, queue, worker, calls>> => InHand(m)'
      BY <3>1 DEF InHand, Ticking, Queued, Running, Reporting
    <3>4. \A s \in Schedulers, C \in SUBSET calls : ~ApiCrash(s, C)
      BY DEF ApiCrash, NothingLost
    <3>5. ASSUME NEW s \in Schedulers, SchedulerStep(s) PROVE InHand(m)'
      BY <1>1, <3>1, <3>2, <3>5, SchedulerCarries
    <3>6. ASSUME NEW w \in Workers, WorkerStep(w) PROVE InHand(m)'
      BY <1>1, <3>1, <3>6, WorkerCarries
    <3>7. ASSUME NEW c \in calls, HandlerStep(c) PROVE InHand(m)'
      BY <1>1, <3>1, <3>2, <3>7, HandlerCarries
    <3> QED BY <3>3, <3>4, <3>5, <3>6, <3>7 DEF Next, vars, Enqueue, BecomeDue, Repack
  <2>3. CASE ~IsLatest(m)
    BY <1>1, <1>2, <2>1, <2>3, RunningStays
  <2> QED BY <2>2, <2>3
<1>3. ClientInv'
  BY <1>1, ClientStep
<1>4. Attended'
  BY <1>1, AttendedStep
<1> QED BY <1>2, <1>3, <1>4 DEF CarryInv, RunningHeld

\* A message in hand is one of the places of RunningIsCarried.
LEMMA InHandIsToken ==
    ASSUME NEW m, InHand(m)
    PROVE  \E t \in Tokens : t.msg = m
<1>1. CASE \E s \in Schedulers : Ticking(s) /\ sched[s].msg = m
  <2>1. PICK s \in Schedulers : Ticking(s) /\ sched[s].msg = m
    BY <1>1
  <2>2. [at |-> <<"tick", s>>, msg |-> sched[s].msg] \in Tokens
    BY <2>1 DEF Tokens
  <2> QED BY <2>1, <2>2
<1>2. CASE \E w \in Workers : \E i \in Queued(w) : queue[w][i] = m
  <2>1. PICK w \in Workers : \E i \in Queued(w) : queue[w][i] = m
    BY <1>2
  <2>2. PICK i \in Queued(w) : queue[w][i] = m
    BY <2>1
  <2>3. PICK t : t = [at |-> <<"queue", w, i>>, msg |-> queue[w][i]]
    OBVIOUS
  <2> DEFINE EntriesOf(v) == {[at |-> <<"queue", v, k>>, msg |-> queue[v][k]] : k \in Queued(v)}
  <2>4. t \in EntriesOf(w)
    BY <2>3
  <2>5. t \in UNION {EntriesOf(v) : v \in Workers}
    BY <2>4
  <2>6. t \in Tokens
    BY <2>5 DEF Tokens
  <2> QED BY <2>2, <2>3, <2>6
<1>3. CASE \E w \in Workers : (Running(w) \/ Reporting(w)) /\ worker[w].msg = m
  <2>1. PICK w \in Workers : (Running(w) \/ Reporting(w)) /\ worker[w].msg = m
    BY <1>3
  <2>2. [at |-> <<"worker", w>>, msg |-> worker[w].msg] \in Tokens
    BY <2>1 DEF Tokens, Running, Reporting
  <2> QED BY <2>1, <2>2
<1>4. CASE \E c \in calls : Unapplied(c) /\ c.msg = m
  <2>1. PICK c \in calls : Unapplied(c) /\ c.msg = m
    BY <1>4
  <2>2. [at |-> <<"call", c>>, msg |-> c.msg] \in Tokens
    BY <2>1 DEF Tokens, Unapplied
  <2> QED BY <2>1, <2>2
<1> QED BY <1>1, <1>2, <1>3, <1>4 DEF InHand

\* The message of every RUNNING row is on its way, whatever a push reports,
\* however often the client repeats it and wherever the account moves, as
\* long as nothing dies, no statement fails and no callback is given up
\* (Claim, PutBack, Publish, Pop, Post, ApplyVerdict).
THEOREM NothingIsForgotten ==
    ASSUME NothingLost
    PROVE  Spec => []RunningIsCarried
<1>1. Init => CarryInv
  BY InitTypeOK, InitClients DEF Init, CarryInv, ClientInv, Attended, RunningHeld, IsLatest
<1>2. CarryInv /\ [Next]_vars => CarryInv'
  BY CarryStep
<1>3. CarryInv => RunningIsCarried
  <2> SUFFICES ASSUME CarryInv, NEW j \in Jobs, job[j].status = "RUNNING"
               PROVE  \E t \in Tokens : t.msg = [job |-> j, attempt |-> job[j].attempts]
    BY DEF RunningIsCarried
  <2>1. job[j].attempts \in 0 .. MaxClaims
    BY DEF CarryInv, ClientInv, TypeOK, JobRows
  <2>2. PICK m : m = [job |-> j, attempt |-> job[j].attempts]
    OBVIOUS
  <2>3. m \in [job : Jobs, attempt : 0 .. MaxClaims] /\ IsLatest(m)
    BY <2>1, <2>2 DEF IsLatest
  <2>4. InHand(m)
    BY <2>3 DEF CarryInv, RunningHeld
  <2> QED BY <2>2, <2>4, InHandIsToken
<1> QED BY <1>1, <1>2, <1>3, PTL DEF Spec

=============================================================================
