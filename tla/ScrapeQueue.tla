---------------------------- MODULE ScrapeQueue ----------------------------
(***************************************************************************)
(* The background scrape scheduler: a ticker that claims due scrape jobs   *)
(* and puts back the ones it could not run, in two statements.  Jobs come  *)
(* from outside: nothing in this repository inserts one that is PENDING.   *)
(* The scheduler names no actor when it calls the runner, and the runner   *)
(* refuses such a call, so that no job gets past requeue.                  *)
(***************************************************************************)
EXTENDS Integers, FiniteSets

CONSTANTS
    ScrapeJobs,        \* scrape_job rows
    ActorAccount,      \* the account each belongs to
    ScrapeSchedulers,  \* API processes; an old one may overlap its successor
    MaxScrapeAttempts, \* SCRAPE_MAX_ATTEMPTS
    TickBudget,        \* jobs a tick may claim
    MaxMishaps,        \* bound: statements that fail, and crashes
    NoJob

ASSUME ScrapeQueueConstants ==
    /\ IsFiniteSet(ScrapeSchedulers) /\ ScrapeSchedulers # {} /\ NoJob \notin ScrapeJobs
    /\ {MaxScrapeAttempts, TickBudget} \subseteq Nat \ {0}
    /\ MaxMishaps \in Nat

VARIABLES
    sjob,   \* the rows
    sch,    \* the tick of each scheduler
    mishap  \* failures still to come, and the jobs that met one

queueVars == <<sjob, sch, mishap>>

SchIdle == [stage |-> "idle", cands |-> {}, job |-> NoJob, tries |-> 0, left |-> 0]

QueueInit ==
    /\ sjob = [j \in ScrapeJobs |-> [status |-> "none", due |-> FALSE, attempts |-> 0]]
    /\ sch = [s \in ScrapeSchedulers |-> SchIdle]
    /\ mishap = [left |-> MaxMishaps, on |-> {}]

\* The rows others insert, and the passing of a job's scheduled_at.
SubmitScrape(j) ==
    /\ sjob[j].status = "none"
    /\ sjob' = [sjob EXCEPT ![j].status = "PENDING", ![j].due = TRUE]
    /\ UNCHANGED <<sch, mishap>>

BecomesDue(j) ==
    /\ sjob[j].status = "PENDING" /\ ~sjob[j].due
    /\ sjob' = [sjob EXCEPT ![j].due = TRUE]
    /\ UNCHANGED <<sch, mishap>>

Mishap(j) == mishap.left > 0 /\ mishap' = [left |-> mishap.left - 1, on |-> mishap.on \cup {j}]
NoMishap == UNCHANGED mishap

-----------------------------------------------------------------------------
(***************************************************************************)
(* The statements.  None but the claim looks at the status it replaces.    *)
(***************************************************************************)
ListScrapeJobsByStatus(status) == {j \in ScrapeJobs : sjob[j].status = status}

DueJobs == {j \in ListScrapeJobsByStatus("PENDING") : sjob[j].due}

ClaimNextScrapeJob(j, account) ==
    /\ ActorAccount[j] = account /\ sjob[j].status = "PENDING" /\ sjob[j].due
    /\ sjob' = [sjob EXCEPT ![j].status = "RUNNING", ![j].attempts = @ + 1]

CompleteScrapeJob(j, status) == sjob' = [sjob EXCEPT ![j].status = status]

RescheduleScrapeJob(j) == sjob' = [sjob EXCEPT ![j].status = "PENDING", ![j].due = FALSE]

-----------------------------------------------------------------------------
\* claimAny lists before each claim.
Claiming(cands, left) == [SchIdle EXCEPT !.stage = "claim", !.cands = cands, !.left = left]

StartTick(s) ==
    /\ sch[s].stage = "idle" /\ DueJobs # {}
    /\ sch' = [sch EXCEPT ![s] = Claiming(DueJobs, TickBudget)]
    /\ UNCHANGED <<sjob, mishap>>

\* Another job, as long as the budget lasts and one is due.
Again(s) ==
    sch' = [sch EXCEPT ![s] =
               IF sch[s].left > 0 /\ DueJobs' # {} THEN Claiming(DueJobs', sch[s].left) ELSE SchIdle]

\* One due job of the listed job's account, which need not be the listed one.
ClaimAny(s) ==
    /\ sch[s].stage = "claim"
    /\ \E c \in sch[s].cands :
        LET account == ActorAccount[c]  rest == sch[s].cands \ {c} IN
        \/ \E j \in DueJobs :
            /\ ClaimNextScrapeJob(j, account)
            /\ sch' = [sch EXCEPT ![s] = [stage |-> "run", cands |-> {}, job |-> j,
                                          tries |-> sjob[j].attempts + 1, left |-> @.left - 1]]
        \/ /\ \A j \in DueJobs : ActorAccount[j] # account
           /\ sch' = [sch EXCEPT ![s] = IF rest = {} THEN SchIdle ELSE [@ EXCEPT !.cands = rest]]
           /\ UNCHANGED sjob
    /\ NoMishap

\* Mutant: a job that used its attempts up is only logged.
FailLogged(s) == UNCHANGED sjob /\ NoMishap /\ Again(s)

\* A write that fails leaves the job RUNNING, for good.
FailJob(s) ==
    /\ \/ CompleteScrapeJob(sch[s].job, "FAILED") /\ NoMishap
       \/ UNCHANGED sjob /\ Mishap(sch[s].job)
    /\ Again(s)

LookupFails(s) ==
    /\ sch[s].stage = "run"
    /\ Mishap(sch[s].job)
    /\ CompleteScrapeJob(sch[s].job, "FAILED")
    /\ Again(s)

\* Mutant: the cap is compared with one attempt too few.
RequeueLate(s) ==
    /\ sch[s].stage = "run"
    /\ IF sch[s].tries > MaxScrapeAttempts THEN FailJob(s)
       ELSE /\ CompleteScrapeJob(sch[s].job, "PENDING") /\ NoMishap
            /\ sch' = [sch EXCEPT ![s].stage = "later"]

\* requeue, first statement: PENDING again, and still due ...
Requeue(s) ==
    /\ sch[s].stage = "run"
    /\ IF sch[s].tries >= MaxScrapeAttempts THEN FailJob(s)
       ELSE \/ /\ CompleteScrapeJob(sch[s].job, "PENDING") /\ NoMishap
               /\ sch' = [sch EXCEPT ![s].stage = "later"]
            \/ UNCHANGED sjob /\ Mishap(sch[s].job) /\ Again(s)

\* ... and second: later, whatever has become of the job in between.
Reschedule(s) ==
    /\ sch[s].stage = "later"
    /\ \/ RescheduleScrapeJob(sch[s].job) /\ NoMishap
       \/ UNCHANGED sjob /\ Mishap(sch[s].job)
    /\ Again(s)

SchedulerDies(s) ==
    /\ sch[s].stage # "idle"
    /\ Mishap(sch[s].job)
    /\ sch' = [sch EXCEPT ![s] = SchIdle]
    /\ UNCHANGED sjob

QueueNext ==
    \/ \E j \in ScrapeJobs : SubmitScrape(j) \/ BecomesDue(j)
    \/ \E s \in ScrapeSchedulers :
        \/ StartTick(s) \/ ClaimAny(s) \/ LookupFails(s) \/ Requeue(s)
        \/ Reschedule(s) \/ SchedulerDies(s)

QueueSpec == QueueInit /\ [][QueueNext]_queueVars

-----------------------------------------------------------------------------
(***************************************************************************)
(* Properties.                                                             *)
(***************************************************************************)
\* No other status is ever written, and the rows keep their types.
QueueTypeOK ==
    /\ sjob \in [ScrapeJobs -> [status : {"none", "PENDING", "RUNNING", "FAILED"},
                                due : BOOLEAN, attempts : Nat]]
    /\ sch \in [ScrapeSchedulers ->
                    [stage : {"idle", "claim", "run", "later"}, cands : SUBSET ScrapeJobs,
                     job : ScrapeJobs \cup {NoJob}, tries : Nat, left : 0 .. TickBudget]]
    /\ mishap \in [left : 0 .. MaxMishaps, on : SUBSET (ScrapeJobs \cup {NoJob})]

\* "When attempts exceed the cap the job fails permanently": a job is claimed
\* no more often than the cap says, but for each further scheduler, which may
\* hold it meanwhile with an older count: either statement of its requeue
\* brings back a job the others have failed (Requeue, Reschedule).
AttemptsBounded ==
    \A j \in ScrapeJobs :
        sjob[j].attempts <= MaxScrapeAttempts + 2 * (Cardinality(ScrapeSchedulers) - 1)

\* A job that is RUNNING is being run, unless a statement about it failed or
\* its scheduler died: what one scheduler requeues is never left behind by
\* the claim of another.
RunningIsHeld ==
    \A j \in ScrapeJobs \ mishap.on :
        sjob[j].status = "RUNNING" =>
            \E s \in ScrapeSchedulers : sch[s].stage = "run" /\ sch[s].job = j

=============================================================================
