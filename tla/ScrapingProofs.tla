--------------------------- MODULE ScrapingProofs ---------------------------
(***************************************************************************)
(* Theorems about the two ways a profile is scraped: the queue of the      *)
(* scheduled scrapes (ScrapeQueue) and the requests of operators           *)
(* (Scraping).                                                             *)
(***************************************************************************)
EXTENDS Scraping, ScrapeQueue, FiniteSetTheorems, SequenceTheorems, TLAPS

-----------------------------------------------------------------------------
(***************************************************************************)
(* ScrapeQueue: a claimed job belongs to the scheduler that runs it, for   *)
(* every number of jobs, accounts and schedulers, every attempt cap and    *)
(* every number of mishaps.                                                *)
(***************************************************************************)
\* The inductive invariant: the types, and that a scheduler at work on a job
\* knows which, and one that claims has budget left.
Working ==
    \A s \in ScrapeSchedulers :
        /\ sch[s].stage \in {"run", "later"} => sch[s].job \in ScrapeJobs
        /\ sch[s].stage = "claim" => sch[s].left > 0

QueueInv == QueueTypeOK /\ Working /\ RunningIsHeld

-----------------------------------------------------------------------------
(***************************************************************************)
(* Rows and ticks.                                                         *)
(***************************************************************************)
QueueRows == [status : {"none", "PENDING", "RUNNING", "FAILED"}, due : BOOLEAN, attempts : Nat]
QueueTicks == [stage : {"idle", "claim", "run", "later"}, cands : SUBSET ScrapeJobs,
               job : ScrapeJobs \cup {NoJob}, tries : Nat, left : 0 .. TickBudget]
Mishaps == [left : 0 .. MaxMishaps, on : SUBSET (ScrapeJobs \cup {NoJob})]

LEMMA QueueTypeParts ==
    QueueTypeOK <=> /\ sjob \in [ScrapeJobs -> QueueRows]
                    /\ sch \in [ScrapeSchedulers -> QueueTicks]
                    /\ mishap \in Mishaps
BY DEF QueueTypeOK, QueueRows, QueueTicks, Mishaps

LEMMA IdleIsTick == SchIdle \in QueueTicks
BY ScrapeQueueConstants DEF SchIdle, QueueTicks

\* A tick that looks for a job is well formed.
LEMMA ClaimingIsTick ==
    ASSUME NEW cands \in SUBSET ScrapeJobs, NEW left \in 0 .. TickBudget
    PROVE  /\ Claiming(cands, left) \in QueueTicks
           /\ Claiming(cands, left).stage = "claim" /\ Claiming(cands, left).left = left
BY DEF Claiming, SchIdle, QueueTicks

\* A mishap is noted at its job, and none is forgotten.
LEMMA MishapNoted ==
    ASSUME mishap \in Mishaps, NEW j \in ScrapeJobs \cup {NoJob}, Mishap(j)
    PROVE  mishap' \in Mishaps /\ j \in mishap'.on /\ mishap.on \subseteq mishap'.on
BY ScrapeQueueConstants DEF Mishap, Mishaps

\* The statements on a row keep its type, touch no other row, and never say
\* RUNNING.
LEMMA Statements ==
    ASSUME sjob \in [ScrapeJobs -> QueueRows], NEW j \in ScrapeJobs,
           \/ \E x \in {"PENDING", "FAILED"} : CompleteScrapeJob(j, x)
           \/ RescheduleScrapeJob(j)
    PROVE  /\ sjob' \in [ScrapeJobs -> QueueRows]
           /\ sjob'[j].status # "RUNNING"
           /\ \A k \in ScrapeJobs \ {j} : sjob'[k] = sjob[k]
<1>1. sjob[j] \in QueueRows
  OBVIOUS
<1>2. CASE \E x \in {"PENDING", "FAILED"} : CompleteScrapeJob(j, x)
  <2>1. PICK x \in {"PENDING", "FAILED"} : sjob' = [sjob EXCEPT ![j].status = x]
    BY <1>2 DEF CompleteScrapeJob
  <2>2. [sjob[j] EXCEPT !.status = x] \in QueueRows
    BY <1>1 DEF QueueRows
  <2>3. x # "RUNNING"
    OBVIOUS
  <2> QED BY <1>1, <2>1, <2>2, <2>3 DEF QueueRows
<1>3. CASE RescheduleScrapeJob(j)
  <2>1. [sjob[j] EXCEPT !.status = "PENDING", !.due = FALSE] \in QueueRows
    BY <1>1 DEF QueueRows
  <2> QED BY <1>1, <1>3, <2>1 DEF RescheduleScrapeJob, QueueRows
<1> QED BY <1>2, <1>3

\* After a job the scheduler takes another or rests.
LEMMA AgainTicks ==
    ASSUME QueueTypeOK, NEW s \in ScrapeSchedulers, Again(s)
    PROVE  /\ sch' \in [ScrapeSchedulers -> QueueTicks]
           /\ sch'[s].stage \in {"idle", "claim"}
           /\ sch'[s].stage = "claim" => sch'[s].left > 0
           /\ \A r \in ScrapeSchedulers \ {s} : sch'[r] = sch[r]
<1>1. sch \in [ScrapeSchedulers -> QueueTicks] /\ sch[s].left \in 0 .. TickBudget
  BY QueueTypeParts DEF QueueTicks
<1>2. DueJobs' \in SUBSET ScrapeJobs
  BY DEF DueJobs, ListScrapeJobsByStatus
<1>3. /\ Claiming(DueJobs', sch[s].left) \in QueueTicks
      /\ Claiming(DueJobs', sch[s].left).stage = "claim"
      /\ Claiming(DueJobs', sch[s].left).left = sch[s].left
  BY <1>1, <1>2, ClaimingIsTick
<1>4. SchIdle.stage = "idle"
  BY DEF SchIdle
<1>5. \/ sch' = [sch EXCEPT ![s] = SchIdle]
      \/ sch[s].left > 0 /\ sch' = [sch EXCEPT ![s] = Claiming(DueJobs', sch[s].left)]
  BY DEF Again
<1> QED BY <1>1, <1>3, <1>4, <1>5, IdleIsTick

-----------------------------------------------------------------------------
(***************************************************************************)
(* A job that is left behind by its scheduler.                             *)
(***************************************************************************)

\* If all a step does to the ticks is that s gives up its job, and it has
\* either written the row or met a mishap, no job is RUNNING unheld.
LEMMA GivenUp ==
    ASSUME QueueInv, NEW s \in ScrapeSchedulers, NEW j \in ScrapeJobs,
           sch[s].job = j,
           sch' \in [ScrapeSchedulers -> QueueTicks],
           sch'[s].stage \notin {"run"},
           \A r \in ScrapeSchedulers \ {s} : sch'[r] = sch[r],
           \A k \in ScrapeJobs \ {j} : sjob'[k] = sjob[k],
           sjob'[j].status # "RUNNING" \/ j \in mishap'.on,
           mishap.on \subseteq mishap'.on
    PROVE  RunningIsHeld'
<1> SUFFICES ASSUME NEW k \in ScrapeJobs, k \notin mishap'.on, sjob'[k].status = "RUNNING"
             PROVE  \E r \in ScrapeSchedulers : sch'[r].stage = "run" /\ sch'[r].job = k
  BY DEF RunningIsHeld
<1>1. k # j
  OBVIOUS
<1>2. sjob[k].status = "RUNNING" /\ k \notin mishap.on
  BY <1>1
<1>3. PICK r \in ScrapeSchedulers : sch[r].stage = "run" /\ sch[r].job = k
  BY <1>2 DEF QueueInv, RunningIsHeld
<1>4. r # s
  BY <1>1, <1>3
<1> QED BY <1>3, <1>4

LEMMA QueueFirst == QueueInit => QueueInv
<1> SUFFICES ASSUME QueueInit PROVE QueueInv
  OBVIOUS
<1>1. QueueTypeOK
  BY IdleIsTick, QueueTypeParts, ScrapeQueueConstants DEF QueueInit, QueueRows, Mishaps
<1>2. Working /\ RunningIsHeld
  BY DEF QueueInit, Working, RunningIsHeld, SchIdle
<1> QED BY <1>1, <1>2 DEF QueueInv

\* Jobs are submitted and become due beside the schedulers.
LEMMA OutsideInv ==
    ASSUME QueueInv, NEW j \in ScrapeJobs, SubmitScrape(j) \/ BecomesDue(j)
    PROVE  QueueInv'
<1>1. sjob \in [ScrapeJobs -> QueueRows] /\ sjob[j] \in QueueRows
  BY QueueTypeParts DEF QueueInv
<1>2. /\ sjob' \in [ScrapeJobs -> QueueRows] /\ UNCHANGED <<sch, mishap>>
      /\ sjob'[j].status # "RUNNING"
      /\ \A k \in ScrapeJobs \ {j} : sjob'[k] = sjob[k]
  <2>1. [sjob[j] EXCEPT !.status = "PENDING", !.due = TRUE] \in QueueRows
    BY <1>1 DEF QueueRows
  <2>2. [sjob[j] EXCEPT !.due = TRUE] \in QueueRows
    BY <1>1 DEF QueueRows
  <2>3. CASE SubmitScrape(j)
    BY <1>1, <2>1, <2>3 DEF SubmitScrape, QueueRows
  <2>4. CASE BecomesDue(j)
    BY <1>1, <2>2, <2>4 DEF BecomesDue, QueueRows
  <2> QED BY <2>3, <2>4
<1>3. QueueTypeOK'
  BY <1>2, QueueTypeParts DEF QueueInv, QueueTypeOK, QueueRows
<1>4. Working' /\ RunningIsHeld'
  BY <1>2 DEF QueueInv, Working, RunningIsHeld
<1> QED BY <1>3, <1>4 DEF QueueInv

\* A tick starts beside the rows.
LEMMA StartTickInv ==
    ASSUME QueueInv, NEW s \in ScrapeSchedulers, StartTick(s)
    PROVE  QueueInv'
<1>1. sch \in [ScrapeSchedulers -> QueueTicks] /\ UNCHANGED <<sjob, mishap>>
  BY QueueTypeParts DEF QueueInv, StartTick
<1>2. /\ Claiming(DueJobs, TickBudget) \in QueueTicks
      /\ Claiming(DueJobs, TickBudget).stage = "claim"
      /\ Claiming(DueJobs, TickBudget).left > 0
  <2>1. DueJobs \in SUBSET ScrapeJobs
    BY DEF DueJobs, ListScrapeJobsByStatus
  <2>2. TickBudget \in 0 .. TickBudget
    BY ScrapeQueueConstants
  <2> QED BY <2>1, <2>2, ClaimingIsTick, ScrapeQueueConstants
<1>3. /\ sch' = [sch EXCEPT ![s] = Claiming(DueJobs, TickBudget)]
      /\ sch[s].stage = "idle"
  BY DEF StartTick
<1>4. /\ sch' \in [ScrapeSchedulers -> QueueTicks]
      /\ sch'[s].stage = "claim" /\ sch'[s].left > 0
      /\ \A r \in ScrapeSchedulers \ {s} : sch'[r] = sch[r]
  BY <1>1, <1>2, <1>3
<1>5. QueueTypeOK'
  BY <1>1, <1>4 DEF QueueInv, QueueTypeOK, QueueTicks
<1>6. Working'
  BY <1>4 DEF QueueInv, Working
<1>7. RunningIsHeld'
  BY <1>1, <1>3, <1>4 DEF QueueInv, RunningIsHeld
<1> QED BY <1>5, <1>6, <1>7 DEF QueueInv

\* The claim puts the job it takes in the scheduler's hands.
LEMMA ClaimAnyInv ==
    ASSUME QueueInv, NEW s \in ScrapeSchedulers, ClaimAny(s)
    PROVE  QueueInv'
<1>1. /\ sjob \in [ScrapeJobs -> QueueRows]
      /\ sch \in [ScrapeSchedulers -> QueueTicks]
      /\ sch[s] \in QueueTicks
      /\ mishap' = mishap
      /\ sch[s].stage = "claim" /\ sch[s].left > 0
  BY QueueTypeParts DEF QueueInv, Working, ClaimAny, NoMishap
<1>2. PICK c \in sch[s].cands :
        LET account == ActorAccount[c]  rest == sch[s].cands \ {c} IN
        \/ \E j \in DueJobs :
            /\ ClaimNextScrapeJob(j, account)
            /\ sch' = [sch EXCEPT ![s] = [stage |-> "run", cands |-> {}, job |-> j,
                                          tries |-> sjob[j].attempts + 1, left |-> @.left - 1]]
        \/ /\ \A j \in DueJobs : ActorAccount[j] # account
           /\ sch' = [sch EXCEPT ![s] = IF rest = {} THEN SchIdle ELSE [@ EXCEPT !.cands = rest]]
           /\ UNCHANGED sjob
  BY DEF ClaimAny
<1>3. ASSUME NEW j \in DueJobs, ClaimNextScrapeJob(j, ActorAccount[c]),
             sch' = [sch EXCEPT ![s] = [stage |-> "run", cands |-> {}, job |-> j,
                                        tries |-> sjob[j].attempts + 1, left |-> @.left - 1]]
      PROVE  QueueInv'
  <2>1. j \in ScrapeJobs /\ sjob[j] \in QueueRows
    BY <1>1 DEF DueJobs, ListScrapeJobsByStatus
  <2>2. PICK t : /\ t = [stage |-> "run", cands |-> {}, job |-> j,
                         tries |-> sjob[j].attempts + 1, left |-> sch[s].left - 1]
                 /\ sch' = [sch EXCEPT ![s] = t]
    BY <1>3
  <2>3. t \in QueueTicks /\ t.stage = "run" /\ t.job = j
    <3>1. sch[s].left - 1 \in 0 .. TickBudget
      BY <1>1, ScrapeQueueConstants DEF QueueTicks
    <3>2. sjob[j].attempts + 1 \in Nat
      BY <2>1 DEF QueueRows
    <3> QED BY <2>1, <2>2, <3>1, <3>2 DEF QueueTicks
  <2>4. /\ sch' \in [ScrapeSchedulers -> QueueTicks]
        /\ sch'[s].stage = "run" /\ sch'[s].job = j
        /\ \A r \in ScrapeSchedulers \ {s} : sch'[r] = sch[r]
    BY <1>1, <2>2, <2>3
  <2>5. sjob' = [sjob EXCEPT ![j].status = "RUNNING", ![j].attempts = @ + 1]
    BY <1>3 DEF ClaimNextScrapeJob
  <2>6. /\ sjob' \in [ScrapeJobs -> QueueRows]
        /\ \A k \in ScrapeJobs \ {j} : sjob'[k] = sjob[k]
    <3>1. sjob[j].attempts + 1 \in Nat
      BY <2>1 DEF QueueRows
    <3>2. [sjob[j] EXCEPT !.status = "RUNNING", !.attempts = sjob[j].attempts + 1] \in QueueRows
      BY <2>1, <3>1 DEF QueueRows
    <3> QED BY <1>1, <2>1, <2>5, <3>2
  <2>7. QueueTypeOK'
    BY <1>1, <2>4, <2>6 DEF QueueInv, QueueTypeOK, QueueTicks, QueueRows
  <2>8. Working'
    BY <2>1, <2>4 DEF QueueInv, Working
  <2>9. RunningIsHeld'
    BY <1>1, <2>4, <2>6 DEF QueueInv, RunningIsHeld
  <2> QED BY <2>7, <2>8, <2>9 DEF QueueInv
<1>4. ASSUME UNCHANGED sjob,
             sch' = [sch EXCEPT ![s] = IF sch[s].cands \ {c} = {} THEN SchIdle
                                       ELSE [@ EXCEPT !.cands = sch[s].cands \ {c}]]
      PROVE  QueueInv'
  <2>1. [sch[s] EXCEPT !.cands = sch[s].cands \ {c}] \in QueueTicks
    BY <1>1 DEF QueueTicks
  <2>2. PICK t \in QueueTicks : /\ sch' = [sch EXCEPT ![s] = t]
                                /\ t.stage = "idle" \/ (t.stage = "claim" /\ t.left > 0)
    <3>1. SchIdle.stage = "idle"
      BY DEF SchIdle
    <3>2. [sch[s] EXCEPT !.cands = sch[s].cands \ {c}].stage = "claim"
      BY <1>1 DEF QueueTicks
    <3>3. [sch[s] EXCEPT !.cands = sch[s].cands \ {c}].left > 0
      BY <1>1 DEF QueueTicks
    <3> QED BY <1>4, <2>1, <3>1, <3>2, <3>3, IdleIsTick
  <2>3. /\ sch' \in [ScrapeSchedulers -> QueueTicks]
        /\ sch'[s].stage = "idle" \/ (sch'[s].stage = "claim" /\ sch'[s].left > 0)
        /\ \A r \in ScrapeSchedulers \ {s} : sch'[r] = sch[r]
    BY <1>1, <2>2
  <2>4. QueueTypeOK'
    BY <1>1, <1>4, <2>3 DEF QueueInv, QueueTypeOK, QueueTicks
  <2>5. Working'
    BY <2>3 DEF QueueInv, Working
  <2>6. RunningIsHeld'
    BY <1>1, <1>4, <2>3 DEF QueueInv, RunningIsHeld
  <2> QED BY <2>4, <2>5, <2>6 DEF QueueInv
<1> QED BY <1>2, <1>3, <1>4

\* The four ways a scheduler gives up its job: it is written, with another
\* status than RUNNING, or a mishap is noted at it.
LEMMA GiveUpInv ==
    ASSUME QueueInv, NEW s \in ScrapeSchedulers, NEW j \in ScrapeJobs,
           sch[s].stage \in {"run", "later"}, sch[s].job = j, Again(s),
           \/ /\ \E x \in {"PENDING", "FAILED"} : CompleteScrapeJob(j, x)
              /\ NoMishap \/ Mishap(j)
           \/ RescheduleScrapeJob(j) /\ NoMishap
           \/ UNCHANGED sjob /\ Mishap(j)
    PROVE  QueueInv'
<1>1. /\ sjob \in [ScrapeJobs -> QueueRows]
      /\ sch \in [ScrapeSchedulers -> QueueTicks]
      /\ mishap \in Mishaps
  BY QueueTypeParts DEF QueueInv
<1>2. /\ sch' \in [ScrapeSchedulers -> QueueTicks]
      /\ sch'[s].stage \in {"idle", "claim"}
      /\ sch'[s].stage = "claim" => sch'[s].left > 0
      /\ \A r \in ScrapeSchedulers \ {s} : sch'[r] = sch[r]
  BY AgainTicks DEF QueueInv
<1>3. /\ mishap' \in Mishaps /\ mishap.on \subseteq mishap'.on
      /\ Mishap(j) => j \in mishap'.on
  BY <1>1, MishapNoted DEF NoMishap
<1>4. /\ sjob' \in [ScrapeJobs -> QueueRows]
      /\ \A k \in ScrapeJobs \ {j} : sjob'[k] = sjob[k]
      /\ sjob'[j].status # "RUNNING" \/ j \in mishap'.on
  BY <1>1, <1>3, Statements
<1>5. QueueTypeOK'
  BY <1>2, <1>3, <1>4 DEF QueueTypeOK, QueueRows, QueueTicks, Mishaps
<1>6. Working'
  BY <1>2 DEF QueueInv, Working
<1>7. RunningIsHeld'
  BY <1>2, <1>3, <1>4, GivenUp
<1> QED BY <1>5, <1>6, <1>7 DEF QueueInv

LEMMA LookupFailsInv ==
    ASSUME QueueInv, NEW s \in ScrapeSchedulers, LookupFails(s)
    PROVE  QueueInv'
<1>1. sch[s].job \in ScrapeJobs /\ sch[s].stage = "run"
  BY DEF QueueInv, Working, LookupFails
<1> QED BY <1>1, GiveUpInv DEF LookupFails

\* requeue: between its two statements the scheduler still remembers the job.
LEMMA RequeueInv ==
    ASSUME QueueInv, NEW s \in ScrapeSchedulers, Requeue(s)
    PROVE  QueueInv'
<1> DEFINE j == sch[s].job
<1>1. j \in ScrapeJobs /\ sch[s].stage = "run"
  BY DEF QueueInv, Working, Requeue
<1>2. CASE FailJob(s)
  BY <1>1, <1>2, GiveUpInv DEF FailJob
<1>3. CASE UNCHANGED sjob /\ Mishap(j) /\ Again(s)
  BY <1>1, <1>3, GiveUpInv
<1>4. CASE /\ CompleteScrapeJob(j, "PENDING") /\ NoMishap
           /\ sch' = [sch EXCEPT ![s].stage = "later"]
  <2>1. /\ sjob \in [ScrapeJobs -> QueueRows]
        /\ sch \in [ScrapeSchedulers -> QueueTicks] /\ sch[s] \in QueueTicks
        /\ mishap' = mishap
    BY <1>4, QueueTypeParts DEF QueueInv, NoMishap
  <2>2. [sch[s] EXCEPT !.stage = "later"] \in QueueTicks
    BY <2>1 DEF QueueTicks
  <2>3. /\ sch' \in [ScrapeSchedulers -> QueueTicks]
        /\ sch'[s].stage = "later" /\ sch'[s].job = j
        /\ \A r \in ScrapeSchedulers \ {s} : sch'[r] = sch[r]
    BY <1>4, <2>1, <2>2 DEF QueueTicks
  <2>4. /\ sjob' \in [ScrapeJobs -> QueueRows]
        /\ sjob'[j].status # "RUNNING"
        /\ \A k \in ScrapeJobs \ {j} : sjob'[k] = sjob[k]
    BY <1>1, <1>4, <2>1, Statements
  <2>5. QueueTypeOK'
    BY <2>1, <2>3, <2>4 DEF QueueInv, QueueTypeOK, QueueRows, QueueTicks
  <2>6. Working'
    BY <1>1, <2>3 DEF QueueInv, Working
  <2>7. RunningIsHeld'
    BY <1>1, <2>1, <2>3, <2>4, GivenUp
  <2> QED BY <2>5, <2>6, <2>7 DEF QueueInv
<1> QED BY <1>2, <1>3, <1>4 DEF Requeue

LEMMA RescheduleInv ==
    ASSUME QueueInv, NEW s \in ScrapeSchedulers, Reschedule(s)
    PROVE  QueueInv'
<1>1. sch[s].job \in ScrapeJobs /\ sch[s].stage = "later"
  BY DEF QueueInv, Working, Reschedule
<1> QED BY <1>1, GiveUpInv DEF Reschedule

\* A scheduler that dies leaves its job as it is: that is a mishap.
LEMMA SchedulerDiesInv ==
    ASSUME QueueInv, NEW s \in ScrapeSchedulers, SchedulerDies(s)
    PROVE  QueueInv'
<1> DEFINE j == sch[s].job
<1>1. /\ sjob \in [ScrapeJobs -> QueueRows] /\ sjob' = sjob
      /\ sch \in [ScrapeSchedulers -> QueueTicks] /\ j \in ScrapeJobs \cup {NoJob}
      /\ mishap \in Mishaps
  BY QueueTypeParts DEF QueueInv, SchedulerDies, QueueTicks
<1>2. mishap' \in Mishaps /\ j \in mishap'.on /\ mishap.on \subseteq mishap'.on
  BY <1>1, MishapNoted DEF SchedulerDies
<1>3. /\ sch' \in [ScrapeSchedulers -> QueueTicks]
      /\ sch'[s].stage = "idle"
      /\ \A r \in ScrapeSchedulers \ {s} : sch'[r] = sch[r]
  <2>1. SchIdle.stage = "idle"
    BY DEF SchIdle
  <2> QED BY <1>1, <2>1, IdleIsTick DEF SchedulerDies
<1>4. QueueTypeOK'
  BY <1>1, <1>2, <1>3 DEF QueueTypeOK, QueueRows, QueueTicks, Mishaps
<1>5. Working'
  BY <1>3 DEF QueueInv, Working
<1>6. RunningIsHeld'
  BY <1>1, <1>2, <1>3 DEF QueueInv, RunningIsHeld
<1> QED BY <1>4, <1>5, <1>6 DEF QueueInv

-----------------------------------------------------------------------------
LEMMA QueueInvStep == QueueInv /\ [QueueNext]_queueVars => QueueInv'
<1> SUFFICES ASSUME QueueInv, [QueueNext]_queueVars PROVE QueueInv'
  OBVIOUS
<1>1. ASSUME NEW j \in ScrapeJobs, SubmitScrape(j) \/ BecomesDue(j) PROVE QueueInv'
  BY <1>1, OutsideInv
<1>2. ASSUME NEW s \in ScrapeSchedulers,
             \/ StartTick(s) \/ ClaimAny(s) \/ LookupFails(s) \/ Requeue(s)
             \/ Reschedule(s) \/ SchedulerDies(s)
      PROVE  QueueInv'
  BY <1>2, StartTickInv, ClaimAnyInv, LookupFailsInv, RequeueInv, RescheduleInv, SchedulerDiesInv
<1>3. CASE UNCHANGED queueVars
  BY <1>3 DEF queueVars, QueueInv, QueueTypeOK, Working, RunningIsHeld
<1> QED BY <1>1, <1>2, <1>3 DEF QueueNext

\* The rows and the ticks keep their types: no statement of the scheduler
\* writes a status the column does not have, and no budget goes below zero.
THEOREM QueueTypeCorrect == QueueSpec => []QueueTypeOK
<1>1. QueueInv => QueueTypeOK
  BY DEF QueueInv
<1> QED BY <1>1, QueueFirst, QueueInvStep, PTL DEF QueueSpec

\* With any number of schedulers that requeue blindly what another may have
\* claimed since, a job is RUNNING only while one of them runs it, or after a
\* statement about it failed or its scheduler died.
THEOREM RunningJobIsHeld == QueueSpec => []RunningIsHeld
<1>1. QueueInv => RunningIsHeld
  BY DEF QueueInv
<1> QED BY <1>1, QueueFirst, QueueInvStep, PTL DEF QueueSpec

-----------------------------------------------------------------------------
(***************************************************************************)
(* The attempts of a job.  Past the cap a job is claimed only when one of  *)
(* the requeues still to come makes it PENDING: a scheduler that runs it   *)
(* with a count below the cap has two of them left, one between its two    *)
(* statements has one.  The scheduler whose claim reaches the cap has none *)
(* left, and no further claim gives anyone a new one.                      *)
(***************************************************************************)
Chances(j) ==
    {c \in ScrapeSchedulers \X {1, 2} :
        /\ sch[c[1]].job = j
        /\ \/ sch[c[1]].stage = "run" /\ sch[c[1]].tries < MaxScrapeAttempts
           \/ sch[c[1]].stage = "later" /\ c[2] = 1}

Waits(j) == IF sjob[j].status = "PENDING" THEN 1 ELSE 0

ChancesBounded ==
    \A j \in ScrapeJobs : sjob[j].attempts >= MaxScrapeAttempts =>
        sjob[j].attempts - MaxScrapeAttempts + Waits(j) + Cardinality(Chances(j))
            <= 2 * (Cardinality(ScrapeSchedulers) - 1)

Unsubmitted == \A j \in ScrapeJobs : sjob[j].status = "none" => sjob[j].attempts = 0

AttemptInv == QueueInv /\ Unsubmitted /\ ChancesBounded

LEMMA TwoEach == IsFiniteSet({1, 2}) /\ Cardinality({1, 2}) = 2
<1>1. IsFiniteSet({1}) /\ Cardinality({1}) = 1
  BY FS_Singleton
<1>2. IsFiniteSet({1} \cup {2}) /\ Cardinality({1} \cup {2}) = 1 + 1
  BY <1>1, FS_AddElement
<1>3. {1} \cup {2} = {1, 2}
  OBVIOUS
<1> QED BY <1>2, <1>3

LEMMA SchedulersCounted ==
    /\ Cardinality(ScrapeSchedulers) \in Nat
    /\ Cardinality(ScrapeSchedulers) >= 1
    /\ IsFiniteSet(ScrapeSchedulers \X {1, 2})
<1>1. Cardinality(ScrapeSchedulers) \in Nat /\ Cardinality(ScrapeSchedulers) # 0
  BY ScrapeQueueConstants, FS_CardinalityType, FS_EmptySet
<1> QED BY <1>1, TwoEach, ScrapeQueueConstants, FS_Product

LEMMA ChancesCounted ==
    ASSUME NEW j \in ScrapeJobs
    PROVE  /\ IsFiniteSet(Chances(j)) /\ IsFiniteSet(Chances(j))'
           /\ Cardinality(Chances(j)) \in Nat /\ Cardinality(Chances(j))' \in Nat
<1>1. Chances(j) \subseteq ScrapeSchedulers \X {1, 2}
  BY DEF Chances
<1>2. Chances(j)' \subseteq ScrapeSchedulers \X {1, 2}
  BY DEF Chances
<1>3. IsFiniteSet(Chances(j)) /\ IsFiniteSet(Chances(j)')
  BY <1>1, <1>2, SchedulersCounted, FS_Subset
<1> QED BY <1>3, FS_CardinalityType

\* The schedulers but one have two chances each.
LEMMA OthersChances ==
    ASSUME NEW s \in ScrapeSchedulers, NEW C \in SUBSET ((ScrapeSchedulers \ {s}) \X {1, 2})
    PROVE  Cardinality(C) <= 2 * (Cardinality(ScrapeSchedulers) - 1)
<1>1. /\ IsFiniteSet(ScrapeSchedulers \ {s})
      /\ Cardinality(ScrapeSchedulers \ {s}) = Cardinality(ScrapeSchedulers) - 1
  BY ScrapeQueueConstants, FS_RemoveElement
<1>2. IsFiniteSet({1, 2}) /\ Cardinality({1, 2}) = 2
  BY TwoEach
<1>3. /\ IsFiniteSet((ScrapeSchedulers \ {s}) \X {1, 2})
      /\ Cardinality((ScrapeSchedulers \ {s}) \X {1, 2})
            = (Cardinality(ScrapeSchedulers) - 1) * 2
  BY <1>1, <1>2, FS_Product
<1>4. Cardinality(C) <= (Cardinality(ScrapeSchedulers) - 1) * 2
  BY <1>3, FS_Subset
<1> QED BY <1>4, SchedulersCounted

\* A job whose count stands still, with no more chances than before.
LEMMA NoMoreChances ==
    ASSUME AttemptInv, QueueInv', NEW j \in ScrapeJobs,
           sjob'[j].attempts = sjob[j].attempts,
           Chances(j)' \subseteq Chances(j),
           \/ Waits(j)' <= Waits(j)
           \/ \E c \in Chances(j) : c \notin Chances(j)'
    PROVE  sjob'[j].attempts >= MaxScrapeAttempts =>
             sjob'[j].attempts - MaxScrapeAttempts + Waits(j)' + Cardinality(Chances(j)')
                <= 2 * (Cardinality(ScrapeSchedulers) - 1)
<1>1. /\ IsFiniteSet(Chances(j)) /\ Cardinality(Chances(j)) \in Nat
      /\ Cardinality(Chances(j)') \in Nat
  BY ChancesCounted
<1>2. Cardinality(Chances(j)') <= Cardinality(Chances(j))
  BY <1>1, FS_Subset
<1>3. Waits(j) \in {0, 1} /\ Waits(j)' \in {0, 1}
  BY DEF Waits
<1>4. sjob[j].attempts \in Nat /\ MaxScrapeAttempts \in Nat
      /\ Cardinality(ScrapeSchedulers) \in Nat
  BY ScrapeQueueConstants, SchedulersCounted, QueueTypeParts DEF AttemptInv, QueueInv, QueueRows
<1>5. sjob[j].attempts >= MaxScrapeAttempts =>
        sjob[j].attempts - MaxScrapeAttempts + Waits(j) + Cardinality(Chances(j))
            <= 2 * (Cardinality(ScrapeSchedulers) - 1)
  BY DEF AttemptInv, ChancesBounded
<1>6. Waits(j)' + Cardinality(Chances(j)') <= Waits(j) + Cardinality(Chances(j))
  <2>1. CASE Waits(j)' <= Waits(j)
    BY <2>1, <1>1, <1>2, <1>3
  <2>2. ASSUME NEW c \in Chances(j), c \notin Chances(j)'
        PROVE  Cardinality(Chances(j)') <= Cardinality(Chances(j)) - 1
    <3>1. /\ IsFiniteSet(Chances(j) \ {c})
          /\ Cardinality(Chances(j) \ {c}) = Cardinality(Chances(j)) - 1
      BY <1>1, FS_RemoveElement
    <3>2. Chances(j)' \in SUBSET (Chances(j) \ {c})
      BY <2>2
    <3> QED BY <3>1, <3>2, FS_Subset
  <2> QED BY <2>1, <2>2, <1>1, <1>3
<1> QED BY <1>1, <1>3, <1>4, <1>5, <1>6

\* Nothing changes for the jobs a step is not about.
LEMMA OtherJobs ==
    ASSUME AttemptInv, QueueInv', NEW s \in ScrapeSchedulers, NEW j \in ScrapeJobs,
           sjob'[j] = sjob[j],
           sch'[s].job # j \/ sch'[s].stage \in {"idle", "claim"},
           \A r \in ScrapeSchedulers \ {s} : sch'[r] = sch[r]
    PROVE  sjob'[j].attempts >= MaxScrapeAttempts =>
             sjob'[j].attempts - MaxScrapeAttempts + Waits(j)' + Cardinality(Chances(j)')
                <= 2 * (Cardinality(ScrapeSchedulers) - 1)
<1>1. Chances(j)' \subseteq Chances(j)
  BY DEF Chances
<1>2. Waits(j)' = Waits(j) /\ Waits(j) \in {0, 1}
  BY DEF Waits
<1> QED BY <1>1, <1>2, NoMoreChances

LEMMA InitCap == QueueInit => AttemptInv
<1> SUFFICES ASSUME QueueInit PROVE AttemptInv
  OBVIOUS
<1>1. \A j \in ScrapeJobs : sjob[j].attempts = 0
  BY DEF QueueInit
<1>2. MaxScrapeAttempts > 0 /\ MaxScrapeAttempts \in Nat
  BY ScrapeQueueConstants
<1> QED BY <1>1, <1>2, QueueFirst DEF AttemptInv, Unsubmitted, ChancesBounded

LEMMA OutsideCap ==
    ASSUME AttemptInv, QueueInv', NEW j \in ScrapeJobs, SubmitScrape(j) \/ BecomesDue(j)
    PROVE  AttemptInv'
<1>1. sjob \in [ScrapeJobs -> QueueRows]
  BY QueueTypeParts DEF AttemptInv, QueueInv
<1>2. /\ sch' = sch /\ \A k \in ScrapeJobs : sjob'[k].attempts = sjob[k].attempts
      /\ \A k \in ScrapeJobs \ {j} : sjob'[k] = sjob[k]
      /\ sjob'[j].status = "PENDING"
      /\ sjob[j].status = "PENDING" \/ sjob[j].status = "none"
  BY <1>1 DEF SubmitScrape, BecomesDue, QueueRows
<1>3. Unsubmitted'
  BY <1>2 DEF AttemptInv, Unsubmitted
<1>4. ASSUME NEW k \in ScrapeJobs, sjob'[k].attempts >= MaxScrapeAttempts
      PROVE  sjob'[k].attempts - MaxScrapeAttempts + Waits(k)' + Cardinality(Chances(k)')
                <= 2 * (Cardinality(ScrapeSchedulers) - 1)
  <2>1. Chances(k)' = Chances(k)
    BY <1>2 DEF Chances
  <2>2. sjob[k].status # "none"
    BY <1>2, <1>4, ScrapeQueueConstants DEF AttemptInv, Unsubmitted
  <2>3. Waits(k)' = Waits(k) /\ Waits(k) \in {0, 1}
    BY <1>2, <2>2 DEF Waits
  <2> QED BY <1>2, <1>4, <2>1, <2>3, NoMoreChances
<1> QED BY <1>3, <1>4 DEF AttemptInv, ChancesBounded

LEMMA ClaimCap ==
    ASSUME AttemptInv, QueueInv', NEW s \in ScrapeSchedulers, ClaimAny(s)
    PROVE  AttemptInv'
<1>1. /\ sjob \in [ScrapeJobs -> QueueRows] /\ sch \in [ScrapeSchedulers -> QueueTicks]
      /\ sch[s].stage = "claim"
  BY QueueTypeParts DEF AttemptInv, QueueInv, ClaimAny
<1>2. \/ \E j \in DueJobs :
            /\ ClaimNextScrapeJob(j, ActorAccount[j])
            /\ sch' = [sch EXCEPT ![s] = [stage |-> "run", cands |-> {}, job |-> j,
                                          tries |-> sjob[j].attempts + 1, left |-> @.left - 1]]
      \/ /\ sch'[s].stage \in {"idle", "claim"}
         /\ \A r \in ScrapeSchedulers \ {s} : sch'[r] = sch[r]
         /\ UNCHANGED sjob
  <2>1. SchIdle.stage = "idle"
    BY DEF SchIdle
  <2>2. \A rest : [sch[s] EXCEPT !.cands = rest].stage = "claim"
    BY <1>1 DEF QueueTicks
  <2>3. PICK c \in sch[s].cands :
          LET account == ActorAccount[c]  rest == sch[s].cands \ {c} IN
          \/ \E j \in DueJobs :
              /\ ClaimNextScrapeJob(j, account)
              /\ sch' = [sch EXCEPT ![s] = [stage |-> "run", cands |-> {}, job |-> j,
                                            tries |-> sjob[j].attempts + 1, left |-> @.left - 1]]
          \/ /\ \A j \in DueJobs : ActorAccount[j] # account
             /\ sch' = [sch EXCEPT ![s] = IF rest = {} THEN SchIdle ELSE [@ EXCEPT !.cands = rest]]
             /\ UNCHANGED sjob
    BY DEF ClaimAny
  <2>4. CASE \E j \in DueJobs :
              /\ ClaimNextScrapeJob(j, ActorAccount[c])
              /\ sch' = [sch EXCEPT ![s] = [stage |-> "run", cands |-> {}, job |-> j,
                                            tries |-> sjob[j].attempts + 1, left |-> @.left - 1]]
    BY <2>4 DEF ClaimNextScrapeJob
  <2>5. CASE /\ sch' = [sch EXCEPT ![s] = IF sch[s].cands \ {c} = {} THEN SchIdle
                                          ELSE [@ EXCEPT !.cands = sch[s].cands \ {c}]]
             /\ UNCHANGED sjob
    BY <1>1, <2>1, <2>2, <2>5
  <2> QED BY <2>3, <2>4, <2>5
<1>3. ASSUME NEW j \in DueJobs, ClaimNextScrapeJob(j, ActorAccount[j]),
             sch' = [sch EXCEPT ![s] = [stage |-> "run", cands |-> {}, job |-> j,
                                        tries |-> sjob[j].attempts + 1, left |-> @.left - 1]]
      PROVE  AttemptInv'
  <2>1. /\ j \in ScrapeJobs /\ sjob[j] \in QueueRows /\ sjob[j].status = "PENDING"
    BY <1>1 DEF DueJobs, ListScrapeJobsByStatus
  <2>2. /\ sjob' = [sjob EXCEPT ![j].status = "RUNNING", ![j].attempts = @ + 1]
    BY <1>3 DEF ClaimNextScrapeJob
  <2>3. /\ sjob'[j].status = "RUNNING" /\ sjob'[j].attempts = sjob[j].attempts + 1
        /\ \A k \in ScrapeJobs \ {j} : sjob'[k] = sjob[k]
    BY <1>1, <2>1, <2>2 DEF QueueRows
  <2>4. /\ sch'[s].job = j /\ sch'[s].stage = "run" /\ sch'[s].tries = sjob[j].attempts + 1
        /\ \A r \in ScrapeSchedulers \ {s} : sch'[r] = sch[r]
    BY <1>1, <1>3
  <2>5. Unsubmitted'
    BY <2>3 DEF AttemptInv, Unsubmitted
  <2>6. ASSUME sjob'[j].attempts >= MaxScrapeAttempts
        PROVE  sjob'[j].attempts - MaxScrapeAttempts + Waits(j)' + Cardinality(Chances(j)')
                  <= 2 * (Cardinality(ScrapeSchedulers) - 1)
    <3>1. /\ sjob[j].attempts \in Nat /\ MaxScrapeAttempts \in Nat
          /\ Cardinality(ScrapeSchedulers) \in Nat
          /\ IsFiniteSet(Chances(j)) /\ Cardinality(Chances(j)) \in Nat
          /\ Cardinality(Chances(j)') \in Nat
      BY <2>1, ScrapeQueueConstants, SchedulersCounted, ChancesCounted DEF QueueRows
    <3>2. Waits(j)' = 0 /\ Waits(j) = 1
      BY <2>1, <2>3 DEF Waits
    <3>3. ~ (sch'[s].tries < MaxScrapeAttempts)
      BY <2>3, <2>4, <2>6, <3>1
    <3>4. Chances(j)' \subseteq Chances(j)
      BY <2>4, <3>3 DEF Chances
    <3>5. CASE sjob[j].attempts >= MaxScrapeAttempts
      <4>1. Cardinality(Chances(j)') <= Cardinality(Chances(j))
        BY <3>1, <3>4, FS_Subset
      <4>2. sjob[j].attempts - MaxScrapeAttempts + Waits(j) + Cardinality(Chances(j))
              <= 2 * (Cardinality(ScrapeSchedulers) - 1)
        BY <2>1, <3>5 DEF AttemptInv, ChancesBounded
      <4> QED BY <2>3, <3>1, <3>2, <4>1, <4>2
    <3>6. CASE sjob'[j].attempts = MaxScrapeAttempts
      <4>1. Chances(j)' \in SUBSET ((ScrapeSchedulers \ {s}) \X {1, 2})
        BY <2>4, <3>3 DEF Chances
      <4>2. Cardinality(Chances(j)') <= 2 * (Cardinality(ScrapeSchedulers) - 1)
        BY <4>1, OthersChances
      <4> QED BY <3>1, <3>2, <3>6, <4>2
    <3> QED BY <2>3, <2>6, <3>1, <3>5, <3>6
  <2>7. \A k \in ScrapeJobs \ {j} : sjob'[k].attempts >= MaxScrapeAttempts =>
            sjob'[k].attempts - MaxScrapeAttempts + Waits(k)' + Cardinality(Chances(k)')
                <= 2 * (Cardinality(ScrapeSchedulers) - 1)
    BY <2>3, <2>4, OtherJobs
  <2> QED BY <2>5, <2>6, <2>7 DEF AttemptInv, ChancesBounded
<1>4. ASSUME sch'[s].stage \in {"idle", "claim"}, UNCHANGED sjob,
             \A r \in ScrapeSchedulers \ {s} : sch'[r] = sch[r]
      PROVE  AttemptInv'
  <2>1. \A k \in ScrapeJobs : sjob'[k].attempts >= MaxScrapeAttempts =>
            sjob'[k].attempts - MaxScrapeAttempts + Waits(k)' + Cardinality(Chances(k)')
                <= 2 * (Cardinality(ScrapeSchedulers) - 1)
    BY <1>4, OtherJobs
  <2> QED BY <1>4, <2>1 DEF AttemptInv, Unsubmitted, ChancesBounded
<1> QED BY <1>2, <1>3, <1>4

\* The statements on a row keep its count.
LEMMA StatementsKeepCount ==
    ASSUME sjob \in [ScrapeJobs -> QueueRows], NEW j \in ScrapeJobs,
           \/ \E x \in {"PENDING", "FAILED"} : CompleteScrapeJob(j, x)
           \/ RescheduleScrapeJob(j)
           \/ UNCHANGED sjob
    PROVE  /\ sjob'[j].attempts = sjob[j].attempts
           /\ sjob'[j].status = "none" => sjob[j].status = "none"
           /\ \A k \in ScrapeJobs \ {j} : sjob'[k] = sjob[k]
           /\ Waits(j)' > Waits(j) =>
                CompleteScrapeJob(j, "PENDING") \/ RescheduleScrapeJob(j)
BY DEF CompleteScrapeJob, RescheduleScrapeJob, QueueRows, Waits

\* A scheduler is done with its job, or between the two statements of requeue:
\* if that made the job PENDING, it cost a chance.
LEMMA ReleaseCap ==
    ASSUME AttemptInv, QueueInv', NEW s \in ScrapeSchedulers, NEW j \in ScrapeJobs,
           sch[s].job = j, sch[s].stage \in {"run", "later"},
           \/ \E x \in {"PENDING", "FAILED"} : CompleteScrapeJob(j, x)
           \/ RescheduleScrapeJob(j)
           \/ UNCHANGED sjob,
           CompleteScrapeJob(j, "PENDING") \/ RescheduleScrapeJob(j) =>
             \/ sjob' = sjob \/ sch[s].stage = "later"
             \/ sch[s].stage = "run" /\ sch[s].tries < MaxScrapeAttempts,
           \/ sch'[s].stage \in {"idle", "claim"}
           \/ /\ sch[s].stage = "run" /\ sch[s].tries < MaxScrapeAttempts
              /\ sch'[s].stage = "later" /\ sch'[s].job = j,
           \A r \in ScrapeSchedulers \ {s} : sch'[r] = sch[r]
    PROVE  AttemptInv'
<1>1. sjob \in [ScrapeJobs -> QueueRows]
  BY QueueTypeParts DEF AttemptInv, QueueInv
<1>2. /\ sjob'[j].attempts = sjob[j].attempts
      /\ sjob'[j].status = "none" => sjob[j].status = "none"
      /\ \A k \in ScrapeJobs \ {j} : sjob'[k] = sjob[k]
      /\ Waits(j)' > Waits(j) => CompleteScrapeJob(j, "PENDING") \/ RescheduleScrapeJob(j)
  BY <1>1, StatementsKeepCount
<1>3. Waits(j) \in {0, 1} /\ Waits(j)' \in {0, 1} /\ (sjob' = sjob => Waits(j)' = Waits(j))
  BY DEF Waits
<1>4. Chances(j)' \subseteq Chances(j)
  BY DEF Chances
<1>5. ASSUME Waits(j)' > Waits(j) PROVE \E c \in Chances(j) : c \notin Chances(j)'
  <2>1. CASE sch[s].stage = "run" /\ sch[s].tries < MaxScrapeAttempts
    <3>1. <<s, 2>> \in Chances(j) /\ <<s, 2>> \notin Chances(j)'
      BY <2>1 DEF Chances
    <3> QED BY <3>1
  <2>2. CASE sch[s].stage = "later"
    <3>1. <<s, 1>> \in Chances(j) /\ <<s, 1>> \notin Chances(j)'
      BY <2>2 DEF Chances
    <3> QED BY <3>1
  <2> QED BY <1>2, <1>3, <1>5, <2>1, <2>2
<1>6. sjob'[j].attempts >= MaxScrapeAttempts =>
             sjob'[j].attempts - MaxScrapeAttempts + Waits(j)' + Cardinality(Chances(j)')
                <= 2 * (Cardinality(ScrapeSchedulers) - 1)
  <2>1. Waits(j)' <= Waits(j) \/ \E c \in Chances(j) : c \notin Chances(j)'
    BY <1>3, <1>5
  <2> QED BY <1>1, <1>2, <1>4, <2>1, NoMoreChances
<1>7. \A k \in ScrapeJobs \ {j} : sjob'[k].attempts >= MaxScrapeAttempts =>
          sjob'[k].attempts - MaxScrapeAttempts + Waits(k)' + Cardinality(Chances(k)')
              <= 2 * (Cardinality(ScrapeSchedulers) - 1)
  <2>1. \A k \in ScrapeJobs \ {j} : sch'[s].job # k \/ sch'[s].stage \in {"idle", "claim"}
    OBVIOUS
  <2> QED BY <1>2, <2>1, OtherJobs
<1>8. Unsubmitted'
  BY <1>2 DEF AttemptInv, Unsubmitted
<1> QED BY <1>6, <1>7, <1>8 DEF AttemptInv, ChancesBounded

LEMMA SchedulerCap ==
    ASSUME AttemptInv, QueueInv', NEW s \in ScrapeSchedulers,
           LookupFails(s) \/ Requeue(s) \/ Reschedule(s)
    PROVE  AttemptInv'
<1>0. PICK j \in ScrapeJobs : sch[s].job = j
  BY DEF LookupFails, Requeue, Reschedule, AttemptInv, QueueInv, Working
<1>1. /\ sjob \in [ScrapeJobs -> QueueRows] /\ sch \in [ScrapeSchedulers -> QueueTicks]
      /\ QueueTypeOK /\ sch[s].tries \in Nat
  BY QueueTypeParts DEF AttemptInv, QueueInv, QueueTicks
<1>2. /\ sch[s].stage \in {"run", "later"}
      /\ \/ CompleteScrapeJob(j, "FAILED") /\ Again(s)
         \/ UNCHANGED sjob /\ Again(s)
         \/ RescheduleScrapeJob(j) /\ sch[s].stage = "later" /\ Again(s)
         \/ /\ CompleteScrapeJob(j, "PENDING") /\ sch' = [sch EXCEPT ![s].stage = "later"]
            /\ sch[s].stage = "run" /\ sch[s].tries < MaxScrapeAttempts
  BY <1>0, <1>1, ScrapeQueueConstants
     DEF LookupFails, Requeue, Reschedule, FailJob, AttemptInv, QueueInv, Working
<1>3. Again(s) => /\ sch'[s].stage \in {"idle", "claim"}
                  /\ \A r \in ScrapeSchedulers \ {s} : sch'[r] = sch[r]
  BY <1>1, AgainTicks
<1>4. sch' = [sch EXCEPT ![s].stage = "later"] =>
        /\ sch'[s].stage = "later" /\ sch'[s].job = j
        /\ \A r \in ScrapeSchedulers \ {s} : sch'[r] = sch[r]
  BY <1>0, <1>1 DEF QueueTicks
<1>5. sjob[j] \in QueueRows
  BY <1>1, <1>2
<1>6. /\ CompleteScrapeJob(j, "FAILED") => sjob'[j].status = "FAILED"
      /\ CompleteScrapeJob(j, "PENDING") => sjob'[j].status = "PENDING"
      /\ RescheduleScrapeJob(j) => sjob'[j].status = "PENDING" /\ sjob'[j].due = FALSE
      /\ CompleteScrapeJob(j, "PENDING") => sjob'[j].due = sjob[j].due
  BY <1>1, <1>2, <1>5 DEF CompleteScrapeJob, RescheduleScrapeJob, QueueRows
<1>7. CASE CompleteScrapeJob(j, "FAILED") /\ Again(s)
  <2>1. ~ CompleteScrapeJob(j, "PENDING") /\ ~ RescheduleScrapeJob(j)
    BY <1>6, <1>7
  <2>2. \E x \in {"PENDING", "FAILED"} : CompleteScrapeJob(j, x)
    BY <1>7
  <2> QED BY <1>0, <1>2, <1>3, <1>7, <2>1, <2>2, ReleaseCap
<1>8. CASE UNCHANGED sjob /\ Again(s)
  <2>1. sjob' = sjob
    BY <1>8
  <2> QED BY <1>0, <1>2, <1>3, <1>8, <2>1, ReleaseCap
<1>9. CASE RescheduleScrapeJob(j) /\ sch[s].stage = "later" /\ Again(s)
  BY <1>2, <1>3, <1>9, <1>0, ReleaseCap
<1>10. CASE /\ CompleteScrapeJob(j, "PENDING") /\ sch' = [sch EXCEPT ![s].stage = "later"]
            /\ sch[s].stage = "run" /\ sch[s].tries < MaxScrapeAttempts
  BY <1>2, <1>4, <1>10, <1>0, ReleaseCap
<1> QED BY <1>2, <1>7, <1>8, <1>9, <1>10

LEMMA AttemptStep == AttemptInv /\ [QueueNext]_queueVars => AttemptInv'
<1> SUFFICES ASSUME AttemptInv, [QueueNext]_queueVars PROVE AttemptInv'
  OBVIOUS
<1>1. QueueInv'
  BY QueueInvStep DEF AttemptInv
<1>2. CASE UNCHANGED queueVars
  <2>1. \A j \in ScrapeJobs : Waits(j)' = Waits(j) /\ Chances(j)' = Chances(j)
    BY <1>2 DEF queueVars, Waits, Chances
  <2> QED BY <1>1, <1>2, <2>1 DEF queueVars, AttemptInv, Unsubmitted, ChancesBounded
<1>3. ASSUME NEW s \in ScrapeSchedulers, StartTick(s) \/ SchedulerDies(s) PROVE AttemptInv'
  <2>1. /\ sch'[s].stage \in {"idle", "claim"} /\ UNCHANGED sjob
        /\ \A r \in ScrapeSchedulers \ {s} : sch'[r] = sch[r]
    <3>1. sch \in [ScrapeSchedulers -> QueueTicks]
      BY QueueTypeParts DEF AttemptInv, QueueInv
    <3>2. SchIdle.stage = "idle" /\ Claiming(DueJobs, TickBudget).stage = "claim"
      BY DEF SchIdle, Claiming
    <3> QED BY <1>3, <3>1, <3>2 DEF StartTick, SchedulerDies
  <2>2. \A k \in ScrapeJobs : sjob'[k].attempts >= MaxScrapeAttempts =>
            sjob'[k].attempts - MaxScrapeAttempts + Waits(k)' + Cardinality(Chances(k)')
                <= 2 * (Cardinality(ScrapeSchedulers) - 1)
    BY <1>1, <2>1, OtherJobs
  <2> QED BY <1>1, <2>1, <2>2 DEF AttemptInv, Unsubmitted, ChancesBounded
<1> QED BY <1>1, <1>2, <1>3, OutsideCap, ClaimCap, SchedulerCap DEF QueueNext

\* Blind requeues bring a failed job back, but no further than two claims for
\* every scheduler but one (ClaimAny, Requeue, Reschedule).
THEOREM AttemptsAreBounded == QueueSpec => []AttemptsBounded
<1>1. AttemptInv => AttemptsBounded
  <2> SUFFICES ASSUME AttemptInv, NEW j \in ScrapeJobs
               PROVE  sjob[j].attempts
                        <= MaxScrapeAttempts + 2 * (Cardinality(ScrapeSchedulers) - 1)
    BY DEF AttemptsBounded
  <2>1. /\ sjob[j].attempts \in Nat /\ MaxScrapeAttempts \in Nat
        /\ Cardinality(ScrapeSchedulers) \in Nat /\ Cardinality(ScrapeSchedulers) >= 1
        /\ Cardinality(Chances(j)) \in Nat /\ Waits(j) \in {0, 1}
    BY ScrapeQueueConstants, SchedulersCounted, ChancesCounted, QueueTypeParts
       DEF AttemptInv, QueueInv, QueueRows, Waits
  <2>2. CASE sjob[j].attempts >= MaxScrapeAttempts
    BY <2>1, <2>2 DEF AttemptInv, ChancesBounded
  <2>3. CASE sjob[j].attempts < MaxScrapeAttempts
    BY <2>1, <2>3
  <2> QED BY <2>1, <2>2, <2>3
<1> QED BY <1>1, InitCap, AttemptStep, PTL DEF QueueSpec

-----------------------------------------------------------------------------
(***************************************************************************)
(* Scraping: a batch shows the posts of its own run, a row nobody works on *)
(* has ended, and a target that succeeded has its post, for every number   *)
(* of requests, posts, items and mishaps.  The inductive invariant says of *)
(* each request how its row, its counters, the keys of its run and the     *)
(* items under them fit together at each of its steps.                     *)
(***************************************************************************)
TaskStages == {"idle", "cache", "job", "start", "row", "run", "record", "list", "ingest", "over"}

TaskRows == [kind : {"none", "target", "batch"}, stage : TaskStages,
             post : Posts \cup {NoPost}, threads : BOOLEAN, window : BOOLEAN,
             try : 1 .. SearchAttempts, left : SUBSET Slots,
             found : SUBSET Found, upserts : 0 .. MaxItems]

RequestRow == [status : {"none", "PENDING", "RUNNING", "SUCCESS", "SUCCEEDED", "FAILED"},
               run : 0 .. SearchAttempts, posts : 0 .. MaxItems, joined : SUBSET Found]

Stored == [row : Deliverable, by : Runs]

ScrapingTyped ==
    /\ task \in [Tasks -> TaskRows]
    /\ trow \in [Tasks -> RequestRow]
    /\ run \in [Runs -> ApifyRunRow]
    /\ DOMAIN bucket = Keys
    /\ \A k \in Keys : bucket[k] = <<>> \/ bucket[k] \in Stored
    /\ post \in [stored : SUBSET Posts, fresh : SUBSET Posts, sampled : SUBSET Posts,
                 talk : SUBSET Posts, linked : SUBSET Posts]
    /\ post.fresh \cup post.sampled \cup post.talk \cup post.linked \subseteq post.stored
    /\ hurts \in [left : 0 .. MaxHurts, on : SUBSET Tasks]

\* The row of a request has the columns of its table, and nothing is joined to
\* it before the last step; a batch that succeeded names the run whose posts
\* are joined.
RowFits(t) ==
    /\ task[t].stage = "idle" <=> task[t].kind = "none"
    /\ task[t].stage \in {"idle", "cache"} => trow[t].status = "none"
    /\ task[t].kind # "batch" => ScrapeJobRow(trow[t])
    /\ task[t].kind = "batch" => KeywordBatchRow(trow[t])
    /\ task[t].stage # "over" =>
         trow[t].joined = {} /\ trow[t].status \notin {"SUCCESS", "SUCCEEDED"}
    /\ trow[t].status = "SUCCEEDED" =>
         /\ \A j \in trow[t].joined : j.by = <<t, trow[t].run>>
         /\ Cardinality(trow[t].joined) <= trow[t].posts

\* What is found has been counted, and what is counted was listed.
CountsFit(t) ==
    /\ IsFiniteSet(task[t].found)
    /\ Cardinality(task[t].found) <= task[t].upserts
    /\ task[t].upserts + Cardinality(task[t].left) <= MaxItems
    /\ task[t].stage # "ingest" => task[t].found = {} /\ task[t].upserts = 0
    /\ \A f \in task[t].found : task[t].kind = "batch" => f.by = RunOf(t)

\* No key is noted for a run before its items are stored.
KeysAwait(t) ==
    /\ task[t].stage = "idle" => task[t].try = 1
    /\ task[t].stage # "over" =>
         \A n \in 1 .. SearchAttempts :
             n > task[t].try \/ (n = task[t].try /\ task[t].stage \notin {"list", "ingest"}) =>
                 run[<<t, n>>].keys = {}

\* The items a request is about to note, list or read are in storage, and, but
\* for those of a Threads user, which any target of that user overwrites, they
\* are from its own run.
Holds(t, i) ==
    /\ bucket[<<JobKey(t), i>>] \in Stored
    /\ JobKey(t) = RunOf(t) => bucket[<<JobKey(t), i>>].by = RunOf(t)

ItemsHeld(t) ==
    /\ task[t].stage \in {"record", "ingest"} => \A i \in task[t].left : Holds(t, i)
    /\ task[t].stage = "list" => \A i \in run[RunOf(t)].keys : Holds(t, i)

\* What StuckOnlyByFault and SuccessHasPost say of one request.
EndsWell(t) ==
    /\ t \notin hurts.on /\ task[t].stage = "over" =>
         trow[t].status \in {"none", "SUCCESS", "SUCCEEDED", "FAILED"}
    /\ trow[t].status = "SUCCESS" => task[t].post \in post.stored

Fits(t) == RowFits(t) /\ CountsFit(t) /\ KeysAwait(t) /\ ItemsHeld(t) /\ EndsWell(t)

ScrapeInv == ScrapingTyped /\ \A t \in Tasks : Fits(t)

LEMMA ScrapingTypes == ScrapeInv => ScrapingTypeOK
<1> SUFFICES ASSUME ScrapeInv PROVE ScrapingTypeOK
  OBVIOUS
<1>1. \A t \in Tasks : ScrapeJobRow(trow[t]) \/ KeywordBatchRow(trow[t])
  BY DEF ScrapeInv, Fits, RowFits
<1>2. \A k \in Keys : bucket[k] = <<>> \/ bucket[k] \in [row : Deliverable, by : Runs]
  BY DEF ScrapeInv, ScrapingTyped, Stored
<1>3. task \in [Tasks -> TaskRows] /\ run \in [Runs -> ApifyRunRow]
  BY DEF ScrapeInv, ScrapingTyped
<1>4. /\ post.stored \subseteq Posts
      /\ post.fresh \cup post.sampled \cup post.talk \cup post.linked \subseteq post.stored
      /\ hurts.left \in 0 .. MaxHurts /\ hurts.on \subseteq Tasks
  BY DEF ScrapeInv, ScrapingTyped
<1> QED BY <1>1, <1>2, <1>3, <1>4 DEF ScrapingTypeOK, TaskRows, TaskStages

LEMMA ScrapeBounds ==
    /\ MaxItems \in Nat /\ MaxHurts \in Nat /\ SearchAttempts \in Nat /\ SearchAttempts > 0
    /\ 1 \in 1 .. SearchAttempts /\ 0 \in 0 .. SearchAttempts /\ 0 \in 0 .. MaxItems
    /\ Cardinality({}) = 0 /\ IsFiniteSet({})
    /\ Shared \notin Runs
    /\ \A t \in Tasks, n \in 1 .. SearchAttempts : <<t, n>> \in Runs
<1>1. Cardinality({}) = 0 /\ IsFiniteSet({})
  BY FS_EmptySet
<1>2. Shared \notin Runs
  BY ScrapingConstants DEF Shared, Runs
<1> QED BY <1>1, <1>2, ScrapingConstants DEF Runs

\* The slots of a run are countable.
LEMMA SlotsCounted ==
    ASSUME NEW S \in SUBSET Slots
    PROVE  IsFiniteSet(S) /\ Cardinality(S) \in Nat /\ Cardinality(S) <= MaxItems
<1>1. IsFiniteSet(Slots) /\ Cardinality(Slots) = MaxItems
  BY ScrapeBounds, FS_Interval DEF Slots
<1> QED BY <1>1, FS_Subset, FS_CardinalityType

LEMMA BlankTask ==
    /\ Blank \in TaskRows
    /\ Blank.kind = "none" /\ Blank.stage = "idle" /\ Blank.try = 1
    /\ Blank.left = {} /\ Blank.found = {} /\ Blank.upserts = 0
BY ScrapeBounds DEF Blank, TaskRows, TaskStages, Found

LEMMA InitScrape == ScrapingInit => ScrapeInv
<1> SUFFICES ASSUME ScrapingInit PROVE ScrapeInv
  OBVIOUS
<1>1. \A t \in Tasks : task[t] = Blank
  BY DEF ScrapingInit
<1>2. \A t \in Tasks : trow[t] = [status |-> "none", run |-> 0, posts |-> 0, joined |-> {}]
  BY DEF ScrapingInit
<1>3. \A r \in Runs : run[r] = [status |-> "none", keys |-> {}]
  BY DEF ScrapingInit
<1>4. task \in [Tasks -> TaskRows]
  BY BlankTask DEF ScrapingInit
<1>5. trow \in [Tasks -> RequestRow]
  BY ScrapeBounds DEF ScrapingInit, RequestRow
<1>6. run \in [Runs -> ApifyRunRow]
  BY DEF ScrapingInit, ApifyRunRow
<1>7. ScrapingTyped
  BY <1>4, <1>5, <1>6, ScrapeBounds DEF ScrapingInit, ScrapingTyped
<1>8. ASSUME NEW t \in Tasks PROVE Fits(t)
  <2>1. RowFits(t)
    BY <1>1, <1>2, BlankTask DEF RowFits, ScrapeJobRow
  <2>2. CountsFit(t)
    BY <1>1, BlankTask, ScrapeBounds DEF CountsFit
  <2>3. KeysAwait(t)
    BY <1>1, <1>3, BlankTask, ScrapeBounds DEF KeysAwait
  <2>4. ItemsHeld(t)
    BY <1>1, BlankTask DEF ItemsHeld
  <2>5. EndsWell(t)
    BY <1>1, <1>2, BlankTask DEF EndsWell
  <2> QED BY <2>1, <2>2, <2>3, <2>4, <2>5 DEF Fits
<1> QED BY <1>7, <1>8 DEF ScrapeInv

-----------------------------------------------------------------------------
(***************************************************************************)
(* What a step leaves to the other requests, and what it does to its own.  *)
(***************************************************************************)
PostRows == [stored : SUBSET Posts, fresh : SUBSET Posts, sampled : SUBSET Posts,
             talk : SUBSET Posts, linked : SUBSET Posts]

PostsFit(table) ==
    table.fresh \cup table.sampled \cup table.talk \cup table.linked \subseteq table.stored

\* A request's items lie under its own run or under the name all Threads
\* targets share.
LEMMA KeysOf ==
    ASSUME ScrapingTyped, NEW t \in Tasks
    PROVE  /\ RunOf(t) \in Runs /\ RunOf(t) = <<t, task[t].try>>
           /\ JobKey(t) \in {RunOf(t), Shared}
           /\ RunOf(t) # Shared
           /\ \A i \in Slots : <<JobKey(t), i>> \in Keys
           /\ task[t].kind = "batch" => JobKey(t) = RunOf(t)
<1>1. task[t].try \in 1 .. SearchAttempts
  BY DEF ScrapingTyped, TaskRows
<1>2. RunOf(t) \in Runs
  BY <1>1 DEF RunOf, Runs
<1> QED BY <1>2, ScrapeBounds DEF RunOf, JobKey, Keys

\* What another request does not touch still fits.
LEMMA RestFits ==
    ASSUME ScrapeInv, NEW t,
           \A u \in Tasks : u # t => task'[u] = task[u] /\ trow'[u] = trow[u],
           \A u \in Tasks, n \in 1 .. SearchAttempts :
             u # t => run'[<<u, n>>].keys = run[<<u, n>>].keys,
           \A k \in Keys : \/ bucket'[k] = bucket[k]
                           \/ bucket'[k] \in Stored /\ k[1] \in {Shared, <<t, task[t].try>>},
           post.stored \subseteq post'.stored, hurts.on \subseteq hurts'.on,
           NEW u \in Tasks, u # t
    PROVE  Fits(u)'
<1>1. task[u] \in TaskRows /\ task[u].try \in 1 .. SearchAttempts /\ task[u].left \subseteq Slots
  BY DEF ScrapeInv, ScrapingTyped, TaskRows
<1>2. RowFits(u)' /\ CountsFit(u)'
  BY DEF ScrapeInv, Fits, RowFits, CountsFit, RunOf
<1>3. KeysAwait(u)'
  BY DEF ScrapeInv, Fits, KeysAwait
<1>4. RunOf(u)' = RunOf(u) /\ JobKey(u)' = JobKey(u)
  BY DEF RunOf, JobKey
<1>5. /\ RunOf(u) = <<u, task[u].try>> /\ RunOf(u) \in Runs
      /\ JobKey(u) \in {RunOf(u), Shared} /\ RunOf(u) # Shared
      /\ \A i \in Slots : <<JobKey(u), i>> \in Keys
  BY KeysOf DEF ScrapeInv
<1>6. ASSUME NEW i \in Slots, Holds(u, i) PROVE Holds(u, i)'
  <2>1. PICK k \in Keys : k = <<JobKey(u), i>>
    BY <1>5
  <2>2. bucket'[k] = bucket[k] \/ (bucket'[k] \in Stored /\ k[1] = Shared)
    BY <1>5, <2>1
  <2>3. k[1] = JobKey(u)
    BY <2>1
  <2>4. bucket'[k] \in Stored /\ (JobKey(u) = RunOf(u) => bucket'[k].by = RunOf(u))
    BY <1>5, <1>6, <2>1, <2>2, <2>3 DEF Holds
  <2> QED BY <1>4, <2>1, <2>4 DEF Holds
<1>7. run'[RunOf(u)].keys = run[RunOf(u)].keys /\ run[RunOf(u)].keys \subseteq Slots
  BY <1>1, <1>5 DEF ScrapeInv, ScrapingTyped, ApifyRunRow
<1>8. ItemsHeld(u)'
  BY <1>1, <1>4, <1>6, <1>7 DEF ScrapeInv, Fits, ItemsHeld
<1>9. EndsWell(u)'
  BY DEF ScrapeInv, Fits, EndsWell
<1> QED BY <1>2, <1>3, <1>8, <1>9 DEF Fits

\* A step of request t that leaves the tables typed and t itself fitting.
LEMMA OwnStep ==
    ASSUME ScrapeInv, ScrapingTyped', NEW t \in Tasks, Fits(t)',
           \A u \in Tasks : u # t => task'[u] = task[u] /\ trow'[u] = trow[u],
           \A u \in Tasks, n \in 1 .. SearchAttempts :
             u # t => run'[<<u, n>>].keys = run[<<u, n>>].keys,
           \A k \in Keys : \/ bucket'[k] = bucket[k]
                           \/ bucket'[k] \in Stored /\ k[1] \in {Shared, <<t, task[t].try>>},
           post.stored \subseteq post'.stored, hurts.on \subseteq hurts'.on
    PROVE  ScrapeInv'
<1>1. \A u \in Tasks : u # t => Fits(u)'
  BY RestFits
<1> QED BY <1>1 DEF ScrapeInv

LEMMA Hurting ==
    ASSUME ScrapingTyped, NEW t \in Tasks, Hurt(t) \/ Fine
    PROVE  /\ hurts' \in [left : 0 .. MaxHurts, on : SUBSET Tasks]
           /\ hurts.on \subseteq hurts'.on
           /\ Hurt(t) => t \in hurts'.on
<1>1. CASE Fine
  BY <1>1, ScrapeBounds DEF Hurt, Fine, ScrapingTyped
<1>2. CASE Hurt(t)
  <2>1. hurts.left \in 0 .. MaxHurts /\ hurts.left > 0 /\ hurts.on \subseteq Tasks
    BY <1>2 DEF Hurt, ScrapingTyped
  <2>2. hurts.left - 1 \in 0 .. MaxHurts
    BY <2>1, ScrapeBounds
  <2> QED BY <1>2, <2>1, <2>2 DEF Hurt
<1> QED BY <1>1, <1>2

LEMMA Moved ==
    ASSUME ScrapingTyped, NEW t \in Tasks, NEW s \in TaskStages, Move(t, s)
    PROVE  /\ task' \in [Tasks -> TaskRows]
           /\ \A u \in Tasks : u # t => task'[u] = task[u]
           /\ task'[t].stage = s
           /\ task'[t].kind = task[t].kind /\ task'[t].post = task[t].post
           /\ task'[t].threads = task[t].threads /\ task'[t].window = task[t].window
           /\ task'[t].try = task[t].try /\ task'[t].left = task[t].left
           /\ task'[t].found = task[t].found /\ task'[t].upserts = task[t].upserts
<1>1. PICK q : q = task'[t]
  OBVIOUS
<1>2. task[t] \in TaskRows /\ q = [task[t] EXCEPT !.stage = s]
  BY <1>1 DEF ScrapingTyped, Move
<1>3. /\ q \in TaskRows /\ q.stage = s
      /\ q.kind = task[t].kind /\ q.post = task[t].post
      /\ q.threads = task[t].threads /\ q.window = task[t].window
      /\ q.try = task[t].try /\ q.left = task[t].left
      /\ q.found = task[t].found /\ q.upserts = task[t].upserts
  BY <1>2 DEF TaskRows
<1>4. task' = [task EXCEPT ![t] = q]
  BY <1>1, <1>2 DEF ScrapingTyped, Move
<1> QED BY <1>1, <1>3, <1>4 DEF ScrapingTyped

LEMMA EndMakes ==
    ASSUME ScrapingTyped, NEW t \in Tasks
    PROVE  /\ Ended(t) \in TaskRows
           /\ Ended(t).stage = "over" /\ Ended(t).kind = task[t].kind
           /\ Ended(t).post = task[t].post /\ Ended(t).try = 1
           /\ Ended(t).left = {} /\ Ended(t).found = {} /\ Ended(t).upserts = 0
<1>1. task[t].kind \in {"none", "target", "batch"} /\ task[t].post \in Posts \cup {NoPost}
  BY DEF ScrapingTyped, TaskRows
<1> QED BY <1>1, ScrapeBounds DEF Ended, Blank, TaskRows, TaskStages, Found

\* A request that is over fits when its row does.
LEMMA OverFits ==
    ASSUME ScrapingTyped, NEW t \in Tasks, task[t].kind # "none", task'[t] = Ended(t),
           task[t].kind # "batch" => ScrapeJobRow(trow'[t]),
           task[t].kind = "batch" => KeywordBatchRow(trow'[t]),
           trow'[t].status = "SUCCEEDED" =>
             /\ \A j \in trow'[t].joined : j.by = <<t, trow'[t].run>>
             /\ Cardinality(trow'[t].joined) <= trow'[t].posts,
           t \notin hurts'.on => trow'[t].status \in {"none", "SUCCESS", "SUCCEEDED", "FAILED"},
           trow'[t].status = "SUCCESS" => task[t].post \in post'.stored
    PROVE  Fits(t)'
<1>1. PICK q : q = Ended(t)
  OBVIOUS
<1>2. /\ q.stage = "over" /\ q.kind = task[t].kind /\ q.post = task[t].post
      /\ q.left = {} /\ q.found = {} /\ q.upserts = 0
  BY <1>1, EndMakes
<1>3. task'[t] = q
  BY <1>1
<1>4. RowFits(t)'
  BY <1>2, <1>3 DEF RowFits
<1>5. CountsFit(t)'
  <2>1. IsFiniteSet(q.found) /\ Cardinality(q.found) = 0 /\ Cardinality(q.left) = 0
    BY <1>2, ScrapeBounds
  <2>2. 0 + 0 <= MaxItems
    BY ScrapeBounds
  <2> QED BY <1>2, <1>3, <2>1, <2>2 DEF CountsFit
<1>6. KeysAwait(t)' /\ ItemsHeld(t)' /\ EndsWell(t)'
  BY <1>2, <1>3 DEF KeysAwait, ItemsHeld, EndsWell
<1> QED BY <1>4, <1>5, <1>6 DEF Fits

LEMMA EndInv ==
    ASSUME ScrapeInv, NEW t \in Tasks, task[t].stage # "idle", End(t),
           UNCHANGED <<run, bucket>>,
           NEW row \in RequestRow, trow' = [trow EXCEPT ![t] = row],
           post' \in PostRows, PostsFit(post'), post.stored \subseteq post'.stored,
           Hurt(t) \/ Fine,
           task[t].kind # "batch" => ScrapeJobRow(row),
           task[t].kind = "batch" => KeywordBatchRow(row),
           row.status = "SUCCEEDED" =>
             /\ \A j \in row.joined : j.by = <<t, row.run>>
             /\ Cardinality(row.joined) <= row.posts,
           ~Hurt(t) => row.status \in {"none", "SUCCESS", "SUCCEEDED", "FAILED"},
           row.status = "SUCCESS" => task[t].post \in post'.stored
    PROVE  ScrapeInv'
<1>1. ScrapingTyped /\ task \in [Tasks -> TaskRows] /\ trow \in [Tasks -> RequestRow]
  BY DEF ScrapeInv, ScrapingTyped
<1>2. /\ hurts' \in [left : 0 .. MaxHurts, on : SUBSET Tasks]
      /\ hurts.on \subseteq hurts'.on
      /\ Hurt(t) => t \in hurts'.on
  BY <1>1, Hurting
<1>3. /\ task' \in [Tasks -> TaskRows] /\ task'[t] = Ended(t)
      /\ \A u \in Tasks : u # t => task'[u] = task[u]
  BY <1>1, EndMakes DEF End
<1>4. /\ trow' \in [Tasks -> RequestRow] /\ trow'[t] = row
      /\ \A u \in Tasks : u # t => trow'[u] = trow[u]
  BY <1>1
<1>5. ScrapingTyped'
  BY <1>1, <1>2, <1>3, <1>4 DEF ScrapingTyped, PostRows, PostsFit
<1>6. Fits(t)'
  <2>1. task[t].kind # "none"
    BY DEF ScrapeInv, Fits, RowFits
  <2> QED BY <1>1, <1>2, <1>3, <1>4, <2>1, OverFits
<1> QED BY <1>2, <1>3, <1>4, <1>5, <1>6, OwnStep

LEMMA ConcludeRow ==
    ASSUME ScrapeInv, NEW t \in Tasks, NEW row \in RequestRow, Conclude(t, row)
    PROVE  \E r \in {row, trow[t]} :
             /\ trow' = [trow EXCEPT ![t] = r]
             /\ Hurt(t) \/ Fine
             /\ ~Hurt(t) => r = row
<1>1. trow = [trow EXCEPT ![t] = trow[t]]
  BY DEF ScrapeInv, ScrapingTyped
<1> QED BY <1>1 DEF Conclude

\* The row a request has, with another status.
LEMMA RowMakes ==
    ASSUME ScrapeInv, NEW t \in Tasks, task[t].stage # "over",
           NEW s \in {"none", "PENDING", "RUNNING", "SUCCESS", "SUCCEEDED", "FAILED"}
    PROVE  /\ trow[t] \in RequestRow
           /\ trow[t].joined = {}
           /\ [trow[t] EXCEPT !.status = s] \in RequestRow
           /\ [trow[t] EXCEPT !.status = s].status = s
           /\ [trow[t] EXCEPT !.status = s].joined = {}
           /\ [trow[t] EXCEPT !.status = s].run = trow[t].run
           /\ [trow[t] EXCEPT !.status = s].posts = trow[t].posts
<1>1. trow[t] \in RequestRow /\ trow[t].joined = {}
  BY DEF ScrapeInv, ScrapingTyped, Fits, RowFits
<1> QED BY <1>1 DEF RequestRow

LEMMA BatchRowMakes ==
    ASSUME NEW row \in RequestRow, NEW s \in {"PENDING", "RUNNING", "SUCCEEDED", "FAILED"},
           NEW k \in 0 .. SearchAttempts, NEW n \in 0 .. MaxItems
    PROVE  /\ updateKeywordBatchStatus(row, s, k, n) \in RequestRow
           /\ KeywordBatchRow(updateKeywordBatchStatus(row, s, k, n))
           /\ updateKeywordBatchStatus(row, s, k, n).status = s
           /\ updateKeywordBatchStatus(row, s, k, n).joined = row.joined
           /\ updateKeywordBatchStatus(row, s, k, n).posts = n
           /\ k # 0 => updateKeywordBatchStatus(row, s, k, n).run = k
<1>1. PICK q : q = updateKeywordBatchStatus(row, s, k, n)
  OBVIOUS
<1>2. /\ q \in RequestRow /\ q.status = s /\ q.joined = row.joined /\ q.posts = n
      /\ k # 0 => q.run = k
  <2>1. CASE k = 0
    <3>1. q = [row EXCEPT !.status = s, !.posts = n, !.run = row.run]
      BY <1>1, <2>1 DEF updateKeywordBatchStatus
    <3> QED BY <2>1, <3>1 DEF RequestRow
  <2>2. CASE k # 0
    <3>1. q = [row EXCEPT !.status = s, !.posts = n, !.run = k]
      BY <1>1, <2>2 DEF updateKeywordBatchStatus
    <3> QED BY <2>2, <3>1 DEF RequestRow
  <2> QED BY <2>1, <2>2
<1>3. KeywordBatchRow(q)
  BY <1>2 DEF KeywordBatchRow, RequestRow
<1> QED BY <1>1, <1>2, <1>3

\* A request fails, and its row says so unless that write fails too.
LEMMA FailInv ==
    ASSUME ScrapeInv, NEW t \in Tasks, task[t].stage \notin {"idle", "cache", "over"}, Fail(t),
           UNCHANGED <<run, bucket, post>>
    PROVE  ScrapeInv'
<1>1. /\ ScrapingTyped /\ Fits(t) /\ trow[t] \in RequestRow /\ trow[t].joined = {}
      /\ post \in PostRows /\ PostsFit(post)
  BY RowMakes DEF ScrapeInv, ScrapingTyped, PostRows, PostsFit
<1>2. End(t)
  BY DEF Fail
<1>3. PICK row \in RequestRow :
        /\ Conclude(t, row)
        /\ row.status = "FAILED" /\ row.joined = {}
        /\ task[t].kind # "batch" => ScrapeJobRow(row)
        /\ task[t].kind = "batch" => KeywordBatchRow(row)
  <2>1. CASE task[t].kind = "batch"
    <3>1. Conclude(t, updateKeywordBatchStatus(trow[t], "FAILED", 0, 0))
      BY <2>1 DEF Fail, failBatch
    <3>2. PICK row : row = updateKeywordBatchStatus(trow[t], "FAILED", 0, 0)
      OBVIOUS
    <3>3. /\ row \in RequestRow /\ row.status = "FAILED" /\ row.joined = {}
          /\ KeywordBatchRow(row)
      BY <1>1, <3>2, BatchRowMakes, ScrapeBounds
    <3> QED BY <2>1, <3>1, <3>2, <3>3
  <2>2. CASE task[t].kind # "batch"
    <3>1. Conclude(t, [trow[t] EXCEPT !.status = "FAILED"])
      BY <2>2 DEF Fail, failJob
    <3>2. ScrapeJobRow(trow[t])
      BY <1>1, <2>2 DEF Fits, RowFits
    <3>3. PICK row : row = [trow[t] EXCEPT !.status = "FAILED"]
      OBVIOUS
    <3>4. row \in RequestRow /\ row.status = "FAILED" /\ row.joined = {} /\ row.run = trow[t].run
      BY <3>3, RowMakes
    <3> QED BY <2>2, <3>1, <3>2, <3>3, <3>4 DEF ScrapeJobRow
  <2> QED BY <2>1, <2>2
<1>4. PICK r \in {row, trow[t]} :
        trow' = [trow EXCEPT ![t] = r] /\ (Hurt(t) \/ Fine) /\ (~Hurt(t) => r = row)
  BY <1>3, ConcludeRow
<1>5. /\ r \in RequestRow /\ r.joined = {}
      /\ task[t].kind # "batch" => ScrapeJobRow(r)
      /\ task[t].kind = "batch" => KeywordBatchRow(r)
      /\ ~Hurt(t) => r.status = "FAILED"
      /\ r.status = "SUCCESS" => task[t].post \in post.stored
  BY <1>1, <1>3, <1>4 DEF Fits, RowFits, EndsWell
<1>6. Cardinality(r.joined) <= r.posts
  BY <1>5, ScrapeBounds DEF RequestRow
<1>7. post' \in PostRows /\ PostsFit(post') /\ post'.stored = post.stored
  BY <1>1
<1> QED BY <1>2, <1>4, <1>5, <1>6, <1>7, EndInv

\* A statement fails and the request is given up.
LEMMA HurtEnds ==
    ASSUME ScrapeInv, NEW t \in Tasks, task[t].stage \notin {"idle", "over"}, End(t), Hurt(t),
           UNCHANGED <<trow, run, bucket, post>>
    PROVE  ScrapeInv'
<1>1. /\ ScrapingTyped /\ Fits(t) /\ trow[t] \in RequestRow /\ trow[t].joined = {}
      /\ post \in PostRows /\ PostsFit(post) /\ trow \in [Tasks -> RequestRow]
  BY RowMakes DEF ScrapeInv, ScrapingTyped, PostRows, PostsFit
<1>2. trow' = [trow EXCEPT ![t] = trow[t]]
  BY <1>1
<1>3. /\ task[t].kind # "batch" => ScrapeJobRow(trow[t])
      /\ task[t].kind = "batch" => KeywordBatchRow(trow[t])
      /\ trow[t].status = "SUCCESS" => task[t].post \in post.stored
      /\ Cardinality(trow[t].joined) <= trow[t].posts
  BY <1>1, ScrapeBounds DEF Fits, RowFits, EndsWell, RequestRow
<1>4. post' \in PostRows /\ PostsFit(post') /\ post'.stored = post.stored
  BY <1>1
<1> QED BY <1>1, <1>2, <1>3, <1>4, EndInv

LEMMA AbandonInv ==
    ASSUME ScrapeInv, NEW t \in Tasks, task[t].stage \notin {"idle", "over"}, Abandon(t),
           UNCHANGED <<run, bucket, post>>
    PROVE  ScrapeInv'
<1>1. /\ ScrapingTyped /\ Fits(t) /\ trow[t] \in RequestRow /\ trow[t].joined = {}
      /\ post \in PostRows /\ PostsFit(post) /\ trow \in [Tasks -> RequestRow]
      /\ task[t].kind \in {"none", "target", "batch"}
  BY RowMakes DEF ScrapeInv, ScrapingTyped, PostRows, PostsFit, TaskRows
<1>2. End(t) /\ Hurt(t)
  BY DEF Abandon
<1>3. CASE task[t].kind = "target"
  BY <1>2, <1>3, HurtEnds DEF Abandon
<1>4. CASE task[t].kind # "target"
  <2>1. PICK r : r = updateKeywordBatchStatus(trow[t], "FAILED", 0, 0)
    OBVIOUS
  <2>2. r \in RequestRow /\ KeywordBatchRow(r) /\ r.status = "FAILED" /\ r.joined = {}
    <3>1. 0 \in 0 .. SearchAttempts /\ 0 \in 0 .. MaxItems
      BY ScrapeBounds
    <3>2. trow[t] \in RequestRow /\ trow[t].joined = {}
      BY <1>1
    <3> QED BY <2>1, <3>1, <3>2, BatchRowMakes
  <2>3. trow' = [trow EXCEPT ![t] = r]
    BY <1>4, <2>1 DEF Abandon
  <2>4. task[t].kind # "none"
    BY <1>1 DEF Fits, RowFits
  <2> QED BY <1>1, <1>2, <1>4, <2>2, <2>3, <2>4, EndInv
<1> QED BY <1>3, <1>4

-----------------------------------------------------------------------------
(***************************************************************************)
(* The requests, the runner, the ingestor and the world around.            *)
(***************************************************************************)
\* A request that goes on with another stage, its row fitting.
LEMMA GoesOn ==
    ASSUME ScrapeInv, NEW t \in Tasks, NEW s \in TaskStages \ {"idle", "cache", "over", "record", "ingest"},
           Move(t, s), task[t].stage \notin {"idle", "over", "ingest"},
           UNCHANGED <<bucket, post>>, Hurt(t) \/ Fine,
           run' \in [Runs -> ApifyRunRow],
           \A u \in Tasks, n \in 1 .. SearchAttempts :
             u # t => run'[<<u, n>>].keys = run[<<u, n>>].keys,
           \A n \in 1 .. SearchAttempts :
             n > task[t].try \/ (n = task[t].try /\ s # "list") => run'[<<t, n>>].keys = {},
           s = "list" => \A i \in run'[RunOf(t)].keys : Holds(t, i),
           NEW row \in RequestRow, trow' = [trow EXCEPT ![t] = row],
           row.joined = {}, row.status # "SUCCESS", row.status # "SUCCEEDED",
           task[t].kind # "batch" => ScrapeJobRow(row),
           task[t].kind = "batch" => KeywordBatchRow(row)
    PROVE  ScrapeInv'
<1>1. ScrapingTyped /\ Fits(t) /\ trow \in [Tasks -> RequestRow]
  BY DEF ScrapeInv, ScrapingTyped
<1>2. /\ hurts' \in [left : 0 .. MaxHurts, on : SUBSET Tasks]
      /\ hurts.on \subseteq hurts'.on
  BY <1>1, Hurting
<1>3. /\ task' \in [Tasks -> TaskRows]
      /\ \A u \in Tasks : u # t => task'[u] = task[u]
      /\ task'[t].stage = s
      /\ task'[t].kind = task[t].kind /\ task'[t].post = task[t].post
      /\ task'[t].threads = task[t].threads
      /\ task'[t].try = task[t].try /\ task'[t].left = task[t].left
      /\ task'[t].found = task[t].found /\ task'[t].upserts = task[t].upserts
  BY <1>1, Moved
<1>4. /\ trow' \in [Tasks -> RequestRow] /\ trow'[t] = row
      /\ \A u \in Tasks : u # t => trow'[u] = trow[u]
  BY <1>1
<1>5. ScrapingTyped'
  BY <1>1, <1>2, <1>3, <1>4 DEF ScrapingTyped
<1>6. RunOf(t)' = RunOf(t) /\ JobKey(t)' = JobKey(t)
  BY <1>3 DEF RunOf, JobKey
<1>7. RowFits(t)'
  BY <1>1, <1>3, <1>4 DEF Fits, RowFits
<1>8. CountsFit(t)'
  BY <1>1, <1>3 DEF Fits, CountsFit
<1>9. KeysAwait(t)'
  BY <1>3 DEF KeysAwait
<1>10. ItemsHeld(t)'
  BY <1>3, <1>6 DEF ItemsHeld, Holds
<1>11. EndsWell(t)'
  BY <1>3, <1>4 DEF EndsWell
<1> QED BY <1>2, <1>3, <1>4, <1>5, <1>7, <1>8, <1>9, <1>10, <1>11, OwnStep DEF Fits

LEMMA TargetInv ==
    ASSUME ScrapeInv, NEW t \in Tasks, ScrapeTarget(t)
    PROVE  ScrapeInv'
<1>1. ScrapingTyped /\ Fits(t) /\ task[t].stage = "idle" /\ UNCHANGED <<trow, run, bucket, post, hurts>>
  BY DEF ScrapeInv, ScrapeTarget, Busy
<1>2. PICK p \in Posts \cup {NoPost} :
        task' = [task EXCEPT ![t] = [Blank EXCEPT !.kind = "target", !.stage = "cache",
                                                  !.post = p, !.threads = p \in ThreadsPosts]]
  BY DEF ScrapeTarget
<1>3. PICK q : q = [Blank EXCEPT !.kind = "target", !.stage = "cache",
                                 !.post = p, !.threads = p \in ThreadsPosts]
  OBVIOUS
<1>4. /\ q \in TaskRows /\ q.kind = "target" /\ q.stage = "cache"
      /\ q.try = 1 /\ q.left = {} /\ q.found = {} /\ q.upserts = 0
  <2>1. PICK b : b = (p \in ThreadsPosts)
    OBVIOUS
  <2>6. b \in BOOLEAN
    <3>1. (p \in ThreadsPosts) \in BOOLEAN
      OBVIOUS
    <3> QED BY <2>1, <3>1, Zenon
  <2>2. q = [Blank EXCEPT !.kind = "target", !.stage = "cache", !.post = p, !.threads = b]
    BY <1>3, <2>1
  <2>3. PICK e : e = Blank
    OBVIOUS
  <2>4. e \in TaskRows /\ e.try = 1 /\ e.left = {} /\ e.found = {} /\ e.upserts = 0
    BY <2>3, BlankTask
  <2>5. q = [e EXCEPT !.kind = "target", !.stage = "cache", !.post = p, !.threads = b]
    BY <2>2, <2>3
  <2> QED BY <2>4, <2>5, <2>6 DEF TaskRows, TaskStages
<1>5. /\ task' \in [Tasks -> TaskRows] /\ task'[t] = q
      /\ \A u \in Tasks : u # t => task'[u] = task[u]
  BY <1>1, <1>2, <1>3, <1>4 DEF ScrapingTyped
<1>6. ScrapingTyped'
  BY <1>1, <1>5 DEF ScrapingTyped
<1>7. trow[t].status = "none" /\ task[t].kind = "none" /\ task[t].found = {} /\ task[t].upserts = 0
  BY <1>1 DEF Fits, RowFits, CountsFit
<1>8. RowFits(t)'
  BY <1>1, <1>4, <1>5, <1>7 DEF Fits, RowFits
<1>9. CountsFit(t)'
  <2>1. IsFiniteSet(q.found) /\ Cardinality(q.found) = 0 /\ Cardinality(q.left) = 0 /\ 0 + 0 <= MaxItems
    BY <1>4, ScrapeBounds
  <2> QED BY <1>4, <1>5, <2>1 DEF CountsFit
<1>10. KeysAwait(t)'
  <2>1. task[t].try = 1 /\ task[t].stage = "idle"
    BY <1>1 DEF Fits, KeysAwait
  <2> QED BY <1>1, <1>4, <1>5, <2>1 DEF Fits, KeysAwait
<1>11. ItemsHeld(t)' /\ EndsWell(t)'
  BY <1>1, <1>4, <1>5, <1>7 DEF ItemsHeld, EndsWell
<1> QED BY <1>1, <1>5, <1>6, <1>8, <1>9, <1>10, <1>11, OwnStep DEF Fits

LEMMA BatchInv ==
    ASSUME ScrapeInv, NEW t \in Tasks, CreateBatch(t)
    PROVE  ScrapeInv'
<1>1. ScrapingTyped /\ Fits(t) /\ task[t].stage = "idle" /\ UNCHANGED <<run, bucket, post, hurts>>
  BY DEF ScrapeInv, CreateBatch, Busy
<1>2. PICK threads \in BOOLEAN, window \in BOOLEAN :
        task' = [task EXCEPT ![t] = [Blank EXCEPT !.kind = "batch", !.stage = "start",
                                                  !.threads = threads, !.window = window]]
  BY DEF CreateBatch
<1>3. PICK q : q = [Blank EXCEPT !.kind = "batch", !.stage = "start",
                                 !.threads = threads, !.window = window]
  OBVIOUS
<1>4. /\ q \in TaskRows /\ q.kind = "batch" /\ q.stage = "start"
      /\ q.try = 1 /\ q.left = {} /\ q.found = {} /\ q.upserts = 0
  <2>1. PICK e : e = Blank
    OBVIOUS
  <2>2. e \in TaskRows /\ e.try = 1 /\ e.left = {} /\ e.found = {} /\ e.upserts = 0
    BY <2>1, BlankTask
  <2>3. q = [e EXCEPT !.kind = "batch", !.stage = "start", !.threads = threads, !.window = window]
    BY <1>3, <2>1
  <2> QED BY <2>2, <2>3 DEF TaskRows, TaskStages
<1>5. /\ task' \in [Tasks -> TaskRows] /\ task'[t] = q
      /\ \A u \in Tasks : u # t => task'[u] = task[u]
  BY <1>1, <1>2, <1>3, <1>4 DEF ScrapingTyped
<1>6. PICK r : r = [trow[t] EXCEPT !.status = "PENDING"]
  OBVIOUS
<1>7. /\ r \in RequestRow /\ r.status = "PENDING" /\ r.joined = {}
      /\ r.run = trow[t].run /\ r.posts = trow[t].posts
  BY <1>1, <1>6, RowMakes
<1>8. /\ trow' \in [Tasks -> RequestRow] /\ trow'[t] = r
      /\ \A u \in Tasks : u # t => trow'[u] = trow[u]
  BY <1>1, <1>6, <1>7 DEF CreateBatch, createKeywordBatch, ScrapingTyped
<1>9. ScrapingTyped'
  BY <1>1, <1>5, <1>8 DEF ScrapingTyped
<1>10. RowFits(t)'
  BY <1>4, <1>5, <1>7, <1>8 DEF RowFits, KeywordBatchRow, RequestRow
<1>11. CountsFit(t)'
  <2>1. IsFiniteSet(q.found) /\ Cardinality(q.found) = 0 /\ Cardinality(q.left) = 0 /\ 0 + 0 <= MaxItems
    BY <1>4, ScrapeBounds
  <2> QED BY <1>4, <1>5, <2>1 DEF CountsFit
<1>12. KeysAwait(t)'
  BY <1>1, <1>4, <1>5 DEF Fits, KeysAwait
<1>13. ItemsHeld(t)' /\ EndsWell(t)'
  BY <1>4, <1>5, <1>7, <1>8 DEF ItemsHeld, EndsWell
<1> QED BY <1>1, <1>5, <1>8, <1>9, <1>10, <1>11, <1>12, <1>13, OwnStep DEF Fits

\* A request ends with nothing gone wrong and its row as it should be.
LEMMA CacheInv ==
    ASSUME ScrapeInv, NEW t \in Tasks, ReadCache(t)
    PROVE  ScrapeInv'
<1>1. /\ ScrapingTyped /\ Fits(t) /\ task[t].kind = "target" /\ task[t].stage = "cache"
      /\ UNCHANGED <<trow, run, bucket, post, hurts>>
      /\ post \in PostRows /\ PostsFit(post) /\ trow \in [Tasks -> RequestRow]
      /\ run \in [Runs -> ApifyRunRow]
  BY DEF ScrapeInv, ScrapingTyped, ReadCache, In, PostRows, PostsFit
<1>2. /\ trow[t] \in RequestRow /\ trow[t].joined = {} /\ trow[t].status = "none"
      /\ ScrapeJobRow(trow[t]) /\ trow' = [trow EXCEPT ![t] = trow[t]]
  BY <1>1 DEF Fits, RowFits
<1>3. Fine
  BY <1>1 DEF Fine
<1>4. CASE End(t)
  BY <1>1, <1>2, <1>3, <1>4, EndInv
<1>5. CASE Move(t, "job")
  BY <1>1, <1>2, <1>3, <1>5, GoesOn DEF TaskStages, Fits, KeysAwait
<1> QED BY <1>4, <1>5 DEF ReadCache

LEMMA JobInv ==
    ASSUME ScrapeInv, NEW t \in Tasks, CreateScrapeJob(t)
    PROVE  ScrapeInv'
<1>1. /\ ScrapingTyped /\ Fits(t) /\ task[t].kind = "target" /\ task[t].stage = "job"
      /\ UNCHANGED <<run, bucket, post>> /\ run \in [Runs -> ApifyRunRow]
  BY DEF ScrapeInv, ScrapingTyped, CreateScrapeJob, In
<1>2. CASE End(t) /\ UNCHANGED trow /\ Hurt(t)
  BY <1>1, <1>2, HurtEnds
<1>3. CASE createScrapeJob(t) /\ Move(t, "row") /\ Fine
  <2>1. PICK r : r = [trow[t] EXCEPT !.status = "RUNNING"]
    OBVIOUS
  <2>2. r \in RequestRow /\ r.status = "RUNNING" /\ r.joined = {} /\ r.run = trow[t].run
    BY <1>1, <2>1, RowMakes
  <2>3. trow' = [trow EXCEPT ![t] = r]
    BY <1>1, <1>3, <2>1 DEF createScrapeJob, ScrapingTyped
  <2>4. ScrapeJobRow(r)
    BY <1>1, <2>2 DEF Fits, RowFits, ScrapeJobRow
  <2> QED BY <1>1, <1>3, <2>2, <2>3, <2>4, GoesOn DEF TaskStages, Fits, KeysAwait
<1> QED BY <1>2, <1>3 DEF CreateScrapeJob

LEMMA MarkInv ==
    ASSUME ScrapeInv, NEW t \in Tasks, MarkRunning(t)
    PROVE  ScrapeInv'
<1>1. /\ ScrapingTyped /\ Fits(t) /\ task[t].kind = "batch" /\ task[t].stage = "start"
      /\ UNCHANGED <<run, bucket, post>> /\ run \in [Runs -> ApifyRunRow]
      /\ trow \in [Tasks -> RequestRow]
  BY DEF ScrapeInv, ScrapingTyped, MarkRunning, In
<1>2. CASE End(t) /\ UNCHANGED trow /\ Hurt(t)
  BY <1>1, <1>2, HurtEnds
<1>3. CASE /\ trow' = [trow EXCEPT ![t] = updateKeywordBatchStatus(@, "RUNNING", 0, 0)]
           /\ Move(t, "row") /\ Fine
  <2>1. PICK r : r = updateKeywordBatchStatus(trow[t], "RUNNING", 0, 0)
    OBVIOUS
  <2>2. trow[t] \in RequestRow /\ trow[t].joined = {}
    BY <1>1 DEF Fits, RowFits
  <2>3. r \in RequestRow /\ KeywordBatchRow(r) /\ r.status = "RUNNING" /\ r.joined = {}
    <3>1. 0 \in 0 .. SearchAttempts /\ 0 \in 0 .. MaxItems
      BY ScrapeBounds
    <3> QED BY <2>1, <2>2, <3>1, BatchRowMakes
  <2>4. trow' = [trow EXCEPT ![t] = r]
    BY <1>1, <1>3, <2>1
  <2> QED BY <1>1, <1>3, <2>3, <2>4, GoesOn DEF TaskStages, Fits, KeysAwait
<1>4. CASE Move(t, "row") /\ UNCHANGED trow /\ Hurt(t)
  <2>1. /\ trow[t] \in RequestRow /\ trow[t].joined = {} /\ KeywordBatchRow(trow[t])
        /\ trow[t].status \notin {"SUCCESS", "SUCCEEDED"}
        /\ trow' = [trow EXCEPT ![t] = trow[t]]
    BY <1>1, <1>4 DEF Fits, RowFits
  <2> QED BY <1>1, <1>4, <2>1, GoesOn DEF TaskStages, Fits, KeysAwait
<1> QED BY <1>2, <1>3, <1>4 DEF MarkRunning

LEMMA ApifyRunInv ==
    ASSUME ScrapeInv, NEW t \in Tasks, CreateApifyRun(t)
    PROVE  ScrapeInv'
<1>1. /\ ScrapingTyped /\ Fits(t) /\ task[t].stage = "row" /\ UNCHANGED <<bucket, post>>
      /\ run \in [Runs -> ApifyRunRow] /\ trow \in [Tasks -> RequestRow]
      /\ task[t] \in TaskRows /\ task[t].try \in 1 .. SearchAttempts
      /\ task[t].kind \in {"target", "batch"}
  BY DEF ScrapeInv, ScrapingTyped, CreateApifyRun, Busy, TaskRows, Fits, RowFits
<1>2. CASE UNCHANGED run /\ Abandon(t)
  BY <1>1, <1>2, AbandonInv
<1>3. ASSUME createApifyRun(t), Move(t, "run"), Hurt(t) \/ Fine,
             NEW row \in RequestRow, trow' = [trow EXCEPT ![t] = row],
             row.joined = {}, row.status \notin {"SUCCESS", "SUCCEEDED"},
             task[t].kind # "batch" => ScrapeJobRow(row),
             task[t].kind = "batch" => KeywordBatchRow(row)
      PROVE  ScrapeInv'
  <2>1. PICK k \in Runs : k = RunOf(t) /\ k = <<t, task[t].try>>
    BY <1>1, KeysOf
  <2>2. PICK q : q = [run[k] EXCEPT !.status = "RUNNING"]
    OBVIOUS
  <2>3. q \in ApifyRunRow /\ q.keys = run[k].keys
    BY <1>1, <2>1, <2>2 DEF ApifyRunRow
  <2>4. run' = [run EXCEPT ![k] = q]
    BY <1>1, <1>3, <2>1, <2>2 DEF createApifyRun
  <2>5. run' \in [Runs -> ApifyRunRow] /\ \A r \in Runs : run'[r].keys = run[r].keys
    BY <1>1, <2>3, <2>4
  <2>6. \A u \in Tasks, n \in 1 .. SearchAttempts : run'[<<u, n>>].keys = run[<<u, n>>].keys
    BY <2>5, ScrapeBounds
  <2> QED BY <1>1, <1>3, <2>5, <2>6, GoesOn DEF TaskStages, Fits, KeysAwait
<1>4. /\ trow[t] \in RequestRow /\ trow[t].joined = {}
      /\ trow[t].status \notin {"SUCCESS", "SUCCEEDED"}
      /\ trow = [trow EXCEPT ![t] = trow[t]]
      /\ task[t].kind # "batch" => ScrapeJobRow(trow[t])
      /\ task[t].kind = "batch" => KeywordBatchRow(trow[t])
  BY <1>1 DEF Fits, RowFits
<1>5. CASE /\ createApifyRun(t) /\ Move(t, "run") /\ UNCHANGED trow
           /\ Hurt(t) \/ Fine
  BY <1>3, <1>4, <1>5
<1>6. CASE /\ createApifyRun(t) /\ Move(t, "run") /\ Fine /\ task[t].kind = "batch"
           /\ trow' = [trow EXCEPT ![t] = updateKeywordBatchStatus(@, "RUNNING", task[t].try, 0)]
  <2>1. PICK r : r = updateKeywordBatchStatus(trow[t], "RUNNING", task[t].try, 0)
    OBVIOUS
  <2>2. r \in RequestRow /\ KeywordBatchRow(r) /\ r.status = "RUNNING" /\ r.joined = {}
    <3>1. task[t].try \in 0 .. SearchAttempts /\ 0 \in 0 .. MaxItems
      BY <1>1, ScrapeBounds
    <3>2. trow[t] \in RequestRow /\ trow[t].joined = {}
      BY <1>4
    <3>3. PICK n \in 0 .. SearchAttempts : n = task[t].try
      BY <3>1
    <3>4. r = updateKeywordBatchStatus(trow[t], "RUNNING", n, 0)
      BY <2>1, <3>3
    <3>5. 0 \in 0 .. MaxItems
      BY ScrapeBounds
    <3>6. PICK w \in RequestRow : w = trow[t] /\ w.joined = {}
      BY <3>2
    <3>7. /\ updateKeywordBatchStatus(w, "RUNNING", n, 0) \in RequestRow
          /\ KeywordBatchRow(updateKeywordBatchStatus(w, "RUNNING", n, 0))
          /\ updateKeywordBatchStatus(w, "RUNNING", n, 0).status = "RUNNING"
          /\ updateKeywordBatchStatus(w, "RUNNING", n, 0).joined = w.joined
      BY <3>5, BatchRowMakes
    <3> QED BY <3>4, <3>6, <3>7
  <2>3. trow' = [trow EXCEPT ![t] = r]
    BY <1>1, <1>6, <2>1
  <2> QED BY <1>3, <1>6, <2>2, <2>3
<1> QED BY <1>1, <1>2, <1>5, <1>6 DEF CreateApifyRun

\* Items of this run come to lie under the slots of S.
Puts(t, S) ==
    /\ DOMAIN bucket' = Keys
    /\ \A k \in Keys : IF k[1] = JobKey(t) /\ k[2] \in S
                      THEN bucket'[k] \in Stored /\ bucket'[k].by = RunOf(t)
                      ELSE bucket'[k] = bucket[k]

LEMMA ItemsStored ==
    ASSUME ScrapeInv, NEW t \in Tasks, task[t].stage = "run", UNCHANGED <<trow, run, post>>,
           Fine \/ Hurt(t), NEW S \in SUBSET Slots,
           NEW q, q = [task[t] EXCEPT !.stage = "record", !.left = S],
           task' = [task EXCEPT ![t] = q],
           Puts(t, S)
    PROVE  ScrapeInv'
<1>1. ScrapingTyped /\ Fits(t)
  BY DEF ScrapeInv
<1>5. /\ task' \in [Tasks -> TaskRows]
      /\ \A u \in Tasks : u # t => task'[u] = task[u]
      /\ task'[t].stage = "record" /\ task'[t].left = S
      /\ task'[t].kind = task[t].kind /\ task'[t].post = task[t].post
      /\ task'[t].threads = task[t].threads /\ task'[t].try = task[t].try
      /\ task'[t].found = task[t].found /\ task'[t].upserts = task[t].upserts
  <2>1. task[t] \in TaskRows /\ task \in [Tasks -> TaskRows] /\ "record" \in TaskStages
    BY <1>1 DEF ScrapingTyped, TaskStages
  <2>2. /\ q \in TaskRows /\ q.stage = "record" /\ q.left = S
        /\ q.kind = task[t].kind /\ q.post = task[t].post
        /\ q.threads = task[t].threads /\ q.try = task[t].try
        /\ q.found = task[t].found /\ q.upserts = task[t].upserts
    BY <2>1 DEF TaskRows
  <2> QED BY <2>1, <2>2
<1>6. /\ RunOf(t) \in Runs /\ RunOf(t) = <<t, task[t].try>>
      /\ JobKey(t) \in {RunOf(t), Shared}
      /\ \A i \in Slots : <<JobKey(t), i>> \in Keys
  BY <1>1, KeysOf
<1>7. /\ DOMAIN bucket' = Keys
      /\ \A k \in Keys : IF k[1] = JobKey(t) /\ k[2] \in S
                        THEN bucket'[k] \in Stored /\ bucket'[k].by = RunOf(t)
                        ELSE bucket'[k] = bucket[k]
  BY DEF Puts
<1>9. /\ hurts' \in [left : 0 .. MaxHurts, on : SUBSET Tasks] /\ hurts.on \subseteq hurts'.on
  BY <1>1, Hurting
<1>10. ScrapingTyped'
  BY <1>1, <1>5, <1>7, <1>9 DEF ScrapingTyped
<1>11. RunOf(t)' = RunOf(t) /\ JobKey(t)' = JobKey(t)
  BY <1>5 DEF RunOf, JobKey
<1>12. RowFits(t)' /\ KeysAwait(t)' /\ EndsWell(t)'
  BY <1>1, <1>5 DEF Fits, RowFits, KeysAwait, EndsWell
<1>13. CountsFit(t)'
  <2>1. Cardinality(S) \in Nat /\ Cardinality(S) <= MaxItems
    BY SlotsCounted
  <2>2. task[t].found = {} /\ task[t].upserts = 0 /\ IsFiniteSet(task[t].found)
        /\ Cardinality(task[t].found) <= 0
    BY <1>1 DEF Fits, CountsFit
  <2>3. 0 + Cardinality(S) <= MaxItems
    BY <2>1
  <2> QED BY <1>5, <2>2, <2>3 DEF CountsFit
<1>14. ItemsHeld(t)'
  <2>1. ASSUME NEW i \in S PROVE Holds(t, i)'
    <3>1. PICK k \in Keys : k = <<JobKey(t), i>> /\ k[1] = JobKey(t) /\ k[2] = i
      BY <1>6, <2>1
    <3>2. bucket'[k] \in Stored /\ bucket'[k].by = RunOf(t)
      BY <1>7, <2>1, <3>1
    <3> QED BY <1>11, <3>1, <3>2 DEF Holds
  <2> QED BY <1>5, <2>1 DEF ItemsHeld
<1>15. \A k \in Keys : \/ bucket'[k] = bucket[k]
                       \/ bucket'[k] \in Stored /\ k[1] \in {Shared, <<t, task[t].try>>}
  BY <1>6, <1>7
<1> QED BY <1>1, <1>5, <1>9, <1>10, <1>12, <1>13, <1>14, <1>15, OwnStep DEF Fits

LEMMA StoreInv ==
    ASSUME ScrapeInv, NEW t \in Tasks, NEW rows \in SUBSET Deliverable, storeItems(t, rows)
    PROVE  ScrapeInv'
<1>1. task[t].stage = "run" /\ UNCHANGED <<trow, run, post>> /\ RunOf(t) \in Runs
  BY KeysOf DEF ScrapeInv, storeItems, Busy
<1>2. PICK n \in 0 .. MaxItems :
        \E items \in [1 .. n -> rows] : \E lost \in {{}} \cup {{i} : i \in 1 .. n} :
        /\ IF lost = {} THEN Fine ELSE Hurt(t)
        /\ bucket' = [k \in Keys |-> IF k[1] = JobKey(t) /\ k[2] \in (1 .. n) \ lost
                                     THEN [row |-> items[k[2]], by |-> RunOf(t)]
                                     ELSE bucket[k]]
        /\ task' = [task EXCEPT ![t].stage = "record", ![t].left = (1 .. n) \ lost]
  BY DEF storeItems
<1>3. PICK items \in [1 .. n -> rows], lost \in {{}} \cup {{i} : i \in 1 .. n} :
        /\ IF lost = {} THEN Fine ELSE Hurt(t)
        /\ bucket' = [k \in Keys |-> IF k[1] = JobKey(t) /\ k[2] \in (1 .. n) \ lost
                                     THEN [row |-> items[k[2]], by |-> RunOf(t)]
                                     ELSE bucket[k]]
        /\ task' = [task EXCEPT ![t].stage = "record", ![t].left = (1 .. n) \ lost]
  BY <1>2
<1>4. PICK S : S = (1 .. n) \ lost
  OBVIOUS
<1>5. S \in SUBSET Slots /\ \A i \in S : items[i] \in Deliverable
  BY <1>4, ScrapeBounds DEF Slots
<1>6. Puts(t, S)
  BY <1>1, <1>3, <1>4, <1>5 DEF Stored, Puts
<1>7. Fine \/ Hurt(t)
  BY <1>3
<1>8. PICK q : q = [task[t] EXCEPT !.stage = "record", !.left = S]
  OBVIOUS
<1>9. task' = [task EXCEPT ![t] = q]
  BY <1>3, <1>4, <1>8 DEF ScrapeInv, ScrapingTyped
<1> QED BY <1>1, <1>5, <1>6, <1>7, <1>8, <1>9, ItemsStored

LEMMA RunnerInv ==
    ASSUME ScrapeInv, NEW t \in Tasks, runSync(t) \/ runThreadsUserPosts(t) \/ RunSearch(t)
    PROVE  ScrapeInv'
<1>1. /\ runInput(t) \cup Unreadable \subseteq Deliverable
      /\ threadsUserInput \cup Unreadable \subseteq Deliverable
      /\ searchInput(t) \cup Unreadable \subseteq Deliverable
  BY DEF runInput, threadsUserInput, searchInput, Unreadable
<1>2. CASE RunFails(t)
  BY <1>2, FailInv DEF RunFails, Busy
<1> QED BY <1>1, <1>2, StoreInv DEF runSync, runThreadsUserPosts, RunSearch

LEMMA RecordRunInv ==
    ASSUME ScrapeInv, NEW t \in Tasks, RecordRun(t)
    PROVE  ScrapeInv'
<1>1. /\ ScrapingTyped /\ Fits(t) /\ task[t].stage = "record" /\ UNCHANGED <<trow, bucket, post>>
      /\ Move(t, "list")
      /\ run \in [Runs -> ApifyRunRow] /\ trow \in [Tasks -> RequestRow]
      /\ task[t].left \subseteq Slots /\ task[t].kind \in {"target", "batch"}
      /\ task[t].try \in 1 .. SearchAttempts
  BY DEF ScrapeInv, ScrapingTyped, RecordRun, Busy, TaskRows, Fits, RowFits
<1>2. PICK k \in Runs : k = RunOf(t) /\ k = <<t, task[t].try>>
  BY <1>1, KeysOf
<1>3. run[k] \in ApifyRunRow /\ run[k].keys = {}
  BY <1>1, <1>2 DEF Fits, KeysAwait
<1>4. PICK q \in ApifyRunRow :
        run' = [run EXCEPT ![k] = q] /\ q.keys \subseteq task[t].left /\ (Hurt(t) \/ Fine)
  <2>1. ASSUME NEW S \in SUBSET task[t].left,
               run' = [run EXCEPT ![k] = createRawPayload(updateApifyRun(run[k]), S)]
        PROVE  \E q \in ApifyRunRow : run' = [run EXCEPT ![k] = q] /\ q.keys \subseteq task[t].left
    <3>1. PICK q : q = createRawPayload(updateApifyRun(run[k]), S)
      OBVIOUS
    <3>2. q \in ApifyRunRow /\ q.keys = S
      BY <1>1, <1>3, <3>1 DEF createRawPayload, updateApifyRun, ApifyRunRow
    <3> QED BY <2>1, <3>1, <3>2
  <2>2. ASSUME run' = [run EXCEPT ![k] = createRawPayload(run[k], task[t].left)]
        PROVE  \E q \in ApifyRunRow : run' = [run EXCEPT ![k] = q] /\ q.keys \subseteq task[t].left
    <3>1. PICK q : q = createRawPayload(run[k], task[t].left)
      OBVIOUS
    <3>2. q \in ApifyRunRow /\ q.keys = task[t].left
      BY <1>1, <1>3, <3>1 DEF createRawPayload, ApifyRunRow
    <3> QED BY <2>2, <3>1, <3>2
  <2>3. \/ /\ run' = [run EXCEPT ![k] = createRawPayload(updateApifyRun(run[k]), task[t].left)]
           /\ Fine
        \/ /\ run' = [run EXCEPT ![k] = createRawPayload(run[k], task[t].left)]
           /\ Hurt(t)
        \/ /\ \E i \in task[t].left :
                run' = [run EXCEPT ![k] =
                          createRawPayload(updateApifyRun(run[k]), task[t].left \ {i})]
           /\ Hurt(t)
    BY <1>2 DEF RecordRun
  <2> QED BY <2>1, <2>2, <2>3
<1>5. /\ run' \in [Runs -> ApifyRunRow] /\ run'[k].keys \subseteq task[t].left
      /\ \A r \in Runs : r # k => run'[r] = run[r]
  BY <1>1, <1>4
<1>6. \A u \in Tasks, n \in 1 .. SearchAttempts :
         <<u, n>> # k => run'[<<u, n>>].keys = run[<<u, n>>].keys
  BY <1>5, ScrapeBounds
<1>7. \A i \in run'[RunOf(t)].keys : Holds(t, i)
  BY <1>1, <1>2, <1>5 DEF Fits, ItemsHeld
<1>8. /\ trow[t] \in RequestRow /\ trow[t].joined = {}
      /\ trow[t].status \notin {"SUCCESS", "SUCCEEDED"}
      /\ trow' = [trow EXCEPT ![t] = trow[t]]
      /\ task[t].kind # "batch" => ScrapeJobRow(trow[t])
      /\ task[t].kind = "batch" => KeywordBatchRow(trow[t])
  BY <1>1 DEF Fits, RowFits
<1>9. \A n \in 1 .. SearchAttempts : n > task[t].try => run'[<<t, n>>].keys = {}
  BY <1>1, <1>2, <1>6 DEF Fits, KeysAwait
<1>10. \A u \in Tasks, n \in 1 .. SearchAttempts :
         u # t => run'[<<u, n>>].keys = run[<<u, n>>].keys
  BY <1>2, <1>6
<1> QED BY <1>1, <1>4, <1>5, <1>7, <1>8, <1>9, <1>10, GoesOn DEF TaskStages

LEMMA ListInv ==
    ASSUME ScrapeInv, NEW t \in Tasks, ListRawPayloads(t)
    PROVE  ScrapeInv'
<1>1. /\ ScrapingTyped /\ Fits(t) /\ task[t].stage = "list" /\ UNCHANGED <<run, bucket, post>>
      /\ run \in [Runs -> ApifyRunRow]
  BY DEF ScrapeInv, ScrapingTyped, ListRawPayloads, Busy
<1>2. CASE Abandon(t)
  BY <1>1, <1>2, AbandonInv
<1>3. CASE /\ task' = [task EXCEPT ![t].stage = "ingest", ![t].left = listRawPayloadsByRun(RunOf(t))]
           /\ UNCHANGED trow /\ Fine
  <2>1. PICK S : S = run[RunOf(t)].keys
    OBVIOUS
  <2>2. S \in SUBSET Slots /\ "ingest" \in TaskStages
    BY <1>1, <2>1, KeysOf DEF ApifyRunRow, TaskStages
  <2>11. PICK q : q = [task[t] EXCEPT !.stage = "ingest", !.left = S]
    OBVIOUS
  <2>3. task' = [task EXCEPT ![t] = q]
    BY <1>1, <1>3, <2>1, <2>11 DEF listRawPayloadsByRun, ScrapingTyped
  <2>4. /\ task' \in [Tasks -> TaskRows]
        /\ \A u \in Tasks : u # t => task'[u] = task[u]
        /\ task'[t].stage = "ingest" /\ task'[t].left = S
        /\ task'[t].kind = task[t].kind /\ task'[t].post = task[t].post
        /\ task'[t].threads = task[t].threads /\ task'[t].try = task[t].try
        /\ task'[t].found = task[t].found /\ task'[t].upserts = task[t].upserts
    <3>1. task[t] \in TaskRows /\ task \in [Tasks -> TaskRows]
      BY <1>1 DEF ScrapingTyped
    <3>2. /\ q \in TaskRows /\ q.stage = "ingest" /\ q.left = S
          /\ q.kind = task[t].kind /\ q.post = task[t].post
          /\ q.threads = task[t].threads /\ q.try = task[t].try
          /\ q.found = task[t].found /\ q.upserts = task[t].upserts
      BY <2>2, <2>11, <3>1 DEF TaskRows
    <3> QED BY <2>3, <3>1, <3>2
  <2>5. UNCHANGED hurts
    BY <1>3 DEF Fine
  <2>6. ScrapingTyped'
    BY <1>1, <1>3, <2>4, <2>5 DEF ScrapingTyped
  <2>7. RunOf(t)' = RunOf(t) /\ JobKey(t)' = JobKey(t)
    BY <2>4 DEF RunOf, JobKey
  <2>8. RowFits(t)' /\ KeysAwait(t)' /\ EndsWell(t)'
    BY <1>1, <1>3, <2>4, <2>5 DEF Fits, RowFits, KeysAwait, EndsWell
  <2>9. CountsFit(t)'
    <3>1. Cardinality(S) \in Nat /\ Cardinality(S) <= MaxItems
      BY <2>2, SlotsCounted
    <3>2. task[t].found = {} /\ task[t].upserts = 0 /\ IsFiniteSet(task[t].found)
          /\ Cardinality(task[t].found) <= 0
      BY <1>1 DEF Fits, CountsFit
    <3>3. 0 + Cardinality(S) <= MaxItems
      BY <3>1
    <3> QED BY <2>4, <3>2, <3>3 DEF CountsFit
  <2>10. ItemsHeld(t)'
    BY <1>1, <2>1, <2>4, <2>7 DEF Fits, ItemsHeld, Holds
  <2> QED BY <1>1, <1>3, <2>4, <2>5, <2>6, <2>8, <2>9, <2>10, OwnStep DEF Fits
<1> QED BY <1>2, <1>3 DEF ListRawPayloads

\* What a payload yields is of the post it names.
LEMMA Parsed ==
    ASSUME NEW d \in Rows, NEW window \in BOOLEAN, parseItems(d, window) # <<>>
    PROVE  /\ d.post \in Posts
           /\ parseItems(d, window)[1].post = d.post
           /\ parseItems(d, window)[Len(parseItems(d, window))].post = d.post
<1>1. d.post \in Posts
  BY DEF parseItems, Rows
<1>2. PICK x, y : x = Item(d.post, "post") /\ y = Item(d.post, "comment")
  OBVIOUS
<1>3. x.post = d.post /\ y.post = d.post
  BY <1>2 DEF Item
<1>4. \/ parseItems(d, window) = <<x>>
      \/ parseItems(d, window) = <<x>> \o <<>>
      \/ parseItems(d, window) = <<x>> \o <<y>>
  BY <1>2 DEF parseItems, parseThreadsItem, parseIGItems, parseIGSearchItems, parseIGPostItems,
              parseIGComments
<1>5. PICK S : S = {x, y}
  OBVIOUS
<1>6. <<x>> \in Seq(S) /\ <<y>> \in Seq(S) /\ <<>> \in Seq(S)
  BY <1>5
<1>7. <<x>>[1] = x /\ Len(<<x>>) = 1 /\ <<y>>[1] = y /\ Len(<<y>>) = 1 /\ Len(<<>>) = 0
  OBVIOUS
<1>8. <<x>> \o <<>> = <<x>>
  BY <1>6, ConcatEmptySeq
<1>9. PICK z : z = <<x>> \o <<y>>
  OBVIOUS
<1>10. Len(z) = 2 /\ z[1] = x /\ z[2] = y
  BY <1>6, <1>7, <1>9, ConcatProperties
<1> QED BY <1>1, <1>3, <1>4, <1>7, <1>8, <1>9, <1>10

\* The tables after a payload.
LEMMA Ingested ==
    ASSUME NEW table \in PostRows, PostsFit(table), NEW p \in Posts, NEW sampled \in BOOLEAN,
           NEW item, item.post \in Posts
    PROVE  /\ ingestComment(ingestPost(table, p, sampled), item) \in PostRows
           /\ PostsFit(ingestComment(ingestPost(table, p, sampled), item))
           /\ table.stored \subseteq ingestComment(ingestPost(table, p, sampled), item).stored
<1>1. PICK u : u = upsertPost(table, p)
  OBVIOUS
<1>2. u \in PostRows /\ PostsFit(u) /\ table.stored \subseteq u.stored /\ p \in u.stored
  BY <1>1 DEF upsertPost, PostRows, PostsFit
<1>3. PICK v : v = ingestPost(table, p, sampled)
  OBVIOUS
<1>4. v \in PostRows /\ PostsFit(v) /\ table.stored \subseteq v.stored
  <2>1. CASE v = u
    BY <1>2, <2>1
  <2>2. CASE v = createMetricSnapshot(u, p)
    BY <1>2, <2>2 DEF createMetricSnapshot, PostRows, PostsFit
  <2> QED BY <1>1, <1>3, <2>1, <2>2 DEF ingestPost
<1>5. PICK w : w = ingestComment(v, item)
  OBVIOUS
<1>6. w \in PostRows /\ PostsFit(w) /\ table.stored \subseteq w.stored
  <2>1. CASE w = v
    BY <1>4, <2>1
  <2>2. CASE item.post \in v.stored /\ w = upsertComment(v, item.post)
    BY <1>4, <2>2 DEF upsertComment, PostRows, PostsFit
  <2> QED BY <1>5, <2>1, <2>2 DEF ingestComment
<1> QED BY <1>3, <1>5, <1>6

\* A payload is read, and its post counted or not.
LEMMA PayloadRead ==
    ASSUME ScrapeInv, NEW t \in Tasks, task[t].stage = "ingest", NEW i \in task[t].left,
           UNCHANGED <<trow, run, bucket>>, Fine \/ Hurt(t),
           post' \in PostRows, PostsFit(post'), post.stored \subseteq post'.stored,
           NEW q \in TaskRows, task' = [task EXCEPT ![t] = q],
           q.stage = "ingest", q.kind = task[t].kind, q.post = task[t].post,
           q.threads = task[t].threads, q.try = task[t].try, q.left = task[t].left \ {i},
           \/ q.found = task[t].found /\ q.upserts = task[t].upserts
           \/ \E f : /\ q.found = task[t].found \cup {f} /\ q.upserts = task[t].upserts + 1
                     /\ task[t].kind = "batch" => f.by = RunOf(t)
    PROVE  ScrapeInv'
<1>1. ScrapingTyped /\ Fits(t)
  BY DEF ScrapeInv
<1>2. /\ hurts' \in [left : 0 .. MaxHurts, on : SUBSET Tasks] /\ hurts.on \subseteq hurts'.on
  BY <1>1, Hurting
<1>3. /\ task' \in [Tasks -> TaskRows] /\ task'[t] = q
      /\ \A u \in Tasks : u # t => task'[u] = task[u]
  BY <1>1 DEF ScrapingTyped
<1>4. ScrapingTyped'
  BY <1>1, <1>2, <1>3 DEF ScrapingTyped, PostRows, PostsFit
<1>5. RunOf(t)' = RunOf(t) /\ JobKey(t)' = JobKey(t)
  BY <1>3 DEF RunOf, JobKey
<1>6. RowFits(t)' /\ KeysAwait(t)'
  BY <1>1, <1>3 DEF Fits, RowFits, KeysAwait
<1>7. EndsWell(t)'
  BY <1>1, <1>3 DEF Fits, EndsWell
<1>8. ItemsHeld(t)'
  BY <1>1, <1>3, <1>5 DEF Fits, ItemsHeld, Holds
<1>9. CountsFit(t)'
  <2>1. /\ task[t].upserts \in Nat /\ task[t].left \in SUBSET Slots
        /\ IsFiniteSet(task[t].found) /\ Cardinality(task[t].found) <= task[t].upserts
        /\ task[t].upserts + Cardinality(task[t].left) <= MaxItems
        /\ \A f \in task[t].found : task[t].kind = "batch" => f.by = RunOf(t)
    BY <1>1, ScrapeBounds DEF ScrapingTyped, TaskRows, Fits, CountsFit
  <2>2. /\ Cardinality(task[t].left) \in Nat /\ IsFiniteSet(task[t].left)
        /\ Cardinality(q.left) = Cardinality(task[t].left) - 1
    BY <2>1, SlotsCounted, FS_RemoveElement
  <2>3. Cardinality(task[t].found) \in Nat
    BY <2>1, FS_CardinalityType
  <2>4. CASE q.found = task[t].found /\ q.upserts = task[t].upserts
    <3>1. task[t].upserts + (Cardinality(task[t].left) - 1) <= MaxItems
      BY <2>1, <2>2, ScrapeBounds
    <3> QED BY <1>3, <1>5, <2>1, <2>2, <2>4, <3>1 DEF CountsFit
  <2>5. ASSUME NEW f, q.found = task[t].found \cup {f}, q.upserts = task[t].upserts + 1,
               task[t].kind = "batch" => f.by = RunOf(t)
        PROVE  CountsFit(t)'
    <3>1. IsFiniteSet(q.found) /\ Cardinality(q.found) <= Cardinality(task[t].found) + 1
      <4>1. CASE f \in task[t].found
        <5>1. q.found = task[t].found
          BY <2>5, <4>1
        <5> QED BY <2>1, <2>3, <5>1
      <4>2. CASE f \notin task[t].found
        <5>1. PICK S : S = task[t].found
          OBVIOUS
        <5>2. Cardinality(S) \in Nat /\ IsFiniteSet(S) /\ f \notin S
          BY <2>1, <2>3, <4>2, <5>1
        <5>3. IsFiniteSet(S \cup {f}) /\ Cardinality(S \cup {f}) = Cardinality(S) + 1
          BY <5>2, FS_AddElement
        <5>4. q.found = S \cup {f} /\ Cardinality(S) + 1 <= Cardinality(S) + 1
          BY <2>5, <5>1, <5>2
        <5> QED BY <5>1, <5>3, <5>4
      <4> QED BY <4>1, <4>2
    <3>2. IsFiniteSet(q.found) /\ Cardinality(q.found) \in Nat
      BY <3>1, FS_CardinalityType
    <3>3. Cardinality(q.found) <= q.upserts
      BY <2>1, <2>3, <2>5, <3>1, <3>2
    <3>4. q.upserts + Cardinality(q.left) <= MaxItems
      BY <2>1, <2>2, <2>5, ScrapeBounds
    <3>5. ASSUME NEW g \in q.found, q.kind = "batch" PROVE g.by = RunOf(t)
      <4>1. g \in task[t].found \/ g = f
        BY <2>5
      <4>2. task[t].kind = "batch"
        BY Zenon, <3>5
      <4>3. g \in task[t].found => g.by = RunOf(t)
        BY Zenon, <2>1, <4>2
      <4> QED BY <2>5, <4>1, <4>2, <4>3
    <3> QED BY <1>3, <1>5, <3>1, <3>3, <3>4, <3>5 DEF CountsFit
  <2> QED BY <2>4, <2>5
<1> QED BY <1>2, <1>3, <1>4, <1>6, <1>7, <1>8, <1>9, OwnStep DEF Fits

LEMMA IngestInv ==
    ASSUME ScrapeInv, NEW t \in Tasks, IngestItem(t)
    PROVE  ScrapeInv'
<1>1. /\ ScrapingTyped /\ Fits(t) /\ task[t].stage = "ingest" /\ UNCHANGED <<trow, run, bucket>>
      /\ task[t] \in TaskRows /\ post \in PostRows /\ PostsFit(post) /\ task \in [Tasks -> TaskRows]
  BY DEF ScrapeInv, ScrapingTyped, IngestItem, Busy, PostRows, PostsFit
<1>2a. PICK i \in task[t].left :
       LET item == bucket[<<JobKey(t), i>>]
           items == parseItems(item.row, task[t].window)
           read == [task EXCEPT ![t].left = @ \ {i}]
       IN  \/ /\ items # <<>>
              /\ task' = [read EXCEPT ![t].found = @ \cup {[post |-> items[1].post, by |-> item.by]},
                                      ![t].upserts = @ + 1]
              /\ \E sampled \in BOOLEAN :
                    /\ IF sampled THEN Fine ELSE Hurt(t)
                    /\ post' = ingestComment(ingestPost(post, items[1].post, sampled),
                                             items[Len(items)])
           \/ task' = read /\ UNCHANGED post /\ IF items = <<>> THEN Fine ELSE Hurt(t)
  BY Zenon DEF IngestItem
<1>2b. PICK item : item = bucket[<<JobKey(t), i>>]
  OBVIOUS
<1>2c. PICK items : items = parseItems(item.row, task[t].window)
  OBVIOUS
<1>2d. PICK read : read = [task EXCEPT ![t].left = @ \ {i}]
  OBVIOUS
<1>2. /\ i \in task[t].left
      /\ item = bucket[<<JobKey(t), i>>]
      /\ items = parseItems(item.row, task[t].window)
      /\ read = [task EXCEPT ![t].left = @ \ {i}]
      /\ \/ /\ items # <<>>
            /\ task' = [read EXCEPT ![t].found = @ \cup {[post |-> items[1].post, by |-> item.by]},
                                    ![t].upserts = @ + 1]
            /\ \E sampled \in BOOLEAN :
                  /\ Fine \/ Hurt(t)
                  /\ post' = ingestComment(ingestPost(post, items[1].post, sampled),
                                           items[Len(items)])
         \/ task' = read /\ UNCHANGED post /\ (Fine \/ Hurt(t))
  BY Zenon, <1>2a, <1>2b, <1>2c, <1>2d
<1>3. PICK r : r = [task[t] EXCEPT !.left = task[t].left \ {i}]
  OBVIOUS
<1>4. /\ r \in TaskRows /\ r.stage = "ingest" /\ r.kind = task[t].kind /\ r.post = task[t].post
      /\ r.threads = task[t].threads /\ r.try = task[t].try /\ r.left = task[t].left \ {i}
      /\ r.found = task[t].found /\ r.upserts = task[t].upserts
  <2>1. task[t] \in TaskRows /\ task[t].left \ {i} \in SUBSET Slots /\ task[t].stage = "ingest"
    BY <1>1 DEF TaskRows
  <2>2. r \in TaskRows
    BY <1>3, <2>1 DEF TaskRows
  <2> QED BY <1>3, <2>1 DEF TaskRows
<1>5. read = [task EXCEPT ![t] = r]
  BY <1>1, <1>2, <1>3
<1>6. CASE task' = read /\ UNCHANGED post /\ (Fine \/ Hurt(t))
  <2>1. task' = [task EXCEPT ![t] = r]
    BY <1>5, <1>6
  <2>2. post' \in PostRows /\ PostsFit(post') /\ post.stored \subseteq post'.stored
    BY <1>1, <1>6
  <2> QED BY <1>1, <1>2, <1>4, <1>6, <2>1, <2>2, PayloadRead
<1>7. ASSUME NEW sampled \in BOOLEAN, items # <<>>, Fine \/ Hurt(t),
             task' = [read EXCEPT ![t].found = @ \cup {[post |-> items[1].post, by |-> item.by]},
                                  ![t].upserts = @ + 1],
             post' = ingestComment(ingestPost(post, items[1].post, sampled), items[Len(items)])
      PROVE  ScrapeInv'
  <2>1. Holds(t, i)
    BY <1>1, <1>2 DEF Fits, ItemsHeld
  <2>2. /\ item \in Stored /\ item.row \in Rows /\ item.by \in Runs
        /\ JobKey(t) = RunOf(t) => item.by = RunOf(t)
    BY <1>2, <2>1, ScrapingConstants DEF Holds, Stored
  <2>3. task[t].window \in BOOLEAN
    <3>1. task[t] \in TaskRows
      BY Zenon, <1>1
    <3> QED BY <3>1 DEF TaskRows
  <2>4. item.row.post \in Posts /\ items[1].post = item.row.post
        /\ items[Len(items)].post = item.row.post
    BY Zenon, <1>2, <1>7, <2>2, <2>3, Parsed
  <2>5. PICK f : f = [post |-> items[1].post, by |-> item.by]
    OBVIOUS
  <2>6. f \in Found /\ f.by = item.by
    BY <2>2, <2>4, <2>5 DEF Found
  <2>7. task[t].kind = "batch" => f.by = RunOf(t)
    BY <1>1, <2>2, <2>6, KeysOf
  <2>8. PICK q : q = [r EXCEPT !.found = r.found \cup {f}, !.upserts = r.upserts + 1]
    OBVIOUS
  <2>9. r.upserts + 1 \in 0 .. MaxItems
    <3>1. task[t].upserts \in Nat /\ task[t].left \in SUBSET Slots
          /\ task[t].upserts + Cardinality(task[t].left) <= MaxItems
      BY <1>1, ScrapeBounds DEF TaskRows, Fits, CountsFit
    <3>2. Cardinality(task[t].left) \in Nat /\ IsFiniteSet(task[t].left)
      BY <3>1, SlotsCounted
    <3>3. /\ Cardinality(task[t].left \ {i}) = Cardinality(task[t].left) - 1
          /\ IsFiniteSet(task[t].left \ {i})
      BY <1>2, <3>2, FS_RemoveElement
    <3>4. Cardinality(task[t].left \ {i}) \in Nat
      BY <3>3, FS_CardinalityType
    <3> QED BY <1>4, <3>1, <3>2, <3>3, <3>4, ScrapeBounds
  <2>10. /\ q \in TaskRows /\ q.stage = "ingest" /\ q.kind = task[t].kind /\ q.post = task[t].post
         /\ q.threads = task[t].threads /\ q.try = task[t].try /\ q.left = task[t].left \ {i}
         /\ q.found = task[t].found \cup {f} /\ q.upserts = task[t].upserts + 1
    BY <1>4, <2>6, <2>8, <2>9 DEF TaskRows
  <2>11. task' = [task EXCEPT ![t] = q]
    <3>1. read \in [Tasks -> TaskRows] /\ read[t] = r
      BY <1>1, <1>4, <1>5
    <3>2. task' = [read EXCEPT ![t] = q]
      BY <1>7, <2>5, <2>8, <3>1
    <3> QED BY <1>1, <1>5, <3>2
  <2>12. post' \in PostRows /\ PostsFit(post') /\ post.stored \subseteq post'.stored
    BY <1>1, <1>7, <2>4, Ingested
  <2>13. \E g : /\ q.found = task[t].found \cup {g} /\ q.upserts = task[t].upserts + 1
                /\ task[t].kind = "batch" => g.by = RunOf(t)
    BY <2>7, <2>10
  <2>14. /\ i \in task[t].left /\ task[t].stage = "ingest" /\ UNCHANGED <<trow, run, bucket>>
         /\ Fine \/ Hurt(t)
    BY Zenon, <1>1, <1>2, <1>7
  <2> QED BY <2>10, <2>11, <2>12, <2>13, <2>14, PayloadRead
<1> QED BY <1>2, <1>6, <1>7

-----------------------------------------------------------------------------
(***************************************************************************)
(* The end of each.                                                        *)
(***************************************************************************)
LEMMA AnswerInv ==
    ASSUME ScrapeInv, NEW t \in Tasks, Answer(t)
    PROVE  ScrapeInv'
<1>1. /\ ScrapingTyped /\ Fits(t) /\ task[t].kind = "target" /\ task[t].stage = "ingest"
      /\ UNCHANGED <<run, bucket>> /\ trow[t] \in RequestRow /\ trow[t].joined = {}
      /\ post \in PostRows /\ PostsFit(post) /\ task[t] \in TaskRows
  BY RowMakes DEF ScrapeInv, ScrapingTyped, Answer, In, PostRows, PostsFit
<1>2. CASE resolvePost(t) = {}
  BY <1>1, <1>2, FailInv DEF Answer
<1>3. CASE resolvePost(t) # {}
  <2>1. task[t].post \in post.stored
    BY <1>3 DEF resolvePost, Shortcode, getPostByID, getPostByPlatformExternalID
  <2>2. PICK row : row = [trow[t] EXCEPT !.status = "SUCCESS"]
    OBVIOUS
  <2>3. /\ row \in RequestRow /\ row.status = "SUCCESS" /\ row.joined = {}
        /\ row.run = trow[t].run /\ row.posts = trow[t].posts
    BY <1>1, <2>2, RowMakes
  <2>4. ScrapeJobRow(row) /\ ScrapeJobRow(trow[t])
    BY <1>1, <2>3 DEF ScrapeJobRow, Fits, RowFits
  <2>5. End(t)
    BY <1>3 DEF Answer
  <2>6. \/ linkTargetPost(task[t].post) /\ Conclude(t, row)
        \/ UNCHANGED post /\ completeScrapeJob(t, "SUCCESS") /\ Hurt(t)
    BY <1>3, <2>2 DEF Answer
  <2>7. post' \in PostRows /\ PostsFit(post') /\ post'.stored = post.stored
    BY <1>1, <2>1, <2>6 DEF linkTargetPost, PostRows, PostsFit
  <2>8. PICK r \in {row, trow[t]} :
          trow' = [trow EXCEPT ![t] = r] /\ (Hurt(t) \/ Fine) /\ (~Hurt(t) => r = row)
    <3>1. CASE Conclude(t, row)
      BY <2>3, <3>1, ConcludeRow
    <3>2. CASE completeScrapeJob(t, "SUCCESS") /\ Hurt(t)
      <4>1. trow' = [trow EXCEPT ![t] = row]
        BY <2>2, <3>2 DEF completeScrapeJob, ScrapingTyped
      <4> QED BY <3>2, <4>1
    <3> QED BY <2>6, <3>1, <3>2
  <2>9. /\ r \in RequestRow /\ ScrapeJobRow(r) /\ r.status # "SUCCEEDED"
        /\ ~Hurt(t) => r.status = "SUCCESS"
    BY <1>1, <2>3, <2>4, <2>8 DEF ScrapeJobRow
  <2> QED BY <1>1, <2>1, <2>5, <2>7, <2>8, <2>9, EndInv
<1> QED BY <1>2, <1>3

LEMMA RetryInv ==
    ASSUME ScrapeInv, NEW t \in Tasks, RetrySearch(t)
    PROVE  ScrapeInv'
<1>1. /\ ScrapingTyped /\ Fits(t) /\ task[t].kind = "batch" /\ task[t].stage = "ingest"
      /\ task[t].left = {} /\ task[t].upserts = 0 /\ task[t].try < SearchAttempts
      /\ UNCHANGED <<trow, run, bucket, post, hurts>>
      /\ task[t] \in TaskRows /\ task \in [Tasks -> TaskRows]
  BY DEF ScrapeInv, ScrapingTyped, RetrySearch, In
<1>2. PICK q : q = [task[t] EXCEPT !.stage = "row", !.try = task[t].try + 1, !.found = {}]
  OBVIOUS
<1>3. task[t].try + 1 \in 1 .. SearchAttempts
  BY <1>1, ScrapeBounds DEF TaskRows
<1>4. "row" \in TaskStages /\ {} \in SUBSET Found
  BY DEF TaskStages
<1>5. /\ q \in TaskRows /\ q.stage = "row" /\ q.kind = "batch" /\ q.post = task[t].post
      /\ q.threads = task[t].threads /\ q.left = {} /\ q.found = {} /\ q.upserts = 0
      /\ q.try = task[t].try + 1
  BY <1>1, <1>2, <1>3, <1>4 DEF TaskRows
<1>6. task' = [task EXCEPT ![t] = q]
  BY <1>1, <1>2 DEF RetrySearch
<1>7. /\ task' \in [Tasks -> TaskRows] /\ task'[t] = q
      /\ \A u \in Tasks : u # t => task'[u] = task[u]
  BY <1>1, <1>5, <1>6
<1>8. ScrapingTyped'
  BY <1>1, <1>7 DEF ScrapingTyped
<1>9. RowFits(t)'
  BY <1>1, <1>5, <1>7 DEF Fits, RowFits
<1>10. CountsFit(t)'
  <2>1. IsFiniteSet(q.found) /\ Cardinality(q.found) = 0 /\ Cardinality(q.left) = 0 /\ 0 + 0 <= MaxItems
    BY <1>5, ScrapeBounds
  <2> QED BY <1>5, <1>7, <2>1 DEF CountsFit
<1>11. KeysAwait(t)'
  <2>1. \A n \in 1 .. SearchAttempts : n > task[t].try => run[<<t, n>>].keys = {}
    BY <1>1 DEF Fits, KeysAwait
  <2>2. task[t].try \in Nat
    BY <1>1, ScrapeBounds DEF TaskRows
  <2>3. ASSUME NEW n \in 1 .. SearchAttempts,
               n > q.try \/ (n = q.try /\ q.stage \notin {"list", "ingest"})
        PROVE  run'[<<t, n>>].keys = {}
    <3>1. n > task[t].try
      BY <1>5, <2>2, <2>3
    <3> QED BY <1>1, <2>1, <3>1
  <2> QED BY <1>5, <1>7, <2>3 DEF KeysAwait
<1>12. ItemsHeld(t)' /\ EndsWell(t)'
  BY <1>1, <1>5, <1>7 DEF Fits, ItemsHeld, EndsWell
<1> QED BY <1>1, <1>7, <1>8, <1>9, <1>10, <1>11, <1>12, OwnStep DEF Fits

LEMMA JoinInv ==
    ASSUME ScrapeInv, NEW t \in Tasks, JoinPosts(t)
    PROVE  ScrapeInv'
<1>1. /\ ScrapingTyped /\ Fits(t) /\ task[t].kind = "batch" /\ task[t].stage = "ingest"
      /\ End(t) /\ UNCHANGED <<run, bucket, post>>
      /\ task[t] \in TaskRows /\ trow[t] \in RequestRow /\ trow[t].joined = {}
      /\ post \in PostRows /\ PostsFit(post)
      /\ trow[t].status \notin {"SUCCESS", "SUCCEEDED"} /\ KeywordBatchRow(trow[t])
  BY RowMakes DEF ScrapeInv, ScrapingTyped, JoinPosts, In, PostRows, PostsFit, Fits, RowFits
<1>2. PICK j : /\ j \subseteq task[t].found
               /\ \/ /\ trow' = [trow EXCEPT ![t] =
                           updateKeywordBatchStatus(createKeywordBatchPost(trow[t], j), "SUCCEEDED",
                                                    task[t].try, task[t].upserts)]
                     /\ Hurt(t) \/ Fine
                  \/ trow' = [trow EXCEPT ![t] = createKeywordBatchPost(trow[t], j)] /\ Hurt(t)
  BY DEF JoinPosts
<1>3. /\ task[t].found \subseteq Found /\ task[t].try \in 1 .. SearchAttempts
      /\ task[t].upserts \in 0 .. MaxItems /\ IsFiniteSet(task[t].found)
      /\ Cardinality(task[t].found) <= task[t].upserts
      /\ \A f \in task[t].found : f.by = <<t, task[t].try>>
  BY <1>1 DEF TaskRows, Fits, CountsFit, RunOf
<1>4. /\ j \subseteq Found /\ \A f \in j : f.by = <<t, task[t].try>>
  BY <1>2, <1>3
<1>5. Cardinality(j) <= task[t].upserts
  <2>1. /\ IsFiniteSet(j) /\ Cardinality(j) <= Cardinality(task[t].found)
        /\ Cardinality(j) \in Nat /\ Cardinality(task[t].found) \in Nat
    BY <1>2, <1>3, FS_Subset, FS_CardinalityType
  <2>2. task[t].upserts \in Nat
    BY <1>3, ScrapeBounds
  <2> QED BY <1>3, <2>1, <2>2
<1>6. PICK c : c = createKeywordBatchPost(trow[t], j)
  OBVIOUS
<1>7. /\ c \in RequestRow /\ c.joined = j /\ c.status = trow[t].status
      /\ c.run = trow[t].run /\ c.posts = trow[t].posts
  <2>1. c = [trow[t] EXCEPT !.joined = j]
    BY <1>1, <1>6 DEF createKeywordBatchPost
  <2>2. j \in SUBSET Found
    BY <1>4
  <2> QED BY <1>1, <2>1, <2>2 DEF RequestRow
<1>8. KeywordBatchRow(c) /\ c.status \notin {"SUCCESS", "SUCCEEDED"}
  BY <1>1, <1>4, <1>7 DEF KeywordBatchRow
<1>9. PICK d : d = updateKeywordBatchStatus(c, "SUCCEEDED", task[t].try, task[t].upserts)
  OBVIOUS
<1>10. /\ d \in RequestRow /\ KeywordBatchRow(d) /\ d.status = "SUCCEEDED"
       /\ d.joined = j /\ d.posts = task[t].upserts /\ d.run = task[t].try
  <2>1. task[t].try \in 0 .. SearchAttempts /\ task[t].try # 0
    BY <1>3, ScrapeBounds
  <2>2. PICK k, n : k = task[t].try /\ n = task[t].upserts
    OBVIOUS
  <2>3. k \in 0 .. SearchAttempts /\ k # 0 /\ n \in 0 .. MaxItems /\ c \in RequestRow /\ c.joined = j
    BY <1>3, <1>7, <2>1, <2>2
  <2>4. d = updateKeywordBatchStatus(c, "SUCCEEDED", k, n)
    BY <1>9, <2>2
  <2>5. /\ d \in RequestRow /\ KeywordBatchRow(d) /\ d.status = "SUCCEEDED"
        /\ d.joined = j /\ d.posts = n /\ d.run = k
    BY <2>3, <2>4, BatchRowMakes
  <2> QED BY <2>2, <2>5
<1>11. post' \in PostRows /\ PostsFit(post') /\ post'.stored = post.stored
  BY <1>1
<1>12. CASE trow' = [trow EXCEPT ![t] = d] /\ (Hurt(t) \/ Fine)
  <2>1. /\ \A f \in d.joined : f.by = <<t, d.run>>
        /\ Cardinality(d.joined) <= d.posts
    BY <1>4, <1>5, <1>10
  <2> QED BY <1>1, <1>10, <1>11, <1>12, <2>1, EndInv
<1>13. CASE trow' = [trow EXCEPT ![t] = c] /\ Hurt(t)
  BY <1>1, <1>7, <1>8, <1>11, <1>13, EndInv
<1> QED BY <1>2, <1>6, <1>9, <1>12, <1>13

-----------------------------------------------------------------------------
(***************************************************************************)
(* The world around.                                                       *)
(***************************************************************************)
LEMMA HangUpInv ==
    ASSUME ScrapeInv, NEW t \in Tasks, HangUp(t)
    PROVE  ScrapeInv'
BY HurtEnds DEF HangUp, Unfinished

LEMMA CrashInv ==
    ASSUME ScrapeInv, ScrapeCrash
    PROVE  ScrapeInv'
<1>1. /\ ScrapingTyped /\ \A t \in Tasks : Fits(t)
      /\ UNCHANGED <<trow, run, bucket, post>>
  BY DEF ScrapeInv, ScrapeCrash
<1>2. PICK hit : hit = {t \in Tasks : Unfinished(t)}
  OBVIOUS
<1>3. /\ hurts.left > 0 /\ hurts' = [left |-> hurts.left - 1, on |-> hurts.on \cup hit]
      /\ task' = [t \in Tasks |-> IF t \in hit THEN Ended(t) ELSE task[t]]
  BY <1>2 DEF ScrapeCrash
<1>4. hurts' \in [left : 0 .. MaxHurts, on : SUBSET Tasks] /\ hurts'.on = hurts.on \cup hit
  <2>1. hurts.left \in 0 .. MaxHurts /\ hurts.on \subseteq Tasks /\ hit \subseteq Tasks
    BY <1>1, <1>2 DEF ScrapingTyped
  <2>2. hurts.left - 1 \in 0 .. MaxHurts
    BY <1>3, <2>1, ScrapeBounds
  <2> QED BY <1>3, <2>1, <2>2
<1>5. task' \in [Tasks -> TaskRows]
  <2>1. \A t \in Tasks : Ended(t) \in TaskRows /\ task[t] \in TaskRows
    BY <1>1, EndMakes DEF ScrapingTyped
  <2> QED BY <1>3, <2>1
<1>6. ScrapingTyped'
  BY <1>1, <1>4, <1>5 DEF ScrapingTyped
<1>7. ASSUME NEW t \in Tasks PROVE Fits(t)'
  <2>1. CASE t \in hit
    <3>1. task[t].stage \notin {"idle", "over"} /\ Fits(t)
      BY <1>1, <1>2, <2>1 DEF Unfinished
    <3>2. /\ task[t].kind # "none" /\ trow'[t] = trow[t] /\ trow[t].status # "SUCCEEDED"
          /\ task[t].kind # "batch" => ScrapeJobRow(trow[t])
          /\ task[t].kind = "batch" => KeywordBatchRow(trow[t])
          /\ trow[t].status = "SUCCESS" => task[t].post \in post'.stored
      BY <1>1, <3>1 DEF Fits, RowFits, EndsWell
    <3>3. task'[t] = Ended(t) /\ t \in hurts'.on
      BY <1>3, <1>4, <2>1
    <3> QED BY <1>1, <3>2, <3>3, OverFits
  <2>2. CASE t \notin hit
    <3>1. task'[t] = task[t] /\ (t \in hurts'.on <=> t \in hurts.on) /\ Fits(t)
      BY <1>1, <1>3, <1>4, <2>2
    <3>2. RunOf(t)' = RunOf(t) /\ JobKey(t)' = JobKey(t)
      BY <3>1 DEF RunOf, JobKey
    <3>3. RowFits(t)' /\ CountsFit(t)' /\ KeysAwait(t)' /\ EndsWell(t)'
      BY <1>1, <3>1, <3>2 DEF Fits, RowFits, CountsFit, KeysAwait, EndsWell
    <3>4. ItemsHeld(t)'
      BY <1>1, <3>1, <3>2 DEF Fits, ItemsHeld, Holds
    <3> QED BY <3>3, <3>4 DEF Fits
  <2> QED BY <2>1, <2>2
<1> QED BY <1>6, <1>7 DEF ScrapeInv

\* A post that ages stays where it is stored, and nothing else reads its age.
LEMMA AgesInv ==
    ASSUME ScrapeInv, NEW p \in Posts, Ages(p)
    PROVE  ScrapeInv'
<1>1. ScrapingTyped /\ (\A t \in Tasks : Fits(t)) /\ UNCHANGED <<task, trow, run, bucket, hurts>>
  BY DEF ScrapeInv, Ages
<1>2. /\ post' \in [stored : SUBSET Posts, fresh : SUBSET Posts, sampled : SUBSET Posts,
                    talk : SUBSET Posts, linked : SUBSET Posts]
      /\ post'.fresh \cup post'.sampled \cup post'.talk \cup post'.linked \subseteq post'.stored
      /\ post'.stored = post.stored
  BY <1>1 DEF ScrapingTyped, Ages
<1>3. ScrapingTyped'
  BY <1>1, <1>2 DEF ScrapingTyped
<1>4. ASSUME NEW t \in Tasks PROVE Fits(t)'
  <2>1. Fits(t)
    BY <1>1
  <2>2. RowFits(t)' /\ CountsFit(t)' /\ KeysAwait(t)'
    BY <1>1, <2>1 DEF Fits, RowFits, CountsFit, KeysAwait, RunOf
  <2>3. ItemsHeld(t)' /\ EndsWell(t)'
    BY <1>1, <1>2, <2>1 DEF Fits, ItemsHeld, Holds, EndsWell, RunOf, JobKey
  <2> QED BY <2>1, <2>2, <2>3 DEF Fits
<1> QED BY <1>3, <1>4 DEF ScrapeInv

LEMMA ScrapeStutters ==
    ASSUME ScrapeInv, UNCHANGED scrapeVars
    PROVE  ScrapeInv'
<1>1. UNCHANGED <<task, trow, run, bucket, post, hurts>>
  BY DEF scrapeVars
<1>2. ScrapingTyped'
  BY <1>1 DEF ScrapeInv, ScrapingTyped
<1>3. ASSUME NEW t \in Tasks PROVE Fits(t)'
  BY <1>1 DEF ScrapeInv, Fits, RowFits, CountsFit, KeysAwait, ItemsHeld, Holds, EndsWell, RunOf,
              JobKey
<1> QED BY <1>2, <1>3 DEF ScrapeInv

LEMMA ScrapeStep ==
    ASSUME ScrapeInv, [ScrapingNext]_scrapeVars
    PROVE  ScrapeInv'
<1>1. ASSUME NEW t \in Tasks,
             \/ ScrapeTarget(t) \/ CreateBatch(t) \/ ReadCache(t) \/ CreateScrapeJob(t)
             \/ MarkRunning(t) \/ CreateApifyRun(t)
      PROVE  ScrapeInv'
  BY <1>1, TargetInv, BatchInv, CacheInv, JobInv, MarkInv, ApifyRunInv
<1>2. ASSUME NEW t \in Tasks,
             \/ runSync(t) \/ runThreadsUserPosts(t) \/ RunSearch(t) \/ RecordRun(t)
             \/ ListRawPayloads(t) \/ IngestItem(t)
      PROVE  ScrapeInv'
  BY <1>2, RunnerInv, RecordRunInv, ListInv, IngestInv
<1>3. ASSUME NEW t \in Tasks,
             Answer(t) \/ RetrySearch(t) \/ JoinPosts(t) \/ HangUp(t)
      PROVE  ScrapeInv'
  BY <1>3, AnswerInv, RetryInv, JoinInv, HangUpInv
<1>4. CASE ScrapeCrash
  BY <1>4, CrashInv
<1>5. ASSUME NEW p \in Posts, Ages(p) PROVE ScrapeInv'
  BY <1>5, AgesInv
<1>6. CASE UNCHANGED scrapeVars
  BY <1>6, ScrapeStutters
<1> QED BY <1>1, <1>2, <1>3, <1>4, <1>5, <1>6 DEF ScrapingNext

-----------------------------------------------------------------------------
(***************************************************************************)
(* What follows.                                                           *)
(***************************************************************************)
LEMMA ScrapeInvariant == ScrapingSpec => []ScrapeInv
BY InitScrape, ScrapeStep, PTL DEF ScrapingSpec

\* The tables of the scrapes keep their types, and what is fresh, sampled,
\* commented on or linked is a post that is stored.
THEOREM ScrapingTypeCorrect == ScrapingSpec => []ScrapingTypeOK
BY ScrapeInvariant, ScrapingTypes, PTL

\* A batch that succeeded shows the posts of the run it names and of no other
\* run, attempt or scrape, and counts at least as many (CreateApifyRun, JobKey,
\* JoinPosts), whichever statements fail on the way.
THEOREM BatchesAreTheirRuns == ScrapingSpec => []BatchIsItsRun
<1>1. ScrapeInv => BatchIsItsRun
  BY DEF ScrapeInv, Fits, RowFits, BatchIsItsRun, ListBatchPosts
<1> QED BY <1>1, ScrapeInvariant, PTL

\* A scrape job or a batch nobody works on any more has ended, unless one of
\* its statements failed, its client hung up or the API died: an actor that
\* fails or delivers nothing of use never leaves it RUNNING.
THEOREM StuckRowsByFault == ScrapingSpec => []StuckOnlyByFault
<1>1. ScrapeInv => StuckOnlyByFault
  BY DEF ScrapeInv, Fits, EndsWell, StuckOnlyByFault
<1> QED BY <1>1, ScrapeInvariant, PTL

\* A target's job is a success only with the post its URL names in the table,
\* whatever else the actor delivered and whichever scrape overwrote its items.
THEOREM SuccessHasItsPost == ScrapingSpec => []SuccessHasPost
<1>1. ScrapeInv => SuccessHasPost
  BY DEF ScrapeInv, Fits, EndsWell, SuccessHasPost
<1> QED BY <1>1, ScrapeInvariant, PTL

=============================================================================
