----------------------------- MODULE Composing -----------------------------
(***************************************************************************)
(* From the operator's batch to the words of a comment.  POST /actions     *)
(* checks every item, inserts one action_job each, stores the text the     *)
(* operator wrote for it in Redis, for a day, and notes the batch there.  *)
(* The scheduler claims a job, takes that text or else picks a template    *)
(* that was not used on the target in seven days, and pushes the job; the  *)
(* worker posts and its verdict becomes an action_log.  The operators edit *)
(* the templates meanwhile.  Attempts, gates and queues are in             *)
(* ActionPipeline and DispatchGates; here a job is pushed, or goes back.   *)
(***************************************************************************)
EXTENDS Integers, FiniteSets, Sequences

CONSTANTS
    Batches,   \* the requests to POST /actions
    Targets,   \* post URLs
    Templates, \* ids of comment_template rows, all of one platform
    MaxBatch,  \* bound: items in a batch (MaxActionBatch)
    MaxSlips,  \* bound: so many statements fail, requests die, jobs go back,
               \* and texts lapse
    MaxTweaks, \* bound: so many edits of templates
    NoText     \* no template, no text

ASSUME ComposingConstants ==
    /\ IsFiniteSet(Batches) /\ IsFiniteSet(Targets) /\ IsFiniteSet(Templates)
    /\ MaxBatch \in Nat \ {0}
    /\ {MaxSlips, MaxTweaks} \subseteq Nat
    /\ {"own", NoText} \cap Templates = {} /\ NoText # "own"

\* A job is the i-th item of its batch.
ItemJobs == Batches \X (1 .. MaxBatch)

\* What an item asks for; "own": the operator wrote its text.
Items == [target : Targets, kind : {"comment", "like"}, own : BOOLEAN]

VARIABLES
    form,     \* the requests in the handler
    cjob,     \* the action_job rows and, while one is dispatched, how far
    text,     \* action text store: the jobs with a text of their own
    record,   \* action batch store: the jobs of each batch noted
    tmpl,     \* the comment_template rows
    logged,   \* action_log rows of the last seven days
    posted,   \* comments of the last seven days
    slip      \* what may still go wrong, the batches and jobs it met, and
              \* the jobs whose text lapsed

composingVars == <<form, cjob, text, record, tmpl, logged, posted, slip>>

NoCjob == [status |-> "none", at |-> "none", text |-> NoText]
NoForm == [at |-> "idle", items |-> <<>>, i |-> 1, reply |-> "none"]
NoTemplate == [there |-> FALSE, active |-> FALSE, fit |-> FALSE]

ComposingInit ==
    /\ form = [b \in Batches |-> NoForm]
    /\ cjob = [j \in ItemJobs |-> NoCjob]
    /\ text = {} /\ logged = {} /\ posted = {}
    /\ record = [b \in Batches |-> {}]
    /\ \E there \in SUBSET Templates :
        tmpl = [m \in Templates |->
                  IF m \in there THEN [there |-> TRUE, active |-> TRUE, fit |-> TRUE]
                                 ELSE NoTemplate]
    /\ slip = [left |-> MaxSlips, tweaks |-> MaxTweaks, on |-> {}, gone |-> {}]

ItemOf(j) == form[j[1]].items[j[2]]
Slip(x) == slip.left > 0 /\ slip' = [slip EXCEPT !.left = @ - 1, !.on = @ \cup {x}]
Smooth == UNCHANGED slip

-----------------------------------------------------------------------------
(***************************************************************************)
(* Enqueue.                                                                *)
(***************************************************************************)
Step(b, at, i) == form' = [form EXCEPT ![b].at = at, ![b].i = i]
Respond(b, reply) == form' = [form EXCEPT ![b].at = "over", ![b].reply = reply]

\* The request with its items, none of them looked at yet.
PostActions(b) ==
    /\ form[b].at = "idle"
    /\ \E n \in 1 .. MaxBatch : \E items \in [1 .. n -> Items] :
        form' = [form EXCEPT ![b].at = "check", ![b].items = items]
    /\ UNCHANGED <<cjob, text, record, tmpl, logged, posted, slip>>

\* A text is for a comment.
ValidItem(item) == item.own => item.kind = "comment"

\* Mutant: an item is inserted as soon as it is found right.
CheckAndInsert(b) ==
    LET i == form[b].i
        last == i = Len(form[b].items)
    IN  /\ form[b].at = "check"
        /\ \/ /\ ValidItem(form[b].items[i])
              /\ IF last THEN Step(b, "record", 1) ELSE Step(b, "check", i + 1)
              /\ cjob' = [cjob EXCEPT ![<<b, i>>].status = "PENDING"]
           \/ Respond(b, "invalid") /\ UNCHANGED cjob
        /\ UNCHANGED <<text, record, tmpl, logged, posted, slip>>

\* Item by item: its form, its account, which has to be packable, and its
\* target, upserted.  The first thing wrong is the answer.
CheckItem(b) ==
    LET i == form[b].i
        last == i = Len(form[b].items)
    IN  /\ form[b].at = "check"
        /\ \/ /\ ValidItem(form[b].items[i])
              /\ IF last THEN Step(b, "insert", 1) ELSE Step(b, "check", i + 1)
           \/ Respond(b, "invalid")
        /\ UNCHANGED <<cjob, text, record, tmpl, logged, posted, slip>>

\* A statement per row and no transaction.
InsertActionJob(b) ==
    LET i == form[b].i IN
    /\ form[b].at = "insert"
    /\ \/ /\ cjob' = [cjob EXCEPT ![<<b, i>>].status = "PENDING"]
          /\ Step(b, IF form[b].items[i].own THEN "text" ELSE "next", i)
          /\ Smooth
       \/ Respond(b, "error") /\ UNCHANGED cjob /\ Slip(b)
    /\ UNCHANGED <<text, record, tmpl, logged, posted>>

\* The text goes under the id of the row, for ActionTextTTL, on a best effort.
PutText(b) ==
    LET j == <<b, form[b].i>> IN
    /\ form[b].at = "text"
    /\ Step(b, "next", form[b].i)
    /\ \/ text' = text \cup {j} /\ Smooth
       \/ text' = text /\ Slip(j)
    /\ UNCHANGED <<cjob, record, tmpl, logged, posted>>

\* ActionTextTTL is over, whether or not the job has run: the gates may send
\* it back time and again, and its scheduled_at does not renew the key.
TextExpires(j) ==
    /\ j \in text
    /\ text' = text \ {j}
    /\ slip.left > 0
    /\ slip' = [slip EXCEPT !.left = @ - 1, !.gone = @ \cup {j}]
    /\ UNCHANGED <<form, cjob, record, tmpl, logged, posted>>

NextItem(b) ==
    /\ form[b].at = "next"
    /\ IF form[b].i = Len(form[b].items) THEN Step(b, "record", form[b].i)
                                         ELSE Step(b, "insert", form[b].i + 1)
    /\ UNCHANGED <<cjob, text, record, tmpl, logged, posted, slip>>

Made(b) == {j \in ItemJobs : j[1] = b /\ j[2] <= Len(form[b].items)}

\* The batch is noted for monitoring, on a best effort as well.
RecordBatch(b) ==
    /\ form[b].at = "record"
    /\ Respond(b, "created")
    /\ \/ record' = [record EXCEPT ![b] = Made(b)] /\ Smooth
       \/ UNCHANGED record /\ Slip(b)
    /\ UNCHANGED <<cjob, text, tmpl, logged, posted>>

\* The client is gone or the API dies.
AbandonBatch(b) ==
    /\ form[b].at \notin {"idle", "over"}
    /\ Respond(b, "lost") /\ Slip(b)
    /\ UNCHANGED <<cjob, text, record, tmpl, logged, posted>>

\* GET /actions/batches/:id: how many jobs in each status, how many gone.
GetBatchStatus(b) ==
    [missing |-> Cardinality({j \in record[b] : cjob[j].status = "none"}),
     by |-> [s \in {"PENDING", "RUNNING", "SUCCESS", "FAILED"} |->
               Cardinality({j \in record[b] : cjob[j].status = s})]]

-----------------------------------------------------------------------------
(***************************************************************************)
(* Dispatch.                                                               *)
(***************************************************************************)
Goes(j, at, words) == cjob' = [cjob EXCEPT ![j].at = at, ![j].text = words]
Settle(j, status) == cjob' = [cjob EXCEPT ![j].status = status, ![j].at = "none"]

ClaimNextActionJob(j) ==
    /\ cjob[j].status = "PENDING"
    /\ cjob' = [cjob EXCEPT ![j] = [status |-> "RUNNING",
                                    at |-> IF ItemOf(j).kind = "comment" THEN "text" ELSE "push",
                                    text |-> NoText]]
    /\ UNCHANGED <<form, text, record, tmpl, logged, posted, slip>>

\* The text was not there yet: the row can be claimed before its text is put.
Early(j) == form[j[1]].at = "text" /\ form[j[1]].i = j[2]

\* Mutant: a text that is there is not looked for.
TextIgnored(j) ==
    /\ cjob[j].at = "text"
    /\ Goes(j, "pick", NoText) /\ Smooth
    /\ UNCHANGED <<form, text, record, tmpl, logged, posted>>

\* composeText: the operator's words, if Redis has them, asked for at every
\* claim anew.  slip.on notes the jobs whose text was missed: too early, too
\* late or by an error.
GetText(j) ==
    /\ cjob[j].at = "text"
    /\ \/ j \in text /\ Goes(j, "push", "own") /\ Smooth
       \/ j \in text /\ Goes(j, "pick", NoText) /\ Slip(j)
       \/ /\ j \notin text
          /\ Goes(j, "pick", NoText)
          /\ slip' = [slip EXCEPT !.on = IF Early(j) \/ j \in slip.gone THEN @ \cup {j} ELSE @]
    /\ UNCHANGED <<form, text, record, tmpl, logged, posted>>

\* Active templates that no recent action_log of the target's jobs names.
PickForTarget(t) ==
    {m \in Templates : tmpl[m].there /\ tmpl[m].active
                       /\ ~ \E l \in logged : l.template = m /\ ItemOf(l.job).target = t}

\* Pick and render one; a pool that is empty, a placeholder that is left and
\* a word of the denylist all fail the job.  Only the text of the outcome is
\* kept, not which template it is from.
Pick(j) ==
    /\ cjob[j].at = "pick"
    /\ \/ \E m \in PickForTarget(ItemOf(j).target) :
            IF tmpl[m].fit THEN Goes(j, "push", m) ELSE Settle(j, "FAILED")
       \/ PickForTarget(ItemOf(j).target) = {} /\ Settle(j, "FAILED")
    /\ UNCHANGED <<form, text, record, tmpl, logged, posted, slip>>

\* publish; a gate that is shut sends the job back, to be composed afresh.
PushText(j) ==
    /\ cjob[j].at = "push"
    /\ \/ Goes(j, "worker", cjob[j].text) /\ Smooth
       \/ /\ cjob' = [cjob EXCEPT ![j] = [NoCjob EXCEPT !.status = "PENDING"]]
          /\ slip.left > 0 /\ slip' = [slip EXCEPT !.left = @ - 1]
    /\ UNCHANGED <<form, text, record, tmpl, logged, posted>>

-----------------------------------------------------------------------------
(***************************************************************************)
(* The worker and its verdict.                                             *)
(***************************************************************************)
\* In a dry run nothing is posted, and the verdict is the same.
PostText(j) ==
    /\ cjob[j].at = "worker"
    /\ Goes(j, "verdict", cjob[j].text)
    /\ \/ /\ ItemOf(j).kind = "comment"
          /\ posted' = posted \cup {[job |-> j, text |-> cjob[j].text]}
       \/ UNCHANGED posted
    /\ UNCHANGED <<form, text, record, tmpl, logged, slip>>

\* RecordAction: the log has the words the worker reports, and no template.
UpsertActionLog(j) == logged' = logged \cup {[job |-> j, template |-> NoText]}

RecordAction(j) ==
    /\ cjob[j].at = "verdict"
    /\ UpsertActionLog(j)
    /\ Settle(j, "SUCCESS")
    /\ UNCHANGED <<form, text, record, tmpl, posted, slip>>

\* Seven days pass.
WeekPasses(j) ==
    /\ cjob[j].status = "SUCCESS"
    /\ \E p \in posted : p.job = j
    /\ posted' = {p \in posted : p.job # j}
    /\ logged' = {l \in logged : l.job # j}
    /\ UNCHANGED <<form, cjob, text, record, tmpl, slip>>

-----------------------------------------------------------------------------
(***************************************************************************)
(* The templates.                                                          *)
(***************************************************************************)
Tweak == slip.tweaks > 0 /\ slip' = [slip EXCEPT !.tweaks = @ - 1]

\* A new template is active, whatever the request says.
CreateTemplate(m) ==
    /\ ~tmpl[m].there
    /\ \E fit \in BOOLEAN :
        tmpl' = [tmpl EXCEPT ![m] = [there |-> TRUE, active |-> TRUE, fit |-> fit]]
    /\ Tweak
    /\ UNCHANGED <<form, cjob, text, record, logged, posted>>

UpdateTemplate(m) ==
    /\ tmpl[m].there
    /\ \E fit, active \in BOOLEAN :
        tmpl' = [tmpl EXCEPT ![m].active = active, ![m].fit = fit]
    /\ Tweak
    /\ UNCHANGED <<form, cjob, text, record, logged, posted>>

\* ON DELETE SET NULL.
DeleteTemplate(m) ==
    /\ tmpl[m].there
    /\ tmpl' = [tmpl EXCEPT ![m] = NoTemplate]
    /\ logged' = {[l EXCEPT !.template = IF @ = m THEN NoText ELSE @] : l \in logged}
    /\ Tweak
    /\ UNCHANGED <<form, cjob, text, record, posted>>

ComposingNext ==
    \/ \E b \in Batches :
        \/ PostActions(b) \/ CheckItem(b) \/ InsertActionJob(b) \/ PutText(b) \/ NextItem(b)
        \/ RecordBatch(b) \/ AbandonBatch(b)
    \/ \E j \in ItemJobs :
        \/ TextExpires(j) \/ ClaimNextActionJob(j) \/ GetText(j) \/ Pick(j) \/ PushText(j)
        \/ PostText(j) \/ RecordAction(j) \/ WeekPasses(j)
    \/ \E m \in Templates : CreateTemplate(m) \/ UpdateTemplate(m) \/ DeleteTemplate(m)

ComposingSpec == ComposingInit /\ [][ComposingNext]_composingVars

-----------------------------------------------------------------------------
(***************************************************************************)
(* Properties.                                                             *)
(***************************************************************************)
JobRow == [status : {"none", "PENDING", "RUNNING", "SUCCESS", "FAILED"},
           at : {"none", "text", "pick", "push", "worker", "verdict"},
           text : Templates \cup {"own", NoText}]

\* The rows keep their types; a row is of an item of its batch, and a text of
\* its own is a comment's.
ComposingTypeOK ==
    /\ \A b \in Batches :
        /\ form[b].at \in {"idle", "check", "insert", "text", "next", "record", "over"}
        /\ form[b].i \in 1 .. MaxBatch
        /\ form[b].items \in UNION {[1 .. n -> Items] : n \in 0 .. MaxBatch}
        /\ form[b].reply \in {"none", "invalid", "error", "lost", "created"}
        /\ record[b] \subseteq Made(b)
    /\ cjob \in [ItemJobs -> JobRow]
    /\ \A j \in ItemJobs : (cjob[j].status = "RUNNING") = (cjob[j].at # "none")
    /\ \A j \in ItemJobs : cjob[j].status # "none" => j \in Made(j[1])
    /\ text \subseteq ItemJobs
    /\ \A j \in text : ItemOf(j).own /\ ItemOf(j).kind = "comment"
    /\ tmpl \in [Templates -> [there : BOOLEAN, active : BOOLEAN, fit : BOOLEAN]]
    /\ \A l \in logged : l.job \in ItemJobs /\ l.template \in Templates \cup {NoText}
    /\ \A p \in posted : p.job \in ItemJobs /\ p.text \in Templates \cup {"own"}
    /\ slip.left \in 0 .. MaxSlips /\ slip.tweaks \in 0 .. MaxTweaks
    /\ slip.on \subseteq Batches \cup ItemJobs
    /\ slip.gone \subseteq ItemJobs

\* "A batch is all-or-nothing": once the request is answered there is a row
\* for every item or for none, unless a statement failed or the request was
\* cut off; and the rollup of a batch that was noted misses no job.
AllOrNothing ==
    \A b \in Batches :
        LET rows == {j \in Made(b) : cjob[j].status # "none"} IN
        /\ form[b].at = "over" /\ b \notin slip.on =>
            rows = IF form[b].reply = "created" THEN Made(b) ELSE {}
        /\ GetBatchStatus(b).missing = 0

\* An operator's text "wins over the template pool": what is posted for an
\* item with a text is that text - unless the job was claimed before its text
\* was put, or Redis failed, or the request died in between, or the job was
\* still to be composed when the day its text is kept was over.  A text that
\* lapses after it was read is no excuse.
OwnTextPosted ==
    \A p \in posted :
        ItemOf(p.job).own => \/ p.text = "own"
                             \/ p.job \in slip.on
                             \/ p.job[1] \in slip.on

\* PickForTarget "excludes any template already used against THIS target in
\* the last 7 days, so the same variant does not repeat on one post": what is
\* picked is not what a job with a verdict posted there.  It may be: the id of
\* the template picked is dropped, and no action_log ever names one.
VariantNotRepeated ==
    [][\A j \in ItemJobs : \A p \in posted :
        cjob[j].at = "pick" /\ cjob'[j].at = "push"
        /\ cjob[p.job].status = "SUCCESS" /\ ItemOf(p.job).target = ItemOf(j).target
            => cjob'[j].text # p.text]_composingVars

=============================================================================
