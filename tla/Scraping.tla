------------------------------ MODULE Scraping ------------------------------
(***************************************************************************)
(* Scrapes that a request starts.  Both kinds create an apify_run, let the *)
(* actor run, copy what it delivers into object storage, note the storage  *)
(* keys, and read them back into the tables post, comment and              *)
(* metric_snapshot, which all scrapes share:                               *)
(*                                                                         *)
(*   a target   POST /scrape/target: one permalink, while the client       *)
(*              waits; its row is a scrape_job                             *)
(*   a batch    POST /scrape/keywords: a search in a goroutine of its own, *)
(*              tried again when it finds nothing; a keyword_batch         *)
(*                                                                         *)
(* Each element of Tasks makes one request.                                *)
(***************************************************************************)
EXTENDS Integers, FiniteSets, Sequences

CONSTANTS
    Tasks,          \* the requests
    Posts,          \* the posts there are
    ThreadsPosts,   \* those on Threads, all of one user; the rest is on Instagram
    Deliverable,    \* the rows an actor may deliver
    MaxItems,       \* bound: so many of them per run
    SearchAttempts, \* keywordScrapeAttempts
    MaxHurts,       \* bound: so many statements fail, and API crashes
    NoPost          \* a row that names no post: an error, a page without posts

\* What the parsers make of a row: the post it holds, whether a comment rides
\* on it, whether it is an element of an Instagram search page, and how its
\* date compares with the operator's window.
Rows == [post : Posts \cup {NoPost}, talk : BOOLEAN, page : BOOLEAN,
         date : {"in", "out", "none"}]

ASSUME ScrapingConstants ==
    /\ IsFiniteSet(Tasks)
    /\ ThreadsPosts \subseteq Posts /\ NoPost \notin Posts
    /\ Deliverable \subseteq Rows
    /\ {MaxItems, MaxHurts} \subseteq Nat
    /\ SearchAttempts \in Nat \ {0}

\* The runs a request may start, and the names of its items in storage.
Runs == Tasks \X (1 .. SearchAttempts)
Slots == 1 .. MaxItems
Shared == <<"threads-user", 0>>
Keys == (Runs \cup {Shared}) \X Slots

VARIABLES
    task,   \* how far each request is
    trow,   \* its scrape_job or keyword_batch
    run,    \* the apify_run rows and their raw_payload keys
    bucket, \* object storage: the row under each key and the run it is from
    post,   \* posts stored, scraped in the last 6 h, with a sample, with a comment,
            \* and those a target's row links to
    hurts   \* statements and crashes that may still fail; who has been hit

scrapeVars == <<task, trow, run, bucket, post, hurts>>

Blank == [kind |-> "none", stage |-> "idle", post |-> NoPost, threads |-> FALSE,
          window |-> FALSE, try |-> 1, left |-> {}, found |-> {}, upserts |-> 0]

ScrapingInit ==
    /\ task = [t \in Tasks |-> Blank]
    /\ trow = [t \in Tasks |-> [status |-> "none", run |-> 0, posts |-> 0, joined |-> {}]]
    /\ run = [r \in Runs |-> [status |-> "none", keys |-> {}]]
    /\ bucket = [k \in Keys |-> <<>>]
    /\ post = [stored |-> {}, fresh |-> {}, sampled |-> {}, talk |-> {},
               linked |-> {}]
    /\ hurts = [left |-> MaxHurts, on |-> {}]

-----------------------------------------------------------------------------
Move(t, stage) == task' = [task EXCEPT ![t].stage = stage]

\* The handler or goroutine is gone, and with it all it has not stored.
Ended(t) == [Blank EXCEPT !.kind = task[t].kind, !.stage = "over", !.post = task[t].post]
End(t) == task' = [task EXCEPT ![t] = Ended(t)]

In(t, kind, stage) == task[t].kind = kind /\ task[t].stage = stage
Busy(t, stage) == task[t].stage = stage

\* Mutant: the retry goes on under the run of the first attempt.
FirstRun(t) == <<t, 1>>

RunOf(t) == <<t, task[t].try>>

Fine == UNCHANGED hurts
Hurt(t) == hurts.left > 0 /\ hurts' = [left |-> hurts.left - 1, on |-> hurts.on \cup {t}]

-----------------------------------------------------------------------------
(***************************************************************************)
(* The statements.                                                         *)
(***************************************************************************)
createScrapeJob(t) == trow' = [trow EXCEPT ![t].status = "RUNNING"]
completeScrapeJob(t, status) == trow' = [trow EXCEPT ![t].status = status]
createKeywordBatch(t) == trow' = [trow EXCEPT ![t].status = "PENDING"]
createKeywordBatchPost(row, found) == [row EXCEPT !.joined = @ \cup found]

\* Every column but the run, which NULL leaves as it is, is overwritten.
updateKeywordBatchStatus(row, status, attempt, n) ==
    [row EXCEPT !.status = status, !.posts = n, !.run = IF attempt = 0 THEN @ ELSE attempt]

createApifyRun(t) == run' = [run EXCEPT ![RunOf(t)].status = "RUNNING"]
createRawPayload(r, slots) == [r EXCEPT !.keys = @ \cup slots]
updateApifyRun(r) == [r EXCEPT !.status = "SUCCEEDED"]
listRawPayloadsByRun(r) == run[r].keys

\* ON CONFLICT (platform, external_id) DO UPDATE ... scraped_at = now().
upsertPost(table, p) == [table EXCEPT !.stored = @ \cup {p}, !.fresh = @ \cup {p}]
createMetricSnapshot(table, p) == [table EXCEPT !.sampled = @ \cup {p}]
upsertComment(table, p) == [table EXCEPT !.talk = @ \cup {p}]
linkTargetPost(p) == post' = [post EXCEPT !.linked = @ \cup {p}]
getPostByID(p) == p \in post.stored
getPostByPlatformExternalID(p) == p \in post.stored

\* The last word on a row: a write that fails is logged, the row stays.
Conclude(t, row) ==
    \/ trow' = [trow EXCEPT ![t] = row] /\ Fine
    \/ trow' = trow /\ Hurt(t)

failJob(t) == Conclude(t, [trow[t] EXCEPT !.status = "FAILED"])
failBatch(t) == Conclude(t, updateKeywordBatchStatus(trow[t], "FAILED", 0, 0))

\* Mutant: an actor that fails is only reported to the client.
FailReported(t) == End(t) /\ UNCHANGED trow /\ Fine

Fail(t) == End(t) /\ IF task[t].kind = "batch" THEN failBatch(t) ELSE failJob(t)

-----------------------------------------------------------------------------
(***************************************************************************)
(* The two requests.                                                       *)
(***************************************************************************)
\* The URL of a post or, for NoPost, of something else on Instagram.  The
\* target's row is inserted, or found again with its link.
ScrapeTarget(t) ==
    /\ Busy(t, "idle")
    /\ \E p \in Posts \cup {NoPost} :
        task' = [task EXCEPT ![t] = [Blank EXCEPT !.kind = "target", !.stage = "cache",
                                                  !.post = p, !.threads = p \in ThreadsPosts]]
    /\ UNCHANGED <<trow, run, bucket, post, hurts>>

\* 202: the row is inserted and a goroutine drives it.
CreateBatch(t) ==
    /\ Busy(t, "idle")
    /\ \E threads, window \in BOOLEAN :
        task' = [task EXCEPT ![t] = [Blank EXCEPT !.kind = "batch", !.stage = "start",
                                                  !.threads = threads, !.window = window]]
    /\ createKeywordBatch(t)
    /\ UNCHANGED <<run, bucket, post, hurts>>

\* postExternalIDFromURL: only the URL of a post shows a shortcode.
Shortcode(t) == {task[t].post} \ {NoPost}

\* The post the target links to, or else the one under the URL's shortcode.
resolvePost(t) ==
    {p \in Shortcode(t) : IF p \in post.linked THEN getPostByID(p)
                                               ELSE getPostByPlatformExternalID(p)}

\* readBack: a post scraped less than six hours ago is the answer.
ReadCache(t) ==
    /\ In(t, "target", "cache")
    /\ IF resolvePost(t) \cap post.fresh # {} THEN End(t) ELSE Move(t, "job")
    /\ UNCHANGED <<trow, run, bucket, post, hurts>>

CreateScrapeJob(t) ==
    /\ In(t, "target", "job")
    /\ \/ createScrapeJob(t) /\ Move(t, "row") /\ Fine
       \/ End(t) /\ UNCHANGED trow /\ Hurt(t)
    /\ UNCHANGED <<run, bucket, post>>

\* processBatch reads its row first, and goes on when it cannot mark it.
MarkRunning(t) ==
    /\ In(t, "batch", "start")
    /\ \/ /\ trow' = [trow EXCEPT ![t] = updateKeywordBatchStatus(@, "RUNNING", 0, 0)]
          /\ Move(t, "row") /\ Fine
       \/ Move(t, "row") /\ UNCHANGED trow /\ Hurt(t)
       \/ End(t) /\ UNCHANGED trow /\ Hurt(t)
    /\ UNCHANGED <<run, bucket, post>>

\* A statement between the actor and the last word fails.
Abandon(t) ==
    /\ End(t) /\ Hurt(t)
    /\ trow' = IF task[t].kind = "target" THEN trow
               ELSE [trow EXCEPT ![t] = updateKeywordBatchStatus(@, "FAILED", 0, 0)]

\* One apify_run per attempt, named in the batch on a best effort.  Without
\* it a batch fails; a target's job is left as it is.
CreateApifyRun(t) ==
    /\ Busy(t, "row")
    /\ \/ /\ createApifyRun(t)
          /\ Move(t, "run")
          /\ \/ /\ trow' = IF task[t].kind = "target" THEN trow
                         ELSE [trow EXCEPT ![t] = updateKeywordBatchStatus(@, "RUNNING", task[t].try, 0)]
                /\ Fine
             \/ task[t].kind = "batch" /\ UNCHANGED trow /\ Hurt(t)
       \/ UNCHANGED run /\ Abandon(t)
    /\ UNCHANGED <<bucket, post>>

-----------------------------------------------------------------------------
(***************************************************************************)
(* The runner.                                                             *)
(***************************************************************************)
\* Items are stored under the id of the job or of the run - but a Threads
\* target under the name of the user its URL shows.
JobKey(t) ==
    IF task[t].kind = "target" /\ task[t].threads THEN Shared ELSE RunOf(t)

\* What the actor may deliver, error rows and empty pages besides: the post
\* asked for - or those of the page the URL shows -, the recent posts of the
\* user, or what a search of the platform finds.
runInput(t) ==
    {d \in Deliverable : d.post \notin ThreadsPosts /\ ~d.page /\ task[t].post \in {d.post, NoPost}}
threadsUserInput == {d \in Deliverable : d.post \in ThreadsPosts}
searchInput(t) == {d \in Deliverable : task[t].threads <=> d.post \in ThreadsPosts}
Unreadable == {d \in Deliverable : d.post = NoPost}

\* The actor cannot be started, fails, times out, or answers with no list ...
RunFails(t) ==
    /\ Busy(t, "run")
    /\ Fail(t)
    /\ UNCHANGED <<run, bucket, post>>

\* ... or its items are stored, all of them or all but one.
storeItems(t, rows) ==
    /\ Busy(t, "run")
    /\ \E n \in 0 .. MaxItems : \E items \in [1 .. n -> rows] :
       \E lost \in {{}} \cup {{i} : i \in 1 .. n} :
        /\ IF lost = {} THEN Fine ELSE Hurt(t)
        /\ bucket' = [k \in Keys |-> IF k[1] = JobKey(t) /\ k[2] \in (1 .. n) \ lost
                                     THEN [row |-> items[k[2]], by |-> RunOf(t)]
                                     ELSE bucket[k]]
        /\ task' = [task EXCEPT ![t].stage = "record", ![t].left = (1 .. n) \ lost]
    /\ UNCHANGED <<trow, run, post>>

\* The synchronous run of a post, the run that is polled, and the search.
runSync(t) ==
    /\ task[t].kind = "target" /\ ~task[t].threads
    /\ RunFails(t) \/ storeItems(t, runInput(t) \cup Unreadable)

runThreadsUserPosts(t) ==
    /\ task[t].kind = "target" /\ task[t].threads
    /\ RunFails(t) \/ storeItems(t, threadsUserInput \cup Unreadable)

RunSearch(t) ==
    task[t].kind = "batch" /\ (RunFails(t) \/ storeItems(t, searchInput(t) \cup Unreadable))

\* UpdateApifyRun and a raw_payload for each key; neither is missed.
RecordRun(t) ==
    /\ Busy(t, "record")
    /\ Move(t, "list")
    /\ LET left == task[t].left
           Records(row) == run' = [run EXCEPT ![RunOf(t)] = row]
           row == run[RunOf(t)]
       IN  \/ Records(createRawPayload(updateApifyRun(row), left)) /\ Fine
           \/ Records(createRawPayload(row, left)) /\ Hurt(t)
           \/ /\ \E i \in left : Records(createRawPayload(updateApifyRun(row), left \ {i}))
              /\ Hurt(t)
    /\ UNCHANGED <<trow, bucket, post>>

-----------------------------------------------------------------------------
(***************************************************************************)
(* The ingestor.                                                           *)
(***************************************************************************)
\* A scrapeItem is a post, or a comment on one.
Item(p, kind) == [post |-> p, kind |-> kind]

\* A window has a lower bound; a date that is missing counts as inside.
inWindow(date, window) == window => date # "out"

\* A comment is kept when it has a text, and rides behind its post.
parseIGComments(d) == IF d.talk THEN <<Item(d.post, "comment")>> ELSE <<>>

parseIGPostItems(d, window) ==
    IF inWindow(d.date, window) THEN <<Item(d.post, "post")>> \o parseIGComments(d) ELSE <<>>

\* A post of a search page without a date is dated 1970.
parseIGSearchPost(d) == [post |-> d.post, date |-> IF d.date = "none" THEN "out" ELSE d.date]

parseIGSearchItems(d, window) ==
    IF inWindow(parseIGSearchPost(d).date, window) THEN <<Item(d.post, "post")>> ELSE <<>>

parseIGItems(d, window) ==
    IF d.page THEN parseIGSearchItems(d, window) ELSE parseIGPostItems(d, window)

parseThreadsItem(d, window) ==
    IF inWindow(d.date, window) THEN <<Item(d.post, "post")>> ELSE <<>>

\* A row that cannot be read yields nothing.
parseItems(d, window) ==
    IF d.post = NoPost THEN <<>>
    ELSE IF d.post \in ThreadsPosts THEN parseThreadsItem(d, window) ELSE parseIGItems(d, window)

\* IngestRun lists the keys of the run.
ListRawPayloads(t) ==
    /\ Busy(t, "list")
    /\ \/ /\ task' = [task EXCEPT ![t].stage = "ingest", ![t].left = listRawPayloadsByRun(RunOf(t))]
          /\ UNCHANGED trow /\ Fine
       \/ Abandon(t)
    /\ UNCHANGED <<run, bucket, post>>

\* The tables after a post, its sample failing or not, and after a comment
\* whose post is there.
ingestPost(table, p, sampled) ==
    IF sampled THEN createMetricSnapshot(upsertPost(table, p), p) ELSE upsertPost(table, p)

ingestComment(table, item) ==
    IF item.kind = "comment" /\ item.post \in table.stored THEN upsertComment(table, item.post)
                                                           ELSE table

\* One payload.  A read or a post that fails skips it; without its sample a
\* post has been counted all the same.
IngestItem(t) ==
    \E i \in task[t].left :
    LET item == bucket[<<JobKey(t), i>>]
        items == parseItems(item.row, task[t].window)
        read == [task EXCEPT ![t].left = @ \ {i}]
        counted == [read EXCEPT ![t].found = @ \cup {[post |-> items[1].post, by |-> item.by]},
                                ![t].upserts = @ + 1]
    IN  /\ Busy(t, "ingest")
        /\ \A j \in task[t].left : i <= j
        /\ \/ /\ items # <<>>
              /\ task' = counted
              /\ \E sampled \in BOOLEAN :
                    /\ IF sampled THEN Fine ELSE Hurt(t)
                    /\ post' = ingestComment(ingestPost(post, items[1].post, sampled), items[Len(items)])
           \/ task' = read /\ UNCHANGED post /\ IF items = <<>> THEN Fine ELSE Hurt(t)
        /\ UNCHANGED <<trow, run, bucket>>

-----------------------------------------------------------------------------
(***************************************************************************)
(* The end of each.                                                        *)
(***************************************************************************)
\* Mutant: whatever the actor delivered is taken for the answer.
AnswerUnread(t) ==
    /\ In(t, "target", "ingest") /\ task[t].left = {}
    /\ End(t) /\ Conclude(t, [trow[t] EXCEPT !.status = "SUCCESS"])
    /\ UNCHANGED <<run, bucket, post>>

\* readBack finds the post the URL names and links the target to it, or the
\* job fails.
Answer(t) ==
    /\ In(t, "target", "ingest") /\ task[t].left = {}
    /\ IF resolvePost(t) = {} THEN Fail(t) /\ UNCHANGED post
       ELSE /\ End(t)
            /\ \/ linkTargetPost(task[t].post) /\ Conclude(t, [trow[t] EXCEPT !.status = "SUCCESS"])
               \/ UNCHANGED post /\ completeScrapeJob(t, "SUCCESS") /\ Hurt(t)
    /\ UNCHANGED <<run, bucket>>

\* Nothing found: another run, as long as there are attempts.
RetrySearch(t) ==
    /\ In(t, "batch", "ingest") /\ task[t].left = {}
    /\ task[t].upserts = 0 /\ task[t].try < SearchAttempts
    /\ task' = [task EXCEPT ![t].stage = "row", ![t].try = @ + 1, ![t].found = {}]
    /\ UNCHANGED <<trow, run, bucket, post, hurts>>

\* keyword_batch_post for each post of the run, each on a best effort, and
\* then the counts and the run.
JoinPosts(t) ==
    LET joined == {task[t].found} \cup {task[t].found \ {f} : f \in task[t].found} IN
    /\ In(t, "batch", "ingest") /\ task[t].left = {}
    /\ task[t].upserts > 0 \/ task[t].try = SearchAttempts
    /\ End(t)
    /\ \E j \in joined :
        LET row == createKeywordBatchPost(trow[t], j) IN
        \/ /\ trow' = [trow EXCEPT ![t] = updateKeywordBatchStatus(row, "SUCCEEDED", task[t].try, task[t].upserts)]
           /\ IF j = task[t].found THEN Fine ELSE Hurt(t)
        \/ trow' = [trow EXCEPT ![t] = row] /\ j = task[t].found /\ Hurt(t)
    /\ UNCHANGED <<run, bucket, post>>

-----------------------------------------------------------------------------
(***************************************************************************)
(* The world around.                                                       *)
(***************************************************************************)
Unfinished(t) == task[t].stage \notin {"idle", "over"}

\* The client of a target hangs up: its context ends every later statement,
\* the one that would fail the job included.
HangUp(t) ==
    /\ task[t].kind = "target" /\ Unfinished(t)
    /\ Hurt(t)
    /\ End(t)
    /\ UNCHANGED <<trow, run, bucket, post>>

\* The API dies, and nothing takes its batches up again.
ScrapeCrash ==
    LET hit == {t \in Tasks : Unfinished(t)} IN
    /\ hit # {} /\ hurts.left > 0
    /\ hurts' = [left |-> hurts.left - 1, on |-> hurts.on \cup hit]
    /\ task' = [t \in Tasks |-> IF t \in hit THEN Ended(t) ELSE task[t]]
    /\ UNCHANGED <<trow, run, bucket, post>>

\* Six hours pass.
Ages(p) ==
    /\ p \in post.fresh
    /\ post' = [post EXCEPT !.fresh = @ \ {p}]
    /\ UNCHANGED <<task, trow, run, bucket, hurts>>

ScrapingNext ==
    \/ \E t \in Tasks :
        \/ ScrapeTarget(t) \/ CreateBatch(t) \/ ReadCache(t) \/ CreateScrapeJob(t) \/ MarkRunning(t)
        \/ CreateApifyRun(t) \/ runSync(t) \/ runThreadsUserPosts(t) \/ RunSearch(t) \/ RecordRun(t)
        \/ ListRawPayloads(t) \/ IngestItem(t) \/ Answer(t) \/ RetrySearch(t) \/ JoinPosts(t)
        \/ HangUp(t)
    \/ ScrapeCrash
    \/ \E p \in Posts : Ages(p)

ScrapingSpec == ScrapingInit /\ [][ScrapingNext]_scrapeVars

-----------------------------------------------------------------------------
(***************************************************************************)
(* Properties.                                                             *)
(***************************************************************************)
Found == [post : Posts, by : Runs]

ScrapeJobRow(row) ==
    row.status \in {"none", "RUNNING", "SUCCESS", "FAILED"} /\ row.run = 0 /\ row.joined = {}

KeywordBatchRow(row) ==
    /\ row.status \in {"none", "PENDING", "RUNNING", "SUCCEEDED", "FAILED"}
    /\ row.run \in 0 .. SearchAttempts
    /\ row.posts \in 0 .. MaxItems
    /\ row.joined \subseteq Found

ApifyRunRow == [status : {"none", "RUNNING", "SUCCEEDED"}, keys : SUBSET Slots]

\* GET /scrape/batches/:id/posts.
ListBatchPosts(t) == trow[t].joined

\* The rows keep their types, and what is fresh, sampled or commented on is a
\* post that is stored.
ScrapingTypeOK ==
    /\ task \in [Tasks -> [kind : {"none", "target", "batch"},
                           stage : {"idle", "cache", "job", "start", "row", "run", "record",
                                    "list", "ingest", "over"},
                           post : Posts \cup {NoPost}, threads : BOOLEAN, window : BOOLEAN,
                           try : 1 .. SearchAttempts, left : SUBSET Slots,
                           found : SUBSET Found, upserts : 0 .. MaxItems]]
    /\ \A t \in Tasks : ScrapeJobRow(trow[t]) \/ KeywordBatchRow(trow[t])
    /\ run \in [Runs -> ApifyRunRow]
    /\ \A k \in Keys : bucket[k] = <<>> \/ bucket[k] \in [row : Deliverable, by : Runs]
    /\ post.stored \subseteq Posts
    /\ post.fresh \cup post.sampled \cup post.talk \cup post.linked \subseteq post.stored
    /\ hurts.left \in 0 .. MaxHurts /\ hurts.on \subseteq Tasks

\* "Join exactly the posts this run ingested": a batch that succeeded shows
\* posts of the run it names and of no other run, attempt or scrape, and
\* counts at least as many (CreateApifyRun, JobKey, JoinPosts).
BatchIsItsRun ==
    \A t \in Tasks :
        trow[t].status = "SUCCEEDED" =>
            /\ \A j \in ListBatchPosts(t) : j.by = <<t, trow[t].run>>
            /\ Cardinality(ListBatchPosts(t)) <= trow[t].posts

\* A scrape job or a batch nobody works on any more has ended, unless a
\* statement of its own failed, its client hung up or the API died: no path
\* through a failing actor leaves it RUNNING.
StuckOnlyByFault ==
    \A t \in Tasks \ hurts.on :
        task[t].stage = "over" =>
            trow[t].status \in {"none", "SUCCESS", "SUCCEEDED", "FAILED"}

\* A job is a success only when the post its URL names is in the table,
\* whatever else the actor delivered or another scrape overwrote.
SuccessHasPost ==
    \A t \in Tasks : trow[t].status = "SUCCESS" => task[t].post \in post.stored

=============================================================================
