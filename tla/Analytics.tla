----------------------------- MODULE Analytics -----------------------------
(***************************************************************************)
(* The monitored official accounts and the ingest of their numbers.  A     *)
(* pass of the ingestor, the cron's or one the refresh button asked for,   *)
(* lists the accounts that waited longest, opens a run, pulls metrics and  *)
(* mentions account by account, touches the account when both are stored,  *)
(* and closes the run with the count.  Operators register and archive      *)
(* accounts meanwhile; a pass whose context ends finds every later         *)
(* statement refused.                                                      *)
(***************************************************************************)
EXTENDS Integers, FiniteSets

CONSTANTS
    Monitored,     \* ids of official_account
    Ingests,       \* the passes: the cron's and those of POST /analytics/refresh
    BatchSize,     \* accounts a pass lists at most
    MaxIngests,    \* bound: rows of analytics_ingest_run
    NoMonitored    \* no account

ASSUME AnalyticsConstants ==
    /\ IsFiniteSet(Monitored) /\ IsFiniteSet(Ingests) /\ NoMonitored \notin Monitored
    /\ BatchSize \in Nat \ {0} /\ MaxIngests \in Nat

VARIABLES
    official,  \* official_account with its data: its status, what is stored, how old
    ingest,    \* the passes and how far they are
    irun,      \* analytics_ingest_run, and the accounts its pass listed and fetched
    opened     \* how many runs were opened

analyticsVars == <<official, ingest, irun, opened>>

\* The enums official_account_status and ingest_status.
OfficialStatuses == {"ACTIVE", "PAUSED", "ARCHIVED"}
IngestStatuses == {"RUNNING", "SUCCESS", "PARTIAL", "FAILED"}
Closed == IngestStatuses \ {"RUNNING"}

NoOfficial == [status |-> "none", metrics |-> FALSE, mentions |-> FALSE, fetched |-> "never"]
NoRun == [status |-> "none", ok |-> 0, err |-> 0, listed |-> {}, got |-> {}]
IngestIdle == [at |-> "idle", todo |-> {}, on |-> NoMonitored, ok |-> 0, err |-> 0, run |-> 0,
               sick |-> FALSE, cut |-> FALSE]
IRuns == 1 .. MaxIngests

AnalyticsInit ==
    /\ official = [m \in Monitored |-> NoOfficial]
    /\ ingest = [i \in Ingests |-> IngestIdle]
    /\ irun = [r \in IRuns |-> NoRun]
    /\ opened = 0

-----------------------------------------------------------------------------
(***************************************************************************)
(* The statements.                                                         *)
(***************************************************************************)
listOfficialAccounts == {m \in Monitored : official[m].status # "none"}
getOfficialAccountByHandle(m) == {m} \cap listOfficialAccounts
createOfficialAccount(row) == [row EXCEPT !.status = "ACTIVE"]
archiveOfficialAccount(row) == [row EXCEPT !.status = "ARCHIVED"]

\* NULLS FIRST, then the oldest.
Wait(m) == CASE official[m].fetched = "never" -> 0
             [] official[m].fetched = "old" -> 1
             [] official[m].fetched = "fresh" -> 2

Smaller(a, b) == IF a < b THEN a ELSE b

\* ACTIVE, the longest unfetched first, BatchSize of them.
ListForIngest ==
    LET active == {m \in Monitored : official[m].status = "ACTIVE"} IN
    {some \in SUBSET active :
        /\ Cardinality(some) = Smaller(BatchSize, Cardinality(active))
        /\ \A m \in some, n \in active \ some : Wait(m) <= Wait(n)}

upsertAnalyticsSnapshot(row) == [row EXCEPT !.metrics = TRUE]
upsertAnalyticsMention(row) == [row EXCEPT !.mentions = TRUE]
touchOfficialAccountFetched(row) == [row EXCEPT !.fetched = "fresh"]

createAnalyticsIngestRun(listed) == [NoRun EXCEPT !.status = "RUNNING", !.listed = listed]
updateAnalyticsIngestRun(row, status, ok, err) ==
    [row EXCEPT !.status = status, !.ok = ok, !.err = err]

\* The terminal run that started last; 0, if there is none.
getLatestAnalyticsIngestRun ==
    LET terminal == {r \in IRuns : irun[r].status \in Closed} IN
    CHOOSE r \in terminal \cup {0} : \A q \in terminal : q <= r

\* The accounts with a sample in the window, archived ones included.
analyticsOverviewByPlatform == {m \in Monitored : official[m].metrics}

-----------------------------------------------------------------------------
(***************************************************************************)
(* What the dashboard shows, of one platform.                              *)
(***************************************************************************)
IsStale(m) == official[m].fetched # "fresh"

\* An archived account's cards keep their numbers and lose their handle.
platformKPIs(snapshots, accs) ==
    {[account |-> m, handle |-> IF m \in accs THEN m ELSE NoMonitored] : m \in snapshots}

\* One account that is not stale keeps the badge from being.
freshness(accs) ==
    [run |-> getLatestAnalyticsIngestRun, stale |-> \A m \in accs : IsStale(m)]

Overview ==
    LET active == {m \in listOfficialAccounts : official[m].status # "ARCHIVED"} IN
    [kpis |-> IF active = {} THEN {} ELSE platformKPIs(analyticsOverviewByPlatform, active),
     freshness |-> freshness(active)]

-----------------------------------------------------------------------------
(***************************************************************************)
(* Operators and time.                                                     *)
(***************************************************************************)
\* A handle in use, archived or not, is a conflict.
CreateOfficialAccount(m) ==
    /\ getOfficialAccountByHandle(m) = {}
    /\ official' = [official EXCEPT ![m] = createOfficialAccount(@)]
    /\ UNCHANGED <<ingest, irun, opened>>

\* Its history stays, and there is no way back.
ArchiveOfficialAccount(m) ==
    /\ official[m].status = "ACTIVE"
    /\ official' = [official EXCEPT ![m] = archiveOfficialAccount(@)]
    /\ UNCHANGED <<ingest, irun, opened>>

\* StaleThreshold passes.
GrowStale(m) ==
    /\ official[m].fetched = "fresh"
    /\ official' = [official EXCEPT ![m].fetched = "old"]
    /\ UNCHANGED <<ingest, irun, opened>>

\* The request is cancelled or the server stops.
Cut(i) ==
    /\ ingest[i].at # "idle" /\ ~ ingest[i].cut
    /\ ingest' = [ingest EXCEPT ![i].cut = TRUE]
    /\ UNCHANGED <<official, irun, opened>>

-----------------------------------------------------------------------------
(***************************************************************************)
(* A pass.                                                                 *)
(***************************************************************************)
Phase(i, at) == ingest' = [ingest EXCEPT ![i].at = at]
EndPass(i) == ingest' = [ingest EXCEPT ![i] = IngestIdle]

\* An accounts list that cannot be read, like a provider that is not there, is a
\* run that failed; so is one that could not be opened, without a row.
StartIngest(i) ==
    /\ ingest[i].at = "idle"
    /\ \/ \E some \in ListForIngest :
            ingest' = [ingest EXCEPT ![i].at = "open", ![i].todo = some]
       \/ ingest' = [ingest EXCEPT ![i].at = "open", ![i].sick = TRUE]
    /\ UNCHANGED <<official, irun, opened>>

CreateIngestRun(i) ==
    /\ ingest[i].at = "open"
    /\ \/ /\ ~ ingest[i].cut /\ opened < MaxIngests
          /\ opened' = opened + 1
          /\ irun' = [irun EXCEPT ![opened + 1] = createAnalyticsIngestRun(ingest[i].todo)]
          /\ ingest' = [ingest EXCEPT
                ![i].at = IF ingest[i].sick \/ ingest[i].todo = {} THEN "close" ELSE "health",
                ![i].run = opened + 1]
       \/ EndPass(i) /\ UNCHANGED <<irun, opened>>
    /\ UNCHANGED official

Health(i) ==
    /\ ingest[i].at = "health"
    /\ \/ ~ ingest[i].cut /\ Phase(i, "next")
       \/ ingest' = [ingest EXCEPT ![i].at = "close", ![i].sick = TRUE]
    /\ UNCHANGED <<official, irun, opened>>

\* A context that ended breaks the loop.
NextAccount(i) ==
    /\ ingest[i].at = "next"
    /\ IF ingest[i].todo = {} \/ ingest[i].cut THEN Phase(i, "close")
       ELSE \E m \in ingest[i].todo :
             ingest' = [ingest EXCEPT ![i].at = "metrics", ![i].on = m, ![i].todo = @ \ {m}]
    /\ UNCHANGED <<official, irun, opened>>

\* The provider or the store has an error: the account counts as failed.
AccountFails(i) ==
    /\ ingest[i].at \in {"metrics", "mentions", "touch"}
    /\ ingest' = [ingest EXCEPT ![i].at = "next", ![i].err = @ + 1]
    /\ UNCHANGED <<official, irun, opened>>

\* Mutant: the account is touched when its metrics are in.
TouchEarly(i) ==
    /\ ingest[i].at = "metrics" /\ ~ ingest[i].cut
    /\ official' = [official EXCEPT ![ingest[i].on] =
                        touchOfficialAccountFetched(upsertAnalyticsSnapshot(@))]
    /\ Phase(i, "mentions")
    /\ UNCHANGED <<irun, opened>>

UpsertSnapshot(i) ==
    /\ ingest[i].at = "metrics" /\ ~ ingest[i].cut
    /\ official' = [official EXCEPT ![ingest[i].on] = upsertAnalyticsSnapshot(@)]
    /\ Phase(i, "mentions")
    /\ UNCHANGED <<irun, opened>>

UpsertMentions(i) ==
    /\ ingest[i].at = "mentions" /\ ~ ingest[i].cut
    /\ official' = [official EXCEPT ![ingest[i].on] = upsertAnalyticsMention(@)]
    /\ Phase(i, "touch")
    /\ UNCHANGED <<irun, opened>>

TouchFetched(i) ==
    /\ ingest[i].at = "touch" /\ ~ ingest[i].cut
    /\ official' = [official EXCEPT ![ingest[i].on] = touchOfficialAccountFetched(@)]
    /\ irun' = [irun EXCEPT ![ingest[i].run].got = @ \cup {ingest[i].on}]
    /\ ingest' = [ingest EXCEPT ![i].at = "next", ![i].ok = @ + 1]
    /\ UNCHANGED opened

Verdict(i) ==
    IF ingest[i].sick THEN "FAILED"
    ELSE IF ingest[i].err = 0 THEN "SUCCESS"
    ELSE IF ingest[i].ok = 0 THEN "FAILED" ELSE "PARTIAL"

Close(i) ==
    irun' = [irun EXCEPT ![ingest[i].run] =
                updateAnalyticsIngestRun(@, Verdict(i), ingest[i].ok, ingest[i].err)]

\* Mutant: the run is closed under a context of its own.
CloseDetached(i) ==
    /\ ingest[i].at = "close"
    /\ Close(i)
    /\ EndPass(i)
    /\ UNCHANGED <<official, opened>>

\* A run that cannot be closed, because the context ended for one, stays RUNNING.
CloseRun(i) ==
    /\ ingest[i].at = "close"
    /\ \/ ~ ingest[i].cut /\ Close(i)
       \/ UNCHANGED irun
    /\ EndPass(i)
    /\ UNCHANGED <<official, opened>>

AnalyticsNext ==
    \/ \E m \in Monitored : CreateOfficialAccount(m) \/ ArchiveOfficialAccount(m) \/ GrowStale(m)
    \/ \E i \in Ingests :
        \/ StartIngest(i) \/ CreateIngestRun(i) \/ Health(i) \/ NextAccount(i)
        \/ UpsertSnapshot(i) \/ UpsertMentions(i) \/ TouchFetched(i) \/ AccountFails(i)
        \/ CloseRun(i) \/ Cut(i)

AnalyticsSpec == AnalyticsInit /\ [][AnalyticsNext]_analyticsVars

-----------------------------------------------------------------------------
(***************************************************************************)
(* Properties.                                                             *)
(***************************************************************************)
AnalyticsTypeOK ==
    /\ official \in [Monitored -> [status : OfficialStatuses \cup {"none"}, metrics : BOOLEAN,
                                   mentions : BOOLEAN, fetched : {"never", "old", "fresh"}]]
    /\ ingest \in [Ingests -> [at : {"idle", "open", "health", "next", "metrics", "mentions",
                                     "touch", "close"},
                               todo : SUBSET Monitored, on : Monitored \cup {NoMonitored},
                               ok : 0 .. BatchSize, err : 0 .. BatchSize, run : 0 .. MaxIngests,
                               sick : BOOLEAN, cut : BOOLEAN]]
    /\ irun \in [IRuns -> [status : IngestStatuses \cup {"none"}, ok : 0 .. BatchSize,
                           err : 0 .. BatchSize, listed : SUBSET Monitored, got : SUBSET Monitored]]
    /\ opened \in 0 .. MaxIngests

\* What the badge may show as the last run is true: SUCCESS, the pass fetched
\* every account it had listed; FAILED, none; PARTIAL, some and not all.  A
\* pass cut short in between must not leave a verdict on the accounts it never
\* reached (NextAccount, CloseRun).
RunVerdictIsTrue ==
    \A r \in IRuns : irun[r].status \in Closed =>
        /\ irun[r].ok = Cardinality(irun[r].got)
        /\ irun[r].status = "SUCCESS" => irun[r].got = irun[r].listed
        /\ irun[r].status = "FAILED" => irun[r].got = {}
        /\ irun[r].status = "PARTIAL" => irun[r].got # {} /\ irun[r].got # irun[r].listed

\* "The freshness badge means data present, not merely an attempt ran",
\* whichever step of whichever pass failed: an account that was ever fetched
\* has its metrics and mentions stored, and a badge that is not stale stands
\* beside the numbers of an account that is monitored (TouchFetched, Overview).
FetchedMeansData ==
    /\ \A m \in Monitored :
          official[m].fetched # "never" => official[m].metrics /\ official[m].mentions
    /\ ~ Overview.freshness.stale => \E k \in Overview.kpis : k.handle # NoMonitored
=============================================================================
