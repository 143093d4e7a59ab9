------------------------------ MODULE Accounts ------------------------------
(***************************************************************************)
(* Worker accounts, and the containers they are packed into.  Requests of  *)
(* the operator and callbacks of the workers run side by side; each is a   *)
(* sequence of single SQL statements with no transaction around them, and  *)
(* every write but Assign and Unassign stores the whole row it read:       *)
(*                                                                         *)
(*   create, import   insert the row, then walk the containers for a slot  *)
(*   pause, resume    read the row, write it back with a new status        *)
(*   login, outcome   the same with the auth status                        *)
(*   verdict          the same with the health score                       *)
(*   remove           unassign, delete                                     *)
(*   open, close      create and delete a container                        *)
(*                                                                         *)
(* What holds between the columns is therefore said of the accounts no two *)
(* requests have met on (the history variable disturbed).                  *)
(***************************************************************************)
EXTENDS Integers, FiniteSets

CONSTANTS
    Names,           \* accounts, as (platform, username)
    Networks,        \* what platforms they may be on: functions of Names
    MaxBoxes,        \* containers are numbered 1 .. MaxBoxes by created_at
    Ports,           \* NOVNC_PORT_MIN .. NOVNC_PORT_MAX
    MaxPerContainer, \* MAX_ACCOUNTS_PER_CONTAINER
    AutoCreate,      \* PROVISION_AUTO_CREATE
    MaxImportRows,   \* rows an import may carry
    ScoreMax, QuarantineThreshold, FailPenalty, RecoverBonus, \* HealthScorePolicy
    AuthPenalty, RatePenalty,                                 \* its two literals
    Reqs,            \* handlers that may run at once
    MaxOps,          \* bound: so many requests arrive
    MaxAborts,       \* bound: so many die half-way
    Nobody           \* no account, no container, NULL

Boxes == 1 .. MaxBoxes
AuthStates == {"AUTHENTICATING", "NEEDS_INPUT", "AUTHENTICATED", "FAILED"}
Statuses == {"ACTIVE", "PAUSED", "QUARANTINED", "DEAD"}
Verdicts == {"SUCCESS", "TRANSIENT", "RATE_LIMIT", "AUTH", "BANNED"}
DesiredStates == {"RUNNING", "STOPPED"}
WorkerSources == {"MANUAL", "AUTO"}

ASSUME AccountsConstants ==
    /\ IsFiniteSet(Names) /\ IsFiniteSet(Reqs)
    /\ {MaxBoxes, MaxImportRows, MaxOps, MaxAborts} \subseteq Nat
    /\ MaxPerContainer \in Nat \ {0}
    /\ Ports \subseteq Nat
    /\ {ScoreMax, QuarantineThreshold, FailPenalty, RecoverBonus,
        AuthPenalty, RatePenalty} \subseteq Nat
    /\ QuarantineThreshold <= ScoreMax
    /\ AutoCreate \in BOOLEAN
    /\ Nobody \notin Names /\ Nobody \notin Boxes /\ Nobody \notin Ports

VARIABLES
    net,       \* the platform of each account
    acc,       \* the rows of table account
    box,       \* the rows of table worker, as far as packing reads them
    req,       \* the requests in flight
    asked,     \* accounts an auth-login has been published for
    budget,    \* requests and aborts still to come
    disturbed, \* history: accounts two requests have met on, or one died on
    laundered  \* history: accounts paused while they were held back

accountVars == <<net, acc, box, req, asked, budget, disturbed, laundered>>

Fresh == [phase |-> "live", status |-> "ACTIVE", auth |-> "AUTHENTICATING",
          score |-> ScoreMax, box |-> Nobody]

NoAccount == [Fresh EXCEPT !.phase = "none"]
NoBox == [phase |-> "none", source |-> "MANUAL", desired |-> "RUNNING", port |-> Nobody]

Waiting == [kind |-> "none", stage |-> "idle", name |-> Nobody, pick |-> Nobody,
            arg |-> "", snap |-> NoAccount, box |-> Nobody, cands |-> {}, todo |-> {}]

AccountsInit ==
    /\ net \in Networks
    /\ acc = [n \in Names |-> NoAccount]
    /\ box = [b \in Boxes |-> NoBox]
    /\ req = [q \in Reqs |-> Waiting]
    /\ asked = {}
    /\ budget = [ops |-> MaxOps, aborts |-> MaxAborts]
    /\ disturbed = {}
    /\ laundered = {}

-----------------------------------------------------------------------------
(***************************************************************************)
(* The statements.                                                         *)
(***************************************************************************)
Has(n) == acc[n].phase = "live"
Stands(b) == box[b].phase = "live"

\* SELECT ... WHERE worker_id = b; SELECT count(*) ... .
ListAccountsByWorker(b) == {n \in Names : Has(n) /\ acc[n].box = b}
CountAccountsByWorker(b) == Cardinality(ListAccountsByWorker(b))

\* UNIQUE (worker_id, platform) and the foreign key.
Hostable(n, b) ==
    b = Nobody \/ /\ Stands(b)
                  /\ \A m \in ListAccountsByWorker(b) \ {n} : net[m] # net[n]

InsertAccount(n) == acc' = [acc EXCEPT ![n] = Fresh]
AssignAccount(n, b) == acc' = [acc EXCEPT ![n].box = b]
UnassignAccount(n) == acc' = [acc EXCEPT ![n].box = Nobody]
UpdateAccount(n, row) == acc' = [acc EXCEPT ![n] = row]
DeleteAccount(n) == acc' = [acc EXCEPT ![n] = [NoAccount EXCEPT !.phase = "gone"]]

\* Mutant: the columns carry no constraint.
WritableAny(n, row) == Has(n)

\* UPDATE account SET every column: refused when the row is gone, or when the
\* container it names is gone or has taken another account of the platform.
Writable(n, row) == Has(n) /\ Hostable(n, row.box)

InsertBox(b, source, port) ==
    box' = [box EXCEPT ![b] = [phase |-> "live", source |-> source,
                               desired |-> "RUNNING", port |-> port]]

\* ON DELETE SET NULL.
DeleteBox(b) ==
    /\ box' = [box EXCEPT ![b] = [NoBox EXCEPT !.phase = "gone"]]
    /\ acc' = [n \in Names |-> IF acc[n].box = b THEN [acc[n] EXCEPT !.box = Nobody] ELSE acc[n]]

\* The next id, when the bound leaves one.
NextBox == {b \in Boxes : box[b].phase = "none" /\ \A c \in Boxes : c < b => box[c].phase # "none"}

-----------------------------------------------------------------------------
(***************************************************************************)
(* Requests.                                                               *)
(***************************************************************************)
Put(q, r) == req' = [req EXCEPT ![q] = r]
Stage(q, stage) == Put(q, [req[q] EXCEPT !.stage = stage])
At(q, kind, stage) == req[q].kind = kind /\ req[q].stage = stage

\* An import goes on with its next row, whatever became of this one.
Done(q) ==
    IF req[q].kind = "create" /\ req[q].todo # {}
    THEN \E n \in req[q].todo :
            Put(q, [Waiting EXCEPT !.kind = "create", !.stage = "insert",
                                   !.name = n, !.todo = req[q].todo \ {n}])
    ELSE Put(q, Waiting)

\* The accounts a request is working on.
Touched(q) == IF req[q].kind = "close" THEN req[q].todo ELSE {req[q].name} \ {Nobody}

Arrive(q, r) ==
    /\ req[q].kind = "none"
    /\ budget.ops > 0
    /\ budget' = [budget EXCEPT !.ops = @ - 1]
    /\ Put(q, r)
    /\ UNCHANGED <<acc, box, asked, laundered>>

Ask(q, kind, n, arg) ==
    /\ Has(n)
    /\ Arrive(q, [Waiting EXCEPT !.kind = kind, !.stage = "read", !.name = n, !.arg = arg])

\* POST /accounts, with the container the operator picked or none, and
\* POST /accounts/import.  A name whose row has been deleted is not used again.
PostAccount(q) ==
    \E n \in Names, b \in {c \in Boxes : box[c].phase # "none"} \cup {Nobody} :
        /\ acc[n].phase # "gone"
        /\ Arrive(q, [Waiting EXCEPT !.kind = "create", !.stage = "insert", !.name = n, !.pick = b])

PostImport(q) ==
    \E rows \in SUBSET {n \in Names : acc[n].phase # "gone"} : \E n \in rows :
        /\ Cardinality(rows) <= MaxImportRows
        /\ Arrive(q, [Waiting EXCEPT !.kind = "create", !.stage = "insert",
                                  !.name = n, !.todo = rows \ {n}])

\* POST /accounts/:id, POST /accounts/:id/login, DELETE /accounts/:id.
SetStatus(q) == \E n \in Names, kind \in {"pause", "resume"} : Ask(q, kind, n, "")
StartLogin(q) == \E n \in Names : Ask(q, "login", n, "")
RemoveAccount(q) == \E n \in Names : Ask(q, "remove", n, "")

\* Callbacks: a login that was asked for ends, or parks; an attempt ends.
AccountCallback(q) ==
    \E n \in asked, s \in AuthStates \ {"AUTHENTICATING"} : Ask(q, "outcome", n, s)
VerdictCallback(q) == \E n \in Names, v \in Verdicts : Ask(q, "verdict", n, v)

\* POST /containers with or without a port, DELETE /containers/:id.
OpenBox(q) ==
    \E p \in Ports \cup {Nobody} :
        Arrive(q, [Waiting EXCEPT !.kind = "open", !.stage = "port", !.pick = p])

CloseBox(q) ==
    \E b \in Boxes :
        /\ Stands(b)
        /\ Arrive(q, [Waiting EXCEPT !.kind = "close", !.stage = "list", !.box = b])

-----------------------------------------------------------------------------
(***************************************************************************)
(* The packer.  `pick' is the picked container; a pick is examined twice,   *)
(* once before and once after the account is read.                         *)
(***************************************************************************)
Picked(q) == req[q].pick # Nobody
IsPackable(row) == row.status \notin {"QUARANTINED", "DEAD"} \* and not ARCHIVED, which nothing sets

\* The newest candidate, or a fresh container, or ErrNoSlot.
Walk(q, cands) ==
    IF cands # {}
    THEN \E b \in cands :
            /\ \A c \in cands : c <= b
            /\ Put(q, [req[q] EXCEPT !.stage = "count", !.box = b, !.cands = cands \ {b}])
    ELSE IF AutoCreate THEN Put(q, [req[q] EXCEPT !.stage = "port", !.box = Nobody]) ELSE Done(q)

NotFree(q) == IF Picked(q) THEN Done(q) ELSE Walk(q, req[q].cands)
SlotFree(q) == Stage(q, IF Picked(q) /\ req[q].snap = NoAccount THEN "get" ELSE "assign")

\* A name that is taken is a conflict.
Insert(q) ==
    /\ At(q, "create", "insert")
    /\ IF Has(req[q].name) THEN Done(q) /\ UNCHANGED acc
       ELSE /\ InsertAccount(req[q].name)
            /\ IF Picked(q) THEN Put(q, [req[q] EXCEPT !.stage = "resolve", !.box = req[q].pick])
               ELSE Stage(q, "get")
    /\ UNCHANGED <<box, asked, budget, laundered>>

\* ResolveContainer looks the container up, whatever its desired state.
ResolveContainer(q) ==
    /\ At(q, "create", "resolve")
    /\ IF Stands(req[q].box) THEN Stage(q, "count") ELSE Done(q)
    /\ UNCHANGED <<acc, box, asked, budget, laundered>>

\* Mutant: the cap is left to the slots.
CountIgnored(q) ==
    /\ At(q, "create", "count")
    /\ Stage(q, "hosted")
    /\ UNCHANGED <<acc, box, asked, budget, laundered>>

\* hasFreeSlot, its two reads.
CountSlots(q) ==
    /\ At(q, "create", "count")
    /\ IF CountAccountsByWorker(req[q].box) < MaxPerContainer THEN Stage(q, "hosted")
                                                              ELSE NotFree(q)
    /\ UNCHANGED <<acc, box, asked, budget, laundered>>

ListHosted(q) ==
    /\ At(q, "create", "hosted")
    /\ IF \E m \in ListAccountsByWorker(req[q].box) : net[m] = net[req[q].name]
       THEN NotFree(q) ELSE SlotFree(q)
    /\ UNCHANGED <<acc, box, asked, budget, laundered>>

\* Pack and PackInto read the account they have to place.
GetAccount(q) ==
    LET row == acc[req[q].name] IN
    /\ At(q, "create", "get")
    /\ IF ~Has(req[q].name) \/ ~IsPackable(row) \/ row.box # Nobody THEN Done(q)
       ELSE Put(q, [req[q] EXCEPT !.snap = row, !.stage = IF Picked(q) THEN "resolve" ELSE "cands"])
    /\ UNCHANGED <<acc, box, asked, budget, laundered>>

ListCandidates(q) ==
    /\ At(q, "create", "cands")
    /\ Walk(q, {b \in Boxes : Stands(b) /\ box[b].desired = "RUNNING"})
    /\ UNCHANGED <<acc, box, asked, budget, laundered>>

\* A slot lost to a concurrent pack sends the walk on; it ends where the
\* container was picked or made for the account (`cands' then names it still), and
\* when the container or the account is gone.
Walking(q) == ~Picked(q) /\ req[q].box \notin req[q].cands

Assign(q) ==
    LET n == req[q].name  b == req[q].box IN
    /\ At(q, "create", "assign")
    /\ IF Has(n) /\ Hostable(n, b) THEN AssignAccount(n, b) /\ Done(q)
       ELSE /\ IF Has(n) /\ Stands(b) /\ Walking(q) THEN Walk(q, req[q].cands) ELSE Done(q)
            /\ UNCHANGED acc
    /\ UNCHANGED <<box, asked, budget, laundered>>

\* NovncAllocator: the ports the rows name, then the one asked for or the
\* first free.  `cands' remembers the choice until the row is inserted.
UsedPorts == {box[b].port : b \in {c \in Boxes : Stands(c)}} \ {Nobody}

\* Mutant: the ports in use are not asked for.
PickAny(requested) ==
    IF requested # Nobody THEN {requested} ELSE {p \in Ports : \A o \in Ports : p <= o}

PickPort(requested) ==
    IF requested # Nobody THEN {requested} \ UsedPorts
    ELSE {p \in Ports \ UsedPorts : \A o \in Ports \ UsedPorts : p <= o}

AllocatePort(q) ==
    LET found == PickPort(IF req[q].kind = "open" THEN req[q].pick ELSE Nobody) IN
    /\ req[q].kind \in {"create", "open"} /\ req[q].stage = "port"
    /\ IF found = {} THEN Done(q)
       ELSE Put(q, [req[q] EXCEPT !.stage = "spawn", !.cands = found])
    /\ UNCHANGED <<acc, box, asked, budget, laundered>>

CreateWorker(q) ==
    /\ req[q].stage = "spawn"
    /\ \E b \in NextBox, p \in req[q].cands :
        /\ InsertBox(b, IF req[q].kind = "open" THEN "MANUAL" ELSE "AUTO", p)
        /\ IF req[q].kind = "open" THEN Done(q)
           ELSE Put(q, [req[q] EXCEPT !.stage = "assign", !.box = b, !.cands = {b}])
    /\ UNCHANGED <<acc, asked, budget, laundered>>

-----------------------------------------------------------------------------
(***************************************************************************)
(* Health.                                                                 *)
(***************************************************************************)
Penalty(v) ==
    CASE v = "BANNED" -> ScoreMax
      [] v = "AUTH" -> AuthPenalty
      [] v = "RATE_LIMIT" -> RatePenalty
      [] OTHER -> FailPenalty

ClampScore(s) == IF s < 0 THEN 0 ELSE IF s > ScoreMax THEN ScoreMax ELSE s

Scored(score, v) == ClampScore(IF v = "SUCCESS" THEN score + RecoverBonus ELSE score - Penalty(v))

IsTerminal(v) == v = "BANNED"
ShouldQuarantine(score, v) == v = "BANNED" \/ score < QuarantineThreshold

\* Mutant: the threshold is compared with the score before the verdict.
JudgedLate(row, v) ==
    [row EXCEPT !.score = Scored(row.score, v),
                !.status = IF IsTerminal(v) THEN "DEAD"
                           ELSE IF ShouldQuarantine(row.score, v) THEN "QUARANTINED" ELSE @]

\* applyHealth, on the row it read.
Judged(row, v) ==
    LET score == Scored(row.score, v) IN
    [row EXCEPT !.score = score,
                !.status = IF IsTerminal(v) THEN "DEAD"
                           ELSE IF ShouldQuarantine(score, v) THEN "QUARANTINED" ELSE @]

-----------------------------------------------------------------------------
(***************************************************************************)
(* Read a row, change it, write it all back.                               *)
(***************************************************************************)
Edits == {"pause", "resume", "login", "outcome", "verdict"}

ReadRow(q) ==
    LET row == acc[req[q].name] IN
    /\ req[q].kind \in Edits /\ req[q].stage = "read"
    /\ IF ~Has(req[q].name) THEN Done(q)
       ELSE IF req[q].kind = "resume" /\ row.status \notin {"PAUSED", "QUARANTINED"} THEN Done(q)
       ELSE Put(q, [req[q] EXCEPT !.snap = row,
                                  !.stage = IF req[q].kind = "login" THEN "publish" ELSE "write"])
    /\ UNCHANGED <<acc, box, asked, budget, laundered>>

\* A login needs a container with a live view, and its control channel.
PublishLogin(q) ==
    LET b == req[q].snap.box IN
    /\ At(q, "login", "publish")
    /\ IF b # Nobody /\ Stands(b) /\ box[b].port # Nobody
       THEN asked' = asked \cup {req[q].name} /\ Stage(q, "write")
       ELSE Done(q) /\ UNCHANGED asked
    /\ UNCHANGED <<acc, box, budget, laundered>>

\* Resume is the manual reset of a quarantine; an account that was only
\* paused keeps its score, and nothing packs it.
Resumed(row) ==
    [row EXCEPT !.status = "ACTIVE",
                !.score = IF row.status = "QUARANTINED" THEN ScoreMax ELSE @]

Edited(q) ==
    LET row == req[q].snap IN
    CASE req[q].kind = "pause" -> [row EXCEPT !.status = "PAUSED"]
      [] req[q].kind = "resume" -> Resumed(row)
      [] req[q].kind = "login" -> [row EXCEPT !.auth = "AUTHENTICATING"]
      [] req[q].kind = "outcome" -> [row EXCEPT !.auth = req[q].arg]
      [] OTHER -> Judged(row, req[q].arg)

WriteRow(q) ==
    LET n == req[q].name  row == Edited(q) IN
    /\ req[q].kind \in Edits /\ req[q].stage = "write"
    /\ IF Writable(n, row)
       THEN /\ UpdateAccount(n, row)
            /\ laundered' = IF req[q].kind = "pause" /\ ~IsPackable(req[q].snap)
                            THEN laundered \cup {n} ELSE laundered
            /\ IF req[q].kind = "pause" THEN Stage(q, "release") ELSE Done(q)
       ELSE Done(q) /\ UNCHANGED <<acc, laundered>>
    /\ UNCHANGED <<box, asked, budget>>

\* Mutant: a pause leaves the slot to the resume that follows.
ReleaseKept(q) ==
    /\ At(q, "pause", "release")
    /\ Done(q)
    /\ UNCHANGED <<acc, box, asked, budget, laundered>>

\* Release: the row it gets back names no container any more, so nothing is
\* ever reaped.
Release(q) ==
    /\ At(q, "pause", "release")
    /\ IF Has(req[q].name) THEN UnassignAccount(req[q].name) ELSE UNCHANGED acc
    /\ Done(q)
    /\ UNCHANGED <<box, asked, budget, laundered>>

\* Remove ends when its release finds no row.
RemoveReleases(q) ==
    /\ At(q, "remove", "read")
    /\ IF Has(req[q].name) THEN UnassignAccount(req[q].name) /\ Stage(q, "delete")
       ELSE Done(q) /\ UNCHANGED acc
    /\ UNCHANGED <<box, asked, budget, laundered>>

RemoveDeletes(q) ==
    /\ At(q, "remove", "delete")
    /\ IF Has(req[q].name) THEN DeleteAccount(req[q].name) ELSE UNCHANGED acc
    /\ Done(q)
    /\ UNCHANGED <<box, asked, budget, laundered>>

-----------------------------------------------------------------------------
(***************************************************************************)
(* ContainerService.Delete; the platform's side of it is in Fleet.         *)
(***************************************************************************)
CloseLists(q) ==
    /\ At(q, "close", "list")
    /\ IF Stands(req[q].box)
       THEN Put(q, [req[q] EXCEPT !.stage = "empty", !.todo = ListAccountsByWorker(req[q].box)])
       ELSE Done(q)
    /\ UNCHANGED <<acc, box, asked, budget, laundered>>

CloseReleases(q) ==
    /\ At(q, "close", "empty")
    /\ \E n \in req[q].todo :
        /\ IF Has(n) THEN UnassignAccount(n) ELSE UNCHANGED acc
        /\ Put(q, [req[q] EXCEPT !.todo = @ \ {n}])
    /\ UNCHANGED <<box, asked, budget, laundered>>

CloseStops(q) ==
    /\ At(q, "close", "empty") /\ req[q].todo = {}
    /\ IF Stands(req[q].box)
       THEN box' = [box EXCEPT ![req[q].box].desired = "STOPPED"] /\ Stage(q, "drop")
       ELSE Done(q) /\ UNCHANGED box
    /\ UNCHANGED <<acc, asked, budget, laundered>>

CloseDrops(q) ==
    /\ At(q, "close", "drop")
    /\ IF Stands(req[q].box) THEN DeleteBox(req[q].box) ELSE UNCHANGED <<acc, box>>
    /\ Done(q)
    /\ UNCHANGED <<asked, budget, laundered>>

-----------------------------------------------------------------------------
Arrives(q) ==
    \/ PostAccount(q) \/ PostImport(q) \/ SetStatus(q) \/ StartLogin(q) \/ RemoveAccount(q)
    \/ AccountCallback(q) \/ VerdictCallback(q) \/ OpenBox(q) \/ CloseBox(q)

Advances(q) ==
    \/ Insert(q) \/ ResolveContainer(q) \/ CountSlots(q) \/ ListHosted(q) \/ GetAccount(q)
    \/ ListCandidates(q) \/ Assign(q) \/ AllocatePort(q) \/ CreateWorker(q)
    \/ ReadRow(q) \/ PublishLogin(q) \/ WriteRow(q) \/ Release(q)
    \/ RemoveReleases(q) \/ RemoveDeletes(q)
    \/ CloseLists(q) \/ CloseReleases(q) \/ CloseStops(q) \/ CloseDrops(q)

\* A statement fails, the client hangs up, or the API dies.
Aborts(q) ==
    /\ req[q].kind # "none"
    /\ budget.aborts > 0
    /\ budget' = [budget EXCEPT !.aborts = @ - 1]
    /\ Put(q, Waiting)
    /\ disturbed' = disturbed \cup Touched(q)
    /\ UNCHANGED <<acc, box, asked, laundered>>

Met == {n \in Names : \E p, q \in Reqs : p # q /\ n \in Touched(p) /\ n \in Touched(q)}

AccountsNext ==
    /\ \E q \in Reqs :
        \/ (Arrives(q) \/ Advances(q)) /\ disturbed' = disturbed \cup Met'
        \/ Aborts(q)
    /\ UNCHANGED net

AccountsSpec == AccountsInit /\ [][AccountsNext]_accountVars

-----------------------------------------------------------------------------
(***************************************************************************)
(* Properties.                                                             *)
(***************************************************************************)
AccountRow == [phase : {"none", "live", "gone"}, status : Statuses, auth : AuthStates,
               score : 0 .. ScoreMax, box : Boxes \cup {Nobody}]

\* The rows keep their columns' types, and no account is on a container that
\* does not exist or that hosts another account of its platform.
AccountsTypeOK ==
    /\ net \in Networks
    /\ acc \in [Names -> AccountRow]
    /\ box \in [Boxes -> [phase : {"none", "live", "gone"}, source : WorkerSources,
                          desired : DesiredStates, port : Ports \cup {Nobody}]]
    /\ req \in [Reqs -> [kind : {"none", "create", "remove", "open", "close"} \cup Edits,
                         stage : {"idle", "insert", "resolve", "count", "hosted", "get", "cands",
                                  "assign", "port", "spawn", "read", "publish", "write", "release",
                                  "delete", "list", "empty", "drop"},
                         name : Names \cup {Nobody},
                         pick : Boxes \cup Ports \cup {Nobody},
                         arg : AuthStates \cup Verdicts \cup {""},
                         snap : AccountRow, box : Boxes \cup {Nobody},
                         cands : SUBSET (Boxes \cup Ports), todo : SUBSET Names]]
    /\ asked \subseteq Names /\ disturbed \subseteq Names /\ laundered \subseteq Names
    /\ budget \in [ops : 0 .. MaxOps, aborts : 0 .. MaxAborts]
    /\ \A n \in Names : acc[n].box # Nobody => Has(n) /\ Stands(acc[n].box)
    /\ \A n, m \in Names :
        acc[n].box = acc[m].box /\ net[n] = net[m] /\ acc[n].box # Nobody => n = m

\* MAX_ACCOUNTS_PER_CONTAINER is read before the slot is taken: requests that
\* race can pass it, each by one account at most, however stale the row that
\* one of them writes back (CountSlots against Assign and WriteRow).
CapOverrunBounded ==
    \A b \in Boxes : CountAccountsByWorker(b) < MaxPerContainer + Cardinality(Reqs)

\* "A manual create and an auto-spawn cannot pick the same port": they can,
\* for the ports are read before the row is inserted, but no more containers
\* share one than requests were racing (AllocatePort, CreateWorker).
PortSharersBounded ==
    \A p \in Ports : Cardinality({b \in Boxes : Stands(b) /\ box[b].port = p}) <= Cardinality(Reqs)

\* "It is unassigned from its container so the worker stops using it": a
\* paused account holds no slot, unless another request wrote its row
\* meanwhile or the pause died half-way (WriteRow, Release).
PausedIsReleased ==
    \A n \in Names \ disturbed :
        Has(n) /\ acc[n].status = "PAUSED" /\ acc[n].box # Nobody =>
            \E q \in Reqs : At(q, "pause", "release") /\ req[q].name = n

\* An account below the threshold is out of the pool, except one that was
\* paused while held back and then resumed - which never restores its score -
\* or whose row two requests wrote at once (Judged, Resumed).
LowScoreIsPulled ==
    \A n \in Names \ (disturbed \cup laundered) :
        Has(n) /\ acc[n].status = "ACTIVE" => acc[n].score >= QuarantineThreshold

=============================================================================
