-------------------------------- MODULE Fleet --------------------------------
(***************************************************************************)
(* The worker fleet: rows of the table worker, the platform that runs a    *)
(* container for each, and the four parties that change them with no lock  *)
(* in common:                                                              *)
(*                                                                         *)
(*   the operator     creates rows and deletes them (ContainerService)     *)
(*   the reconciler   lists the rows, then for each observes the platform, *)
(*                    creates or deletes, and writes the row it listed     *)
(*                    back with a new observed_gen                         *)
(*   the sweeper      deletes what the platform runs and no row names      *)
(*   a container      claims a row when it boots and serves its queue      *)
(*                                                                         *)
(* A row keeps generation 1 for life: nothing in the API raises it.        *)
(* Drivers names the platforms explored; one is chosen at the start.       *)
(***************************************************************************)
EXTENDS Integers, FiniteSets

CONSTANTS
    MaxRows,    \* rows are numbered 1 .. MaxRows by created_at
    Replicas,   \* containers of `docker compose up --scale worker=N'
    Drivers,    \* PROVISIONER_MODE: "docker", "k8s", "static"
    ListLimit,  \* a List answers with so many rows, the newest
    Faults,     \* the faults the environment may inject
    MaxFaults,  \* bound: so many faults happen
    MaxDeletes, \* bound: so many rows are deleted
    MaxBusy,    \* bound: so many ticks, requests and claims run at once
    None        \* no container, no row, NULL

(***************************************************************************)
(*   driver_error  a platform call fails, possibly half-way                *)
(*   start_error   docker creates the container and cannot start it        *)
(*   reply_lost    a claim commits and its answer does not arrive          *)
(*   row_busy      another statement holds the row a claim asks for        *)
(*   api_crash     the API dies; its loops start again with nothing        *)
(*   restart       a worker process dies and its container starts it again *)
(***************************************************************************)
FaultKinds ==
    {"driver_error", "start_error", "reply_lost", "row_busy", "api_crash", "restart"}

Rows == 1 .. MaxRows

\* A container launched for row r boots as r; a replica as itself.
Boots == Rows \cup Replicas

ASSUME FleetConstants ==
    /\ MaxRows \in Nat
    /\ {ListLimit, MaxFaults, MaxDeletes, MaxBusy} \subseteq Nat
    /\ Drivers \subseteq {"docker", "k8s", "static"}
    /\ Faults \subseteq FaultKinds
    /\ None \notin Boots
    /\ Replicas \cap Rows = {}

VARIABLES
    driver, \* the driver main.go has wired
    row,    \* the worker rows
    plat,   \* what the platform holds for each row
    proc,   \* the worker process of each container
    rec,    \* the reconciler's tick
    swp,    \* the sweeper's tick, and its firstSeen map
    del,    \* the DELETE request in flight
    spare,  \* how many faults may still happen
    undone  \* history: rows whose container_id a full-row write has changed

vars == <<driver, row, plat, proc, rec, swp, del, spare, undone>>

Unborn == [phase |-> "none", desired |-> "RUNNING", observed |-> None,
           owner |-> None, status |-> "PENDING"]

Gone == [Unborn EXCEPT !.phase = "gone"]

\* Not claimed yet; serving a queue without a row of its own; and `row' is
\* the row locked by a claim, or the one whose queue the process pops.
Off == [stage |-> "off", row |-> None, held |-> FALSE]

\* A container that exists and does not run; volumes and services come and go
\* with it and are left out.
Platform == {"absent", "created", "running"}

NoSnap == [r \in Rows |-> None]
RecIdle == [stage |-> "idle", row |-> None, gen |-> 0, snap |-> NoSnap]
SwpIdle == [stage |-> "idle", ids |-> {}]
NoneSeen == [r \in Rows |-> "no"]
DelIdle == [stage |-> "idle", row |-> None, snap |-> Unborn]

Init ==
    /\ driver \in Drivers
    /\ row = [r \in Rows |-> Unborn]
    /\ plat = [r \in Rows |-> "absent"]
    /\ proc = [b \in Boots |-> Off]
    /\ rec = RecIdle
    /\ swp = [tick |-> SwpIdle, seen |-> NoneSeen]
    /\ del = DelIdle
    /\ spare = MaxFaults
    /\ undone = {}

-----------------------------------------------------------------------------
(***************************************************************************)
(* The store.  A statement waits for the row lock of a claim.              *)
(***************************************************************************)
Live(r) == row[r].phase = "live"
LiveRows == {r \in Rows : Live(r)}
Locked == {proc[b].row : b \in {c \in Boots : proc[c].stage = "claiming"}}

\* ORDER BY created_at DESC LIMIT n.
Listed == {r \in LiveRows : Cardinality({q \in LiveRows : q > r}) < ListLimit}

\* Mutant: container_id is a plain column.
MayOwnAny(b, r) == TRUE

\* UNIQUE (container_id).
MayOwn(b, r) == b = None \/ \A q \in LiveRows \ {r} : row[q].owner # b

\* Faults still to come, and what runs at the moment.
CanFail(fault) == fault \in Faults /\ spare > 0
Fault(fault) == CanFail(fault) /\ spare' = spare - 1

Busy ==
    Cardinality({b \in Boots : proc[b].stage = "claiming"})
    + Cardinality({s \in {<<"rec", rec.stage>>, <<"swp", swp.tick.stage>>, <<"del", del.stage>>} :
                      s[2] # "idle"})
MayStart == Busy < MaxBusy

\* UpdateWorker writes every mutable column of a row read earlier.
UpdateWorker(r, w) ==
    /\ row' = [row EXCEPT ![r] = w]
    /\ undone' = IF row[r].owner = w.owner THEN undone ELSE undone \cup {r}

Updatable(r, w) == Live(r) /\ MayOwn(w.owner, r)

-----------------------------------------------------------------------------
(***************************************************************************)
(* The driver calls, as the set of what each can leave behind.             *)
(***************************************************************************)
\* Observe: the generation there is, 0 for none.  A docker container counts
\* when it runs, a pod when it is there; the static driver takes the row's word.
DockerObserve(r) == IF plat[r] = "running" THEN 1 ELSE 0
K8sObserve(r) == IF plat[r] = "absent" THEN 0 ELSE 1
StaticObserve(r) ==
    IF ~Live(r) THEN 0 ELSE IF row[r].observed # None THEN row[r].observed ELSE 1

\* Whether it is there at all: a row that has been marked 0 still is, for static.
Exists(r) ==
    CASE driver = "static" -> Live(r)
      [] driver = "docker" -> DockerObserve(r) # 0
      [] OTHER -> K8sObserve(r) # 0

\* What a call leaves of a row's container: without a fault, and with one.
Ends(ok, left) == [ok |-> ok, left |-> left, cost |-> 0]
Hurt(fault, ok, lefts) ==
    {[ok |-> ok, left |-> left, cost |-> 1] : left \in IF CanFail(fault) THEN lefts ELSE {}}

\* containerByWorkerID: the label finds containers that do not run, too.
Found(r) == plat[r] # "absent"

\* docker: a container that exists and does not run keeps its name, and
\* create answers 409.
DockerCreate(r) ==
    CASE DockerObserve(r) = 1 -> {Ends(TRUE, "running")}
      [] DockerObserve(r) = 0 /\ Found(r) -> {Ends(FALSE, "created")}
      [] OTHER -> {Ends(TRUE, "running")}
                  \cup Hurt("start_error", FALSE, {"created"})
                  \cup Hurt("driver_error", FALSE, {"absent"})

\* k8s: a pod of the row's generation, or a newer one, is left alone.
ensurePod(left) == IF left # "absent" THEN left ELSE "running"

\* Volume, pod and service, each ensured in turn; whichever fails is reported,
\* before the pod or after it.
K8sCreate(r) ==
    {Ends(TRUE, ensurePod(plat[r]))}
    \cup Hurt("driver_error", FALSE, {plat[r], ensurePod(plat[r])})

\* docker reports the container and drops the volumes on a best effort; k8s
\* reports the first of service, pod and volume it cannot delete.
DockerDelete(r) ==
    {Ends(TRUE, "absent")} \cup Hurt("driver_error", FALSE, {plat[r]})

K8sDelete(r) ==
    {Ends(TRUE, "absent")} \cup Hurt("driver_error", FALSE, {plat[r], "absent"})

\* The static driver has nothing to create or delete.
CreateOutcomes(r) ==
    CASE driver = "docker" -> DockerCreate(r)
      [] driver = "k8s" -> K8sCreate(r)
      [] OTHER -> {Ends(TRUE, "absent")}

DeleteOutcomes(r) ==
    CASE driver = "docker" -> DockerDelete(r)
      [] driver = "k8s" -> K8sDelete(r)
      [] OTHER -> {Ends(TRUE, "absent")}

\* A container that is gone takes its process, and its open claim, along.
Provision(r, o) ==
    /\ plat' = [plat EXCEPT ![r] = o.left]
    /\ proc' = IF plat[r] = "running" /\ o.left # "running" THEN [proc EXCEPT ![r] = Off] ELSE proc
    /\ spare' = spare - o.cost

-----------------------------------------------------------------------------
(***************************************************************************)
(* The operator.                                                           *)
(***************************************************************************)
Create(r) ==
    /\ row[r].phase = "none"
    /\ \A q \in Rows : q < r => row[q].phase # "none"
    /\ row' = [row EXCEPT ![r].phase = "live"]
    /\ UNCHANGED <<driver, plat, proc, rec, swp, del, spare, undone>>

DeleteRequested(r) ==
    /\ del.stage = "idle" /\ MayStart
    /\ Live(r)
    /\ Cardinality({q \in Rows : row[q].phase = "gone"}) < MaxDeletes
    /\ del' = [stage |-> IF row[r].desired = "RUNNING" THEN "stop" ELSE "drop",
               row |-> r, snap |-> row[r]]
    /\ UNCHANGED <<driver, row, plat, proc, rec, swp, spare, undone>>

\* Mark the row STOPPED; a failure ends the request.
DeleteStops ==
    LET r == del.row
        w == [del.snap EXCEPT !.desired = "STOPPED"]
    IN  /\ del.stage = "stop"
        /\ r \notin Locked
        /\ IF Updatable(r, w)
           THEN UpdateWorker(r, w) /\ del' = [del EXCEPT !.stage = "purge"]
           ELSE del' = DelIdle /\ UNCHANGED <<row, undone>>
        /\ UNCHANGED <<driver, plat, proc, rec, swp, spare>>

\* A driver that fails is logged; the row goes all the same.
DeletePurges ==
    /\ del.stage = "purge"
    /\ \E o \in DeleteOutcomes(del.row) : Provision(del.row, o)
    /\ del' = [del EXCEPT !.stage = "drop"]
    /\ UNCHANGED <<driver, row, rec, swp, undone>>

DeleteDrops ==
    /\ del.stage = "drop"
    /\ del.row \notin Locked
    /\ row' = [row EXCEPT ![del.row] = Gone]
    /\ del' = DelIdle
    /\ UNCHANGED <<driver, plat, proc, rec, swp, spare, undone>>

-----------------------------------------------------------------------------
(***************************************************************************)
(* The reconciler.  `snap' keeps the rows of the tick's List that are      *)
(* still to come, each as it was listed.                                   *)
(***************************************************************************)
Todo == {r \in Rows : rec.snap[r] # None}
Newest(S) == {r \in S : \A q \in S : q <= r}

RecList ==
    /\ rec.stage = "idle" /\ MayStart
    /\ Listed # {}
    /\ rec' = [rec EXCEPT !.stage = "scan",
                          !.snap = [r \in Rows |-> IF r \in Listed THEN row[r] ELSE None]]
    /\ UNCHANGED <<driver, row, plat, proc, swp, del, spare, undone>>

Continue(r) ==
    rec' = IF Todo = {r} THEN RecIdle
           ELSE [rec EXCEPT !.stage = "scan", !.row = None, !.snap[r] = None]

ObservedGen(r) ==
    CASE driver = "static" -> StaticObserve(r)
      [] driver = "docker" -> DockerObserve(r)
      [] OTHER -> K8sObserve(r)

\* The column does not say what runs.
staleObservedGen(w) == w.observed # 1

\* Mutant: nothing is torn down.
DiffKeeps(w, gen, exists) ==
    CASE w.desired = "RUNNING" /\ gen < 1 -> "create"
      [] w.desired = "RUNNING" /\ gen = 1 /\ staleObservedGen(w) -> "mark"
      [] OTHER -> "none"

\* diff, on the row as it was listed.
Diff(w, gen, exists) ==
    CASE w.desired = "RUNNING" /\ gen < 1 -> "create"
      [] w.desired = "RUNNING" /\ gen = 1 /\ staleObservedGen(w) -> "mark"
      [] w.desired = "STOPPED" /\ exists -> "delete"
      [] OTHER -> "none"

RecObserve(r) ==
    LET act == Diff(rec.snap[r], ObservedGen(r), Exists(r)) IN
    /\ rec.stage = "scan"
    /\ r \in Newest(Todo)
    /\ IF act = "none" THEN Continue(r)
       ELSE rec' = [rec EXCEPT !.stage = act, !.row = r, !.gen = ObservedGen(r)]
    /\ UNCHANGED <<driver, row, plat, proc, swp, del, spare, undone>>

\* Observe itself fails: the row has to wait for the next tick.
RecBlind(r) ==
    /\ Fault("driver_error")
    /\ rec.stage = "scan"
    /\ r \in Newest(Todo)
    /\ Continue(r)
    /\ UNCHANGED <<driver, row, plat, proc, swp, del, undone>>

RecApply(stage, gen, outcomes) ==
    /\ rec.stage = stage
    /\ \E o \in outcomes :
        /\ Provision(rec.row, o)
        /\ IF o.ok THEN rec' = [rec EXCEPT !.stage = "mark", !.gen = gen]
           ELSE Continue(rec.row)
    /\ UNCHANGED <<driver, row, swp, del, undone>>

RecCreate == RecApply("create", 1, CreateOutcomes(rec.row))
RecDelete == RecApply("delete", 0, DeleteOutcomes(rec.row))

\* markObserved: a row that cannot be written is left for the next tick.
RecMark ==
    LET r == rec.row
        w == [rec.snap[r] EXCEPT !.observed = rec.gen]
    IN  /\ rec.stage = "mark"
        /\ r \notin Locked
        /\ IF Updatable(r, w) THEN UpdateWorker(r, w) ELSE UNCHANGED <<row, undone>>
        /\ Continue(r)
        /\ UNCHANGED <<driver, plat, proc, swp, del, spare>>

-----------------------------------------------------------------------------
(***************************************************************************)
(* The sweeper: List on the platform first, then List on the rows; an id   *)
(* must be unknown in two ticks a grace apart.                             *)
(***************************************************************************)
\* ListRunning: what carries the label, running or not; for static, the rows.
DockerRunning == {r \in Rows : Found(r)}
K8sRunning == {r \in Rows : plat[r] # "absent"}
StaticRunning == Listed

Running ==
    CASE driver = "static" -> StaticRunning
      [] driver = "docker" -> DockerRunning
      [] OTHER -> K8sRunning

SweepPlatform ==
    /\ swp.tick.stage = "idle" /\ MayStart
    /\ swp' = IF Running = {} THEN [tick |-> SwpIdle, seen |-> NoneSeen]
              ELSE [swp EXCEPT !.tick = [stage |-> "rows", ids |-> Running]]
    /\ UNCHANGED <<driver, row, plat, proc, rec, del, spare, undone>>

\* One pass over the ids: a known one is forgotten, a new one starts its
\* grace, and `ids' keeps those whose grace is over.
Judge(known) ==
    LET orphans == swp.tick.ids \ known
        doomed == {r \in orphans : swp.seen[r] = "ripe"}
    IN  swp' = [tick |-> IF doomed = {} THEN SwpIdle ELSE [stage |-> "delete", ids |-> doomed],
                seen |-> [r \in Rows |->
                            IF r \in orphans \ doomed THEN "seen"
                            ELSE IF r \in swp.tick.ids \cap known THEN "no" ELSE swp.seen[r]]]

\* Mutant: only the rows that want to run are asked for.
SweepWanted ==
    /\ swp.tick.stage = "rows"
    /\ Judge({r \in Listed : row[r].desired = "RUNNING"})
    /\ UNCHANGED <<driver, row, plat, proc, rec, del, spare, undone>>

SweepRows ==
    /\ swp.tick.stage = "rows"
    /\ Judge(Listed)
    /\ UNCHANGED <<driver, row, plat, proc, rec, del, spare, undone>>

SweepDeletes(r) ==
    LET left == swp.tick.ids \ {r} IN
    /\ swp.tick.stage = "delete"
    /\ r \in swp.tick.ids
    /\ \E o \in DeleteOutcomes(r) :
        /\ Provision(r, o)
        /\ swp' = [tick |-> IF left = {} THEN SwpIdle ELSE [swp.tick EXCEPT !.ids = left],
                   seen |-> IF o.ok THEN [swp.seen EXCEPT ![r] = "no"] ELSE swp.seen]
    /\ UNCHANGED <<driver, row, rec, del, undone>>

\* The grace of an id first seen in an earlier tick runs out.
GraceEnds(r) ==
    /\ swp.seen[r] = "seen"
    /\ swp' = [swp EXCEPT !.seen[r] = "ripe"]
    /\ UNCHANGED <<driver, row, plat, proc, rec, del, spare, undone>>

-----------------------------------------------------------------------------
(***************************************************************************)
(* Containers.  claimRow is asked once, when the process boots.            *)
(***************************************************************************)
Up(b) == IF b \in Rows THEN plat[b] = "running" ELSE driver = "static"

Serve(b, r, held) == proc' = [proc EXCEPT ![b] = [stage |-> "serving", row |-> r, held |-> held]]

\* Every other answer than a row: the process pops the queue of its boot id,
\* which docker has made the id of its row.
Unassigned(b) == Serve(b, IF driver = "docker" THEN b ELSE None, FALSE)

Owned(b) == {r \in LiveRows : row[r].owner = b}

\* A row id is looked up as such; FOR UPDATE SKIP LOCKED passes over a row
\* another claim or statement holds.
ById(b) == IF driver = "docker" THEN {b} \cap (LiveRows \ Locked) ELSE {}

Free == {r \in LiveRows \ Locked :
            row[r].owner = None /\ row[r].status = "PENDING" /\ row[r].desired = "RUNNING"}

Oldest(S) == {r \in S : \A q \in S : r <= q}

Claim(b, r) == proc' = [proc EXCEPT ![b] = [stage |-> "claiming", row |-> r, held |-> FALSE]]

ClaimAgain(b) ==
    /\ proc[b].stage = "off" /\ Up(b)
    /\ \E r \in Owned(b) : Serve(b, r, TRUE)
    /\ UNCHANGED <<driver, row, plat, rec, swp, del, spare, undone>>

\* Mutant: the row is selected without being locked.
ClaimUnlocked(b) ==
    /\ proc[b].stage = "off" /\ Up(b) /\ MayStart
    /\ Owned(b) = {}
    /\ \E r \in {q \in LiveRows : row[q].owner = None} : Claim(b, r)
    /\ UNCHANGED <<driver, row, plat, rec, swp, del, spare, undone>>

\* SELECT ... FOR UPDATE: the row of this id unless another owns it, or else
\* the oldest free one.
ClaimSelect(b) ==
    /\ proc[b].stage = "off" /\ Up(b) /\ MayStart
    /\ Owned(b) = {}
    /\ \E own \in {ById(b), {}} :
        /\ IF own = ById(b) THEN UNCHANGED spare ELSE Fault("row_busy")
        /\ IF own # {} /\ row[b].owner # None THEN Unassigned(b)
           ELSE LET rows == IF own # {} THEN own ELSE Oldest(Free) IN
                IF rows = {} THEN Unassigned(b) ELSE \E r \in rows : Claim(b, r)
    /\ UNCHANGED <<driver, row, plat, rec, swp, del, undone>>

\* UPDATE and COMMIT; container_id is unique.
ClaimBind(b) ==
    LET r == proc[b].row IN
    /\ proc[b].stage = "claiming"
    /\ IF MayOwn(b, r)
       THEN /\ row' = [row EXCEPT ![r].owner = b]
            /\ \/ Serve(b, r, TRUE) /\ UNCHANGED spare
               \/ Unassigned(b) /\ Fault("reply_lost")
       ELSE Unassigned(b) /\ UNCHANGED <<row, spare>>
    /\ UNCHANGED <<driver, plat, rec, swp, del, undone>>

\* A process that has claimed names the row; one that has not, its boot id,
\* which is looked for in container_id - and then recorded for no row.
resolveWorker(b) ==
    LET named == {proc[b].row} \cap LiveRows IN
    IF named # {} THEN named ELSE Owned(b)

\* Proof of life.
heartbeatStatus(status) == IF status = "PENDING" THEN "READY" ELSE status

Heartbeat(b) ==
    /\ proc[b].stage = "serving"
    /\ \E r \in resolveWorker(b) :
        /\ r \notin Locked /\ row[r].status = "PENDING"
        /\ row' = IF r = proc[b].row THEN [row EXCEPT ![r].status = heartbeatStatus(@)] ELSE row
    /\ UNCHANGED <<driver, plat, proc, rec, swp, del, spare, undone>>

Restart(b) ==
    /\ Fault("restart")
    /\ proc[b].stage # "off"
    /\ proc' = [proc EXCEPT ![b] = Off]
    /\ UNCHANGED <<driver, row, plat, rec, swp, del, undone>>

ApiCrash ==
    /\ Fault("api_crash")
    /\ <<rec, swp.tick, del>> # <<RecIdle, SwpIdle, DelIdle>>
    /\ rec' = RecIdle
    /\ swp' = [tick |-> SwpIdle, seen |-> NoneSeen]
    /\ del' = DelIdle
    /\ UNCHANGED <<driver, row, plat, proc, undone>>

-----------------------------------------------------------------------------
DeleteGoesOn == DeleteStops \/ DeletePurges \/ DeleteDrops

Reconcile ==
    \/ RecList
    \/ \E r \in Rows : RecObserve(r)
    \/ RecCreate \/ RecDelete \/ RecMark

Sweep ==
    \/ SweepPlatform \/ SweepRows
    \/ \E r \in Rows : SweepDeletes(r)

Claiming(b) == ClaimAgain(b) \/ ClaimSelect(b) \/ ClaimBind(b)

Next ==
    \/ \E r \in Rows : Create(r) \/ DeleteRequested(r)
    \/ DeleteGoesOn
    \/ Reconcile
    \/ \E r \in Rows : RecBlind(r)
    \/ Sweep
    \/ \E r \in Rows : GraceEnds(r)
    \/ \E b \in Boots : Claiming(b) \/ Heartbeat(b) \/ Restart(b)
    \/ ApiCrash

Spec == Init /\ [][Next]_vars

-----------------------------------------------------------------------------
(***************************************************************************)
(* Properties.                                                             *)
(***************************************************************************)
Stored == [phase : {"none", "live", "gone"}, desired : {"RUNNING", "STOPPED"},
           observed : {None, 0, 1}, owner : Boots \cup {None},
           status : {"PENDING", "READY"}]

\* Every variable has the shape its comment says, an open claim has a row,
\* and no two rows carry the same container_id.
TypeOK ==
    /\ driver \in Drivers
    /\ row \in [Rows -> Stored]
    /\ plat \in [Rows -> Platform]
    /\ proc \in [Boots -> [stage : {"off", "claiming", "serving"},
                           row : Rows \cup {None}, held : BOOLEAN]]
    /\ \A b \in Boots : proc[b].stage = "claiming" => proc[b].row \in Rows
    /\ rec \in [stage : {"idle", "scan", "create", "delete", "mark"},
                row : Rows \cup {None}, gen : {0, 1}, snap : [Rows -> Stored \cup {None}]]
    /\ swp \in [tick : [stage : {"idle", "rows", "delete"}, ids : SUBSET Rows],
                seen : [Rows -> {"no", "seen", "ripe"}]]
    /\ del \in [stage : {"idle", "stop", "purge", "drop"},
                row : Rows \cup {None}, snap : Stored]
    /\ spare \in 0 .. MaxFaults
    /\ undone \subseteq Rows
    /\ \A r, q \in LiveRows : row[r].owner = row[q].owner /\ row[r].owner # None => r = q

\* "Concurrent --scaled workers each take a distinct one": two processes hold
\* the same row only when a stale full-row write has taken its container_id
\* back in between (ClaimSelect, ClaimBind against RecMark, DeleteStops).
ClaimedByOne ==
    \A b, c \in Boots :
        /\ proc[b].held /\ proc[c].held
        /\ proc[b].row = proc[c].row
        /\ proc[b].row \notin undone
        => b = c

\* The comment on Claim's guard: "without the guard ... two workers on one
\* queue".  The guard does not prevent it: markObserved writes back the NULL
\* it listed before a container claimed the row, and the next one claims it too.
OneServer ==
    \A b, c \in Boots :
        /\ proc[b].stage = "serving" /\ proc[c].stage = "serving"
        /\ proc[b].row = proc[c].row /\ proc[b].row # None
        => b = c

\* The sweeper only takes what no row names, however its two lists and its
\* firstSeen interleave with creations and deletions (Sweep...).
OnlyOrphansSwept ==
    [][\A r \in Rows :
        SweepDeletes(r) => row[r].phase = "gone"]_vars

\* What a List limits is the harm: whatever the sweeper takes is gone, or has
\* at least as many younger rows as one List answers with - the newest
\* workers are never taken from under their rows (SweepRows).
Newer(r) == {q \in Rows : q > r /\ row[q].phase # "none"}

NewestAreSafe ==
    [][\A r \in Rows :
        SweepDeletes(r) => row[r].phase = "gone" \/ Cardinality(Newer(r)) >= ListLimit]_vars

-----------------------------------------------------------------------------
(***************************************************************************)
(* Fairness: the loops tick, a request and a claim go on, and the platform *)
(* does not fail for ever.                                                 *)
(***************************************************************************)
Fairness ==
    /\ WF_vars(DeleteGoesOn)
    /\ WF_vars(Reconcile)
    /\ WF_vars(Sweep)
    /\ \A r \in Rows : WF_vars(GraceEnds(r))
    /\ \A b \in Boots : WF_vars(Claiming(b))

FairSpec == Spec /\ Fairness

\* "Retrying a half-applied pass converges": once nobody creates or deletes
\* rows and the faults are over, the platform runs what the rows ask for and
\* nothing else - also after a delete that died half-way, a driver that
\* failed, and a container provisioned for a row already gone (Reconcile,
\* Sweep, DeleteGoesOn).
Settled ==
    \A r \in Rows : CASE Live(r) /\ row[r].desired = "RUNNING" -> plat[r] = "running"
                       [] OTHER -> plat[r] = "absent"

FleetSettles == driver # "static" => <>[]Settled

=============================================================================
