----------------------------- MODULE FleetProofs -----------------------------
(***************************************************************************)
(* Theorems about Fleet, for every number of rows and replicas, every      *)
(* driver and every choice of faults.                                      *)
(***************************************************************************)
EXTENDS Fleet, FiniteSetTheorems, TLAPS

Born(r) == row[r].phase # "none"

\* A row that was never created is blank, and container_id is unique.
RowsOK ==
    /\ row \in [Rows -> Stored] /\ undone \subseteq Rows
    /\ \A r \in Rows : ~ Born(r) => row[r] = Unborn
    /\ \A r, q \in LiveRows : row[r].owner = row[q].owner /\ row[r].owner # None => r = q

\* The platform, a tick and a request only know rows that were created.
PlatOK ==
    /\ driver \in Drivers /\ plat \in [Rows -> Platform] /\ spare \in 0 .. MaxFaults
    /\ \A r \in Rows : plat[r] # "absent" => Born(r)

RecTypes == [stage : {"idle", "scan", "create", "delete", "mark"},
             row : Rows \cup {None}, gen : {0, 1}, snap : [Rows -> Stored \cup {None}]]

\* A snapshot is of a live row; the row in hand has one.
RecOK ==
    /\ rec \in RecTypes
    /\ \A r \in Rows : rec.snap[r] # None =>
            rec.snap[r] \in Stored /\ rec.snap[r].phase = "live" /\ Born(r)
    /\ rec.stage \in {"create", "delete", "mark"} => rec.row \in Rows /\ rec.snap[rec.row] # None

SwpOK ==
    /\ swp \in [tick : [stage : {"idle", "rows", "delete"}, ids : SUBSET Rows],
                seen : [Rows -> {"no", "seen", "ripe"}]]
    /\ \A r \in swp.tick.ids : Born(r)

DelOK ==
    /\ del \in [stage : {"idle", "stop", "purge", "drop"}, row : Rows \cup {None}, snap : Stored]
    /\ del.stage # "idle" => del.row \in Rows /\ del.snap.phase = "live" /\ Born(del.row)

Processes == [stage : {"off", "claiming", "serving"}, row : Rows \cup {None}, held : BOOLEAN]

\* In docker only the containers of rows boot.  A claim has a live row that
\* nobody owns to itself; who holds a row is its
\* container_id, unless the row is gone or a full-row write came in between.
Claims ==
    /\ proc \in [Boots -> Processes]
    /\ driver = "docker" => \A b \in Boots : proc[b].stage # "off" => b \in Rows
    /\ \A b \in Boots : proc[b].stage = "claiming" =>
            /\ proc[b].row \in Rows /\ Live(proc[b].row) /\ row[proc[b].row].owner = None
            /\ ~ proc[b].held
            /\ \A c \in Boots : proc[c].stage = "claiming" /\ proc[c].row = proc[b].row => c = b
    /\ \A b \in Boots : proc[b].held =>
            /\ proc[b].stage = "serving" /\ proc[b].row \in Rows
            /\ \/ row[proc[b].row].phase = "gone"
               \/ proc[b].row \in undone
               \/ Live(proc[b].row) /\ row[proc[b].row].owner = b
    /\ ClaimedByOne

FleetInv == RowsOK /\ PlatOK /\ RecOK /\ SwpOK /\ DelOK /\ Claims

-----------------------------------------------------------------------------
LEMMA FleetTyped == FleetInv => TypeOK /\ ClaimedByOne
BY DEF FleetInv, RowsOK, PlatOK, RecOK, RecTypes, SwpOK, DelOK, Claims, Processes, TypeOK

LEMMA Blank == /\ Unborn \in Stored /\ Gone \in Stored /\ Gone.phase = "gone"
               /\ Unborn.phase = "none" /\ Unborn.owner = None
               /\ Off \in Processes
BY DEF Unborn, Gone, Stored, Off, Processes

LEMMA InitInv == Init => FleetInv
<1> SUFFICES ASSUME Init PROVE FleetInv
  OBVIOUS
<1>1. \A r \in Rows : row[r] = Unborn /\ ~ Born(r) /\ ~ Live(r)
  BY Blank DEF Init, Born, Live
<1>2. RowsOK
  BY <1>1, Blank DEF Init, RowsOK, LiveRows
<1>3. PlatOK
  BY FleetConstants DEF Init, PlatOK, Platform
<1>4. RecOK
  BY DEF Init, RecOK, RecTypes, RecIdle, NoSnap
<1>5. SwpOK
  BY DEF Init, SwpOK, SwpIdle, NoneSeen
<1>6. DelOK
  BY Blank DEF Init, DelOK, DelIdle
<1>7. Claims
  BY Blank DEF Init, Claims, ClaimedByOne, Off
<1> QED BY <1>2, <1>3, <1>4, <1>5, <1>6, <1>7 DEF FleetInv

-----------------------------------------------------------------------------
(***************************************************************************)
(* What a step leaves alone stays right, when rows that were created stay  *)
(* created.                                                                *)
(***************************************************************************)
StayBorn == \A r \in Rows : Born(r) => Born(r)'

LEMMA Others ==
    ASSUME FleetInv, StayBorn
    PROVE  /\ UNCHANGED <<driver, plat, spare>> => PlatOK'
           /\ UNCHANGED <<driver, plat>> /\ spare' \in 0 .. MaxFaults => PlatOK'
           /\ UNCHANGED rec => RecOK'
           /\ UNCHANGED swp => SwpOK'
           /\ UNCHANGED del => DelOK'
<1>1. UNCHANGED <<driver, plat>> /\ spare' \in 0 .. MaxFaults => PlatOK'
  BY DEF FleetInv, PlatOK, StayBorn
<1>2. UNCHANGED rec => RecOK'
  BY DEF FleetInv, RecOK, StayBorn
<1>3. UNCHANGED swp => SwpOK'
  BY DEF FleetInv, SwpOK, StayBorn
<1>4. UNCHANGED del => DelOK'
  BY DEF FleetInv, DelOK, StayBorn
<1> QED BY <1>1, <1>2, <1>3, <1>4 DEF FleetInv, PlatOK

LEMMA SameRows ==
    ASSUME FleetInv, UNCHANGED <<driver, row, undone>>
    PROVE  RowsOK' /\ StayBorn /\ (UNCHANGED proc => Claims')
<1>1. RowsOK' /\ StayBorn
  BY DEF FleetInv, RowsOK, StayBorn, Born, LiveRows, Live
<1>2. UNCHANGED proc => Claims'
  BY DEF FleetInv, Claims, ClaimedByOne, Live
<1> QED BY <1>1, <1>2

\* A fault costs one of those that are left.
LEMMA FaultCosts ==
    ASSUME spare \in 0 .. MaxFaults, NEW fault, Fault(fault)
    PROVE  spare' \in 0 .. MaxFaults
BY FleetConstants DEF Fault, CanFail

\* A process that stops leaves its claim, and holds nothing.
LEMMA Stops ==
    ASSUME FleetInv, NEW b \in Boots, proc' = [proc EXCEPT ![b] = Off],
           UNCHANGED <<driver, row, undone>>
    PROVE  Claims'
<1>1. /\ proc' \in [Boots -> Processes] /\ proc'[b].stage = "off" /\ ~ proc'[b].held
      /\ \A c \in Boots \ {b} : proc'[c] = proc[c]
  BY Blank DEF FleetInv, Claims, Off
<1>2. \A c \in Boots : proc'[c].stage = "claiming" \/ proc'[c].held => proc'[c] = proc[c]
  BY <1>1
<1> QED BY <1>1, <1>2 DEF FleetInv, Claims, ClaimedByOne, Live

\* A row is written: it goes, or is live with a container_id that no other
\* row has.
LEMMA RowWritten ==
    ASSUME RowsOK, NEW r \in Rows, NEW w \in Stored, row' = [row EXCEPT ![r] = w],
           undone' \subseteq Rows, w.phase # "none",
           w.phase = "live" => MayOwn(w.owner, r)
    PROVE  /\ RowsOK' /\ StayBorn /\ row'[r] = w
           /\ \A q \in Rows \ {r} : row'[q] = row[q]
<1>1. /\ row' \in [Rows -> Stored] /\ row'[r] = w
      /\ \A q \in Rows \ {r} : row'[q] = row[q]
  BY DEF RowsOK
<1>2. \A q \in Rows : ~ Born(q)' => row'[q] = Unborn
  BY <1>1 DEF RowsOK, Born
<1>3. \A q \in Rows \ {r} : Live(q)' <=> Live(q)
  BY <1>1 DEF Live
<1>4. ASSUME NEW p \in LiveRows', NEW q \in LiveRows',
             row'[p].owner = row'[q].owner, row'[p].owner # None
      PROVE  p = q
  <2>1. p \in Rows /\ q \in Rows /\ Live(p)' /\ Live(q)'
    BY DEF LiveRows
  <2>2. CASE p # r /\ q # r
    BY <1>1, <1>3, <1>4, <2>1, <2>2 DEF RowsOK, LiveRows
  <2>3. CASE p = r /\ q # r
    BY <1>1, <1>3, <1>4, <2>1, <2>3 DEF MayOwn, LiveRows, Live
  <2>4. CASE p # r /\ q = r
    BY <1>1, <1>3, <1>4, <2>1, <2>4 DEF MayOwn, LiveRows, Live
  <2> QED BY <2>2, <2>3, <2>4
<1>5. StayBorn
  BY <1>1 DEF StayBorn, Born
<1> QED BY <1>1, <1>2, <1>4, <1>5 DEF RowsOK

\* No claim has the row; whom it is taken from is noted.
LEMMA Written ==
    ASSUME FleetInv, NEW r \in Rows, NEW w \in Stored, r \notin Locked,
           row' = [row EXCEPT ![r] = w], UNCHANGED <<driver, proc>>,
           undone \subseteq undone', undone' \subseteq Rows,
           w.phase # "none",
           w.phase = "live" => row[r].phase # "gone" /\ MayOwn(w.owner, r)
                               /\ (w.owner = row[r].owner \/ r \in undone')
    PROVE  RowsOK' /\ Claims' /\ StayBorn
<1>1. /\ RowsOK' /\ StayBorn /\ row'[r] = w
      /\ \A q \in Rows \ {r} : row'[q] = row[q]
  BY RowWritten DEF FleetInv
<1>2. ASSUME NEW b \in Boots, proc[b].stage = "claiming"
      PROVE  proc[b].row # r
  BY <1>2 DEF Locked
<1>3. ASSUME NEW b \in Boots, proc[b].held
      PROVE  \/ row'[proc[b].row].phase = "gone"
             \/ proc[b].row \in undone'
             \/ Live(proc[b].row)' /\ row'[proc[b].row].owner = b
  <2>1. CASE proc[b].row # r
    BY <1>1, <1>3, <2>1 DEF FleetInv, Claims, Live
  <2>2. CASE proc[b].row = r
    BY <1>1, <1>3, <2>2 DEF FleetInv, Claims, Live, Stored
  <2> QED BY <2>1, <2>2
<1>4. Claims'
  BY <1>1, <1>2, <1>3 DEF FleetInv, Claims, ClaimedByOne, Live
<1> QED BY <1>1, <1>4

\* UpdateWorker, of a row read while it was live.
LEMMA Updated ==
    ASSUME FleetInv, NEW r \in Rows, NEW w \in Stored, r \notin Locked, w.phase = "live",
           Updatable(r, w), UpdateWorker(r, w), UNCHANGED <<driver, proc>>
    PROVE  RowsOK' /\ Claims' /\ StayBorn
<1>1. /\ undone \subseteq undone' /\ undone' \subseteq Rows
      /\ w.owner = row[r].owner \/ r \in undone'
  BY DEF UpdateWorker, FleetInv, RowsOK
<1>2. row' = [row EXCEPT ![r] = w] /\ row[r].phase # "gone" /\ MayOwn(w.owner, r)
  BY DEF UpdateWorker, Updatable, Live
<1> QED BY <1>1, <1>2, Written

-----------------------------------------------------------------------------
(***************************************************************************)
(* The driver calls, and the container they are for.                       *)
(***************************************************************************)
LEMMA OutcomeTypes ==
    ASSUME PlatOK, NEW r \in Rows, NEW o \in CreateOutcomes(r) \cup DeleteOutcomes(r)
    PROVE  o.left \in Platform /\ spare - o.cost \in 0 .. MaxFaults
<1> DEFINE Right(x) == x.left \in Platform /\ spare - x.cost \in 0 .. MaxFaults
<1>1. plat[r] \in Platform /\ ensurePod(plat[r]) \in Platform /\ spare \in 0 .. MaxFaults
  BY DEF PlatOK, Platform, ensurePod
<1>2. \A ok \in BOOLEAN : \A left \in Platform : Right(Ends(ok, left))
  BY <1>1, FleetConstants DEF Ends
<1>3. \A fault : \A ok \in BOOLEAN : \A lefts \in SUBSET Platform :
        \A x \in Hurt(fault, ok, lefts) : Right(x)
  BY <1>1, FleetConstants DEF Hurt, CanFail
<1>4. {"absent", "created", "running"} = Platform
  BY DEF Platform
<1> HIDE DEF Right
<1>5. \A x \in DockerCreate(r) : Right(x)
  BY <1>2, <1>3, <1>4 DEF DockerCreate
<1>6. \A x \in K8sCreate(r) : Right(x)
  BY <1>1, <1>2, <1>3 DEF K8sCreate
<1>7. \A x \in DockerDelete(r) \cup K8sDelete(r) : Right(x)
  BY <1>1, <1>2, <1>3, <1>4 DEF DockerDelete, K8sDelete
<1>8. Right(Ends(TRUE, "absent"))
  BY <1>2, <1>4
<1>9. Right(o)
  BY <1>5, <1>6, <1>7, <1>8 DEF CreateOutcomes, DeleteOutcomes
<1> QED BY <1>9 DEF Right

LEMMA Provisioned ==
    ASSUME FleetInv, NEW r \in Rows, Born(r),
           NEW o \in CreateOutcomes(r) \cup DeleteOutcomes(r), Provision(r, o),
           UNCHANGED <<driver, row, undone>>
    PROVE  RowsOK' /\ PlatOK' /\ Claims' /\ StayBorn
<1>1. RowsOK' /\ StayBorn /\ (UNCHANGED proc => Claims')
  BY SameRows
<1>2. Claims'
  <2>1. r \in Boots
    BY DEF Boots
  <2> QED BY <1>1, <2>1, Stops DEF Provision
<1>3. PlatOK'
  <2>1. o.left \in Platform /\ spare' \in 0 .. MaxFaults
    BY OutcomeTypes DEF FleetInv, Provision
  <2>2. /\ plat' \in [Rows -> Platform]
        /\ \A q \in Rows \ {r} : plat'[q] = plat[q]
    BY <2>1 DEF FleetInv, PlatOK, Provision
  <2> QED BY <1>1, <2>1, <2>2 DEF FleetInv, PlatOK, Born
<1> QED BY <1>1, <1>2, <1>3

-----------------------------------------------------------------------------
(***************************************************************************)
(* The operator.                                                           *)
(***************************************************************************)
LEMMA CreateInv ==
    ASSUME FleetInv, NEW r \in Rows, Create(r)
    PROVE  FleetInv'
<1> DEFINE w == [Unborn EXCEPT !.phase = "live"]
<1>1. w \in Stored /\ w.phase = "live" /\ w.owner = None
  BY DEF Unborn, Stored
<1>2. row[r] = Unborn /\ row' = [row EXCEPT ![r] = w] /\ UNCHANGED <<driver, plat, proc, rec, swp, del, spare, undone>>
  BY DEF Create, FleetInv, RowsOK, Born
<1> HIDE DEF w
<1>3. r \notin Locked
  BY <1>2, Blank DEF Locked, FleetInv, Claims, Live
<1>4. RowsOK' /\ Claims' /\ StayBorn
  BY <1>1, <1>2, <1>3, Blank, Written DEF MayOwn, FleetInv, RowsOK
<1> QED BY <1>2, <1>4, Others DEF FleetInv

LEMMA DeleteRequestedInv ==
    ASSUME FleetInv, NEW r \in Rows, DeleteRequested(r)
    PROVE  FleetInv'
<1>1. Live(r) /\ row[r] \in Stored /\ UNCHANGED <<driver, row, plat, proc, rec, swp, spare, undone>>
  BY DEF DeleteRequested, FleetInv, RowsOK
<1>2. RowsOK' /\ StayBorn /\ Claims'
  BY <1>1, SameRows
<1>3. DelOK'
  BY <1>1, <1>2 DEF DeleteRequested, DelOK, Live, Born
<1> QED BY <1>1, <1>2, <1>3, Others DEF FleetInv

LEMMA DeleteStopsInv ==
    ASSUME FleetInv, DeleteStops
    PROVE  FleetInv'
<1>0. PICK r : r = del.row
  OBVIOUS
<1>1. PICK w : w = [del.snap EXCEPT !.desired = "STOPPED"]
  OBVIOUS
<1>2. /\ r \in Rows /\ Born(r) /\ r \notin Locked /\ del.stage = "stop"
      /\ UNCHANGED <<driver, plat, proc, rec, swp, spare>>
  BY <1>0 DEF DeleteStops, FleetInv, DelOK
<1>3. w \in Stored /\ w.phase = "live"
  BY <1>1, <1>2 DEF FleetInv, DelOK, Stored
<1>4. CASE Updatable(r, w) /\ UpdateWorker(r, w) /\ del' = [del EXCEPT !.stage = "purge"]
  <2>1. RowsOK' /\ Claims' /\ StayBorn
    BY <1>2, <1>3, <1>4, Updated
  <2>2. DelOK'
    BY <1>2, <1>4, <2>1 DEF FleetInv, DelOK, StayBorn
  <2> QED BY <1>2, <2>1, <2>2, Others DEF FleetInv
<1>5. CASE del' = DelIdle /\ UNCHANGED <<row, undone>>
  <2>1. RowsOK' /\ StayBorn /\ Claims'
    BY <1>2, <1>5, SameRows
  <2>2. DelOK'
    BY <1>5, Blank DEF DelOK, DelIdle
  <2> QED BY <1>2, <2>1, <2>2, Others DEF FleetInv
<1> QED BY <1>0, <1>1, <1>4, <1>5 DEF DeleteStops

LEMMA DeletePurgesInv ==
    ASSUME FleetInv, DeletePurges
    PROVE  FleetInv'
<1>1. PICK r : r = del.row
  OBVIOUS
<1>2. /\ r \in Rows /\ Born(r) /\ del.stage = "purge" /\ del' = [del EXCEPT !.stage = "drop"]
      /\ UNCHANGED <<driver, row, rec, swp, undone>>
  BY <1>1 DEF DeletePurges, FleetInv, DelOK
<1>3. PICK o \in DeleteOutcomes(r) : Provision(r, o)
  BY <1>1 DEF DeletePurges
<1>4. RowsOK' /\ PlatOK' /\ Claims' /\ StayBorn
  BY <1>2, <1>3, Provisioned
<1>5. DelOK'
  BY <1>2, <1>4 DEF FleetInv, DelOK, StayBorn
<1> QED BY <1>2, <1>4, <1>5, Others DEF FleetInv

LEMMA DeleteDropsInv ==
    ASSUME FleetInv, DeleteDrops
    PROVE  FleetInv'
<1>1. PICK r : r = del.row
  OBVIOUS
<1>2. /\ r \in Rows /\ r \notin Locked /\ del' = DelIdle /\ row' = [row EXCEPT ![r] = Gone]
      /\ UNCHANGED <<driver, plat, proc, rec, swp, spare, undone>>
  BY <1>1 DEF DeleteDrops, FleetInv, DelOK
<1>3. RowsOK' /\ Claims' /\ StayBorn
  BY <1>2, Blank, Written DEF FleetInv, RowsOK
<1>4. DelOK'
  BY <1>2, Blank DEF DelOK, DelIdle
<1> QED BY <1>2, <1>3, <1>4, Others DEF FleetInv

-----------------------------------------------------------------------------
(***************************************************************************)
(* The reconciler.                                                         *)
(***************************************************************************)
LEMMA Continues ==
    ASSUME FleetInv, NEW r \in Rows, Continue(r), StayBorn
    PROVE  RecOK'
<1>1. CASE rec' = RecIdle
  BY <1>1 DEF RecOK, RecTypes, RecIdle, NoSnap
<1>2. CASE rec' = [rec EXCEPT !.stage = "scan", !.row = None, !.snap[r] = None]
  <2>1. rec \in RecTypes
    BY DEF FleetInv, RecOK
  <2>2. rec' \in RecTypes /\ rec'.stage = "scan"
    BY <1>2, <2>1 DEF RecTypes
  <2>3. \A q \in Rows : rec'.snap[q] # None => rec'.snap[q] = rec.snap[q]
    BY <1>2, <2>1 DEF RecTypes
  <2> QED BY <2>2, <2>3 DEF FleetInv, RecOK, StayBorn
<1> QED BY <1>1, <1>2 DEF Continue

LEMMA RecListInv ==
    ASSUME FleetInv, RecList
    PROVE  FleetInv'
<1>1. UNCHANGED <<driver, row, plat, proc, swp, del, spare, undone>>
  BY DEF RecList
<1>2. RowsOK' /\ StayBorn /\ Claims'
  BY <1>1, SameRows
<1>3. RecOK'
  <2> DEFINE snap == [r \in Rows |-> IF r \in Listed THEN row[r] ELSE None]
  <2>1. \A r \in Rows : row[r] \in Stored /\ (r \in Listed => row[r].phase = "live")
    BY DEF FleetInv, RowsOK, Listed, LiveRows, Live
  <2>2. snap \in [Rows -> Stored \cup {None}]
    BY <2>1
  <2>3. \A r \in Rows : snap[r] # None => snap[r] \in Stored /\ snap[r].phase = "live" /\ Born(r)
    BY <2>1 DEF Born
  <2>4. rec' = [rec EXCEPT !.stage = "scan", !.snap = snap]
    BY DEF RecList
  <2> HIDE DEF snap
  <2>5. rec' \in RecTypes /\ rec'.stage = "scan" /\ rec'.snap = snap
    BY <2>2, <2>4 DEF FleetInv, RecOK, RecTypes
  <2> QED BY <1>2, <2>3, <2>5 DEF RecOK, StayBorn
<1> QED BY <1>1, <1>2, <1>3, Others DEF FleetInv

LEMMA RecObserveInv ==
    ASSUME FleetInv, NEW r \in Rows, RecObserve(r)
    PROVE  FleetInv'
<1>1. UNCHANGED <<driver, row, plat, proc, swp, del, spare, undone>> /\ rec.snap[r] # None
  BY DEF RecObserve, Newest, Todo
<1>2. RowsOK' /\ StayBorn /\ Claims'
  BY <1>1, SameRows
<1>3. RecOK'
  <2>1. CASE Continue(r)
    BY <1>2, <2>1, Continues
  <2>2. CASE rec' = [rec EXCEPT !.stage = Diff(rec.snap[r], ObservedGen(r), Exists(r)),
                                !.row = r, !.gen = ObservedGen(r)]
             /\ Diff(rec.snap[r], ObservedGen(r), Exists(r)) # "none"
    <3>1. Diff(rec.snap[r], ObservedGen(r), Exists(r)) \in {"create", "delete", "mark"}
      BY <2>2 DEF Diff
    <3>2. ObservedGen(r) \in {0, 1}
      BY DEF ObservedGen, StaticObserve, DockerObserve, K8sObserve, FleetInv, RowsOK, Stored
    <3>3. rec' \in RecTypes /\ rec'.row = r /\ rec'.snap = rec.snap
      BY <2>2, <3>1, <3>2 DEF FleetInv, RecOK, RecTypes
    <3> QED BY <1>1, <1>2, <3>3 DEF FleetInv, RecOK, StayBorn
  <2> QED BY <2>1, <2>2 DEF RecObserve
<1> QED BY <1>1, <1>2, <1>3, Others DEF FleetInv

LEMMA RecBlindInv ==
    ASSUME FleetInv, NEW r \in Rows, RecBlind(r)
    PROVE  FleetInv'
<1>1. UNCHANGED <<driver, row, plat, proc, swp, del, undone>> /\ Continue(r)
      /\ spare' \in 0 .. MaxFaults
  BY FaultCosts DEF RecBlind, FleetInv, PlatOK
<1>2. RowsOK' /\ StayBorn /\ Claims'
  BY <1>1, SameRows
<1>3. RecOK'
  BY <1>1, <1>2, Continues
<1> QED BY <1>1, <1>2, <1>3, Others DEF FleetInv

LEMMA RecApplyInv ==
    ASSUME FleetInv, RecCreate \/ RecDelete
    PROVE  FleetInv'
<1>1. PICK r : r = rec.row
  OBVIOUS
<1>2. PICK gen \in {0, 1}, o \in CreateOutcomes(r) \cup DeleteOutcomes(r) :
        /\ Provision(r, o)
        /\ IF o.ok THEN rec' = [rec EXCEPT !.stage = "mark", !.gen = gen] ELSE Continue(r)
  BY <1>1 DEF RecCreate, RecDelete, RecApply
<1>3. rec.stage \in {"create", "delete"} /\ UNCHANGED <<driver, row, swp, del, undone>>
  BY DEF RecCreate, RecDelete, RecApply
<1>4. r \in Rows /\ rec.snap[r] # None /\ Born(r)
  BY <1>1, <1>3 DEF FleetInv, RecOK
<1>5. RowsOK' /\ PlatOK' /\ Claims' /\ StayBorn
  BY <1>2, <1>3, <1>4, Provisioned
<1>6. RecOK'
  <2>1. CASE Continue(r)
    BY <1>4, <1>5, <2>1, Continues
  <2>2. CASE rec' = [rec EXCEPT !.stage = "mark", !.gen = gen]
    <3>1. rec' \in RecTypes /\ rec'.row = r /\ rec'.snap = rec.snap
      BY <1>1, <2>2 DEF FleetInv, RecOK, RecTypes
    <3> QED BY <1>4, <1>5, <3>1 DEF FleetInv, RecOK, StayBorn
  <2> QED BY <1>2, <2>1, <2>2
<1> QED BY <1>3, <1>5, <1>6, Others DEF FleetInv

LEMMA RecMarkInv ==
    ASSUME FleetInv, RecMark
    PROVE  FleetInv'
<1>1. PICK r : r = rec.row
  OBVIOUS
<1>2. PICK w : w = [rec.snap[r] EXCEPT !.observed = rec.gen]
  OBVIOUS
<1>3. /\ r \in Rows /\ rec.snap[r] # None /\ r \notin Locked /\ Continue(r)
      /\ UNCHANGED <<driver, plat, proc, swp, del, spare>>
  BY <1>1 DEF RecMark, FleetInv, RecOK
<1>4. w \in Stored /\ w.phase = "live"
  <2>1. rec.snap[r] \in Stored /\ rec.snap[r].phase = "live" /\ rec.gen \in {0, 1}
    BY <1>3 DEF FleetInv, RecOK, RecTypes
  <2> QED BY <1>2, <2>1 DEF Stored
<1>5. RowsOK' /\ Claims' /\ StayBorn
  <2>1. CASE Updatable(r, w) /\ UpdateWorker(r, w)
    BY <1>3, <1>4, <2>1, Updated
  <2>2. CASE UNCHANGED <<row, undone>>
    BY <1>3, <2>2, SameRows
  <2> QED BY <1>1, <1>2, <2>1, <2>2 DEF RecMark
<1>6. RecOK'
  BY <1>3, <1>5, Continues
<1> QED BY <1>3, <1>5, <1>6, Others DEF FleetInv

-----------------------------------------------------------------------------
(***************************************************************************)
(* The sweeper.                                                            *)
(***************************************************************************)
LEMMA SweepPlatformInv ==
    ASSUME FleetInv, SweepPlatform
    PROVE  FleetInv'
<1>1. UNCHANGED <<driver, row, plat, proc, rec, del, spare, undone>>
  BY DEF SweepPlatform
<1>2. RowsOK' /\ StayBorn /\ Claims'
  BY <1>1, SameRows
<1>3. Running \subseteq Rows /\ \A r \in Running : Born(r)
  BY DEF Running, DockerRunning, K8sRunning, StaticRunning, Found, Listed, LiveRows, Live, Born,
     FleetInv, PlatOK
<1>4. SwpOK'
  <2>1. CASE swp' = [tick |-> SwpIdle, seen |-> NoneSeen]
    BY <2>1 DEF SwpOK, SwpIdle, NoneSeen
  <2>2. CASE swp' = [swp EXCEPT !.tick = [stage |-> "rows", ids |-> Running]]
    BY <1>2, <1>3, <2>2 DEF FleetInv, SwpOK, StayBorn
  <2> QED BY <2>1, <2>2 DEF SweepPlatform
<1> QED BY <1>1, <1>2, <1>4, Others DEF FleetInv

LEMMA Judged ==
    ASSUME FleetInv, NEW known, Judge(known), StayBorn
    PROVE  SwpOK'
<1> DEFINE orphans == swp.tick.ids \ known
           doomed == {r \in orphans : swp.seen[r] = "ripe"}
           tick == IF doomed = {} THEN SwpIdle ELSE [stage |-> "delete", ids |-> doomed]
           seen == [r \in Rows |->
                      IF r \in orphans \ doomed THEN "seen"
                      ELSE IF r \in swp.tick.ids \cap known THEN "no" ELSE swp.seen[r]]
<1>1. swp' = [tick |-> tick, seen |-> seen]
  BY DEF Judge
<1>2. doomed \subseteq swp.tick.ids /\ swp.tick.ids \subseteq Rows
  BY DEF FleetInv, SwpOK
<1>3. tick \in [stage : {"idle", "rows", "delete"}, ids : SUBSET Rows] /\ tick.ids \subseteq doomed
  BY <1>2 DEF SwpIdle
<1>4. seen \in [Rows -> {"no", "seen", "ripe"}]
  BY DEF FleetInv, SwpOK
<1> HIDE DEF tick, seen, doomed
<1> QED BY <1>1, <1>2, <1>3, <1>4 DEF FleetInv, SwpOK, StayBorn

LEMMA SweepRowsInv ==
    ASSUME FleetInv, SweepRows
    PROVE  FleetInv'
<1>1. UNCHANGED <<driver, row, plat, proc, rec, del, spare, undone>> /\ Judge(Listed)
  BY DEF SweepRows
<1>2. RowsOK' /\ StayBorn /\ Claims'
  BY <1>1, SameRows
<1>3. SwpOK'
  BY <1>1, <1>2, Judged
<1> QED BY <1>1, <1>2, <1>3, Others DEF FleetInv

LEMMA SweepDeletesInv ==
    ASSUME FleetInv, NEW r \in Rows, SweepDeletes(r)
    PROVE  FleetInv'
<1>1. /\ r \in swp.tick.ids /\ Born(r) /\ swp.tick.stage = "delete"
      /\ UNCHANGED <<driver, row, rec, del, undone>>
  BY DEF SweepDeletes, FleetInv, SwpOK
<1>2. PICK o \in DeleteOutcomes(r) :
        /\ Provision(r, o)
        /\ swp' = [tick |-> IF swp.tick.ids \ {r} = {} THEN SwpIdle
                            ELSE [swp.tick EXCEPT !.ids = swp.tick.ids \ {r}],
                   seen |-> IF o.ok THEN [swp.seen EXCEPT ![r] = "no"] ELSE swp.seen]
  BY DEF SweepDeletes
<1>3. RowsOK' /\ PlatOK' /\ Claims' /\ StayBorn
  BY <1>1, <1>2, Provisioned
<1>4. SwpOK'
  <2>1. (IF o.ok THEN [swp.seen EXCEPT ![r] = "no"] ELSE swp.seen) \in [Rows -> {"no", "seen", "ripe"}]
    BY DEF FleetInv, SwpOK
  <2>2. (IF swp.tick.ids \ {r} = {} THEN SwpIdle ELSE [swp.tick EXCEPT !.ids = swp.tick.ids \ {r}])
          \in [stage : {"idle", "rows", "delete"}, ids : SUBSET swp.tick.ids]
    BY DEF FleetInv, SwpOK, SwpIdle
  <2>3. swp'.tick.ids \subseteq swp.tick.ids /\ swp.tick.ids \subseteq Rows
    BY <1>2, <2>2 DEF FleetInv, SwpOK
  <2> QED BY <1>2, <1>3, <2>1, <2>2, <2>3 DEF FleetInv, SwpOK, StayBorn
<1> QED BY <1>1, <1>3, <1>4, Others DEF FleetInv

LEMMA GraceEndsInv ==
    ASSUME FleetInv, NEW r \in Rows, GraceEnds(r)
    PROVE  FleetInv'
<1>1. UNCHANGED <<driver, row, plat, proc, rec, del, spare, undone>>
      /\ swp' = [swp EXCEPT !.seen[r] = "ripe"]
  BY DEF GraceEnds
<1>2. RowsOK' /\ StayBorn /\ Claims'
  BY <1>1, SameRows
<1>3. SwpOK'
  BY <1>1, <1>2 DEF FleetInv, SwpOK, StayBorn
<1> QED BY <1>1, <1>2, <1>3, Others DEF FleetInv

-----------------------------------------------------------------------------
(***************************************************************************)
(* Containers.                                                             *)
(***************************************************************************)
\* A process moves to p: it claims a live row of nobody's that no other claim
\* has, or serves one that is its own, or holds none.
LEMMA Moves ==
    ASSUME FleetInv, NEW b \in Boots, NEW p \in Processes, proc' = [proc EXCEPT ![b] = p],
           UNCHANGED <<driver, row, undone>>, driver = "docker" => b \in Rows,
           p.stage = "claiming" => /\ p.row \in Rows \ Locked /\ Live(p.row)
                                   /\ row[p.row].owner = None /\ ~ p.held,
           p.held => p.stage = "serving" /\ p.row \in Rows /\ Live(p.row) /\ row[p.row].owner = b
    PROVE  Claims'
<1>1. /\ proc' \in [Boots -> Processes] /\ proc'[b] = p
      /\ \A c \in Boots \ {b} : proc'[c] = proc[c]
  BY DEF FleetInv, Claims
<1>2. ASSUME NEW c \in Boots, proc'[c].stage = "claiming"
      PROVE  /\ proc'[c].row \in Rows /\ Live(proc'[c].row) /\ row[proc'[c].row].owner = None
             /\ ~ proc'[c].held
             /\ \A d \in Boots : proc'[d].stage = "claiming" /\ proc'[d].row = proc'[c].row => d = c
  <2>1. \A d \in Boots : proc[d].stage = "claiming" => proc[d].row \in Locked
    BY DEF Locked
  <2> QED BY <1>1, <1>2, <2>1 DEF FleetInv, Claims
<1>3. ASSUME NEW c \in Boots, proc'[c].held
      PROVE  /\ proc'[c].stage = "serving" /\ proc'[c].row \in Rows
             /\ \/ row[proc'[c].row].phase = "gone"
                \/ proc'[c].row \in undone
                \/ Live(proc'[c].row) /\ row[proc'[c].row].owner = c
  BY <1>1, <1>3 DEF FleetInv, Claims
<1>4. ASSUME NEW c \in Boots, NEW d \in Boots, proc'[c].held, proc'[d].held,
             proc'[c].row = proc'[d].row, proc'[c].row \notin undone
      PROVE  c = d
  <2>1. CASE c # b /\ d # b
    BY <1>1, <1>4, <2>1 DEF FleetInv, Claims, ClaimedByOne
  <2>2. CASE c = b \/ d = b
    <3>1. Live(proc'[c].row) /\ row[proc'[c].row].owner = b
      BY <1>1, <1>4, <2>2
    <3> QED BY <1>3, <1>4, <3>1 DEF Live
  <2> QED BY <2>1, <2>2
<1>5. driver' = "docker" => \A c \in Boots : proc'[c].stage # "off" => c \in Rows
  BY <1>1 DEF FleetInv, Claims
<1>6. \A q : Live(q)' <=> Live(q)
  BY DEF Live
<1>7. ClaimedByOne'
  BY <1>4 DEF ClaimedByOne
<1> QED BY <1>1, <1>2, <1>3, <1>5, <1>6, <1>7 DEF Claims

\* A process that found no row for itself serves a queue and holds nothing.
LEMMA UnassignedShape ==
    ASSUME FleetInv, NEW b \in Boots, driver = "docker" => b \in Rows
    PROVE  \E p \in Processes : /\ p.stage = "serving" /\ ~ p.held
                                /\ Unassigned(b) <=> proc' = [proc EXCEPT ![b] = p]
<1> DEFINE p == [stage |-> "serving", row |-> IF driver = "docker" THEN b ELSE None, held |-> FALSE]
<1>1. p \in Processes /\ p.stage = "serving" /\ ~ p.held
  BY DEF Processes
<1>2. Unassigned(b) <=> proc' = [proc EXCEPT ![b] = p]
  BY DEF Unassigned, Serve
<1> HIDE DEF p
<1> QED BY <1>1, <1>2

\* In docker only the containers of rows boot.
LEMMA Booting == ASSUME NEW b \in Boots, Up(b) PROVE driver = "docker" => b \in Rows
BY DEF Up, Boots

LEMMA ClaimAgainInv ==
    ASSUME FleetInv, NEW b \in Boots, ClaimAgain(b)
    PROVE  FleetInv'
<1>1. UNCHANGED <<driver, row, plat, rec, swp, del, spare, undone>>
  BY DEF ClaimAgain
<1>2. PICK r \in Owned(b) : Serve(b, r, TRUE)
  BY DEF ClaimAgain
<1> DEFINE p == [stage |-> "serving", row |-> r, held |-> TRUE]
<1>3. r \in Rows /\ Live(r) /\ row[r].owner = b
  BY <1>2 DEF Owned, LiveRows
<1>4. p \in Processes /\ p.stage = "serving" /\ p.row = r
  BY <1>3 DEF Processes
<1>5. proc' = [proc EXCEPT ![b] = p] /\ (driver = "docker" => b \in Rows)
  BY <1>2, Booting DEF Serve, ClaimAgain
<1> HIDE DEF p
<1>6. RowsOK' /\ StayBorn
  BY <1>1, SameRows
<1>7. Claims'
  BY <1>1, <1>3, <1>4, <1>5, Moves DEF p
<1> QED BY <1>1, <1>6, <1>7, Others DEF FleetInv

LEMMA ClaimSelectInv ==
    ASSUME FleetInv, NEW b \in Boots, ClaimSelect(b)
    PROVE  FleetInv'
<1>1. UNCHANGED <<driver, row, plat, rec, swp, del, undone>>
  BY DEF ClaimSelect
<1>2. RowsOK' /\ StayBorn
  BY <1>1, SameRows
<1>3. PICK own \in {ById(b), {}} :
        /\ IF own = ById(b) THEN UNCHANGED spare ELSE Fault("row_busy")
        /\ IF own # {} /\ row[b].owner # None THEN Unassigned(b)
           ELSE LET rows == IF own # {} THEN own ELSE Oldest(Free) IN
                IF rows = {} THEN Unassigned(b) ELSE \E r \in rows : Claim(b, r)
  BY DEF ClaimSelect
<1>4. spare' \in 0 .. MaxFaults
  BY <1>3, FaultCosts DEF FleetInv, PlatOK
<1>5. Claims'
  <2>0. driver = "docker" => b \in Rows
    BY Booting DEF ClaimSelect
  <2>1. CASE Unassigned(b)
    <3>1. PICK p \in Processes : p.stage = "serving" /\ ~ p.held /\ proc' = [proc EXCEPT ![b] = p]
      BY <2>0, <2>1, UnassignedShape
    <3> QED BY <1>1, <2>0, <3>1, Moves
  <2>2. CASE \E r \in (IF own # {} THEN own ELSE Oldest(Free)) :
                Claim(b, r) /\ ~ (own # {} /\ row[b].owner # None)
    <3>1. PICK r \in (IF own # {} THEN own ELSE Oldest(Free)) :
                Claim(b, r) /\ ~ (own # {} /\ row[b].owner # None)
      BY <2>2
    <3>2. r \in Rows \ Locked /\ Live(r) /\ row[r].owner = None
      BY <1>3, <3>1 DEF ById, Oldest, Free, LiveRows
    <3> DEFINE p == [stage |-> "claiming", row |-> r, held |-> FALSE]
    <3>3. p \in Processes /\ p.stage = "claiming" /\ p.row = r /\ ~ p.held
      BY <3>2 DEF Processes
    <3>4. proc' = [proc EXCEPT ![b] = p]
      BY <3>1 DEF Claim
    <3> HIDE DEF p
    <3> QED BY <1>1, <2>0, <3>2, <3>3, <3>4, Moves
  <2> QED BY <1>3, <2>1, <2>2
<1> QED BY <1>1, <1>2, <1>4, <1>5, Others DEF FleetInv

\* The row a claim has is bound to its container, and no other holds it.
LEMMA ClaimBindInv ==
    ASSUME FleetInv, NEW b \in Boots, ClaimBind(b)
    PROVE  FleetInv'
<1>1. PICK r : r = proc[b].row
  OBVIOUS
<1>2. /\ proc[b].stage = "claiming" /\ r \in Rows /\ Live(r) /\ row[r].owner = None
      /\ ~ proc[b].held
      /\ UNCHANGED <<driver, plat, rec, swp, del, undone>>
  BY <1>1 DEF ClaimBind, FleetInv, Claims
<1>3. (driver = "docker" => b \in Rows) /\ spare' \in 0 .. MaxFaults
  BY <1>2, FaultCosts DEF ClaimBind, FleetInv, Claims, PlatOK
<1>4. CASE MayOwn(b, r) /\ row' = [row EXCEPT ![r].owner = b] /\ (Serve(b, r, TRUE) \/ Unassigned(b))
  <2> DEFINE w == [row[r] EXCEPT !.owner = b]
  <2>1. w \in Stored /\ w.phase = "live" /\ w.owner = b /\ row' = [row EXCEPT ![r] = w]
    BY <1>2, <1>4 DEF FleetInv, RowsOK, Stored, Live
  <2> HIDE DEF w
  <2>2. /\ RowsOK' /\ StayBorn /\ row'[r] = w
        /\ \A q \in Rows \ {r} : row'[q] = row[q]
    BY <1>2, <1>4, <2>1, RowWritten DEF FleetInv, RowsOK
  <2>3. PICK p \in Processes : /\ proc' = [proc EXCEPT ![b] = p] /\ p.stage = "serving"
                               /\ p.held => p.row = r
    <3>1. CASE Serve(b, r, TRUE)
      <4> DEFINE p == [stage |-> "serving", row |-> r, held |-> TRUE]
      <4>1. p \in Processes /\ p.stage = "serving" /\ p.row = r
        BY <1>2 DEF Processes
      <4>2. proc' = [proc EXCEPT ![b] = p]
        BY <3>1 DEF Serve
      <4> HIDE DEF p
      <4> QED BY <4>1, <4>2
    <3>2. CASE Unassigned(b)
      BY <1>3, <3>2, UnassignedShape
    <3> QED BY <1>4, <3>1, <3>2
  <2>4. /\ proc' \in [Boots -> Processes] /\ proc'[b] = p
        /\ \A c \in Boots \ {b} : proc'[c] = proc[c]
    BY <2>3 DEF FleetInv, Claims
  <2>5. \A c \in Boots \ {b} : proc[c].stage = "claiming" => proc[c].row # r
    BY <1>1, <1>2 DEF FleetInv, Claims
  <2>6. \A c \in Boots \ {b} : proc[c].held /\ proc[c].row = r => r \in undone
    BY <1>2, FleetConstants DEF FleetInv, Claims, Live
  <2>7. Claims'
    BY <1>2, <1>3, <2>1, <2>2, <2>3, <2>4, <2>5, <2>6 DEF FleetInv, Claims, ClaimedByOne, Live
  <2> QED BY <1>2, <1>3, <2>2, <2>7, Others DEF FleetInv
<1>5. CASE UNCHANGED row /\ Unassigned(b)
  <2>1. PICK p \in Processes : p.stage = "serving" /\ ~ p.held /\ proc' = [proc EXCEPT ![b] = p]
    BY <1>3, <1>5, UnassignedShape
  <2>2. RowsOK' /\ StayBorn /\ Claims'
    BY <1>2, <1>3, <1>5, <2>1, Moves, SameRows
  <2> QED BY <1>2, <1>3, <2>2, Others DEF FleetInv
<1> QED BY <1>1, <1>4, <1>5 DEF ClaimBind

LEMMA HeartbeatInv ==
    ASSUME FleetInv, NEW b \in Boots, Heartbeat(b)
    PROVE  FleetInv'
<1>1. UNCHANGED <<driver, plat, proc, rec, swp, del, spare, undone>>
  BY DEF Heartbeat
<1>2. RowsOK' /\ Claims' /\ StayBorn
  <2>1. PICK r \in resolveWorker(b) :
          /\ r \notin Locked
          /\ row' = IF r = proc[b].row THEN [row EXCEPT ![r].status = heartbeatStatus(@)] ELSE row
    BY DEF Heartbeat
  <2>2. r \in Rows /\ Live(r)
    BY DEF resolveWorker, Owned, LiveRows
  <2>3. CASE row' = row
    BY <1>1, <2>3, SameRows
  <2>4. CASE row' = [row EXCEPT ![r].status = heartbeatStatus(@)]
    <3> DEFINE w == [row[r] EXCEPT !.status = heartbeatStatus(row[r].status)]
    <3>1. w \in Stored /\ w.phase = "live" /\ w.owner = row[r].owner
      BY <2>2 DEF FleetInv, RowsOK, Stored, Live, heartbeatStatus
    <3>2. row' = [row EXCEPT ![r] = w]
      BY <2>4
    <3> HIDE DEF w
    <3>3. MayOwn(w.owner, r) /\ row[r].phase # "gone"
      BY <2>2, <3>1 DEF FleetInv, RowsOK, MayOwn, LiveRows, Live
    <3> QED BY <1>1, <2>1, <2>2, <3>1, <3>2, <3>3, Written DEF FleetInv, RowsOK
  <2> QED BY <2>1, <2>3, <2>4
<1> QED BY <1>1, <1>2, Others DEF FleetInv

LEMMA RestartInv ==
    ASSUME FleetInv, NEW b \in Boots, Restart(b)
    PROVE  FleetInv'
<1>1. /\ proc' = [proc EXCEPT ![b] = Off] /\ spare' \in 0 .. MaxFaults
      /\ UNCHANGED <<driver, row, plat, rec, swp, del, undone>>
  BY FaultCosts DEF Restart, FleetInv, PlatOK
<1>2. RowsOK' /\ StayBorn /\ Claims'
  BY <1>1, SameRows, Stops
<1> QED BY <1>1, <1>2, Others DEF FleetInv

LEMMA ApiCrashInv ==
    ASSUME FleetInv, ApiCrash
    PROVE  FleetInv'
<1>1. /\ rec' = RecIdle /\ swp' = [tick |-> SwpIdle, seen |-> NoneSeen] /\ del' = DelIdle
      /\ spare' \in 0 .. MaxFaults /\ UNCHANGED <<driver, row, plat, proc, undone>>
  BY FaultCosts DEF ApiCrash, FleetInv, PlatOK
<1>2. RowsOK' /\ StayBorn /\ Claims'
  BY <1>1, SameRows
<1>3. RecOK'
  BY <1>1 DEF RecOK, RecTypes, RecIdle, NoSnap
<1>4. SwpOK'
  BY <1>1 DEF SwpOK, SwpIdle, NoneSeen
<1>5. DelOK'
  BY <1>1, Blank DEF DelOK, DelIdle
<1> QED BY <1>1, <1>2, <1>3, <1>4, <1>5, Others DEF FleetInv

-----------------------------------------------------------------------------
LEMMA FleetInvStep == FleetInv /\ [Next]_vars => FleetInv'
<1> SUFFICES ASSUME FleetInv, [Next]_vars PROVE FleetInv'
  OBVIOUS
<1>1. ASSUME NEW r \in Rows, Create(r) \/ DeleteRequested(r) \/ RecBlind(r) \/ GraceEnds(r)
      PROVE  FleetInv'
  BY <1>1, CreateInv, DeleteRequestedInv, RecBlindInv, GraceEndsInv
<1>2. CASE DeleteGoesOn
  BY <1>2, DeleteStopsInv, DeletePurgesInv, DeleteDropsInv DEF DeleteGoesOn
<1>3. CASE Reconcile
  BY <1>3, RecListInv, RecObserveInv, RecApplyInv, RecMarkInv DEF Reconcile
<1>4. CASE Sweep
  BY <1>4, SweepPlatformInv, SweepRowsInv, SweepDeletesInv DEF Sweep
<1>5. ASSUME NEW b \in Boots, Claiming(b) \/ Heartbeat(b) \/ Restart(b)
      PROVE  FleetInv'
  BY <1>5, ClaimAgainInv, ClaimSelectInv, ClaimBindInv, HeartbeatInv, RestartInv DEF Claiming
<1>6. CASE ApiCrash
  BY <1>6, ApiCrashInv
<1>7. CASE UNCHANGED vars
  <2>1. RowsOK' /\ StayBorn /\ Claims'
    BY <1>7, SameRows DEF vars
  <2> QED BY <1>7, <2>1, Others DEF FleetInv, vars
<1> QED BY <1>1, <1>2, <1>3, <1>4, <1>5, <1>6, <1>7 DEF Next

\* The shapes of the fleet's variables; no two live rows carry the same
\* container_id, whatever full-row writes, claims and faults do.
THEOREM FleetTypeCorrect == Spec => []TypeOK
BY InitInv, FleetInvStep, FleetTyped, PTL DEF Spec

\* Two processes hold the same row only after a full-row write has taken its
\* container_id back.
THEOREM RowsClaimedByOne == Spec => []ClaimedByOne
BY InitInv, FleetInvStep, FleetTyped, PTL DEF Spec

-----------------------------------------------------------------------------
(***************************************************************************)
(* The sweep: what it takes is gone for good, or too old for one List to   *)
(* name it - which no row is as long as a List answers with all of them.   *)
(***************************************************************************)
Beyond(r) == Cardinality(Newer(r)) >= ListLimit

Swept ==
    swp.tick.stage = "delete" => \A r \in swp.tick.ids : row[r].phase = "gone" \/ Beyond(r)

StayGone == \A r \in Rows : row[r].phase = "gone" => row'[r].phase = "gone"
StayBeyond == \A r \in Rows : Beyond(r) => Beyond(r)'

\* Fewer rows than there are come after a given one.
LEMMA FewerThanRows ==
    ASSUME NEW r \in Rows, NEW S \in SUBSET {q \in Rows : q > r}
    PROVE  IsFiniteSet(S) /\ Cardinality(S) \in Nat /\ Cardinality(S) < MaxRows
<1>1. MaxRows \in Nat /\ r \in 1 .. MaxRows
  BY FleetConstants DEF Rows
<1>2. IsFiniteSet(1 .. MaxRows) /\ Cardinality(1 .. MaxRows) = MaxRows
  BY <1>1, FS_Interval
<1>3. S \subseteq 1 .. MaxRows /\ r \notin S
  BY <1>1 DEF Rows
<1>4. /\ Cardinality(S) <= Cardinality(1 .. MaxRows)
      /\ Cardinality(S) = Cardinality(1 .. MaxRows) => S = 1 .. MaxRows
      /\ IsFiniteSet(S)
  BY <1>2, <1>3, FS_Subset
<1>5. Cardinality(S) \in Nat
  BY <1>4, FS_CardinalityType
<1> QED BY <1>1, <1>2, <1>3, <1>4, <1>5

\* A live row that a List passes over is beyond its limit.
LEMMA UnlistedIsBeyond ==
    ASSUME NEW r \in LiveRows, r \notin Listed
    PROVE  Beyond(r)
<1>1. r \in Rows /\ ListLimit \in Nat
  BY FleetConstants DEF LiveRows
<1> DEFINE later == {q \in LiveRows : q > r}
<1>2. ~ (Cardinality(later) < ListLimit)
  BY DEF Listed
<1>3. later \subseteq Newer(r)
  BY DEF LiveRows, Live, Newer
<1>4. IsFiniteSet(Newer(r)) /\ Cardinality(Newer(r)) \in Nat
  BY <1>1, FewerThanRows DEF Newer
<1> HIDE DEF later
<1>5. Cardinality(later) <= Cardinality(Newer(r)) /\ IsFiniteSet(later)
  BY <1>3, <1>4, FS_Subset
<1>6. Cardinality(later) \in Nat
  BY <1>5, FS_CardinalityType
<1> QED BY <1>1, <1>2, <1>4, <1>5, <1>6 DEF Beyond

LEMMA GoneStays == FleetInv /\ [Next]_vars => StayGone
<1> SUFFICES ASSUME FleetInv, [Next]_vars, NEW r \in Rows, row[r].phase = "gone"
             PROVE  row'[r].phase = "gone"
  BY DEF StayGone
<1>1. ASSUME NEW q \in Rows, Create(q) PROVE row'[r].phase = "gone"
  BY <1>1 DEF Create, FleetInv, RowsOK
<1>2. CASE DeleteStops \/ RecMark
  BY <1>2 DEF DeleteStops, RecMark, Updatable, UpdateWorker, Live, FleetInv, RowsOK
<1>3. CASE DeleteDrops
  BY <1>3, Blank DEF DeleteDrops, FleetInv, RowsOK
<1>4. ASSUME NEW b \in Boots, ClaimBind(b) PROVE row'[r].phase = "gone"
  <2>1. PICK q : q = proc[b].row
    OBVIOUS
  <2>2. row' = [row EXCEPT ![q].owner = b] \/ UNCHANGED row
    BY <1>4, <2>1 DEF ClaimBind
  <2> QED BY <2>2 DEF FleetInv, RowsOK, Stored
<1>5. ASSUME NEW b \in Boots, Heartbeat(b) PROVE row'[r].phase = "gone"
  BY <1>5 DEF Heartbeat, FleetInv, RowsOK, Stored
<1>6. CASE UNCHANGED row
  BY <1>6
<1>7. ASSUME NEW q \in Rows,
             \/ DeleteRequested(q) \/ RecObserve(q) \/ RecBlind(q) \/ SweepDeletes(q) \/ GraceEnds(q)
      PROVE  UNCHANGED row
  BY <1>7 DEF DeleteRequested, RecObserve, RecBlind, SweepDeletes, GraceEnds
<1>8. DeletePurges \/ RecList \/ RecCreate \/ RecDelete \/ SweepPlatform \/ SweepRows \/ ApiCrash
        => UNCHANGED row
  BY DEF DeletePurges, RecList, RecCreate, RecDelete, RecApply, SweepPlatform, SweepRows, ApiCrash
<1>9. ASSUME NEW b \in Boots, ClaimAgain(b) \/ ClaimSelect(b) \/ Restart(b)
      PROVE  UNCHANGED row
  BY <1>9 DEF ClaimAgain, ClaimSelect, Restart
<1>10. UNCHANGED vars => UNCHANGED row
  BY DEF vars
<1> QED BY <1>1, <1>2, <1>3, <1>4, <1>5, <1>6, <1>7, <1>8, <1>9, <1>10
        DEF Next, DeleteGoesOn, Reconcile, Sweep, Claiming

LEMMA BornStays == FleetInv /\ [Next]_vars => StayBorn
<1> SUFFICES ASSUME FleetInv, [Next]_vars, NEW r \in Rows, Born(r)
             PROVE  Born(r)'
  BY DEF StayBorn
<1>1. ASSUME NEW q \in Rows, Create(q) PROVE Born(r)'
  BY <1>1 DEF Create, FleetInv, RowsOK, Stored, Born
<1>2. CASE DeleteStops \/ RecMark
  BY <1>2 DEF DeleteStops, RecMark, Updatable, UpdateWorker, FleetInv, RowsOK, RecOK, DelOK, Stored,
             Born, RecTypes
<1>3. CASE DeleteDrops
  BY <1>3, Blank DEF DeleteDrops, FleetInv, RowsOK, Born
<1>4. ASSUME NEW b \in Boots, ClaimBind(b) PROVE Born(r)'
  <2>1. PICK q : q = proc[b].row
    OBVIOUS
  <2>2. row' = [row EXCEPT ![q].owner = b] \/ UNCHANGED row
    BY <1>4, <2>1 DEF ClaimBind
  <2> QED BY <2>2 DEF FleetInv, RowsOK, Stored, Born
<1>5. ASSUME NEW b \in Boots, Heartbeat(b) PROVE Born(r)'
  BY <1>5 DEF Heartbeat, FleetInv, RowsOK, Stored, Born
<1>6. CASE UNCHANGED row
  BY <1>6 DEF Born
<1>7. ASSUME NEW q \in Rows,
             \/ DeleteRequested(q) \/ RecObserve(q) \/ RecBlind(q) \/ SweepDeletes(q) \/ GraceEnds(q)
      PROVE  UNCHANGED row
  BY <1>7 DEF DeleteRequested, RecObserve, RecBlind, SweepDeletes, GraceEnds
<1>8. DeletePurges \/ RecList \/ RecCreate \/ RecDelete \/ SweepPlatform \/ SweepRows \/ ApiCrash
        => UNCHANGED row
  BY DEF DeletePurges, RecList, RecCreate, RecDelete, RecApply, SweepPlatform, SweepRows, ApiCrash
<1>9. ASSUME NEW b \in Boots, ClaimAgain(b) \/ ClaimSelect(b) \/ Restart(b)
      PROVE  UNCHANGED row
  BY <1>9 DEF ClaimAgain, ClaimSelect, Restart
<1>10. UNCHANGED vars => UNCHANGED row
  BY DEF vars
<1> QED BY <1>1, <1>2, <1>3, <1>4, <1>5, <1>6, <1>7, <1>8, <1>9, <1>10
        DEF Next, DeleteGoesOn, Reconcile, Sweep, Claiming

\* Rows are only ever added, so what is beyond the limit stays there.
LEMMA BeyondStays == FleetInv /\ [Next]_vars => StayBeyond
<1> SUFFICES ASSUME FleetInv, [Next]_vars, NEW r \in Rows, Beyond(r) PROVE Beyond(r)'
  BY DEF StayBeyond
<1>1. \A q \in Rows : Born(q) => Born(q)'
  BY BornStays DEF StayBorn
<1>2. Newer(r) \subseteq Newer(r)'
  BY <1>1 DEF Newer, Born
<1>3. Newer(r)' \subseteq {q \in Rows : q > r} /\ Newer(r) \subseteq {q \in Rows : q > r}
  BY DEF Newer
<1>4. IsFiniteSet(Newer(r)') /\ Cardinality(Newer(r)') \in Nat /\ Cardinality(Newer(r)) \in Nat
  BY <1>3, FewerThanRows
<1>5. Cardinality(Newer(r)) <= Cardinality(Newer(r)')
  BY <1>2, <1>4, FS_Subset
<1>6. ListLimit \in Nat
  BY FleetConstants
<1> QED BY <1>4, <1>5, <1>6 DEF Beyond

LEMMA SweptStep == FleetInv /\ Swept /\ [Next]_vars => Swept'
<1> SUFFICES ASSUME FleetInv, Swept, [Next]_vars PROVE Swept'
  OBVIOUS
<1>1. StayGone /\ StayBeyond
  BY GoneStays, BeyondStays
<1>2. CASE SweepRows
  <2> DEFINE doomed == {r \in swp.tick.ids \ Listed : swp.seen[r] = "ripe"}
  <2>1. \A r \in doomed : row[r].phase = "gone" \/ Beyond(r)
    <3> SUFFICES ASSUME NEW r \in doomed PROVE row[r].phase = "gone" \/ Beyond(r)
      OBVIOUS
    <3>1. r \in Rows /\ Born(r) /\ row[r] \in Stored /\ r \notin Listed
      BY DEF FleetInv, SwpOK, RowsOK
    <3>2. CASE Live(r)
      BY <3>1, <3>2, UnlistedIsBeyond DEF LiveRows
    <3>3. CASE ~ Live(r)
      BY <3>1, <3>3 DEF Born, Live, Stored
    <3> QED BY <3>2, <3>3
  <2>2. swp'.tick = IF doomed = {} THEN SwpIdle ELSE [stage |-> "delete", ids |-> doomed]
    BY <1>2 DEF SweepRows, Judge
  <2>3. \A r \in Rows : row[r].phase = "gone" \/ Beyond(r) => row'[r].phase = "gone" \/ Beyond(r)'
    BY <1>1 DEF StayGone, StayBeyond
  <2>4. doomed \subseteq Rows
    BY DEF FleetInv, SwpOK
  <2> HIDE DEF doomed
  <2> QED BY <2>1, <2>2, <2>3, <2>4 DEF Swept, SwpIdle
<1>3. CASE SweepPlatform
  <2>1. swp'.tick.stage # "delete"
    BY <1>3 DEF SweepPlatform, SwpIdle, FleetInv, SwpOK
  <2> QED BY <2>1 DEF Swept
<1>4. ASSUME NEW r \in Rows, SweepDeletes(r) PROVE Swept'
  <2>1. swp'.tick = SwpIdle \/ swp'.tick.ids \subseteq swp.tick.ids
    BY <1>4 DEF SweepDeletes, FleetInv, SwpOK
  <2>2. swp.tick.stage = "delete" /\ swp.tick.ids \subseteq Rows
    BY <1>4 DEF SweepDeletes, FleetInv, SwpOK
  <2> QED BY <1>1, <2>1, <2>2 DEF Swept, SwpIdle, StayGone, StayBeyond
<1>5. CASE ApiCrash
  BY <1>5 DEF ApiCrash, Swept, SwpIdle
<1>6. CASE swp'.tick = swp.tick
  BY <1>1, <1>6 DEF Swept, StayGone, StayBeyond, FleetInv, SwpOK
<1>7. ASSUME NEW r \in Rows, GraceEnds(r) PROVE swp'.tick = swp.tick
  BY <1>7 DEF GraceEnds, FleetInv, SwpOK
<1>8. ASSUME NEW r \in Rows, Create(r) \/ DeleteRequested(r) \/ RecObserve(r) \/ RecBlind(r)
      PROVE  UNCHANGED swp
  BY <1>8 DEF Create, DeleteRequested, RecObserve, RecBlind
<1>9. DeleteGoesOn \/ RecList \/ RecCreate \/ RecDelete \/ RecMark \/ UNCHANGED vars => UNCHANGED swp
  BY DEF DeleteGoesOn, DeleteStops, DeletePurges, DeleteDrops, RecList, RecCreate, RecDelete,
         RecApply, RecMark, vars
<1>10. ASSUME NEW b \in Boots, Claiming(b) \/ Heartbeat(b) \/ Restart(b)
       PROVE  UNCHANGED swp
  BY <1>10 DEF Claiming, ClaimAgain, ClaimSelect, ClaimBind, Heartbeat, Restart
<1> QED BY <1>2, <1>3, <1>4, <1>5, <1>6, <1>7, <1>8, <1>9, <1>10 DEF Next, Reconcile, Sweep

\* The newest workers, as many as one List answers with, are never taken from
\* under their rows, whatever else the sweeper takes and however its two lists
\* interleave with creations, deletions and ticks.
THEOREM NewestRowsAreSafe == Spec => NewestAreSafe
<1>1. Init => Swept
  BY DEF Init, Swept, SwpIdle
<1>2. FleetInv /\ Swept /\ [Next]_vars => FleetInv' /\ Swept'
  BY FleetInvStep, SweptStep
<1>3. FleetInv /\ Swept /\ [Next]_vars =>
        [\A r \in Rows :
            SweepDeletes(r) => row[r].phase = "gone" \/ Cardinality(Newer(r)) >= ListLimit]_vars
  BY DEF Swept, SweepDeletes, Beyond
<1> QED BY <1>1, <1>2, <1>3, InitInv, PTL DEF Spec, NewestAreSafe

\* As long as a List answers with every row there is, the sweeper only takes
\* containers whose row was deleted, however its two lists interleave with
\* creations, deletions and ticks.
THEOREM OrphansOnly == ListLimit >= MaxRows => (Spec => OnlyOrphansSwept)
<1>1. Init => Swept
  BY DEF Init, Swept, SwpIdle
<1>2. FleetInv /\ Swept /\ [Next]_vars => FleetInv' /\ Swept'
  BY FleetInvStep, SweptStep
<1>3. ASSUME ListLimit >= MaxRows
      PROVE  Spec => OnlyOrphansSwept
  <2>1. \A r \in Rows : ~ Beyond(r)
    BY <1>3, FewerThanRows, FleetConstants DEF Beyond, Newer
  <2>2. FleetInv /\ Swept /\ [Next]_vars
          => [\A r \in Rows : SweepDeletes(r) => row[r].phase = "gone"]_vars
    BY <2>1 DEF Swept, SweepDeletes
  <2> QED BY <1>1, <1>2, <2>2, InitInv, PTL DEF Spec, OnlyOrphansSwept
<1> QED BY <1>3

=============================================================================
