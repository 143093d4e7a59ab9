------------------------- MODULE DispatchGatesProofs -------------------------
(***************************************************************************)
(* Theorems about DispatchGates, for every number of jobs and schedulers,  *)
(* all windows and faults: the types, that publishes are spaced out, that  *)
(* a pacing slot taken is used, and that a budget is overspent at most     *)
(* once.                                                                   *)
(***************************************************************************)
EXTENDS DispatchGates, FiniteSetTheorems, TLAPS

\* The smaller of two numbers.
LEMMA MinOfTwo ==
    ASSUME NEW a \in Int, NEW b \in Int
    PROVE  Min({a, b}) = IF a <= b THEN a ELSE b
<1> DEFINE m == IF a <= b THEN a ELSE b
<1>1. m \in {a, b} /\ \A y \in {a, b} : m <= y
  OBVIOUS
<1>2. \A x \in {a, b} : (\A y \in {a, b} : x <= y) => x = m
  OBVIOUS
<1> QED BY <1>1, <1>2 DEF Min

\* The clocks, one by one.
LEMMA Clocks ==
    /\ Cooldown \in Nat /\ Cooldown > 0
    /\ AccountPace \in Nat /\ AccountPace > 0
    /\ RateWindow \in Nat /\ RateWindow > 0
    /\ MaxDispatch \in Nat
BY DispatchClocks

\* A dispatch under way has a job, an account and a pair of keys.
LEMMA DispShape ==
    ASSUME TypeOK, NEW s \in Schedulers, disp[s].stage # "idle"
    PROVE  /\ disp[s].stage \in Gates
           /\ disp[s].job \in Jobs
           /\ disp[s].age \in 0 .. MaxDispatch
           /\ Acct(s) \in Accounts
           /\ Pair(s) \in Pairs
           /\ Plat(s) \in Platforms
           /\ disp[s] = [stage |-> disp[s].stage, job |-> disp[s].job, age |-> disp[s].age]
<1>1. disp[s] \in [stage : Gates, job : Jobs, age : 0 .. MaxDispatch]
  BY DEF TypeOK, Dispatches, Idle
<1> QED BY <1>1, DispatchMaps DEF Acct, Pair, Plat, PairOf, Pairs

-----------------------------------------------------------------------------
(***************************************************************************)
(* Types.                                                                  *)
(***************************************************************************)
RatesOK ==
    /\ rate \in [Platforms -> UNION {Counters(p) : p \in Platforms}]
    /\ \A p \in Platforms : rate[p] \in Counters(p)

\* A counter waiting to be anchored has a value and no TTL, and one scheduler
\* that will anchor it; TypeOK alone is not inductive, for EXPIRE would give
\* a TTL to a key that is gone.
Unanchored ==
    /\ \A s \in Schedulers : At(s, "anchor") => rate[Plat(s)].ttl = NoTTL
    /\ \A r, s \in Schedulers :
          At(r, "anchor") /\ At(s, "anchor") /\ Plat(r) = Plat(s) => r = s

\* Going to the next gate keeps the dispatch well formed.
LEMMA GotoShape ==
    ASSUME TypeOK, NEW s \in Schedulers, disp[s].stage # "idle",
           NEW x \in Gates, Goto(s, x)
    PROVE  /\ disp' \in [Schedulers -> Dispatches]
           /\ disp'[s].stage = x /\ disp'[s].job = disp[s].job /\ disp'[s].age = disp[s].age
           /\ \A t \in Schedulers : t # s => disp'[t] = disp[t]
<1>1. disp[s] = [stage |-> disp[s].stage, job |-> disp[s].job, age |-> disp[s].age]
  BY DispShape
<1>2. disp' = [disp EXCEPT ![s] = [disp[s] EXCEPT !.stage = x]]
  BY DEF Goto
<1>3. [disp[s] EXCEPT !.stage = x] = [stage |-> x, job |-> disp[s].job, age |-> disp[s].age]
  BY <1>1
<1>4. disp' = [disp EXCEPT ![s] = [stage |-> x, job |-> disp[s].job, age |-> disp[s].age]]
  BY <1>2, <1>3
<1>5. [stage |-> x, job |-> disp[s].job, age |-> disp[s].age] \in Dispatches
  BY DispShape DEF Dispatches
<1>6. disp \in [Schedulers -> Dispatches]
  BY DEF TypeOK
<1> QED BY <1>4, <1>5, <1>6

\* A job that is put back leaves its scheduler idle.
LEMMA RescheduleShape ==
    ASSUME TypeOK, NEW s \in Schedulers, disp[s].stage # "idle",
           NEW d \in Nat, Reschedule(s, d)
    PROVE  /\ disp' \in [Schedulers -> Dispatches]
           /\ job' \in [Jobs -> [status : {"none", "PENDING", "RUNNING", "SENT"}, delay : Nat]]
           /\ disp'[s] = Idle
           /\ \A t \in Schedulers : t # s => disp'[t] = disp[t]
BY DispShape DEF Reschedule, TypeOK, Dispatches

\* INCR makes a counter of a counter.
LEMMA IncrementedShape ==
    ASSUME TypeOK, NEW p \in Platforms, Limits[p] > 0, NEW by \in {1, 2}
    PROVE  Incremented(p, by) \in Counters(p)
<1>1. rate[p] \in Counters(p) /\ Limits[p] \in Nat
  BY DispatchMaps DEF TypeOK
<1>2. /\ rate[p].n \in 0 .. Limits[p] + 1
      /\ rate[p].n # 0 => rate[p].ttl \in {NoTTL} \cup 1 .. RateWindow
  BY <1>1 DEF Counters, NoCounter
<1>3. Min({rate[p].n + by, Limits[p] + 1}) =
        IF rate[p].n + by <= Limits[p] + 1 THEN rate[p].n + by ELSE Limits[p] + 1
  BY <1>1, <1>2, MinOfTwo
<1>4. Min({rate[p].n + by, Limits[p] + 1}) \in 1 .. Limits[p] + 1
  BY <1>1, <1>2, <1>3
<1> QED BY <1>2, <1>4 DEF Incremented, Counters

\* Time makes a counter of a counter.
LEMMA RunDownShape ==
    ASSUME NEW p \in Platforms, NEW r \in Counters(p)
    PROVE  RunDown(r) \in Counters(p)
<1>1. CASE r = NoCounter
  BY <1>1, DispatchMaps DEF RunDown, NoCounter, Down, Counters
<1>2. CASE r \in [n : 1 .. Limits[p] + 1, ttl : {NoTTL} \cup 1 .. RateWindow]
  <2>1. r = [n |-> r.n, ttl |-> r.ttl]
    BY <1>2
  <2>2. CASE r.ttl = 1
    BY <2>2 DEF RunDown, Counters
  <2>3. CASE r.ttl # 1
    <3>1. RunDown(r) = [n |-> r.n, ttl |-> Down(r.ttl)]
      BY <2>1, <2>3 DEF RunDown
    <3>2. Down(r.ttl) \in {NoTTL} \cup 1 .. RateWindow
      BY <1>2, <2>3, DispatchClocks DEF Down, NoTTL
    <3> QED BY <1>2, <3>1, <3>2 DEF Counters
  <2> QED BY <2>2, <2>3
<1> QED BY <1>1, <1>2 DEF Counters

\* Replacing one counter by a counter keeps the counters.
LEMMA RatesUpdate ==
    ASSUME TypeOK, NEW p \in Platforms, NEW r \in Counters(p),
           rate' = [rate EXCEPT ![p] = r]
    PROVE  RatesOK'
<1>1. r \in UNION {Counters(q) : q \in Platforms}
  OBVIOUS
<1>2. rate' \in [Platforms -> UNION {Counters(q) : q \in Platforms}]
  BY <1>1 DEF TypeOK
<1>3. \A q \in Platforms : rate'[q] \in Counters(q)
  BY DEF TypeOK
<1> QED BY <1>2, <1>3 DEF RatesOK, Counters

\* The initial state is well typed.
LEMMA InitTypeOK == Init => TypeOK
<1> SUFFICES ASSUME Init PROVE TypeOK
  OBVIOUS
<1>1. \A p \in Platforms : NoCounter \in Counters(p)
  BY DEF Counters
<1>2. disp \in [Schedulers -> Dispatches]
  BY DEF Init, Dispatches
<1>3. /\ rate \in [Platforms -> UNION {Counters(p) : p \in Platforms}]
      /\ \A p \in Platforms : rate[p] \in Counters(p)
  BY <1>1 DEF Init
<1>4. /\ job \in [Jobs -> [status : {"none", "PENDING", "RUNNING", "SENT"}, delay : Nat]]
      /\ DOMAIN sent = Platforms /\ \A p \in Platforms : sent[p] \in Lately(p)
  BY Clocks DEF Init, Lately
<1>5. /\ slot \in [Pairs -> 0 .. Cooldown]
      /\ pace \in [Accounts -> 0 .. AccountPace]
      /\ since \in [Pairs -> 0 .. LongAgo]
  BY Clocks DEF Init, LongAgo
<1> QED BY <1>2, <1>3, <1>4, <1>5 DEF TypeOK

\* Enqueueing and claiming keep the types.
LEMMA EnqueueTypeOK ==
    ASSUME TypeOK, NEW j \in Jobs, Enqueue(j)
    PROVE  TypeOK'
BY DEF Enqueue, TypeOK, Counters, Lately

\* The claimed job starts its dispatch at age 0.
LEMMA ClaimTypeOK ==
    ASSUME TypeOK, NEW s \in Schedulers, NEW j \in Jobs, Claim(s, j)
    PROVE  TypeOK'
<1>1. [stage |-> "claimed", job |-> j, age |-> 0] \in Dispatches
  BY Clocks DEF Dispatches, Gates
<1>2. disp' \in [Schedulers -> Dispatches]
  BY <1>1 DEF Claim, TypeOK
<1>3. job' \in [Jobs -> [status : {"none", "PENDING", "RUNNING", "SENT"}, delay : Nat]]
  BY DEF Claim, TypeOK
<1> QED BY <1>2, <1>3 DEF Claim, TypeOK, Counters, Lately

\* So does every step of a dispatch.
LEMMA DispatchTypeOK ==
    ASSUME TypeOK, Unanchored, NEW s \in Schedulers, Dispatch(s)
    PROVE  TypeOK'
<1>0. disp[s].stage # "idle"
  BY DEF Dispatch, AcquireCooldown, CoolingDown, PlatformOff, TakeUnit, Anchor,
         BudgetSpent, AcquirePace, Pacing, Publish, At
<1>1. CASE AcquireCooldown(s)
  <2>1. disp' \in [Schedulers -> Dispatches]
    BY <1>0, <1>1, GotoShape DEF AcquireCooldown, Gates
  <2>2. slot' \in [Pairs -> 0 .. Cooldown]
    <3>1. Cooldown \in 0 .. Cooldown /\ slot \in [Pairs -> 0 .. Cooldown]
      BY Clocks DEF TypeOK
    <3> QED BY <1>1, <3>1, Zenon DEF AcquireCooldown
  <2> QED BY <1>1, <2>1, <2>2 DEF AcquireCooldown, TypeOK, Counters, Lately
<1>2. CASE CoolingDown(s)
  <2>1. Cooldown \in Nat
    BY Clocks
  <2> QED BY <1>0, <1>2, <2>1, RescheduleShape DEF CoolingDown, TypeOK, Counters, Lately
<1>3. CASE PlatformOff(s)
  <2>1. RateWindow \in Nat
    BY Clocks
  <2> QED BY <1>0, <1>3, <2>1, RescheduleShape DEF PlatformOff, TypeOK, Counters, Lately
<1>4. CASE TakeUnit(s)
  <2>1. disp' \in [Schedulers -> Dispatches]
    BY <1>0, <1>4, GotoShape DEF TakeUnit, Gates
  <2>2. Incremented(Plat(s), 1) \in Counters(Plat(s))
    BY <1>0, <1>4, DispShape, IncrementedShape DEF TakeUnit
  <2>3. RatesOK'
    BY <1>0, <1>4, <2>2, DispShape, RatesUpdate DEF TakeUnit
  <2> QED BY <1>4, <2>1, <2>3 DEF TakeUnit, TypeOK, RatesOK, Lately
<1>5. CASE Anchor(s)
  <2>1. disp' \in [Schedulers -> Dispatches]
    BY <1>0, <1>5, GotoShape DEF Anchor, Gates
  <2> DEFINE r == [rate[Plat(s)] EXCEPT !.ttl = RateWindow]
  <2>2. r \in Counters(Plat(s))
    <3>1. rate[Plat(s)] \in Counters(Plat(s)) /\ rate[Plat(s)].ttl = NoTTL
      BY <1>0, <1>5, DispShape DEF TypeOK, Unanchored, Anchor
    <3>2. rate[Plat(s)].n \in 1 .. Limits[Plat(s)] + 1 /\ r = [n |-> rate[Plat(s)].n, ttl |-> RateWindow]
      BY <3>1 DEF Counters, NoCounter, NoTTL
    <3> QED BY <3>2, Clocks DEF Counters
  <2>3. RatesOK'
    <3>1. rate' = [rate EXCEPT ![Plat(s)] = r]
      BY <1>5 DEF Anchor
    <3> QED BY <1>0, <2>2, <3>1, DispShape, RatesUpdate
  <2> QED BY <1>5, <2>1, <2>3 DEF Anchor, TypeOK, RatesOK, Lately
<1>6. CASE BudgetSpent(s)
  <2>1. RetryAfter(Plat(s)) \in Nat
    <3>1. rate[Plat(s)] \in Counters(Plat(s))
      BY <1>0, DispShape DEF TypeOK
    <3> QED BY <3>1, Clocks, DispatchMaps DEF RetryAfter, Counters, NoCounter, NoTTL
  <2> QED BY <1>0, <1>6, <2>1, RescheduleShape DEF BudgetSpent, TypeOK, Counters, Lately
<1>7. CASE AcquirePace(s)
  <2>1. disp' \in [Schedulers -> Dispatches]
    BY <1>0, <1>7, GotoShape DEF AcquirePace, Gates
  <2>2. pace' \in [Accounts -> 0 .. AccountPace]
    <3>1. AccountPace \in 0 .. AccountPace /\ pace \in [Accounts -> 0 .. AccountPace]
      BY Clocks DEF TypeOK
    <3> QED BY <1>7, <3>1, Zenon DEF AcquirePace
  <2> QED BY <1>7, <2>1, <2>2 DEF AcquirePace, TypeOK, Counters, Lately
<1>8. CASE Pacing(s)
  <2>1. AccountPace \in Nat
    BY Clocks
  <2> QED BY <1>0, <1>8, <2>1, RescheduleShape DEF Pacing, TypeOK, Counters, Lately
<1>9. CASE Publish(s)
  <2>1. disp' \in [Schedulers -> Dispatches]
    BY <1>9 DEF Publish, TypeOK, Dispatches
  <2>2. job' \in [Jobs -> [status : {"none", "PENDING", "RUNNING", "SENT"}, delay : Nat]]
    BY <1>9 DEF Publish, TypeOK
  <2>3. DOMAIN sent' = Platforms /\ \A p \in Platforms : sent'[p] \in Lately(p)
    <3>1. /\ sent' = [sent EXCEPT ![Plat(s)] =
                        [i \in DOMAIN sent[Plat(s)] |-> IF i = 1 THEN 0 ELSE sent[Plat(s)][i - 1]]]
          /\ DOMAIN sent = Platforms /\ \A p \in Platforms : sent[p] \in Lately(p)
      BY <1>9 DEF Publish, TypeOK
    <3>2. ASSUME NEW p \in Platforms
          PROVE  [i \in DOMAIN sent[p] |-> IF i = 1 THEN 0 ELSE sent[p][i - 1]] \in Lately(p)
      <4>1. sent[p] \in [1 .. 2 * Limits[p] + 1 -> 0 .. RateWindow] /\ Limits[p] \in Nat
        BY <3>1, DispatchMaps DEF Lately
      <4> QED BY <4>1, Clocks DEF Lately
    <3> QED BY <3>1, <3>2
  <2>4. since' \in [Pairs -> 0 .. LongAgo]
    <3>1. 0 \in 0 .. LongAgo /\ since \in [Pairs -> 0 .. LongAgo]
      BY Clocks DEF TypeOK, LongAgo
    <3> QED BY <1>9, <3>1, Zenon DEF Publish
  <2> QED BY <1>9, <2>1, <2>2, <2>3, <2>4 DEF Publish, TypeOK, Counters, Lately
<1> QED BY <1>1, <1>2, <1>3, <1>4, <1>5, <1>6, <1>7, <1>8, <1>9 DEF Dispatch

\* So does every fault.
LEMMA FaultTypeOK ==
    ASSUME TypeOK, NEW s \in Schedulers, Fault(s)
    PROVE  TypeOK'
<1>0. disp[s].stage # "idle"
  BY DEF Fault, GateError, OwnKey, CountedTwice, ApiCrash, At
<1>1. CASE GateError(s)
  <2>1. (IF At(s, "budgeted") THEN AccountPace ELSE Cooldown) \in Nat
    BY Clocks
  <2> QED BY <1>0, <1>1, <2>1, RescheduleShape DEF GateError, TypeOK, Counters, Lately
<1>2. CASE OwnKey(s)
  <2>1. /\ disp' \in [Schedulers -> Dispatches]
        /\ job' \in [Jobs -> [status : {"none", "PENDING", "RUNNING", "SENT"}, delay : Nat]]
    BY <1>0, <1>2, Clocks, RescheduleShape DEF OwnKey
  <2>2. slot' \in [Pairs -> 0 .. Cooldown]
    <3>1. Cooldown \in 0 .. Cooldown /\ slot \in [Pairs -> 0 .. Cooldown]
      BY Clocks DEF TypeOK
    <3> QED BY <1>2, <3>1, Zenon DEF OwnKey
  <2>3. pace' \in [Accounts -> 0 .. AccountPace]
    <3>1. AccountPace \in 0 .. AccountPace /\ pace \in [Accounts -> 0 .. AccountPace]
      BY Clocks DEF TypeOK
    <3> QED BY <1>2, <3>1, Zenon DEF OwnKey
  <2> QED BY <1>2, <2>1, <2>2, <2>3 DEF OwnKey, TypeOK, Counters, Lately
<1>3. CASE CountedTwice(s)
  <2>1. disp' \in [Schedulers -> Dispatches]
    BY <1>0, <1>3, GotoShape DEF CountedTwice, Gates
  <2>2. Incremented(Plat(s), 2) \in Counters(Plat(s))
    BY <1>0, <1>3, DispShape, IncrementedShape DEF CountedTwice
  <2>3. RatesOK'
    BY <1>0, <1>3, <2>2, DispShape, RatesUpdate DEF CountedTwice
  <2> QED BY <1>3, <2>1, <2>3 DEF CountedTwice, TypeOK, RatesOK, Lately
<1>4. CASE ApiCrash(s)
  <2>1. disp' \in [Schedulers -> Dispatches]
    BY <1>4 DEF ApiCrash, TypeOK, Dispatches
  <2> QED BY <1>4, <2>1 DEF ApiCrash, TypeOK, Counters, Lately
<1> QED BY <1>1, <1>2, <1>3, <1>4 DEF Fault

\* And time.
LEMMA TickTypeOK ==
    ASSUME TypeOK, Tick
    PROVE  TypeOK'
<1>1. job' \in [Jobs -> [status : {"none", "PENDING", "RUNNING", "SENT"}, delay : Nat]]
  <2>1. ASSUME NEW j \in Jobs
        PROVE  [job[j] EXCEPT !.delay = Down(@)] \in
                  [status : {"none", "PENDING", "RUNNING", "SENT"}, delay : Nat]
    <3>1. job[j] \in [status : {"none", "PENDING", "RUNNING", "SENT"}, delay : Nat]
      BY DEF TypeOK
    <3> QED BY <3>1 DEF Down
  <2> QED BY <2>1 DEF Tick
<1>2. disp' \in [Schedulers -> Dispatches]
  <2>1. ASSUME NEW s \in Schedulers, ~At(s, "idle")
        PROVE  [disp[s] EXCEPT !.age = @ + 1] \in Dispatches
    <3>1. disp[s].stage # "idle"
      BY <2>1 DEF At
    <3>2. /\ disp[s].stage \in Gates /\ disp[s].job \in Jobs
          /\ disp[s].age \in 0 .. MaxDispatch
          /\ disp[s] = [stage |-> disp[s].stage, job |-> disp[s].job, age |-> disp[s].age]
      BY <3>1, DispShape
    <3>3. disp[s].age < MaxDispatch
      BY <3>1 DEF Tick
    <3>4. disp[s].age + 1 \in 0 .. MaxDispatch
      BY <3>2, <3>3, Clocks
    <3>5. [disp[s] EXCEPT !.age = @ + 1] =
            [stage |-> disp[s].stage, job |-> disp[s].job, age |-> disp[s].age + 1]
      BY <3>2
    <3> QED BY <3>2, <3>4, <3>5 DEF Dispatches
  <2> QED BY <2>1 DEF Tick, Dispatches
<1>3. slot' \in [Pairs -> 0 .. Cooldown]
  <2>1. \A x \in 0 .. Cooldown : Down(x) \in 0 .. Cooldown
    BY Clocks DEF Down
  <2> QED BY <2>1 DEF Tick, TypeOK
<1>4. pace' \in [Accounts -> 0 .. AccountPace]
  <2>1. \A x \in 0 .. AccountPace : Down(x) \in 0 .. AccountPace
    BY Clocks DEF Down
  <2> QED BY <2>1 DEF Tick, TypeOK
<1>5. RatesOK'
  <2>1. \A p \in Platforms : rate[p] \in Counters(p)
    BY DEF TypeOK
  <2>2. rate' = [p \in Platforms |-> RunDown(rate[p])]
    BY DEF Tick
  <2>3. \A p \in Platforms : RunDown(rate[p]) \in Counters(p)
    BY <2>1, RunDownShape
  <2> QED BY <2>2, <2>3 DEF RatesOK, Counters
<1>6. DOMAIN sent' = Platforms /\ \A p \in Platforms : sent'[p] \in Lately(p)
  <2>1. ASSUME NEW p \in Platforms
        PROVE  [i \in DOMAIN sent[p] |-> Min({sent[p][i] + 1, RateWindow})] \in Lately(p)
    <3>1. sent[p] \in [1 .. 2 * Limits[p] + 1 -> 0 .. RateWindow]
      BY DEF TypeOK, Lately
    <3>2. ASSUME NEW x \in 0 .. RateWindow PROVE Min({x + 1, RateWindow}) \in 0 .. RateWindow
      <4>1. Min({x + 1, RateWindow}) = IF x + 1 <= RateWindow THEN x + 1 ELSE RateWindow
        BY Clocks, MinOfTwo
      <4> QED BY <4>1, Clocks
    <3> QED BY <3>1, <3>2 DEF Lately
  <2> QED BY <2>1 DEF Tick
<1>7. since' \in [Pairs -> 0 .. LongAgo]
  <2>1. LongAgo \in Nat
    BY Clocks DEF LongAgo
  <2>2. ASSUME NEW k \in Pairs PROVE Min({since[k] + 1, LongAgo}) \in 0 .. LongAgo
    <3>1. since[k] \in 0 .. LongAgo
      BY DEF TypeOK
    <3>2. Min({since[k] + 1, LongAgo}) =
            IF since[k] + 1 <= LongAgo THEN since[k] + 1 ELSE LongAgo
      BY <2>1, <3>1, MinOfTwo
    <3> QED BY <2>1, <3>1, <3>2
  <2> QED BY <2>2 DEF Tick
<1> QED BY <1>1, <1>2, <1>3, <1>4, <1>5, <1>6, <1>7 DEF TypeOK, RatesOK, Lately

-----------------------------------------------------------------------------
(***************************************************************************)
(* A window has one scheduler to anchor it.                                *)
(***************************************************************************)
\* Steps that leave the counters alone and bring nobody to the anchor.
LEMMA NobodyAnchors ==
    ASSUME Unanchored, rate' = rate,
           \A s \in Schedulers :
              At(s, "anchor")' => At(s, "anchor") /\ disp'[s].job = disp[s].job
    PROVE  Unanchored'
BY DEF Unanchored, At, Plat, Acct

\* INCR brings a scheduler to the anchor only when it created the counter,
\* and then nobody else is there.
LEMMA UnitTaken ==
    ASSUME TypeOK, Unanchored, NEW s \in Schedulers, At(s, "cooled"), NEW by \in {1, 2},
           rate' = [rate EXCEPT ![Plat(s)] = Incremented(Plat(s), by)],
           NEW x \in {"anchor", "spent", "budgeted"}, Goto(s, x),
           x = "anchor" => rate[Plat(s)].n = 0
    PROVE  Unanchored'
<1>1. /\ \A r \in Schedulers : r # s => disp'[r] = disp[r]
      /\ disp'[s].stage = x /\ disp'[s].job = disp[s].job
  BY GotoShape DEF At, Gates
<1>2. /\ Plat(s) \in Platforms
      /\ \A r \in Schedulers : At(r, "anchor") => Plat(r) \in Platforms /\ r # s
  BY DispShape DEF At
<1>3. \A r \in Schedulers : Plat(r)' = Plat(r)
  BY <1>1 DEF Plat, Acct
<1>4. \A r \in Schedulers : At(r, "anchor") => rate[Plat(r)].n # 0
  BY <1>2 DEF Unanchored, TypeOK, Counters, NoCounter, NoTTL
<1>5. \A p \in Platforms :
         rate'[p] = IF p = Plat(s) THEN Incremented(p, by) ELSE rate[p]
  BY <1>2 DEF TypeOK
<1>6. \A p \in Platforms : rate[p].ttl = NoTTL => rate'[p].ttl = NoTTL
  BY <1>5 DEF Incremented
<1>7. rate[Plat(s)].n = 0 => rate'[Plat(s)].ttl = NoTTL
  BY <1>2, <1>5 DEF Incremented
<1> QED BY <1>1, <1>2, <1>3, <1>4, <1>6, <1>7 DEF Unanchored, At

\* Every step keeps it.
LEMMA UnanchoredStep ==
    ASSUME TypeOK, Unanchored, [Next]_vars
    PROVE  Unanchored'
<1> DEFINE Calm == \A s \in Schedulers :
                      At(s, "anchor")' => At(s, "anchor") /\ disp'[s].job = disp[s].job
<1>1. CASE UNCHANGED vars
  BY <1>1, NobodyAnchors DEF vars, At
<1>2. ASSUME NEW j \in Jobs, Enqueue(j) PROVE Unanchored'
  BY <1>2, NobodyAnchors DEF Enqueue, At
<1>3. ASSUME NEW s \in Schedulers, NEW j \in Jobs, Claim(s, j) PROVE Unanchored'
  <2>1. Calm
    BY <1>3 DEF Claim, At, TypeOK
  <2> QED BY <1>3, <2>1, NobodyAnchors DEF Claim
<1>4. ASSUME NEW s \in Schedulers, Dispatch(s) PROVE Unanchored'
  <2>1. CASE TakeUnit(s)
    <3> DEFINE n == rate[Plat(s)].n + 1
               x == IF n = 1 THEN "anchor"
                    ELSE IF n <= Limits[Plat(s)] THEN "budgeted" ELSE "spent"
    <3>1. /\ At(s, "cooled") /\ Goto(s, x)
          /\ rate' = [rate EXCEPT ![Plat(s)] = Incremented(Plat(s), 1)]
      BY <2>1 DEF TakeUnit
    <3>2. Plat(s) \in Platforms /\ rate[Plat(s)].n \in Nat
      <4>1. Plat(s) \in Platforms
        BY <3>1, DispShape DEF At
      <4> QED BY <4>1, DispatchMaps DEF TypeOK, Counters, NoCounter
    <3>3. x \in {"anchor", "spent", "budgeted"} /\ (x = "anchor" => rate[Plat(s)].n = 0)
      BY <3>2
    <3> HIDE DEF x
    <3> QED BY <3>1, <3>3, UnitTaken
  <2>2. CASE Anchor(s)
    <3>1. ASSUME NEW r \in Schedulers, At(r, "anchor")'
          PROVE  /\ r # s /\ At(r, "anchor") /\ disp'[r] = disp[r]
                 /\ Plat(r) \in Platforms /\ Plat(r) # Plat(s)
      <4>1. disp[s].stage = "anchor" /\ Goto(s, "budgeted")
        BY <2>2 DEF Anchor, At
      <4>2. disp'[s].stage = "budgeted" /\ (\A t \in Schedulers : t # s => disp'[t] = disp[t])
        BY <4>1, GotoShape DEF Gates
      <4>3. r # s /\ At(r, "anchor") /\ disp'[r] = disp[r]
        BY <3>1, <4>2 DEF At
      <4> QED BY <4>1, <4>3, DispShape DEF Unanchored, At
    <3>2. \A r \in Schedulers : At(r, "anchor")' => rate'[Plat(r)] = rate[Plat(r)]
      BY <2>2, <3>1 DEF Anchor, TypeOK
    <3> QED BY <3>1, <3>2 DEF Unanchored, At, Plat, Acct
  <2>3. CASE ~TakeUnit(s) /\ ~Anchor(s)
    <3>1. rate' = rate /\ disp[s].stage # "idle"
      BY <1>4, <2>3 DEF Dispatch, AcquireCooldown, CoolingDown, PlatformOff, BudgetSpent,
                        AcquirePace, Pacing, Publish, At
    <3>2. disp' = [disp EXCEPT ![s] = Idle] \/ Goto(s, "cooled") \/ Goto(s, "paced")
      BY <1>4, <2>3 DEF Dispatch, AcquireCooldown, CoolingDown, PlatformOff, BudgetSpent,
                        AcquirePace, Pacing, Publish, Reschedule
    <3>3. disp'[s].stage # "anchor" /\ \A r \in Schedulers : r # s => disp'[r] = disp[r]
      <4>1. ASSUME NEW x \in {"cooled", "paced"}, Goto(s, x)
            PROVE  disp'[s].stage = x /\ \A r \in Schedulers : r # s => disp'[r] = disp[r]
        BY <3>1, <4>1, GotoShape DEF Gates
      <4>2. CASE disp' = [disp EXCEPT ![s] = Idle]
        BY <4>2 DEF Idle, TypeOK
      <4> QED BY <3>2, <4>1, <4>2
    <3>4. Calm
      BY <3>3 DEF At
    <3> QED BY <3>1, <3>4, NobodyAnchors
  <2> QED BY <2>1, <2>2, <2>3
<1>5. ASSUME NEW s \in Schedulers, Fault(s) PROVE Unanchored'
  <2>1. CASE CountedTwice(s)
    <3> DEFINE x == IF rate[Plat(s)].n + 2 <= Limits[Plat(s)] THEN "budgeted" ELSE "spent"
    <3>1. /\ At(s, "cooled") /\ Goto(s, x)
          /\ rate' = [rate EXCEPT ![Plat(s)] = Incremented(Plat(s), 2)]
      BY <2>1 DEF CountedTwice
    <3>2. x \in {"anchor", "spent", "budgeted"} /\ x # "anchor"
      OBVIOUS
    <3> HIDE DEF x
    <3> QED BY <3>1, <3>2, UnitTaken
  <2>2. CASE ~CountedTwice(s)
    <3>1. rate' = rate /\ disp' = [disp EXCEPT ![s] = Idle]
      BY <1>5, <2>2 DEF Fault, GateError, OwnKey, ApiCrash, Reschedule
    <3>2. Calm
      BY <3>1 DEF At, Idle, TypeOK
    <3> QED BY <3>1, <3>2, NobodyAnchors
  <2> QED BY <2>1, <2>2
<1>6. CASE Tick
  <2>1. \A s \in Schedulers : At(s, "anchor")' => At(s, "anchor") /\ disp'[s].job = disp[s].job
    BY <1>6 DEF Tick, At, Idle, TypeOK
  <2>2. \A p \in Platforms : rate[p].ttl = NoTTL => rate'[p].ttl = NoTTL
    <3>1. ASSUME NEW p \in Platforms, rate[p].ttl = NoTTL PROVE RunDown(rate[p]).ttl = NoTTL
      <4>1. rate[p] = [n |-> rate[p].n, ttl |-> NoTTL]
        BY <3>1 DEF TypeOK, Counters, NoCounter
      <4> QED BY <4>1 DEF RunDown, Down, NoTTL
    <3> QED BY <1>6, <3>1 DEF Tick
  <2>3. \A s \in Schedulers : At(s, "anchor") => Plat(s) \in Platforms
    BY DispShape DEF At
  <2> QED BY <2>1, <2>2, <2>3 DEF Unanchored, At, Plat, Acct
<1> QED BY <1>1, <1>2, <1>3, <1>4, <1>5, <1>6 DEF Next

\* Types and anchors together are inductive.
LEMMA TypeInduction == Spec => [](TypeOK /\ Unanchored)
<1>1. Init => TypeOK /\ Unanchored
  BY InitTypeOK DEF Init, Unanchored, At, Idle
<1>2. TypeOK /\ Unanchored /\ [Next]_vars => (TypeOK /\ Unanchored)'
  <2> SUFFICES ASSUME TypeOK, Unanchored, [Next]_vars PROVE TypeOK'
    BY UnanchoredStep
  <2>1. CASE UNCHANGED vars
    BY <2>1 DEF vars, TypeOK, Counters, Lately
  <2> QED BY <2>1, EnqueueTypeOK, ClaimTypeOK, DispatchTypeOK, FaultTypeOK, TickTypeOK DEF Next
<1> QED BY <1>1, <1>2, PTL DEF Spec

\* Every reachable state is well typed: no counter outlives its window, no
\* EXPIRE revives one, no dispatch outlasts MaxDispatch (every action).
THEOREM TypeCorrect == Spec => []TypeOK
BY TypeInduction, PTL

-----------------------------------------------------------------------------
(***************************************************************************)
(* Publishes are spaced out.  A key and the time since the last publish    *)
(* add up to the spacing, short of the age of a dispatch: what a scheduler *)
(* has acquired has at most aged with it.  SpacedOut alone is not          *)
(* inductive: Publish resets "since" for every scheduler that holds the    *)
(* same keys, so that there must not be another.                           *)
(***************************************************************************)
Past(s) == disp[s].stage \in Gates \ {"claimed"}

Cooled ==
    /\ \A k \in Pairs : since[k] + slot[k] + MaxDispatch >= Cooldown
    /\ \A s \in Schedulers : Past(s) => slot[Pair(s)] + disp[s].age >= Cooldown
    /\ \A s \in Schedulers : Past(s) => since[Pair(s)] + MaxDispatch >= Cooldown
    /\ \A r, s \in Schedulers :
          Past(r) /\ Past(s) /\ Pair(r) = Pair(s) => r = s \/ MaxDispatch >= Cooldown

Paced ==
    /\ \A a \in Accounts, t \in Targets :
          since[<<a, t>>] + pace[a] + MaxDispatch >= AccountPace
    /\ \A s \in Schedulers : At(s, "paced") => pace[Acct(s)] + disp[s].age >= AccountPace
    /\ \A s \in Schedulers, t \in Targets :
          At(s, "paced") => since[<<Acct(s), t>>] + MaxDispatch >= AccountPace
    /\ \A r, s \in Schedulers :
          At(r, "paced") /\ At(s, "paced") /\ Acct(r) = Acct(s)
             => r = s \/ MaxDispatch >= AccountPace

\* The numbers the invariants add up.
LEMMA Numbers ==
    ASSUME TypeOK
    PROVE  /\ \A k \in Pairs : slot[k] \in 0 .. Cooldown /\ since[k] \in 0 .. LongAgo
           /\ \A a \in Accounts : pace[a] \in 0 .. AccountPace
           /\ \A a \in Accounts, t \in Targets : <<a, t>> \in Pairs
           /\ LongAgo \in Nat /\ LongAgo >= Cooldown /\ LongAgo >= AccountPace
<1>1. LongAgo \in Nat /\ LongAgo >= Cooldown /\ LongAgo >= AccountPace
  BY Clocks DEF LongAgo
<1>2. \A a \in Accounts, t \in Targets : <<a, t>> \in Pairs
  BY DEF Pairs
<1> QED BY <1>1, <1>2 DEF TypeOK

\* A scheduler past the first gate has keys; one at the last gate is past
\* the first.
LEMMA PastShape ==
    ASSUME TypeOK, NEW s \in Schedulers
    PROVE  /\ Past(s) => /\ Pair(s) \in Pairs /\ Acct(s) \in Accounts
                          /\ disp[s].age \in 0 .. MaxDispatch
           /\ At(s, "paced") => Past(s)
<1>1. Past(s) => disp[s].stage # "idle"
  BY DEF Past, Gates
<1> QED BY <1>1, DispShape DEF Past, Gates, At

\* What a step of a dispatch or a fault does to the schedulers and the keys.
LEMMA OwnStep ==
    ASSUME TypeOK, NEW s \in Schedulers, Dispatch(s) \/ Fault(s)
    PROVE  /\ \A r \in Schedulers : r # s => disp'[r] = disp[r]
           /\ \/ disp'[s] = Idle
              \/ /\ Past(s)' /\ disp'[s].job = disp[s].job /\ disp'[s].age = disp[s].age
                 /\ Past(s) \/ AcquireCooldown(s)
                 /\ At(s, "paced")' => AcquirePace(s)
           /\ \A k \in Pairs : slot'[k] >= slot[k]
           /\ \A a \in Accounts : pace'[a] >= pace[a]
           /\ since' = since \/ Publish(s)
<1>0. disp[s].stage # "idle"
  BY DEF Dispatch, AcquireCooldown, CoolingDown, PlatformOff, TakeUnit, Anchor, BudgetSpent,
         AcquirePace, Pacing, Publish, Fault, GateError, OwnKey, CountedTwice, ApiCrash, At
<1>1. ASSUME NEW x \in Gates, Goto(s, x)
      PROVE  /\ disp'[s].stage = x /\ disp'[s].job = disp[s].job /\ disp'[s].age = disp[s].age
             /\ \A r \in Schedulers : r # s => disp'[r] = disp[r]
  BY <1>0, <1>1, GotoShape
<1>2. ASSUME disp' = [disp EXCEPT ![s] = Idle]
      PROVE  disp'[s] = Idle /\ \A r \in Schedulers : r # s => disp'[r] = disp[r]
  BY <1>2 DEF TypeOK
<1>3. \A k \in Pairs : slot'[k] >= slot[k]
  <2>1. slot' = slot \/ slot' = [slot EXCEPT ![Pair(s)] = Cooldown]
    BY DEF Dispatch, AcquireCooldown, CoolingDown, PlatformOff, TakeUnit, Anchor, BudgetSpent,
           AcquirePace, Pacing, Publish, Fault, GateError, OwnKey, CountedTwice, ApiCrash
  <2>2. ASSUME NEW k \in Pairs PROVE slot'[k] = slot[k] \/ slot'[k] = Cooldown
    BY <2>1 DEF TypeOK
  <2> QED BY <2>2, Numbers, Clocks
<1>4. \A a \in Accounts : pace'[a] >= pace[a]
  <2>1. pace' = pace \/ pace' = [pace EXCEPT ![Acct(s)] = AccountPace]
    BY DEF Dispatch, AcquireCooldown, CoolingDown, PlatformOff, TakeUnit, Anchor, BudgetSpent,
           AcquirePace, Pacing, Publish, Fault, GateError, OwnKey, CountedTwice, ApiCrash
  <2>2. ASSUME NEW a \in Accounts PROVE pace'[a] = pace[a] \/ pace'[a] = AccountPace
    BY <2>1 DEF TypeOK
  <2> QED BY <2>2, Numbers, Clocks
<1>5. since' = since \/ Publish(s)
  BY DEF Dispatch, AcquireCooldown, CoolingDown, PlatformOff, TakeUnit, Anchor, BudgetSpent,
         AcquirePace, Pacing, Fault, GateError, OwnKey, CountedTwice, ApiCrash
<1>6. \/ disp' = [disp EXCEPT ![s] = Idle]
      \/ AcquireCooldown(s) /\ Goto(s, "cooled")
      \/ AcquirePace(s) /\ At(s, "budgeted") /\ Goto(s, "paced")
      \/ \E x \in {"anchor", "spent", "budgeted"} :
           Goto(s, x) /\ (At(s, "cooled") \/ At(s, "anchor"))
  BY DEF Dispatch, AcquireCooldown, CoolingDown, PlatformOff, TakeUnit, Anchor, BudgetSpent,
         AcquirePace, Pacing, Publish, Fault, GateError, OwnKey, CountedTwice, ApiCrash, Reschedule
<1>7. CASE disp' = [disp EXCEPT ![s] = Idle]
  BY <1>2, <1>3, <1>4, <1>5, <1>7
<1>8. CASE AcquireCooldown(s) /\ Goto(s, "cooled")
  BY <1>1, <1>3, <1>4, <1>5, <1>8 DEF Past, Gates, At
<1>9. CASE AcquirePace(s) /\ At(s, "budgeted") /\ Goto(s, "paced")
  BY <1>1, <1>3, <1>4, <1>5, <1>9 DEF Past, Gates, At
<1>10. ASSUME NEW x \in {"anchor", "spent", "budgeted"}, Goto(s, x),
              At(s, "cooled") \/ At(s, "anchor")
       PROVE  /\ \A r \in Schedulers : r # s => disp'[r] = disp[r]
              /\ Past(s)' /\ disp'[s].job = disp[s].job /\ disp'[s].age = disp[s].age
              /\ Past(s) /\ ~At(s, "paced")'
  BY <1>1, <1>10 DEF Past, Gates, At
<1> QED BY <1>3, <1>4, <1>5, <1>6, <1>7, <1>8, <1>9, <1>10

\* While nothing is published and no key is lost, the schedulers that stay
\* where they were keep what they had.
LEMMA CooledQuiet ==
    ASSUME TypeOK, TypeOK', Cooled, since' = since,
           \A k \in Pairs : slot'[k] >= slot[k],
           \A r \in Schedulers :
              Past(r)' => Past(r) /\ disp'[r].job = disp[r].job /\ disp'[r].age = disp[r].age
    PROVE  Cooled'
<1>1. \A k \in Pairs : slot[k] \in Nat /\ slot'[k] \in Nat /\ since[k] \in Nat
  BY DEF TypeOK
<1>2. \A r \in Schedulers :
         Past(r)' => /\ Past(r) /\ Pair(r)' = Pair(r) /\ Pair(r) \in Pairs
                     /\ disp[r].age \in Nat /\ disp'[r].age = disp[r].age
  BY PastShape DEF Pair
<1>3. (\A k \in Pairs : since[k] + slot[k] + MaxDispatch >= Cooldown)'
  BY <1>1, Clocks DEF Cooled
<1>4. (\A r \in Schedulers : Past(r) => slot[Pair(r)] + disp[r].age >= Cooldown)'
  BY <1>1, <1>2, Clocks DEF Cooled
<1>5. (\A r \in Schedulers : Past(r) => since[Pair(r)] + MaxDispatch >= Cooldown)'
  BY <1>2 DEF Cooled
<1>6. (\A q, r \in Schedulers :
          Past(q) /\ Past(r) /\ Pair(q) = Pair(r) => q = r \/ MaxDispatch >= Cooldown)'
  BY <1>2 DEF Cooled
<1> QED BY <1>3, <1>4, <1>5, <1>6 DEF Cooled

\* The same for the pacing keys.
LEMMA PacedQuiet ==
    ASSUME TypeOK, TypeOK', Paced, since' = since,
           \A a \in Accounts : pace'[a] >= pace[a],
           \A r \in Schedulers :
              At(r, "paced")' =>
                 At(r, "paced") /\ disp'[r].job = disp[r].job /\ disp'[r].age = disp[r].age
    PROVE  Paced'
<1>1. /\ \A a \in Accounts : pace[a] \in Nat /\ pace'[a] \in Nat
      /\ \A a \in Accounts, t \in Targets : since[<<a, t>>] \in Nat
  BY DEF TypeOK, Pairs
<1>2. \A r \in Schedulers :
         At(r, "paced")' => /\ At(r, "paced") /\ Acct(r)' = Acct(r) /\ Acct(r) \in Accounts
                            /\ disp[r].age \in Nat /\ disp'[r].age = disp[r].age
  BY PastShape DEF Acct
<1>3. (\A a \in Accounts, t \in Targets :
          since[<<a, t>>] + pace[a] + MaxDispatch >= AccountPace)'
  <2>1. ASSUME NEW a \in Accounts, NEW t \in Targets
        PROVE  since'[<<a, t>>] + pace'[a] + MaxDispatch >= AccountPace
    <3>1. since[<<a, t>>] + pace[a] + MaxDispatch >= AccountPace
      BY DEF Paced
    <3>2. since'[<<a, t>>] \in Nat /\ since'[<<a, t>>] = since[<<a, t>>]
      BY <1>1
    <3>3. pace[a] \in Nat /\ pace'[a] \in Nat /\ pace'[a] >= pace[a]
      BY <1>1
    <3> QED BY <3>1, <3>2, <3>3, Clocks
  <2> QED BY <2>1
<1>4. (\A r \in Schedulers : At(r, "paced") => pace[Acct(r)] + disp[r].age >= AccountPace)'
  BY <1>1, <1>2, Clocks DEF Paced
<1>5. (\A r \in Schedulers, t \in Targets :
          At(r, "paced") => since[<<Acct(r), t>>] + MaxDispatch >= AccountPace)'
  BY <1>2 DEF Paced
<1>6. (\A q, r \in Schedulers :
          At(q, "paced") /\ At(r, "paced") /\ Acct(q) = Acct(r)
             => q = r \/ MaxDispatch >= AccountPace)'
  BY <1>2 DEF Paced
<1> QED BY <1>3, <1>4, <1>5, <1>6 DEF Paced

\* Time takes as much from a key as it adds to the time since.
LEMMA TickShape ==
    ASSUME TypeOK, Tick
    PROVE  /\ \A k \in Pairs :
                 /\ slot'[k] >= slot[k] - 1 /\ slot'[k] >= 0
                 /\ since'[k] >= since[k]
                 /\ (since'[k] >= since[k] + 1 \/ since'[k] >= LongAgo)
           /\ \A a \in Accounts : pace'[a] >= pace[a] - 1 /\ pace'[a] >= 0
           /\ \A r \in Schedulers :
                 /\ disp'[r].stage = disp[r].stage
                 /\ Past(r) => disp'[r].job = disp[r].job /\ disp'[r].age = disp[r].age + 1
<1>1. ASSUME NEW k \in Pairs
      PROVE  /\ slot'[k] >= slot[k] - 1 /\ slot'[k] >= 0
             /\ since'[k] >= since[k]
             /\ (since'[k] >= since[k] + 1 \/ since'[k] >= LongAgo)
  <2>1. slot[k] \in Nat /\ since[k] \in Nat /\ since[k] <= LongAgo /\ LongAgo \in Nat
    BY Numbers, Clocks
  <2>2. slot'[k] = Down(slot[k]) /\ since'[k] = Min({since[k] + 1, LongAgo})
    BY DEF Tick
  <2>3. Min({since[k] + 1, LongAgo}) = IF since[k] + 1 <= LongAgo THEN since[k] + 1 ELSE LongAgo
    BY <2>1, MinOfTwo
  <2> QED BY <2>1, <2>2, <2>3 DEF Down
<1>2. ASSUME NEW a \in Accounts PROVE pace'[a] >= pace[a] - 1 /\ pace'[a] >= 0
  <2>1. pace[a] \in Nat /\ pace'[a] = Down(pace[a])
    BY Numbers DEF Tick
  <2> QED BY <2>1 DEF Down
<1>3. ASSUME NEW r \in Schedulers
      PROVE  /\ disp'[r].stage = disp[r].stage
             /\ Past(r) => disp'[r].job = disp[r].job /\ disp'[r].age = disp[r].age + 1
  <2>1. disp'[r] = IF At(r, "idle") THEN Idle ELSE [disp[r] EXCEPT !.age = @ + 1]
    BY DEF Tick
  <2>2. CASE At(r, "idle")
    BY <2>1, <2>2 DEF At, Idle, Past, Gates
  <2>3. CASE ~At(r, "idle")
    <3>1. disp[r] = [stage |-> disp[r].stage, job |-> disp[r].job, age |-> disp[r].age]
      BY <2>3, DispShape DEF At
    <3>2. disp'[r] = [stage |-> disp[r].stage, job |-> disp[r].job, age |-> disp[r].age + 1]
      BY <2>1, <2>3, <3>1
    <3> QED BY <3>2
  <2> QED BY <2>2, <2>3
<1> QED BY <1>1, <1>2, <1>3

\* Whoever acquires the cooldown key finds no other dispatch that holds it,
\* unless dispatches outlast the cooldown.
LEMMA Acquired ==
    ASSUME TypeOK, TypeOK', Cooled, NEW s \in Schedulers, AcquireCooldown(s)
    PROVE  Cooled'
<1> DEFINE k0 == Pair(s)
<1>1. /\ disp'[s].stage = "cooled" /\ disp'[s].job = disp[s].job /\ disp'[s].age = disp[s].age
      /\ \A r \in Schedulers : r # s => disp'[r] = disp[r]
      /\ k0 \in Pairs /\ disp[s].age \in Nat
  <2>1. disp[s].stage # "idle" /\ Goto(s, "cooled")
    BY DEF AcquireCooldown, At
  <2>2. k0 \in Pairs /\ disp[s].age \in 0 .. MaxDispatch
    BY <2>1, DispShape
  <2>3. "cooled" \in Gates
    BY DEF Gates
  <2>4. /\ disp'[s].stage = "cooled" /\ disp'[s].job = disp[s].job /\ disp'[s].age = disp[s].age
        /\ \A r \in Schedulers : r # s => disp'[r] = disp[r]
    BY <2>1, <2>3, GotoShape
  <2> QED BY <2>2, <2>4, Clocks
<1>2. /\ slot[k0] = 0 /\ slot'[k0] = Cooldown /\ since' = since
      /\ \A k \in Pairs : k # k0 => slot'[k] = slot[k]
  BY <1>1 DEF AcquireCooldown, TypeOK
<1>3. Pair(s)' = k0 /\ \A r \in Schedulers : Pair(r)' = Pair(r)
  BY <1>1 DEF Pair
<1>4. \A k \in Pairs : slot[k] \in Nat /\ since[k] \in Nat
  BY DEF TypeOK
<1>5. since[k0] + MaxDispatch >= Cooldown
  <2>1. since[k0] + slot[k0] + MaxDispatch >= Cooldown
    BY <1>1 DEF Cooled
  <2> QED BY <1>1, <1>2, <1>4, <2>1, Clocks
<1>6. ASSUME NEW r \in Schedulers, r # s, Past(r)'
      PROVE  /\ Past(r) /\ disp'[r] = disp[r] /\ Pair(r) \in Pairs
             /\ Pair(r) = k0 => MaxDispatch >= Cooldown
  <2>1. Past(r) /\ disp'[r] = disp[r] /\ Pair(r) \in Pairs /\ disp[r].age \in 0 .. MaxDispatch
    BY <1>1, <1>6, PastShape DEF Past
  <2>2. slot[Pair(r)] + disp[r].age >= Cooldown
    BY <2>1 DEF Cooled
  <2> QED BY <1>2, <2>1, <2>2, Clocks
<1>7. (\A k \in Pairs : since[k] + slot[k] + MaxDispatch >= Cooldown)'
  BY <1>2, <1>4, Clocks DEF Cooled
<1>8. (\A r \in Schedulers : Past(r) => slot[Pair(r)] + disp[r].age >= Cooldown)'
  <2>1. ASSUME NEW r \in Schedulers, Past(r)'
        PROVE  slot'[Pair(r)] + disp'[r].age >= Cooldown
    <3>1. CASE r = s
      BY <1>1, <1>2, <3>1, Clocks
    <3>2. CASE r # s
      <4>1. /\ slot[Pair(r)] + disp[r].age >= Cooldown /\ disp'[r].age = disp[r].age
            /\ Pair(r) \in Pairs /\ disp[r].age \in Nat
        BY <1>6, <2>1, <3>2, PastShape DEF Cooled
      <4>2. CASE Pair(r) = k0
        BY <1>2, <4>1, <4>2, Clocks
      <4>3. CASE Pair(r) # k0
        BY <1>2, <4>1, <4>3
      <4> QED BY <4>2, <4>3
    <3> QED BY <3>1, <3>2
  <2> QED BY <1>3, <2>1
<1>9. (\A r \in Schedulers : Past(r) => since[Pair(r)] + MaxDispatch >= Cooldown)'
  <2>1. ASSUME NEW r \in Schedulers, Past(r)'
        PROVE  since[Pair(r)] + MaxDispatch >= Cooldown
    BY <1>5, <1>6, <2>1 DEF Cooled
  <2> QED BY <1>2, <1>3, <2>1
<1>10. (\A q, r \in Schedulers :
          Past(q) /\ Past(r) /\ Pair(q) = Pair(r) => q = r \/ MaxDispatch >= Cooldown)'
  BY <1>3, <1>6 DEF Cooled
<1> QED BY <1>7, <1>8, <1>9, <1>10 DEF Cooled

\* Whoever publishes still holds a key that has aged with the dispatch, and
\* no other dispatch waits for the same spacing.
LEMMA Published ==
    ASSUME TypeOK, TypeOK', Cooled, NEW s \in Schedulers, Publish(s)
    PROVE  Cooled'
<1> DEFINE k0 == Pair(s)
<1>1. /\ Past(s) /\ ~Past(s)' /\ k0 \in Pairs /\ disp[s].age \in 0 .. MaxDispatch
      /\ \A r \in Schedulers : r # s => disp'[r] = disp[r]
  BY PastShape DEF Publish, At, Past, Idle, Gates, TypeOK
<1>2. /\ slot' = slot /\ since'[k0] = 0
      /\ \A k \in Pairs : k # k0 => since'[k] = since[k]
  BY <1>1 DEF Publish, TypeOK
<1>3. \A r \in Schedulers :
         Past(r)' => /\ r # s /\ Past(r) /\ disp'[r] = disp[r]
                     /\ Pair(r)' = Pair(r) /\ Pair(r) \in Pairs
  BY <1>1, PastShape DEF Past, Pair
<1>4. \A k \in Pairs : slot[k] \in Nat /\ since[k] \in Nat
  BY DEF TypeOK
<1>5. (\A k \in Pairs : since[k] + slot[k] + MaxDispatch >= Cooldown)'
  <2>1. slot[k0] + disp[s].age >= Cooldown
    BY <1>1 DEF Cooled
  <2>2. 0 + slot[k0] + MaxDispatch >= Cooldown
    BY <1>1, <1>4, <2>1, Clocks
  <2> QED BY <1>2, <2>2 DEF Cooled
<1>6. (\A r \in Schedulers : Past(r) => slot[Pair(r)] + disp[r].age >= Cooldown)'
  BY <1>2, <1>3 DEF Cooled
<1>7. (\A r \in Schedulers : Past(r) => since[Pair(r)] + MaxDispatch >= Cooldown)'
  <2>1. ASSUME NEW r \in Schedulers, Past(r)'
        PROVE  since'[Pair(r)] + MaxDispatch >= Cooldown
    <3>1. r # s /\ Past(r) /\ Pair(r) \in Pairs /\ since[Pair(r)] + MaxDispatch >= Cooldown
      BY <1>3, <2>1 DEF Cooled
    <3>2. CASE Pair(r) = k0
      <4>1. MaxDispatch >= Cooldown
        BY <1>1, <3>1, <3>2 DEF Cooled
      <4> QED BY <1>2, <3>2, <4>1, Clocks
    <3>3. CASE Pair(r) # k0
      BY <1>2, <3>1, <3>3
    <3> QED BY <3>2, <3>3
  <2> QED BY <1>3, <2>1
<1>8. (\A q, r \in Schedulers :
          Past(q) /\ Past(r) /\ Pair(q) = Pair(r) => q = r \/ MaxDispatch >= Cooldown)'
  BY <1>3 DEF Cooled
<1> QED BY <1>5, <1>6, <1>7, <1>8 DEF Cooled

\* Every step keeps the cooldown invariant.
LEMMA CooledStep ==
    ASSUME TypeOK, TypeOK', Cooled, [Next]_vars
    PROVE  Cooled'
<1> DEFINE Stay(r) ==
      Past(r)' => Past(r) /\ disp'[r].job = disp[r].job /\ disp'[r].age = disp[r].age
<1>1. CASE UNCHANGED vars
  BY <1>1 DEF vars, Cooled, Past, Pair
<1>2. ASSUME NEW j \in Jobs, Enqueue(j) PROVE Cooled'
  BY <1>2 DEF Enqueue, Cooled, Past, Pair
<1>3. ASSUME NEW s \in Schedulers, NEW j \in Jobs, Claim(s, j) PROVE Cooled'
  <2>1. \A r \in Schedulers : Stay(r)
    BY <1>3 DEF Claim, TypeOK, Past
  <2>2. \A k \in Pairs : slot'[k] >= slot[k]
    BY <1>3, Numbers DEF Claim
  <2> QED BY <1>3, <2>1, <2>2, CooledQuiet DEF Claim
<1>4. ASSUME NEW s \in Schedulers, Dispatch(s) \/ Fault(s) PROVE Cooled'
  <2>1. CASE AcquireCooldown(s)
    BY <2>1, Acquired
  <2>2. CASE Publish(s)
    BY <2>2, Published
  <2>3. CASE ~AcquireCooldown(s) /\ ~Publish(s)
    <3>1. since' = since /\ \A k \in Pairs : slot'[k] >= slot[k]
      BY <1>4, <2>3, OwnStep
    <3>2. ~Past(s)' \/ (Past(s) /\ disp'[s].job = disp[s].job /\ disp'[s].age = disp[s].age)
      BY <1>4, <2>3, OwnStep DEF Past, Idle, Gates
    <3>3. \A r \in Schedulers : Stay(r)
      BY <1>4, <3>2, OwnStep DEF Past
    <3> QED BY <3>1, <3>3, CooledQuiet
  <2> QED BY <2>1, <2>2, <2>3
<1>5. CASE Tick
  <2>1. ASSUME NEW k \in Pairs
        PROVE  since'[k] + slot'[k] + MaxDispatch >= Cooldown
    <3>1. since[k] + slot[k] + MaxDispatch >= Cooldown
      BY DEF Cooled
    <3>2. /\ slot'[k] >= slot[k] - 1 /\ slot'[k] >= 0 /\ since'[k] >= since[k]
          /\ (since'[k] >= since[k] + 1 \/ since'[k] >= LongAgo)
      BY <1>5, TickShape
    <3>3. slot[k] \in Nat /\ since[k] \in Nat /\ LongAgo \in Nat /\ LongAgo >= Cooldown
          /\ slot'[k] \in Nat /\ since'[k] \in Nat
      BY Numbers DEF TypeOK
    <3> QED BY <3>1, <3>2, <3>3, Clocks
  <2>2. ASSUME NEW r \in Schedulers, Past(r)'
        PROVE  /\ Past(r) /\ Pair(r)' = Pair(r)
               /\ slot'[Pair(r)] + disp'[r].age >= Cooldown
               /\ since'[Pair(r)] + MaxDispatch >= Cooldown
    <3>1. Past(r) /\ Pair(r) \in Pairs /\ disp[r].age \in Nat
      BY <1>5, <2>2, TickShape, PastShape DEF Past
    <3>2. Pair(r)' = Pair(r) /\ disp'[r].age = disp[r].age + 1
      BY <1>5, <3>1, TickShape DEF Pair
    <3>3. /\ slot[Pair(r)] + disp[r].age >= Cooldown
          /\ since[Pair(r)] + MaxDispatch >= Cooldown
      BY <3>1 DEF Cooled
    <3>4. /\ slot'[Pair(r)] >= slot[Pair(r)] - 1 /\ since'[Pair(r)] >= since[Pair(r)]
      BY <1>5, <3>1, TickShape
    <3>5. /\ slot[Pair(r)] \in Nat /\ since[Pair(r)] \in Nat
          /\ slot'[Pair(r)] \in Nat /\ since'[Pair(r)] \in Nat
      BY <3>1 DEF TypeOK
    <3> QED BY <3>1, <3>2, <3>3, <3>4, <3>5, Clocks
  <2> QED BY <2>1, <2>2 DEF Cooled
<1> QED BY <1>1, <1>2, <1>3, <1>4, <1>5 DEF Next

\* The same for the pacing key of an account.
LEMMA PaceAcquired ==
    ASSUME TypeOK, TypeOK', Paced, NEW s \in Schedulers, AcquirePace(s)
    PROVE  Paced'
<1> DEFINE a0 == Acct(s)
<1>1. /\ disp'[s].job = disp[s].job /\ disp'[s].age = disp[s].age
      /\ \A r \in Schedulers : r # s => disp'[r] = disp[r]
      /\ a0 \in Accounts /\ disp[s].age \in Nat
  <2>1. disp[s].stage # "idle" /\ Goto(s, "paced")
    BY DEF AcquirePace, At
  <2>2. a0 \in Accounts /\ disp[s].age \in 0 .. MaxDispatch
    BY <2>1, DispShape
  <2>3. "paced" \in Gates
    BY DEF Gates
  <2>4. /\ disp'[s].job = disp[s].job /\ disp'[s].age = disp[s].age
        /\ \A r \in Schedulers : r # s => disp'[r] = disp[r]
    BY <2>1, <2>3, GotoShape
  <2> QED BY <2>2, <2>4, Clocks
<1>2. /\ pace[a0] = 0 /\ pace'[a0] = AccountPace /\ since' = since
      /\ \A a \in Accounts : a # a0 => pace'[a] = pace[a]
  BY <1>1 DEF AcquirePace, TypeOK
<1>3. Acct(s)' = a0 /\ \A r \in Schedulers : Acct(r)' = Acct(r)
  BY <1>1 DEF Acct
<1>4. /\ \A a \in Accounts : pace[a] \in Nat
      /\ \A a \in Accounts, t \in Targets : since[<<a, t>>] \in Nat
  BY DEF TypeOK, Pairs
<1>5. \A t \in Targets : since[<<a0, t>>] + MaxDispatch >= AccountPace
  <2>1. ASSUME NEW t \in Targets PROVE since[<<a0, t>>] + MaxDispatch >= AccountPace
    <3>1. since[<<a0, t>>] + pace[a0] + MaxDispatch >= AccountPace
      BY <1>1 DEF Paced
    <3>2. since[<<a0, t>>] \in Nat
      BY <1>1, <1>4
    <3> QED BY <1>2, <3>1, <3>2, Clocks
  <2> QED BY <2>1
<1>6. ASSUME NEW r \in Schedulers, r # s, At(r, "paced")'
      PROVE  /\ At(r, "paced") /\ disp'[r] = disp[r] /\ Acct(r) \in Accounts
             /\ Acct(r) = a0 => MaxDispatch >= AccountPace
  <2>1. /\ At(r, "paced") /\ disp'[r] = disp[r] /\ Acct(r) \in Accounts
        /\ disp[r].age \in 0 .. MaxDispatch
    BY <1>1, <1>6, PastShape DEF At
  <2>2. pace[Acct(r)] + disp[r].age >= AccountPace
    BY <2>1 DEF Paced
  <2> QED BY <1>2, <2>1, <2>2, Clocks
<1>7. (\A a \in Accounts, t \in Targets :
          since[<<a, t>>] + pace[a] + MaxDispatch >= AccountPace)'
  <2>1. ASSUME NEW a \in Accounts, NEW t \in Targets
        PROVE  since'[<<a, t>>] + pace'[a] + MaxDispatch >= AccountPace
    <3>1. since[<<a, t>>] + pace[a] + MaxDispatch >= AccountPace
      BY DEF Paced
    <3>2. since[<<a, t>>] \in Nat /\ since'[<<a, t>>] = since[<<a, t>>]
      BY <1>2, <1>4
    <3>3. pace'[a] = AccountPace \/ pace'[a] = pace[a]
      BY <1>2
    <3> QED BY <3>1, <3>2, <3>3, Clocks
  <2> QED BY <2>1
<1>8. (\A r \in Schedulers : At(r, "paced") => pace[Acct(r)] + disp[r].age >= AccountPace)'
  <2>1. ASSUME NEW r \in Schedulers, At(r, "paced")'
        PROVE  pace'[Acct(r)] + disp'[r].age >= AccountPace
    <3>1. CASE r = s
      BY <1>1, <1>2, <3>1, Clocks
    <3>2. CASE r # s
      <4>1. /\ pace[Acct(r)] + disp[r].age >= AccountPace /\ disp'[r].age = disp[r].age
            /\ Acct(r) \in Accounts /\ disp[r].age \in Nat
        BY <1>6, <2>1, <3>2, PastShape DEF Paced
      <4>2. CASE Acct(r) = a0
        BY <1>2, <4>1, <4>2, Clocks
      <4>3. CASE Acct(r) # a0
        BY <1>2, <4>1, <4>3
      <4> QED BY <4>2, <4>3
    <3> QED BY <3>1, <3>2
  <2> QED BY <1>3, <2>1
<1>9. (\A r \in Schedulers, t \in Targets :
          At(r, "paced") => since[<<Acct(r), t>>] + MaxDispatch >= AccountPace)'
  <2>1. ASSUME NEW r \in Schedulers, NEW t \in Targets, At(r, "paced")'
        PROVE  since[<<Acct(r), t>>] + MaxDispatch >= AccountPace
    BY <1>5, <1>6, <2>1 DEF Paced
  <2> QED BY <1>2, <1>3, <2>1
<1>10. (\A q, r \in Schedulers :
          At(q, "paced") /\ At(r, "paced") /\ Acct(q) = Acct(r)
             => q = r \/ MaxDispatch >= AccountPace)'
  BY <1>3, <1>6 DEF Paced
<1> QED BY <1>7, <1>8, <1>9, <1>10 DEF Paced

\* A publish for one target of the account resets no spacing another dispatch
\* of the account relies on.
LEMMA PacePublished ==
    ASSUME TypeOK, TypeOK', Paced, NEW s \in Schedulers, Publish(s)
    PROVE  Paced'
<1> DEFINE a0 == Acct(s)
<1>1. /\ At(s, "paced") /\ ~At(s, "paced")' /\ a0 \in Accounts
      /\ disp[s].age \in 0 .. MaxDispatch /\ Pair(s) \in Pairs
      /\ \A r \in Schedulers : r # s => disp'[r] = disp[r]
  BY PastShape DEF Publish, At, Idle, TypeOK
<1>2. /\ pace' = pace
      /\ \A k \in Pairs : since'[k] = 0 \/ since'[k] = since[k]
      /\ \A k \in Pairs : since'[k] # since[k] => k = Pair(s)
  BY <1>1 DEF Publish, TypeOK
<1>3. \A r \in Schedulers :
         At(r, "paced")' => /\ r # s /\ At(r, "paced") /\ disp'[r] = disp[r]
                            /\ Acct(r)' = Acct(r) /\ Acct(r) \in Accounts
  BY <1>1, PastShape DEF At, Acct
<1>4. /\ \A a \in Accounts : pace[a] \in Nat
      /\ \A a \in Accounts, t \in Targets :
            /\ <<a, t>> \in Pairs /\ since[<<a, t>>] \in Nat
            /\ since'[<<a, t>>] # since[<<a, t>>] => a = a0
  <2>1. Pair(s) = <<a0, TargetOf[disp[s].job]>>
    BY DEF Pair, PairOf, Acct
  <2> QED BY <1>2, <2>1 DEF TypeOK, Pairs
<1>5. (\A a \in Accounts, t \in Targets :
          since[<<a, t>>] + pace[a] + MaxDispatch >= AccountPace)'
  <2>1. ASSUME NEW a \in Accounts, NEW t \in Targets
        PROVE  since'[<<a, t>>] + pace[a] + MaxDispatch >= AccountPace
    <3>1. CASE since'[<<a, t>>] = since[<<a, t>>]
      BY <3>1 DEF Paced
    <3>2. CASE since'[<<a, t>>] # since[<<a, t>>]
      <4>1. since'[<<a, t>>] = 0 /\ a = a0
        BY <1>2, <1>4, <3>2
      <4>2. pace[a0] + disp[s].age >= AccountPace
        BY <1>1 DEF Paced
      <4> QED BY <1>1, <1>4, <4>1, <4>2, Clocks
    <3> QED BY <3>1, <3>2
  <2> QED BY <1>2, <2>1
<1>6. (\A r \in Schedulers : At(r, "paced") => pace[Acct(r)] + disp[r].age >= AccountPace)'
  BY <1>2, <1>3 DEF Paced
<1>7. (\A r \in Schedulers, t \in Targets :
          At(r, "paced") => since[<<Acct(r), t>>] + MaxDispatch >= AccountPace)'
  <2>1. ASSUME NEW r \in Schedulers, NEW t \in Targets, At(r, "paced")'
        PROVE  since'[<<Acct(r), t>>] + MaxDispatch >= AccountPace
    <3>1. /\ r # s /\ At(r, "paced") /\ Acct(r) \in Accounts
          /\ since[<<Acct(r), t>>] + MaxDispatch >= AccountPace
      BY <1>3, <2>1 DEF Paced
    <3>2. CASE Acct(r) = a0
      <4>1. MaxDispatch >= AccountPace
        BY <1>1, <3>1, <3>2 DEF Paced
      <4>2. since'[<<Acct(r), t>>] \in Nat
        BY <1>2, <1>4, <3>1
      <4> QED BY <4>1, <4>2, Clocks
    <3>3. CASE Acct(r) # a0
      BY <1>4, <3>1, <3>3
    <3> QED BY <3>2, <3>3
  <2> QED BY <1>3, <2>1
<1>8. (\A q, r \in Schedulers :
          At(q, "paced") /\ At(r, "paced") /\ Acct(q) = Acct(r)
             => q = r \/ MaxDispatch >= AccountPace)'
  BY <1>3 DEF Paced
<1> QED BY <1>5, <1>6, <1>7, <1>8 DEF Paced

\* Every step keeps the pacing invariant.
LEMMA PacedStep ==
    ASSUME TypeOK, TypeOK', Paced, [Next]_vars
    PROVE  Paced'
<1> DEFINE Stay(r) == At(r, "paced")' =>
      At(r, "paced") /\ disp'[r].job = disp[r].job /\ disp'[r].age = disp[r].age
<1>1. CASE UNCHANGED vars
  BY <1>1 DEF vars, Paced, At, Acct
<1>2. ASSUME NEW j \in Jobs, Enqueue(j) PROVE Paced'
  BY <1>2 DEF Enqueue, Paced, At, Acct
<1>3. ASSUME NEW s \in Schedulers, NEW j \in Jobs, Claim(s, j) PROVE Paced'
  <2>1. \A r \in Schedulers : Stay(r)
    BY <1>3 DEF Claim, TypeOK, At
  <2>2. \A a \in Accounts : pace'[a] >= pace[a]
    BY <1>3, Numbers DEF Claim
  <2> QED BY <1>3, <2>1, <2>2, PacedQuiet DEF Claim
<1>4. ASSUME NEW s \in Schedulers, Dispatch(s) \/ Fault(s) PROVE Paced'
  <2>1. CASE AcquirePace(s)
    BY <2>1, PaceAcquired
  <2>2. CASE Publish(s)
    BY <2>2, PacePublished
  <2>3. CASE ~AcquirePace(s) /\ ~Publish(s)
    <3>1. since' = since /\ \A a \in Accounts : pace'[a] >= pace[a]
      BY <1>4, <2>3, OwnStep
    <3>2. ~At(s, "paced")'
      BY <1>4, <2>3, OwnStep DEF At, Idle
    <3>3. \A r \in Schedulers : Stay(r)
      BY <1>4, <3>2, OwnStep DEF At
    <3> QED BY <3>1, <3>3, PacedQuiet
  <2> QED BY <2>1, <2>2, <2>3
<1>5. CASE Tick
  <2>1. ASSUME NEW a \in Accounts, NEW t \in Targets
        PROVE  since'[<<a, t>>] + pace'[a] + MaxDispatch >= AccountPace
    <3>1. since[<<a, t>>] + pace[a] + MaxDispatch >= AccountPace /\ <<a, t>> \in Pairs
      BY Numbers DEF Paced
    <3>2. /\ since'[<<a, t>>] >= since[<<a, t>>]
          /\ (since'[<<a, t>>] >= since[<<a, t>>] + 1 \/ since'[<<a, t>>] >= LongAgo)
          /\ pace'[a] >= pace[a] - 1 /\ pace'[a] >= 0
      BY <1>5, <3>1, TickShape
    <3>3. /\ pace[a] \in Nat /\ since[<<a, t>>] \in Nat
          /\ pace'[a] \in Nat /\ since'[<<a, t>>] \in Nat
      BY <3>1 DEF TypeOK
    <3>4. LongAgo \in Nat /\ LongAgo >= AccountPace
      BY Numbers
    <3> QED BY <3>1, <3>2, <3>3, <3>4, Clocks
  <2>2. ASSUME NEW r \in Schedulers, At(r, "paced")'
        PROVE  /\ At(r, "paced") /\ Acct(r)' = Acct(r)
               /\ pace'[Acct(r)] + disp'[r].age >= AccountPace
               /\ \A t \in Targets : since'[<<Acct(r), t>>] + MaxDispatch >= AccountPace
    <3>1. At(r, "paced") /\ Past(r) /\ Acct(r) \in Accounts /\ disp[r].age \in Nat
      BY <1>5, <2>2, TickShape, PastShape DEF At
    <3>2. Acct(r)' = Acct(r) /\ disp'[r].age = disp[r].age + 1
      BY <1>5, <3>1, TickShape DEF Acct
    <3>3. pace'[Acct(r)] + disp'[r].age >= AccountPace
      <4>1. pace[Acct(r)] + disp[r].age >= AccountPace
        BY <3>1 DEF Paced
      <4>2. pace'[Acct(r)] >= pace[Acct(r)] - 1
        BY <1>5, <3>1, TickShape
      <4>3. pace[Acct(r)] \in Nat /\ pace'[Acct(r)] \in Nat
        BY <3>1 DEF TypeOK
      <4> QED BY <3>1, <3>2, <4>1, <4>2, <4>3, Clocks
    <3>4. ASSUME NEW t \in Targets
          PROVE  since'[<<Acct(r), t>>] + MaxDispatch >= AccountPace
      <4>1. since[<<Acct(r), t>>] + MaxDispatch >= AccountPace /\ <<Acct(r), t>> \in Pairs
        BY <3>1, Numbers DEF Paced
      <4>2. since'[<<Acct(r), t>>] >= since[<<Acct(r), t>>]
        BY <1>5, <4>1, TickShape
      <4>3. since[<<Acct(r), t>>] \in Nat /\ since'[<<Acct(r), t>>] \in Nat
        BY <4>1 DEF TypeOK
      <4> QED BY <4>1, <4>2, <4>3, Clocks
    <3> QED BY <3>1, <3>2, <3>3, <3>4
  <2> QED BY <2>1, <2>2 DEF Paced
<1> QED BY <1>1, <1>2, <1>3, <1>4, <1>5 DEF Next

\* Whatever the number of schedulers, whoever crashes and whichever command
\* is lost or repeated: the publishes for a pair are a cooldown apart and
\* those of an account a pace apart, up to MaxDispatch (AcquireCooldown,
\* AcquirePace, Publish, Tick).
THEOREM PublishesAreSpaced == Spec => []SpacedOut
<1>1. Init => Cooled /\ Paced
  <2> SUFFICES ASSUME Init PROVE Cooled /\ Paced
    OBVIOUS
  <2>1. TypeOK
    BY InitTypeOK
  <2>2. \A k \in Pairs : since[k] = LongAgo /\ slot[k] = 0
    BY DEF Init
  <2>3. \A a \in Accounts : pace[a] = 0
    BY DEF Init
  <2>4. \A s \in Schedulers : ~Past(s) /\ ~At(s, "paced")
    BY DEF Init, Past, At, Idle, Gates
  <2>5. Cooled
    BY <2>1, <2>2, <2>4, Numbers, Clocks DEF Cooled
  <2>6. Paced
    BY <2>1, <2>2, <2>3, <2>4, Numbers, Clocks DEF Paced
  <2> QED BY <2>5, <2>6
<1>2. TypeOK /\ TypeOK' /\ Cooled /\ Paced /\ [Next]_vars => (Cooled /\ Paced)'
  BY CooledStep, PacedStep
<1>3. TypeOK /\ Cooled /\ Paced => SpacedOut
  BY PastShape DEF Cooled, Paced, SpacedOut
<1> QED BY <1>1, <1>2, <1>3, TypeCorrect, PTL DEF Spec

-----------------------------------------------------------------------------
(***************************************************************************)
(* Pacing slots.  A dispatch that has taken one publishes, unless its push *)
(* fails, its SETNX is sent twice or its replica stops.                    *)
(***************************************************************************)
PushesReach == Faults \cap {"redis_error", "reply_lost", "api_crash"} = {}

\* The slot of account a is used: an action has been published in its life,
\* or is about to be.
UsedSlot(a) ==
    pace[a] > 0 =>
        \/ \E t \in Targets : since[<<a, t>>] <= AccountPace - pace[a]
        \/ \E s \in Schedulers : At(s, "paced") /\ Acct(s) = a

\* What the steps of a dispatch do to the slots and to who holds one.
LEMMA SlotSteps ==
    ASSUME PushesReach, TypeOK, NEW s \in Schedulers, Dispatch(s) \/ Fault(s),
           ~AcquirePace(s), ~Publish(s)
    PROVE  UNCHANGED <<pace, since>> /\ ~At(s, "paced")
<1>1. ~OwnKey(s) /\ ~CountedTwice(s) /\ ~ApiCrash(s)
  BY DEF PushesReach, OwnKey, CountedTwice, ApiCrash
<1>2. CASE Dispatch(s)
  BY <1>2 DEF Dispatch, AcquireCooldown, CoolingDown, PlatformOff, TakeUnit, Anchor,
              BudgetSpent, Pacing, At
<1>3. CASE GateError(s)
  BY <1>3 DEF GateError, PushesReach, At
<1> QED BY <1>1, <1>2, <1>3 DEF Fault

\* Every step keeps the slots used.
LEMMA SlotStep ==
    ASSUME PushesReach, TypeOK, TypeOK', PaceSlotIsUsed, [Next]_vars
    PROVE  PaceSlotIsUsed'
<1> SUFFICES ASSUME NEW a \in Accounts PROVE UsedSlot(a)'
  BY DEF PaceSlotIsUsed, UsedSlot
<1>0. UsedSlot(a) /\ pace[a] \in Nat /\ pace'[a] \in 0 .. AccountPace
      /\ AccountPace \in Nat
      /\ \A t \in Targets : since[<<a, t>>] \in 0 .. LongAgo /\ <<a, t>> \in Pairs
  <2>1. UsedSlot(a)
    BY DEF PaceSlotIsUsed, UsedSlot
  <2>2. pace[a] \in Nat
    BY Numbers
  <2>3. pace'[a] \in 0 .. AccountPace
    BY DEF TypeOK
  <2> QED BY <2>1, <2>2, <2>3, Numbers, Clocks
<1>1. ASSUME UNCHANGED <<pace, since>>,
             \A r \in Schedulers : At(r, "paced") => disp'[r] = disp[r]
      PROVE  UsedSlot(a)'
  BY <1>0, <1>1 DEF UsedSlot, At, Acct
<1>2. CASE UNCHANGED vars
  BY <1>1, <1>2 DEF vars
<1>3. ASSUME NEW j \in Jobs, Enqueue(j) PROVE UsedSlot(a)'
  BY <1>1, <1>3 DEF Enqueue
<1>4. ASSUME NEW s \in Schedulers, NEW j \in Jobs, Claim(s, j) PROVE UsedSlot(a)'
  BY <1>1, <1>4 DEF Claim, At, TypeOK
<1>5. ASSUME NEW s \in Schedulers, Dispatch(s) \/ Fault(s) PROVE UsedSlot(a)'
  <2>1. \A r \in Schedulers : r # s => disp'[r] = disp[r]
    BY <1>5, OwnStep
  <2>2. CASE ~AcquirePace(s) /\ ~Publish(s)
    BY <1>1, <1>5, <2>1, <2>2, SlotSteps
  <2>3. CASE AcquirePace(s)
    <3>1. At(s, "paced")' /\ disp'[s].job = disp[s].job
      <4>1. disp[s].stage # "idle" /\ Goto(s, "paced") /\ "paced" \in Gates
        BY <2>3 DEF AcquirePace, At, Gates
      <4> QED BY <4>1, GotoShape DEF At
    <3>2. CASE Acct(s) = a
      BY <3>1, <3>2 DEF UsedSlot, At, Acct
    <3>3. CASE Acct(s) # a
      <4>1. pace'[a] = pace[a] /\ UNCHANGED since
        BY <2>3, <3>3 DEF AcquirePace, TypeOK
      <4>2. ~At(s, "paced")
        BY <2>3 DEF AcquirePace, At
      <4> QED BY <1>0, <2>1, <4>1, <4>2 DEF UsedSlot, At, Acct
    <3> QED BY <3>2, <3>3
  <2>4. CASE Publish(s)
    <3>1. Pair(s) \in Pairs /\ Acct(s) \in Accounts /\ Pair(s) = <<Acct(s), TargetOf[disp[s].job]>>
      BY <2>4, PastShape DEF Publish, Pair, PairOf, Acct
    <3>2. UNCHANGED pace /\ since' = [since EXCEPT ![Pair(s)] = 0]
      BY <2>4 DEF Publish
    <3>3. CASE Acct(s) = a
      <4>1. TargetOf[disp[s].job] \in Targets
        BY <3>1 DEF Pairs
      <4>2. since'[<<a, TargetOf[disp[s].job]>>] = 0
        BY <3>1, <3>2, <3>3 DEF TypeOK
      <4> QED BY <1>0, <4>1, <4>2 DEF UsedSlot
    <3>4. CASE Acct(s) # a
      <4>1. \A t \in Targets : since'[<<a, t>>] = since[<<a, t>>]
        BY <1>0, <3>1, <3>2, <3>4 DEF TypeOK
      <4> QED BY <1>0, <2>1, <3>2, <3>4, <4>1 DEF UsedSlot, At, Acct
    <3> QED BY <3>3, <3>4
  <2> QED BY <2>2, <2>3, <2>4
<1>6. CASE Tick
  <2> SUFFICES ASSUME pace'[a] > 0
               PROVE  \/ \E t \in Targets : since'[<<a, t>>] <= AccountPace - pace'[a]
                      \/ \E s \in Schedulers : At(s, "paced")' /\ Acct(s)' = a
    BY DEF UsedSlot
  <2>1. pace[a] > 0 /\ pace'[a] = pace[a] - 1
    BY <1>0, <1>6 DEF Tick, Down
  <2>2. CASE \E s \in Schedulers : At(s, "paced") /\ Acct(s) = a
    BY <1>6, <2>2, TickShape, PastShape DEF At, Acct
  <2>3. ASSUME NEW t \in Targets, since[<<a, t>>] <= AccountPace - pace[a]
        PROVE  since'[<<a, t>>] <= AccountPace - pace'[a]
    <3>1. since'[<<a, t>>] = Min({since[<<a, t>>] + 1, LongAgo})
      BY <1>0, <1>6 DEF Tick
    <3>2. since'[<<a, t>>] <= since[<<a, t>>] + 1
      <4>1. since[<<a, t>>] + 1 \in Int /\ LongAgo \in Int
        BY <1>0, Numbers
      <4>2. Min({since[<<a, t>>] + 1, LongAgo}) =
              IF since[<<a, t>>] + 1 <= LongAgo THEN since[<<a, t>>] + 1 ELSE LongAgo
        BY <4>1, MinOfTwo
      <4> QED BY <1>0, <3>1, <4>1, <4>2
    <3>3. since'[<<a, t>>] \in Nat
      BY <1>0 DEF TypeOK
    <3> QED BY <1>0, <2>1, <2>3, <3>2, <3>3
  <2> QED BY <1>0, <2>1, <2>2, <2>3 DEF UsedSlot
<1> QED BY <1>2, <1>3, <1>4, <1>5, <1>6 DEF Next

\* "A job that fails an earlier gate never burns this account's pacing slot":
\* for any number of dispatches that interleave and any clocks, a live pace
\* key has its publish, as long as pushes reach the list (AcquirePace,
\* Publish, Tick).
THEOREM SlotsAreUsed ==
    ASSUME PushesReach
    PROVE  Spec => []PaceSlotIsUsed
<1>1. Init => PaceSlotIsUsed
  BY DEF Init, PaceSlotIsUsed
<1>2. TypeOK /\ TypeOK' /\ PaceSlotIsUsed /\ [Next]_vars => PaceSlotIsUsed'
  BY SlotStep
<1> QED BY <1>1, <1>2, TypeCorrect, PTL DEF Spec

-----------------------------------------------------------------------------
(***************************************************************************)
(* Budgets, for a tick no shorter than a dispatch may take: with a finer   *)
(* clock the units of two windows can still be held when a third begins.   *)
(***************************************************************************)
\* The dispatches that hold a unit of p's budget, and those of them that took
\* it in this tick.
Units(p) ==
    {s \in Schedulers : disp[s].stage \in {"anchor", "budgeted", "paced"} /\ Plat(s) = p}
Young(p) == {s \in Units(p) : disp[s].age = 0}

\* The units the counter has granted since it was created.
Granted(p) == IF rate[p].n <= Limits[p] THEN rate[p].n ELSE Limits[p]

\* The books of one platform with limit L and window W: a are the ages of its
\* last publishes, g the units granted, h those still held, y of them taken in
\* this tick, and t the life of the counter.  Every publish of this window
\* used up a unit of it, so with the limit the window before may have used and
\* g of this one, less the h not yet published, one counts back to a publish
\* that lies a window back; and once the window is a tick old, the publishes
\* that are older than it begin after g - h.
Books(L, W, a, g, h, y, t) ==
    /\ a \in [1 .. 2 * L + 1 -> 0 .. W]
    /\ g \in 0 .. L /\ h \in Nat /\ y \in Nat
    /\ \A i, j \in 1 .. 2 * L + 1 : i <= j => a[i] <= a[j]
    /\ y <= g
    /\ h <= L + g /\ a[L + g - h + 1] >= W
    /\ t \in 1 .. W - 1 => h <= g /\ a[g - h + 1] >= W - t

Window(p) ==
    /\ IsFiniteSet(Units(p))
    /\ Books(Limits[p], RateWindow, sent[p], Granted(p),
             Cardinality(Units(p)), Cardinality(Young(p)), rate[p].ttl)

WindowInv == \A p \in Platforms : Window(p)

\* Granting at least as many units as become held keeps the books, and so does
\* giving held ones up.
LEMMA BooksGrant ==
    ASSUME NEW L \in Nat, NEW W \in Nat, NEW a, NEW g, NEW h, NEW y, NEW t \in Int,
           Books(L, W, a, g, h, y, t),
           NEW g2 \in 0 .. L, NEW h2 \in Nat, NEW y2 \in Nat, NEW t2 \in Int,
           g <= g2, h2 - h <= g2 - g, y2 - y <= g2 - g,
           t2 = t \/ t2 \notin 1 .. W - 1
    PROVE  Books(L, W, a, g2, h2, y2, t2)
<1>1. /\ a \in [1 .. 2 * L + 1 -> 0 .. W]
      /\ g \in 0 .. L /\ h \in Nat /\ y \in Nat /\ y <= g
      /\ \A i, j \in 1 .. 2 * L + 1 : i <= j => a[i] <= a[j]
      /\ h <= L + g /\ a[L + g - h + 1] >= W
      /\ t \in 1 .. W - 1 => h <= g /\ a[g - h + 1] >= W - t
  BY DEF Books
<1>2. \A i \in 1 .. 2 * L + 1 : a[i] \in 0 .. W
  BY <1>1
<1>3. y2 <= g2 /\ h2 <= L + g2
  BY <1>1
<1>4. a[L + g2 - h2 + 1] >= W
  <2> DEFINE i == L + g - h + 1
             j == L + g2 - h2 + 1
  <2>1. i \in 1 .. 2 * L + 1 /\ j \in 1 .. 2 * L + 1 /\ i <= j
    BY <1>1, <1>3
  <2>2. a[i] <= a[j] /\ a[i] >= W
    BY <1>1, <2>1
  <2> QED BY <1>2, <2>1, <2>2
<1>5. ASSUME t2 \in 1 .. W - 1 PROVE h2 <= g2 /\ a[g2 - h2 + 1] >= W - t2
  <2> DEFINE i == g - h + 1
             j == g2 - h2 + 1
  <2>1. t2 = t /\ h <= g /\ a[i] >= W - t
    BY <1>1, <1>5
  <2>2. i \in 1 .. 2 * L + 1 /\ j \in 1 .. 2 * L + 1 /\ i <= j /\ h2 <= g2
    BY <1>1, <2>1
  <2>3. a[i] <= a[j]
    BY <1>1, <2>2
  <2> QED BY <1>2, <2>1, <2>2, <2>3
<1> QED BY <1>1, <1>3, <1>4, <1>5 DEF Books

\* A publish moves a unit from those held to the last publishes.
LEMMA BooksPublish ==
    ASSUME NEW L \in Nat, NEW W \in Nat, NEW a, NEW g, NEW h, NEW y, NEW t \in Int,
           Books(L, W, a, g, h, y, t), h > 0,
           NEW y2 \in Nat, y2 <= y,
           NEW b, b = [i \in DOMAIN a |-> IF i = 1 THEN 0 ELSE a[i - 1]]
    PROVE  Books(L, W, b, g, h - 1, y2, t)
<1>1. /\ a \in [1 .. 2 * L + 1 -> 0 .. W]
      /\ g \in 0 .. L /\ h \in Nat /\ y \in Nat /\ y <= g
      /\ \A i, j \in 1 .. 2 * L + 1 : i <= j => a[i] <= a[j]
      /\ h <= L + g /\ a[L + g - h + 1] >= W
      /\ t \in 1 .. W - 1 => h <= g /\ a[g - h + 1] >= W - t
  BY DEF Books
<1>2. \A i \in 1 .. 2 * L + 1 : b[i] = IF i = 1 THEN 0 ELSE a[i - 1]
  BY <1>1
<1>3. b \in [1 .. 2 * L + 1 -> 0 .. W]
  <2>1. \A i \in 1 .. 2 * L + 1 : (IF i = 1 THEN 0 ELSE a[i - 1]) \in 0 .. W
    BY <1>1
  <2>2. DOMAIN a = 1 .. 2 * L + 1
    BY <1>1
  <2> QED BY <2>1, <2>2
<1>4. ASSUME NEW i \in 1 .. 2 * L + 1, NEW j \in 1 .. 2 * L + 1, i <= j PROVE b[i] <= b[j]
  <2>1. CASE i = 1
    <3>1. b[i] = 0 /\ b[j] \in 0 .. W
      BY <1>2, <1>3, <2>1
    <3> QED BY <3>1
  <2>2. CASE i # 1
    <3>1. /\ i - 1 \in 1 .. 2 * L + 1 /\ j - 1 \in 1 .. 2 * L + 1
          /\ i - 1 <= j - 1 /\ j # 1
      BY <1>4, <2>2
    <3>2. a[i - 1] <= a[j - 1]
      BY <1>1, <3>1
    <3> QED BY <1>2, <2>2, <3>1, <3>2
  <2> QED BY <2>1, <2>2
<1>5. b[L + g - (h - 1) + 1] >= W
  <2> DEFINE j == L + g - (h - 1) + 1
  <2>1. j \in 1 .. 2 * L + 1 /\ j # 1 /\ j - 1 = L + g - h + 1
    BY <1>1
  <2>2. b[j] = a[L + g - h + 1]
    BY <1>2, <2>1
  <2> QED BY <1>1, <2>2
<1>6. ASSUME t \in 1 .. W - 1 PROVE h - 1 <= g /\ b[g - (h - 1) + 1] >= W - t
  <2> DEFINE j == g - (h - 1) + 1
  <2>1. h <= g /\ a[g - h + 1] >= W - t
    BY <1>1, <1>6
  <2>2. j \in 1 .. 2 * L + 1 /\ j # 1 /\ j - 1 = g - h + 1
    BY <1>1, <2>1
  <2>3. b[j] = a[g - h + 1]
    BY <1>2, <2>2
  <2> QED BY <1>1, <2>1, <2>3
<1>7. y2 <= g /\ h - 1 \in Nat /\ h - 1 <= L + g
  BY <1>1
<1> QED BY <1>1, <1>3, <1>4, <1>5, <1>6, <1>7 DEF Books

\* A tick ages everything; the counter that runs out takes its grants along.
LEMMA BooksTick ==
    ASSUME NEW L \in Nat, NEW W \in Nat \ {0}, NEW a, NEW g, NEW h, NEW t \in Int,
           Books(L, W, a, g, h, h, t), t <= W,
           NEW b \in [1 .. 2 * L + 1 -> 0 .. W],
           \A i \in 1 .. 2 * L + 1 : b[i] = IF a[i] + 1 <= W THEN a[i] + 1 ELSE W,
           NEW g2, NEW t2,
           \/ t = 1 /\ g2 = 0 /\ t2 = 0
           \/ t > 1 /\ g2 = g /\ t2 = t - 1
           \/ t <= 0 /\ g2 = g /\ t2 = t
    PROVE  Books(L, W, b, g2, h, 0, t2)
<1>1. /\ a \in [1 .. 2 * L + 1 -> 0 .. W]
      /\ g \in 0 .. L /\ h \in Nat /\ h <= g
      /\ \A i, j \in 1 .. 2 * L + 1 : i <= j => a[i] <= a[j]
      /\ h <= L + g /\ a[L + g - h + 1] >= W
      /\ t \in 1 .. W - 1 => h <= g /\ a[g - h + 1] >= W - t
  BY DEF Books
<1>2. \A i \in 1 .. 2 * L + 1 : a[i] \in 0 .. W /\ b[i] \in 0 .. W
  BY <1>1
<1>3. ASSUME NEW i \in 1 .. 2 * L + 1, NEW j \in 1 .. 2 * L + 1, i <= j PROVE b[i] <= b[j]
  <2>1. a[i] <= a[j]
    BY <1>1, <1>3
  <2>2. /\ b[i] = IF a[i] + 1 <= W THEN a[i] + 1 ELSE W
        /\ b[j] = IF a[j] + 1 <= W THEN a[j] + 1 ELSE W
        /\ a[i] \in Int /\ a[j] \in Int
    BY <1>2
  <2> QED BY <2>1, <2>2
<1>4. /\ L + g - h + 1 \in 1 .. 2 * L + 1
      /\ L - h + 1 \in 1 .. 2 * L + 1
      /\ g - h + 1 \in 1 .. 2 * L + 1
      /\ g - h + 1 <= L - h + 1
  BY <1>1
<1>5. CASE t = 1
  <2>1. g2 = 0 /\ t2 = 0 /\ h <= L
    BY <1>1, <1>5
  <2>2. a[g - h + 1] >= W - 1
    <3>1. CASE W = 1
      BY <1>2, <1>4, <3>1
    <3>2. CASE W # 1
      <4>1. t \in 1 .. W - 1
        BY <1>5, <3>2
      <4> QED BY <1>1, <1>5, <4>1
    <3> QED BY <3>1, <3>2
  <2>3. b[L - h + 1] >= W
    <3>1. a[g - h + 1] <= a[L - h + 1]
      BY <1>1, <1>4
    <3>2. b[L - h + 1] = IF a[L - h + 1] + 1 <= W THEN a[L - h + 1] + 1 ELSE W
      BY <1>4
    <3> QED BY SMTT(30), <1>2, <1>4, <2>2, <3>1, <3>2
  <2>4. L + 0 - h + 1 = L - h + 1
    BY <1>1
  <2> QED BY SMTT(30), <1>1, <1>3, <2>1, <2>3, <2>4 DEF Books
<1>6. CASE t # 1
  <2>1. g2 = g /\ ((t > 1 /\ t2 = t - 1) \/ (t <= 0 /\ t2 = t))
    BY <1>6
  <2>2. b[L + g - h + 1] >= W
    <3>1. b[L + g - h + 1] = IF a[L + g - h + 1] + 1 <= W THEN a[L + g - h + 1] + 1 ELSE W
      BY <1>4
    <3> QED BY <1>1, <1>2, <1>4, <3>1
  <2>3. ASSUME t2 \in 1 .. W - 1 PROVE b[g - h + 1] >= W - t2
    <3>1. t = t2 + 1
      BY <2>1, <2>3
    <3>2. b[g - h + 1] = IF a[g - h + 1] + 1 <= W THEN a[g - h + 1] + 1 ELSE W
      BY <1>4
    <3>3. a[g - h + 1] >= W - t
      <4>1. CASE t = W
        BY <1>2, <1>4, <4>1
      <4>2. CASE t # W
        <5>1. t \in 1 .. W - 1
          BY <2>3, <3>1, <4>2
        <5> QED BY <1>1, <5>1
      <4> QED BY <4>1, <4>2
    <3> QED BY SMTT(30), <1>2, <1>4, <2>3, <3>1, <3>2, <3>3
  <2> QED BY SMTT(30), <1>1, <1>3, <2>1, <2>2, <2>3 DEF Books
<1> QED BY <1>5, <1>6

\* A set that gains at most one element.
LEMMA OneMore ==
    ASSUME NEW S, NEW T, NEW x, IsFiniteSet(S), T \subseteq S \cup {x}
    PROVE  /\ IsFiniteSet(T) /\ Cardinality(S) \in Nat /\ Cardinality(T) \in Nat
           /\ Cardinality(T) <= Cardinality(S) + 1
           /\ x \in S \/ x \notin T => Cardinality(T) <= Cardinality(S)
<1>1. /\ IsFiniteSet(S \cup {x}) /\ Cardinality(S) \in Nat
      /\ Cardinality(S \cup {x}) = IF x \in S THEN Cardinality(S) ELSE Cardinality(S) + 1
  BY FS_AddElement, FS_CardinalityType
<1>2. IsFiniteSet(T) /\ Cardinality(T) \in Nat /\ Cardinality(T) <= Cardinality(S \cup {x})
  BY <1>1, FS_Subset, FS_CardinalityType
<1>3. ASSUME x \in S \/ x \notin T PROVE Cardinality(T) <= Cardinality(S)
  <2>1. T \subseteq S
    BY <1>3
  <2> QED BY <2>1, FS_Subset
<1> QED BY <1>1, <1>2, <1>3

\* What the counter of a platform grants.
LEMMA GrantedShape ==
    ASSUME TypeOK, NEW p \in Platforms
    PROVE  /\ Limits[p] \in Nat /\ rate[p].n \in Nat /\ rate[p].ttl \in Int
           /\ rate[p].ttl <= RateWindow
           /\ Granted(p) \in 0 .. Limits[p]
<1>1. rate[p] \in Counters(p) /\ Limits[p] \in Nat
  BY DispatchMaps DEF TypeOK
<1>2. rate[p].n \in Nat /\ rate[p].ttl \in Int /\ rate[p].ttl <= RateWindow
  BY <1>1, Clocks DEF Counters, NoCounter, NoTTL
<1> QED BY <1>1, <1>2 DEF Granted

\* The steps that publish nothing: if the counter grants what becomes held,
\* the window is kept.
LEMMA WindowQuiet ==
    ASSUME TypeOK, TypeOK', NEW p \in Platforms, Window(p), sent'[p] = sent[p],
           NEW s,
           Units(p)' \subseteq Units(p) \cup {s}, Young(p)' \subseteq Young(p) \cup {s},
           rate'[p].ttl = rate[p].ttl \/ rate'[p].ttl \notin 1 .. RateWindow - 1,
           Granted(p) <= Granted(p)',
           \/ (s \in Units(p) \/ s \notin Units(p)') /\ (s \in Young(p) \/ s \notin Young(p)')
           \/ Granted(p)' >= Granted(p) + 1
    PROVE  Window(p)'
<1> DEFINE h == Cardinality(Units(p))
           h2 == Cardinality(Units(p)')
           y == Cardinality(Young(p))
           y2 == Cardinality(Young(p)')
           g == Granted(p)
           g2 == Granted(p)'
           L == Limits[p]
           t == rate[p].ttl
           t2 == rate'[p].ttl
           a == sent[p]
<1>1. /\ L \in Nat /\ RateWindow \in Nat /\ t \in Int /\ t2 \in Int
      /\ g \in 0 .. L /\ g2 \in 0 .. L
  <2>1. rate'[p] \in Counters(p)
    BY DEF TypeOK, Counters
  <2>2. L \in Nat /\ t \in Int /\ g \in 0 .. L /\ RateWindow \in Nat
    BY GrantedShape, Clocks
  <2>3. rate'[p].n \in Nat /\ t2 \in Int
    BY <2>1, <2>2 DEF Counters, NoCounter, NoTTL
  <2>4. g2 \in 0 .. L
    BY <2>2, <2>3 DEF Granted
  <2> QED BY <2>2, <2>3, <2>4
<1>2. /\ IsFiniteSet(Units(p)') /\ h \in Nat /\ h2 \in Nat /\ h2 <= h + 1
      /\ s \in Units(p) \/ s \notin Units(p)' => h2 <= h
  BY OneMore DEF Window
<1>3. /\ y \in Nat /\ y2 \in Nat /\ y2 <= y + 1
      /\ s \in Young(p) \/ s \notin Young(p)' => y2 <= y
  <2>1. IsFiniteSet(Young(p))
    BY FS_Subset DEF Window, Young
  <2> QED BY <2>1, OneMore
<1>4. Books(L, RateWindow, a, g, h, y, t)
  BY DEF Window
<1>5. h2 - h <= g2 - g /\ y2 - y <= g2 - g /\ g <= g2
  <2>1. g \in Int /\ g2 \in Int
    BY <1>1
  <2> HIDE DEF g, g2, h, h2, y, y2
  <2>2. (h2 <= h /\ y2 <= y) \/ g2 >= g + 1
    BY <1>2, <1>3 DEF g, g2
  <2>3. g <= g2
    BY DEF g, g2
  <2> QED BY <1>2, <1>3, <2>1, <2>2, <2>3
<1>6. t2 = t \/ t2 \notin 1 .. RateWindow - 1
  OBVIOUS
<1> HIDE DEF h, h2, y, y2, g, g2, L, t, t2, a
<1>7. Books(L, RateWindow, a, g2, h2, y2, t2)
  BY <1>1, <1>2, <1>3, <1>4, <1>5, <1>6, BooksGrant
<1> QED BY <1>2, <1>7 DEF Window, a, g2, h2, y2, t2, L

\* A step that leaves the dispatches, the counter and the publishes alone.
LEMMA WindowStill ==
    ASSUME TypeOK, TypeOK', NEW p \in Platforms, Window(p), sent' = sent, rate' = rate,
           NEW s \in Schedulers, \A r \in Schedulers : r # s => disp'[r] = disp[r],
           disp'[s].stage \in {"anchor", "budgeted", "paced"} =>
              /\ disp[s].stage \in {"anchor", "budgeted", "paced"}
              /\ disp'[s].job = disp[s].job /\ disp'[s].age = disp[s].age
    PROVE  Window(p)'
<1>1. Units(p)' \subseteq Units(p)
  BY DEF Units, Plat, Acct
<1>2. Young(p)' \subseteq Young(p)
  BY <1>1 DEF Young, Units
<1>3. Granted(p)' = Granted(p) /\ Granted(p) \in 0 .. Limits[p]
  BY GrantedShape DEF Granted
<1>4. s \in Units(p) \/ s \notin Units(p)'
  BY <1>1
<1>5. s \in Young(p) \/ s \notin Young(p)'
  BY <1>2
<1>6. /\ Units(p)' \subseteq Units(p) \cup {s} /\ Young(p)' \subseteq Young(p) \cup {s}
      /\ Granted(p) <= Granted(p)'
      /\ sent'[p] = sent[p]
      /\ rate'[p].ttl = rate[p].ttl \/ rate'[p].ttl \notin 1 .. RateWindow - 1
  BY <1>1, <1>2, <1>3
<1> QED BY <1>4, <1>5, <1>6, WindowQuiet

\* INCR grants the unit it hands out.
LEMMA WindowTaken ==
    ASSUME TypeOK, TypeOK', NEW p \in Platforms, Window(p), sent' = sent,
           NEW s \in Schedulers, At(s, "cooled"), NEW by \in {1, 2},
           rate' = [rate EXCEPT ![Plat(s)] = Incremented(Plat(s), by)],
           NEW x \in {"anchor", "spent", "budgeted"}, Goto(s, x),
           x # "spent" => rate[Plat(s)].n + by <= Limits[Plat(s)]
    PROVE  Window(p)'
<1>1. /\ Plat(s) \in Platforms
      /\ disp'[s].stage = x /\ disp'[s].job = disp[s].job
      /\ \A r \in Schedulers : r # s => disp'[r] = disp[r]
  BY GotoShape, DispShape DEF At, Gates
<1>2. Units(p)' \subseteq Units(p) \cup {s}
  BY <1>1 DEF Units, Plat, Acct
<1>3. Young(p)' \subseteq Young(p) \cup {s}
  BY <1>1, <1>2 DEF Young, Units
<1>4. CASE Plat(s) # p
  <2>1. rate'[p] = rate[p]
    BY <1>4 DEF TypeOK
  <2>2. Granted(p)' = Granted(p) /\ Granted(p) \in 0 .. Limits[p]
    BY <2>1, GrantedShape DEF Granted
  <2>3. s \notin Units(p)'
    BY <1>1, <1>4 DEF Units, Plat, Acct
  <2>4. s \notin Young(p)'
    BY <2>3 DEF Young
  <2>5. /\ Granted(p) <= Granted(p)' /\ sent'[p] = sent[p]
        /\ rate'[p].ttl = rate[p].ttl \/ rate'[p].ttl \notin 1 .. RateWindow - 1
    BY <2>1, <2>2
  <2> QED BY <1>2, <1>3, <2>3, <2>4, <2>5, WindowQuiet
<1>5. CASE Plat(s) = p
  <2>1. rate'[p] = Incremented(p, by)
    BY <1>5 DEF TypeOK
  <2>2. Limits[p] \in Nat /\ rate[p].n \in Nat
    BY GrantedShape
  <2>3. rate'[p].n = IF rate[p].n + by <= Limits[p] + 1 THEN rate[p].n + by ELSE Limits[p] + 1
    <3>1. rate[p].n + by \in Int /\ Limits[p] + 1 \in Int
      BY <2>2
    <3>2. rate'[p].n = Min({rate[p].n + by, Limits[p] + 1})
      BY <2>1 DEF Incremented
    <3> QED BY <3>1, <3>2, MinOfTwo
  <2>4. rate'[p].ttl = rate[p].ttl \/ rate'[p].ttl \notin 1 .. RateWindow - 1
    BY <2>1 DEF Incremented, NoTTL
  <2>5. /\ Granted(p) <= Granted(p)'
        /\ x # "spent" => Granted(p)' >= Granted(p) + 1
    BY <1>5, <2>2, <2>3 DEF Granted
  <2>6. CASE x = "spent"
    <3>1. s \notin Units(p)'
      BY <1>1, <2>6 DEF Units
    <3>2. s \notin Young(p)'
      BY <3>1 DEF Young
    <3>3. sent'[p] = sent[p]
      OBVIOUS
    <3> QED BY <1>2, <1>3, <2>4, <2>5, <3>1, <3>2, <3>3, WindowQuiet
  <2>7. CASE x # "spent"
    <3>1. sent'[p] = sent[p] /\ Granted(p)' >= Granted(p) + 1
      BY <2>5, <2>7
    <3> QED BY <1>2, <1>3, <2>4, <2>5, <3>1, WindowQuiet
  <2> QED BY <2>6, <2>7
<1> QED BY <1>4, <1>5

\* EXPIRE begins the window's life.
LEMMA WindowAnchored ==
    ASSUME TypeOK, TypeOK', NEW p \in Platforms, Window(p),
           NEW s \in Schedulers, Anchor(s)
    PROVE  Window(p)'
<1>1. /\ Plat(s) \in Platforms /\ At(s, "anchor")
      /\ disp'[s].stage = "budgeted" /\ disp'[s].job = disp[s].job
      /\ disp'[s].age = disp[s].age
      /\ \A r \in Schedulers : r # s => disp'[r] = disp[r]
      /\ sent' = sent /\ rate' = [rate EXCEPT ![Plat(s)].ttl = RateWindow]
  BY GotoShape, DispShape DEF At, Gates, Anchor
<1>2. Units(p)' \subseteq Units(p)
  BY <1>1 DEF Units, Plat, Acct, At
<1>3. Young(p)' \subseteq Young(p)
  BY <1>1, <1>2 DEF Young, Units
<1>4. /\ rate'[p].n = rate[p].n
      /\ rate'[p].ttl = rate[p].ttl \/ rate'[p].ttl = RateWindow
  <2>1. rate[p] \in Counters(p) /\ DOMAIN rate = Platforms
    BY DEF TypeOK
  <2>2. rate[p] = [n |-> rate[p].n, ttl |-> rate[p].ttl]
    BY <2>1 DEF Counters, NoCounter
  <2>3. CASE p = Plat(s)
    <3>1. rate'[p] = [rate[p] EXCEPT !.ttl = RateWindow]
      BY <1>1, <2>1, <2>3
    <3> QED BY <2>2, <3>1
  <2>4. CASE p # Plat(s)
    BY <1>1, <2>1, <2>4
  <2> QED BY <2>3, <2>4
<1>5. Granted(p)' = Granted(p) /\ Granted(p) \in 0 .. Limits[p]
  BY <1>4, GrantedShape DEF Granted
<1>6. s \in Units(p) \/ s \notin Units(p)'
  BY <1>2
<1>7. s \in Young(p) \/ s \notin Young(p)'
  BY <1>3
<1>8. /\ Units(p)' \subseteq Units(p) \cup {s} /\ Young(p)' \subseteq Young(p) \cup {s}
      /\ Granted(p) <= Granted(p)'
      /\ sent'[p] = sent[p]
      /\ rate'[p].ttl = rate[p].ttl \/ rate'[p].ttl \notin 1 .. RateWindow - 1
  BY <1>1, <1>2, <1>3, <1>4, <1>5, Clocks
<1> QED BY <1>6, <1>7, <1>8, WindowQuiet

\* A publish spends the unit it holds.
LEMMA WindowPublished ==
    ASSUME TypeOK, TypeOK', NEW p \in Platforms, Window(p),
           NEW s \in Schedulers, Publish(s)
    PROVE  Window(p)'
<1>1. /\ Plat(s) \in Platforms /\ At(s, "paced") /\ rate' = rate
      /\ disp' = [disp EXCEPT ![s] = Idle]
      /\ DOMAIN sent = Platforms
      /\ sent' = [sent EXCEPT ![Plat(s)] =
                    [i \in DOMAIN sent[Plat(s)] |-> IF i = 1 THEN 0 ELSE sent[Plat(s)][i - 1]]]
  BY DispShape DEF At, Publish, TypeOK
<1>2. disp'[s] = Idle /\ \A r \in Schedulers : r # s => disp'[r] = disp[r]
  BY <1>1 DEF TypeOK
<1>3. s \notin Units(p)'
  BY <1>2 DEF Units, Idle
<1>4. Units(p)' = Units(p) \ {s} /\ Young(p)' \subseteq Young(p)
  BY <1>2, <1>3 DEF Units, Young, Plat, Acct
<1>5. Granted(p)' = Granted(p)
  BY <1>1 DEF Granted
<1>6. CASE Plat(s) # p
  <2>1. sent'[p] = sent[p]
    BY <1>1, <1>6
  <2>2. Granted(p) <= Granted(p)'
    BY <1>5, GrantedShape
  <2>3. /\ s \in Units(p) \/ s \notin Units(p)'
        /\ s \in Young(p) \/ s \notin Young(p)'
        /\ Units(p)' \subseteq Units(p) \cup {s} /\ Young(p)' \subseteq Young(p) \cup {s}
        /\ rate'[p].ttl = rate[p].ttl \/ rate'[p].ttl \notin 1 .. RateWindow - 1
    BY <1>1, <1>4
  <2> QED BY <2>1, <2>2, <2>3, WindowQuiet
<1>7. CASE Plat(s) = p
  <2> DEFINE h == Cardinality(Units(p))
             y == Cardinality(Young(p))
             y2 == Cardinality(Young(p)')
             g == Granted(p)
             b == sent'[p]
  <2>1. s \in Units(p)
    BY <1>1, <1>7 DEF Units, At
  <2>2. /\ IsFiniteSet(Units(p)') /\ Cardinality(Units(p)') = h - 1
        /\ h \in Nat /\ h > 0
    <3>1. IsFiniteSet(Units(p))
      BY DEF Window
    <3>2. IsFiniteSet(Units(p) \ {s}) /\ Cardinality(Units(p) \ {s}) = h - 1
      BY <2>1, <3>1, FS_RemoveElement
    <3>3. h \in Nat /\ h - 1 \in Nat
      BY <3>1, <3>2, FS_CardinalityType
    <3> QED BY <1>4, <3>2, <3>3
  <2>3. y \in Nat /\ y2 \in Nat /\ y2 <= y
    <3>1. IsFiniteSet(Young(p))
      BY FS_Subset DEF Window, Young
    <3> QED BY <1>4, <3>1, FS_Subset, FS_CardinalityType
  <2>4. b = [i \in DOMAIN sent[p] |-> IF i = 1 THEN 0 ELSE sent[p][i - 1]]
    BY <1>1, <1>7
  <2>5. Books(Limits[p], RateWindow, sent[p], g, h, y, rate[p].ttl)
    BY DEF Window
  <2>6. Limits[p] \in Nat /\ RateWindow \in Nat /\ rate[p].ttl \in Int
    BY GrantedShape, Clocks
  <2>7. rate'[p].ttl = rate[p].ttl /\ Granted(p)' = g
    BY <1>1, <1>5
  <2> HIDE DEF h, y, y2, g, b
  <2>8. Books(Limits[p], RateWindow, b, g, h - 1, y2, rate[p].ttl)
    BY <2>2, <2>3, <2>4, <2>5, <2>6, BooksPublish
  <2> QED BY <2>2, <2>7, <2>8 DEF Window, y2, b
<1> QED BY <1>6, <1>7

\* A tick: all units held have been taken within the tick that ends.
LEMMA WindowTick ==
    ASSUME TypeOK, TypeOK', NEW p \in Platforms, Window(p), MaxDispatch <= 1, Tick
    PROVE  Window(p)'
<1> DEFINE h == Cardinality(Units(p))
           g == Granted(p)
           g2 == Granted(p)'
           t == rate[p].ttl
           t2 == rate'[p].ttl
           a == sent[p]
           b == sent'[p]
           L == Limits[p]
<1>1. ASSUME NEW s \in Units(p)
      PROVE  /\ disp[s].age = 0 /\ s \in Schedulers
             /\ disp'[s].age = 1 /\ disp'[s].stage = disp[s].stage /\ disp'[s].job = disp[s].job
  <2>1. /\ s \in Schedulers /\ disp[s].stage # "idle" /\ Past(s)
    BY DEF Units, Past, Gates
  <2>2. disp[s].age \in 0 .. MaxDispatch /\ disp[s].age < MaxDispatch
    BY <2>1, DispShape DEF Tick
  <2>3. disp[s].age = 0
    BY <2>2, Clocks
  <2> QED BY <2>1, <2>3, TickShape
<1>2. Units(p)' = Units(p)
  <2>1. ASSUME NEW s \in Units(p)' PROVE s \in Units(p)
    <3>1. /\ s \in Schedulers /\ disp'[s].stage \in {"anchor", "budgeted", "paced"}
          /\ Plat(s)' = p
      BY DEF Units
    <3>2. disp[s].stage = disp'[s].stage
      BY <3>1, TickShape
    <3>3. disp'[s].job = disp[s].job
      BY <3>1, <3>2, TickShape DEF Past, Gates
    <3> QED BY <3>1, <3>2, <3>3 DEF Units, Plat, Acct
  <2>2. ASSUME NEW s \in Units(p) PROVE s \in Units(p)'
    BY <1>1 DEF Units, Plat, Acct
  <2> QED BY <2>1, <2>2
<1>3. Young(p) = Units(p)
  BY <1>1 DEF Young
<1>4. Young(p)' = {}
  BY <1>1, <1>2 DEF Young
<1>5. /\ IsFiniteSet(Units(p)') /\ Cardinality(Units(p)') = h /\ Cardinality(Young(p)') = 0
  BY <1>2, <1>4, FS_EmptySet DEF Window
<1>6. Books(L, RateWindow, a, g, h, h, t)
  BY <1>3 DEF Window
<1>7. L \in Nat /\ RateWindow \in Nat \ {0} /\ t \in Int /\ t <= RateWindow
  BY GrantedShape, Clocks
<1>8. /\ b \in [1 .. 2 * L + 1 -> 0 .. RateWindow]
      /\ \A i \in 1 .. 2 * L + 1 :
            b[i] = IF a[i] + 1 <= RateWindow THEN a[i] + 1 ELSE RateWindow
  <2>1. a \in [1 .. 2 * L + 1 -> 0 .. RateWindow] /\ b \in [1 .. 2 * L + 1 -> 0 .. RateWindow]
    BY DEF TypeOK, Lately
  <2>2. b = [i \in DOMAIN a |-> Min({a[i] + 1, RateWindow})]
    BY DEF Tick
  <2>3. ASSUME NEW i \in 1 .. 2 * L + 1
        PROVE  b[i] = IF a[i] + 1 <= RateWindow THEN a[i] + 1 ELSE RateWindow
    <3>1. b[i] = Min({a[i] + 1, RateWindow}) /\ a[i] + 1 \in Int /\ RateWindow \in Int
      BY <1>7, <2>1, <2>2
    <3> QED BY <3>1, MinOfTwo
  <2> QED BY <2>1, <2>3
<1>9. \/ t = 1 /\ g2 = 0 /\ t2 = 0
      \/ t > 1 /\ g2 = g /\ t2 = t - 1
      \/ t <= 0 /\ g2 = g /\ t2 = t
  <2>1. rate[p] = [n |-> rate[p].n, ttl |-> t] /\ rate'[p] = RunDown(rate[p])
    <3>1. rate[p] \in Counters(p) /\ rate'[p] = RunDown(rate[p])
      BY DEF TypeOK, Tick
    <3> QED BY <3>1 DEF Counters, NoCounter
  <2>2. CASE t = 1
    BY <1>7, <2>1, <2>2 DEF RunDown, NoCounter, Granted
  <2>3. CASE t # 1
    <3>1. rate'[p] = [n |-> rate[p].n, ttl |-> Down(t)]
      BY <2>1, <2>3 DEF RunDown
    <3>2. g2 = g /\ t2 = Down(t)
      BY <3>1 DEF Granted
    <3> QED BY <1>7, <2>3, <3>2 DEF Down
  <2> QED BY <2>2, <2>3
<1> HIDE DEF h, g, g2, t, t2, a, b, L
<1>10. Books(L, RateWindow, b, g2, h, 0, t2)
  BY <1>6, <1>7, <1>8, <1>9, BooksTick
<1> QED BY <1>5, <1>10 DEF Window, g2, t2, b, L

\* Every step keeps the books of every platform.
LEMMA WindowStep ==
    ASSUME TypeOK, TypeOK', WindowInv, MaxDispatch <= 1, [Next]_vars
    PROVE  WindowInv'
<1> SUFFICES ASSUME NEW p \in Platforms PROVE Window(p)'
  BY DEF WindowInv
<1>0. Window(p)
  BY DEF WindowInv
<1>1. ASSUME disp' = disp, sent' = sent, rate' = rate PROVE Window(p)'
  BY <1>0, <1>1 DEF Window, Units, Young, Granted, Plat, Acct
<1>2. CASE UNCHANGED vars
  BY <1>1, <1>2 DEF vars
<1>3. ASSUME NEW j \in Jobs, Enqueue(j) PROVE Window(p)'
  BY <1>1, <1>3 DEF Enqueue
<1>4. ASSUME NEW s \in Schedulers, NEW j \in Jobs, Claim(s, j) PROVE Window(p)'
  <2>1. /\ disp'[s].stage = "claimed" /\ \A r \in Schedulers : r # s => disp'[r] = disp[r]
        /\ sent' = sent /\ rate' = rate
    BY <1>4 DEF Claim, TypeOK
  <2> QED BY <1>0, <2>1, WindowStill
<1>5. ASSUME NEW s \in Schedulers, Dispatch(s) \/ Fault(s) PROVE Window(p)'
  <2>1. CASE TakeUnit(s)
    <3> DEFINE n == rate[Plat(s)].n + 1
               x == IF n = 1 THEN "anchor"
                    ELSE IF n <= Limits[Plat(s)] THEN "budgeted" ELSE "spent"
    <3>1. /\ At(s, "cooled") /\ Goto(s, x) /\ Limits[Plat(s)] > 0
          /\ rate' = [rate EXCEPT ![Plat(s)] = Incremented(Plat(s), 1)]
          /\ sent' = sent
      BY <2>1 DEF TakeUnit
    <3>2. Plat(s) \in Platforms
      BY <3>1, DispShape DEF At
    <3>3. /\ x \in {"anchor", "spent", "budgeted"}
          /\ x # "spent" => rate[Plat(s)].n + 1 <= Limits[Plat(s)]
      BY <3>1, <3>2, GrantedShape
    <3> HIDE DEF x
    <3> QED BY <1>0, <3>1, <3>3, WindowTaken
  <2>2. CASE CountedTwice(s)
    <3> DEFINE x == IF rate[Plat(s)].n + 2 <= Limits[Plat(s)] THEN "budgeted" ELSE "spent"
    <3>1. /\ At(s, "cooled") /\ Goto(s, x) /\ sent' = sent
          /\ rate' = [rate EXCEPT ![Plat(s)] = Incremented(Plat(s), 2)]
      BY <2>2 DEF CountedTwice
    <3>2. /\ x \in {"anchor", "spent", "budgeted"}
          /\ x # "spent" => rate[Plat(s)].n + 2 <= Limits[Plat(s)]
      OBVIOUS
    <3> HIDE DEF x
    <3> QED BY <1>0, <3>1, <3>2, WindowTaken
  <2>3. CASE Anchor(s)
    BY <1>0, <2>3, WindowAnchored
  <2>4. CASE Publish(s)
    BY <1>0, <2>4, WindowPublished
  <2>5. CASE ~TakeUnit(s) /\ ~CountedTwice(s) /\ ~Anchor(s) /\ ~Publish(s)
    <3>1. sent' = sent /\ rate' = rate
      BY <1>5, <2>5 DEF Dispatch, AcquireCooldown, CoolingDown, PlatformOff, BudgetSpent,
                        AcquirePace, Pacing, Fault, GateError, OwnKey, ApiCrash
    <3>2. \/ disp' = [disp EXCEPT ![s] = Idle]
          \/ At(s, "claimed") /\ Goto(s, "cooled")
          \/ At(s, "budgeted") /\ Goto(s, "paced")
      BY <1>5, <2>5 DEF Dispatch, AcquireCooldown, CoolingDown, PlatformOff, BudgetSpent,
                        AcquirePace, Pacing, Fault, GateError, OwnKey, ApiCrash, Reschedule
    <3>3. \A r \in Schedulers : r # s => disp'[r] = disp[r]
      BY <1>5, OwnStep
    <3>4. disp'[s].stage \in {"anchor", "budgeted", "paced"} =>
             /\ disp[s].stage \in {"anchor", "budgeted", "paced"}
             /\ disp'[s].job = disp[s].job /\ disp'[s].age = disp[s].age
      <4>1. CASE disp' = [disp EXCEPT ![s] = Idle]
        BY <4>1 DEF Idle, TypeOK
      <4>2. CASE At(s, "claimed") /\ Goto(s, "cooled")
        BY <4>2, GotoShape DEF At, Gates
      <4>3. CASE At(s, "budgeted") /\ Goto(s, "paced")
        BY <4>3, GotoShape DEF At, Gates
      <4> QED BY <3>2, <4>1, <4>2, <4>3
    <3> QED BY <1>0, <3>1, <3>3, <3>4, WindowStill
  <2> QED BY <2>1, <2>2, <2>3, <2>4, <2>5
<1>6. CASE Tick
  BY <1>0, <1>6, WindowTick
<1> QED BY <1>2, <1>3, <1>4, <1>5, <1>6 DEF Next

\* "A fixed window can overspend by at most `limit' once": whatever the
\* schedulers, limits and clocks and whoever crashes or repeats a command, no
\* window's length sees more than twice the limit of publishes, if a dispatch
\* takes no longer than a tick (TakeUnit, Anchor, Publish, Tick).
THEOREM BudgetIsKept ==
    ASSUME MaxDispatch <= 1
    PROVE  Spec => []BudgetKept
<1>1. Init => WindowInv
  <2> SUFFICES ASSUME Init, NEW p \in Platforms PROVE Window(p)
    BY DEF WindowInv
  <2>1. Units(p) = {} /\ Young(p) = {}
    BY DEF Init, Units, Young, Idle
  <2>2. IsFiniteSet({}) /\ Cardinality({}) = 0
    BY FS_EmptySet
  <2>3. Limits[p] \in Nat /\ rate[p].n = 0 /\ rate[p].ttl = 0 /\ Granted(p) = 0
    BY DispatchMaps DEF Init, NoCounter, Granted
  <2>4. /\ sent[p] \in [1 .. 2 * Limits[p] + 1 -> 0 .. RateWindow]
        /\ \A i \in 1 .. 2 * Limits[p] + 1 : sent[p][i] = RateWindow
    BY Clocks DEF Init
  <2>5. Books(Limits[p], RateWindow, sent[p], 0, 0, 0, 0)
    <3> DEFINE a == sent[p]
               L == Limits[p]
    <3>1. L \in Nat /\ RateWindow \in Nat /\ L + 0 - 0 + 1 \in 1 .. 2 * L + 1
      BY <2>3, Clocks
    <3>2. /\ a \in [1 .. 2 * L + 1 -> 0 .. RateWindow]
          /\ \A i \in 1 .. 2 * L + 1 : a[i] = RateWindow
      BY <2>4
    <3> HIDE DEF a, L
    <3>3. /\ \A i, j \in 1 .. 2 * L + 1 : i <= j => a[i] <= a[j]
          /\ a[L + 0 - 0 + 1] >= RateWindow
      BY <3>1, <3>2
    <3>4. Books(L, RateWindow, a, 0, 0, 0, 0)
      BY <3>1, <3>2, <3>3 DEF Books
    <3> QED BY <3>4 DEF a, L
  <2> QED BY <2>1, <2>2, <2>3, <2>5 DEF Window
<1>2. TypeOK /\ TypeOK' /\ WindowInv /\ [Next]_vars => WindowInv'
  BY WindowStep
<1>3. TypeOK /\ WindowInv => BudgetKept
  <2> SUFFICES ASSUME TypeOK, NEW p \in Platforms, Window(p)
               PROVE  sent[p][2 * Limits[p] + 1] >= RateWindow
    BY DEF WindowInv, BudgetKept
  <2> DEFINE L == Limits[p]
             g == Granted(p)
             h == Cardinality(Units(p))
             i == L + g - h + 1
  <2>1. L \in Nat /\ RateWindow \in Nat
    BY GrantedShape, Clocks
  <2>2. /\ sent[p] \in [1 .. 2 * L + 1 -> 0 .. RateWindow]
        /\ g \in 0 .. L /\ h \in Nat /\ h <= L + g /\ sent[p][i] >= RateWindow
        /\ \A k, j \in 1 .. 2 * L + 1 : k <= j => sent[p][k] <= sent[p][j]
    BY DEF Window, Books
  <2> HIDE DEF g, h
  <2>3. i \in 1 .. 2 * L + 1 /\ 2 * L + 1 \in 1 .. 2 * L + 1 /\ i <= 2 * L + 1
    BY <2>1, <2>2
  <2>4. sent[p][i] <= sent[p][2 * L + 1]
    BY <2>2, <2>3
  <2>5. sent[p][i] \in Nat /\ sent[p][2 * L + 1] \in Nat /\ sent[p][i] >= RateWindow
    BY <2>2, <2>3
  <2> HIDE DEF i
  <2> QED BY <2>1, <2>4, <2>5
<1> QED BY <1>1, <1>2, <1>3, TypeCorrect, PTL DEF Spec

=============================================================================
