--------------------------- MODULE MCDispatchGates ---------------------------
(***************************************************************************)
(* Instances of DispatchGates for TLC: j1, j2 and j3 act as account a1, j3 *)
(* on a target of its own where there are two; j4 acts as a2.  Instagram   *)
(* has twice the budget of Threads, and "off" has none.                    *)
(***************************************************************************)
EXTENDS DispatchGates, TLC

CONSTANTS j1, j2, j3, j4, a1, a2, t1, t2, ig, threads, off, s1, s2

MCAccountOf == [j \in Jobs |-> IF j = j4 THEN a2 ELSE a1]
MCTargetOf == [j \in Jobs |-> IF j = j3 /\ t2 \in Targets THEN t2 ELSE t1]
MCPlatformOf ==
    [a \in Accounts |-> IF a = a1 THEN ig ELSE CHOOSE p \in Platforms : p # ig]
MCLimits == [p \in Platforms |-> IF p = ig THEN 2 ELSE IF p = threads THEN 1 ELSE 0]

\* A job on a platform that is off shares no key with the others, and is
\* explored on its own.
OffAlone ==
    \A i, j \in Jobs :
        Limits[PlatformOf[AccountOf[i]]] = 0 /\ job[i].status # "none" =>
            i = j \/ job[j].status = "none"

\* Schedulers run the same code, and the first two jobs ask for the same.
Alike == Permutations(Schedulers) \cup Permutations(Jobs \cap {j1, j2})
=============================================================================
