-------------------------- MODULE MCActionPipeline --------------------------
(***************************************************************************)
(* Instances of ActionPipeline for TLC.                                    *)
(***************************************************************************)
EXTENDS ActionPipeline, TLC

CONSTANTS j1, j2, a1, a2, w1, w2

MCAccountOf == [j \in Jobs |-> IF j = j2 /\ a2 \in Accounts THEN a2 ELSE a1]

\* Bounds of the runs that inject faults: requests in flight, list lengths.
FewCalls == Cardinality(calls) <= 2
ShortQueues == \A w \in Workers : Len(queue[w]) <= 2

\* For the runs whose properties do not read the history of charges.
WithoutCharges == <<job, home, sched, queue, worker, calls, log, done>>

WorkerSymmetry == Permutations(Workers)
=============================================================================
