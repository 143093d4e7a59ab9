------------------------------- MODULE MCLive -------------------------------
(***************************************************************************)
(* Liveness of the two views of dispatch, for TLC: the gates with their    *)
(* clocks (DispatchGates) and the pipeline behind them (ActionPipeline).   *)
(* A behaviour runs one of them, named by `part'; the other stays at its   *)
(* Init, where none of its fair actions is enabled.                        *)
(***************************************************************************)
EXTENDS MCDispatchGates

CONSTANTS p1, p2, w1, QueueClaims

VARIABLES
    part,
    pjob, phome, psched, pqueue, pworker, pcalls, plog, pdone, pcharged

P == INSTANCE ActionPipeline WITH
    Jobs <- {p1, p2}, Accounts <- {a1}, AccountOf <- [j \in {p1, p2} |-> a1],
    Workers <- {w1}, MaxAttempts <- 2, CallbackTries <- 1, MaxClaims <- QueueClaims,
    DryRun <- BOOLEAN,
    job <- pjob, home <- phome, sched <- psched, queue <- pqueue, worker <- pworker,
    calls <- pcalls, log <- plog, done <- pdone, charged <- pcharged

pvars == <<pjob, phome, psched, pqueue, pworker, pcalls, plog, pdone, pcharged>>

LiveInit == part \in {"gates", "pipeline"} /\ Init /\ P!Init

LiveNext ==
    /\ UNCHANGED part
    /\ \/ part = "gates" /\ Next /\ UNCHANGED pvars
       \/ part = "pipeline" /\ P!Next /\ UNCHANGED vars

LiveSpec ==
    LiveInit /\ [][LiveNext]_<<part, vars, pvars>> /\ Fairness /\ P!Fairness

NoStranding == P!NoStranding
EveryJobSettles == P!EveryJobSettles
=============================================================================
