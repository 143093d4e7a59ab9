--------------------------- MODULE ActionLifecycle ---------------------------
(***************************************************************************)
(* What the action engine promises of one job, whoever carries it: a row   *)
(* is taken, carried out at most once per taking and at most MaxAttempts   *)
(* times in all, settled by what that came to, and never touched again     *)
(* once it is SUCCESS or FAILED.  A retryable failure goes back exactly    *)
(* until the row was taken MaxAttempts times.                              *)
(***************************************************************************)
EXTENDS Integers

CONSTANTS Jobs, MaxAttempts, DryRun, None

VARIABLES
    status,  \* job -> the status a reader of the queue sees
    taken,   \* job -> how many times it was taken, to no avail or not
    tries,   \* job -> how many times it was carried out
    fate     \* job -> what the current taking came to, None until carried out

vars == <<status, taken, tries, fate>>

\* An attempt is performed, or skipped where dry runs are allowed.
Outcomes ==
    {o \in {"success", "retryable", "final"} : FALSE \in DryRun}
    \cup {x \in {"skipped"} : TRUE \in DryRun}

Init ==
    /\ status = [j \in Jobs |-> "none"]
    /\ taken = [j \in Jobs |-> 0]
    /\ tries = [j \in Jobs |-> 0]
    /\ fate = [j \in Jobs |-> None]

Become(j, s) ==
    /\ status' = [status EXCEPT ![j] = s]
    /\ fate' = [fate EXCEPT ![j] = None]
    /\ UNCHANGED tries

Create(j) == status[j] = "none" /\ Become(j, "PENDING") /\ UNCHANGED taken

Take(j) ==
    /\ status[j] = "PENDING"
    /\ Become(j, "RUNNING")
    /\ taken' = [taken EXCEPT ![j] = @ + 1]

\* Only a taking nobody carried out may be undone.
Undo(j) ==
    /\ status[j] = "RUNNING"
    /\ fate[j] = None
    /\ Become(j, "PENDING") \/ Become(j, "FAILED")
    /\ UNCHANGED taken

Perform(j, o) ==
    /\ status[j] = "RUNNING"
    /\ fate[j] = None
    /\ tries[j] < MaxAttempts
    /\ tries' = [tries EXCEPT ![j] = @ + 1]
    /\ fate' = [fate EXCEPT ![j] = o]
    /\ UNCHANGED <<status, taken>>

Settle(j) ==
    /\ status[j] = "RUNNING"
    /\ \/ fate[j] \in {"success", "skipped"} /\ Become(j, "SUCCESS")
       \/ fate[j] = "retryable" /\ taken[j] < MaxAttempts /\ Become(j, "PENDING")
       \/ fate[j] = "retryable" /\ taken[j] >= MaxAttempts /\ Become(j, "FAILED")
       \/ fate[j] = "final" /\ Become(j, "FAILED")
    /\ UNCHANGED taken

Next ==
    \E j \in Jobs :
        \/ Create(j) \/ Take(j) \/ Undo(j) \/ Settle(j)
        \/ \E o \in Outcomes : Perform(j, o)

Spec == Init /\ [][Next]_vars

=============================================================================
