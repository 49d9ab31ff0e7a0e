---------------------------- MODULE RunContract -----------------------------
(***************************************************************************)
(* What a Run promises to the goal loop that owns it, with no worker, no   *)
(* lease and no crash: a budget of attempts is consumed one at a time, a   *)
(* settled run stays settled, and it is verified only together with final  *)
(* delivery evidence.  RunLifecycle and ExternalVerdict implement it.      *)
(***************************************************************************)
EXTENDS Naturals

CONSTANT Budget     \* the largest attempt ceiling a run can have

VARIABLES
    state,      \* runs.state
    attempts,   \* attempts begun so far
    proof       \* final delivery evidence is stored for the last attempt

vars == <<state, attempts, proof>>

Pending == {"queued", "retry_pending"}
Open == {"running", "awaiting_external_verdict"}

Init ==
    /\ state = "queued"
    /\ attempts = 0
    /\ proof = FALSE

Dispatch ==
    /\ state \in Pending
    /\ attempts < Budget
    /\ state' = "running"
    /\ attempts' = attempts + 1
    /\ UNCHANGED proof

\* The run waits for an answer that comes from outside.
Park ==
    /\ state = "running"
    /\ state' = "awaiting_external_verdict"
    /\ UNCHANGED <<attempts, proof>>

Fail ==
    /\ state \in Open
    /\ state' \in {"retry_pending", "stopped", "human_required"}
    /\ UNCHANGED <<attempts, proof>>

Verify ==
    /\ state \in Open
    /\ state' = "verified"
    /\ proof' = TRUE
    /\ UNCHANGED attempts

\* Without attempts left a pending run is handed to a human.
GiveUp ==
    /\ state \in Pending
    /\ attempts > 0
    /\ state' = "human_required"
    /\ UNCHANGED <<attempts, proof>>

Next == Dispatch \/ Park \/ Fail \/ Verify \/ GiveUp

Spec == Init /\ [][Next]_vars
=============================================================================
