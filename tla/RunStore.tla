------------------------------ MODULE RunStore ------------------------------
(***************************************************************************)
(* The runs and attempts rows of one Run in loop.sqlite3 as a value, and   *)
(* the transactions of lh_runtime/run_store.py on that value.  Each        *)
(* operator is the committed effect of one BEGIN IMMEDIATE transaction;    *)
(* the guard of its compare-and-swap is an operator of its own.  The       *)
(* modules that run workers against the store (RunLifecycle,               *)
(* ExternalVerdict) apply these operators to a variable.                   *)
(***************************************************************************)
EXTENDS Naturals

CONSTANTS
    MaxAttempts,    \* runs.max_attempts, 1..4 in create_run
    RepairMax       \* repair_same_unit.max_attempts of the delivery contract

ASSUME MaxAttemptsAssumption == MaxAttempts \in 1..4
ASSUME RepairMaxAssumption == RepairMax \in Nat \ {0}

Ordinals == 1..MaxAttempts

Executable == {"queued", "retry_pending"}
Settled == {"verified", "stopped", "human_required"}
RunStates == Executable \cup Settled \cup {"running", "awaiting_external_verdict"}
AttemptStates == Settled \cup
    {"absent", "running", "awaiting_external_verdict", "retry_pending", "interrupted"}

\* The delivery contract of a run: bound and GREEN, absent but supplied as a
\* planning candidate of the goal, superseded by such a candidate, or neither.
Bindings == {"green", "bindable", "supersedable", "unplanned"}

(***************************************************************************)
(* receipt.json.  Only its verification.exit_code and routing.route matter *)
(* to the store; "untyped" is a receipt without an integer exit code.  The *)
(* fence of the attempt that wrote it stands for the rest of its bytes,    *)
(* hence for its digest.                                                   *)
(***************************************************************************)
ExitCodes == {"zero", "nonzero", "untyped"}
Routes == {"none", "human_required", "stop"}
Receipt == [exit: ExitCodes, route: Routes, fence: Nat]
NoReceipt == [exit |-> "missing", route |-> "none", fence |-> 0]
Receipts == Receipt \cup {NoReceipt}

Row == [state: AttemptStates, fence: Nat, receipt: Receipts, final: BOOLEAN]
AbsentRow == [state |-> "absent", fence |-> 0, receipt |-> NoReceipt, final |-> FALSE]

Run == [state: RunStates, attempts: 0..MaxAttempts, fence: Nat,
        ceiling: Ordinals, binding: Bindings, row: [Ordinals -> Row]]

Least(a, b) == IF a <= b THEN a ELSE b

CreateRun(binding) ==
    [state |-> "queued", attempts |-> 0, fence |-> 0,
     ceiling |-> IF binding = "green" THEN Least(MaxAttempts, RepairMax) ELSE MaxAttempts,
     binding |-> binding, row |-> [n \in Ordinals |-> AbsentRow]]

\* The minimum of max_attempts, the stored ceiling and the contract's own.
EffectiveMaxAttempts(s) == s.ceiling

-----------------------------------------------------------------------------
\* Delivery planning: the only writers of the contract and of the ceiling.

BindContract(s) ==
    [s EXCEPT !.binding = "green", !.ceiling = Least(@, RepairMax)]

CanReplan(s, fence) ==
    /\ s.binding = "supersedable"
    /\ fence = s.fence
    /\ s.state \in Executable
    /\ s.attempts > 0 => /\ s.row[s.attempts].state \notin {"running", "awaiting_external_verdict"}
                         /\ s.row[s.attempts].receipt # NoReceipt

-----------------------------------------------------------------------------
\* Attempts.

NextOrdinal(s) == s.attempts + 1

BudgetLeft(s) == NextOrdinal(s) <= EffectiveMaxAttempts(s)

RunningRow(fence) ==
    [state |-> "running", fence |-> fence, receipt |-> NoReceipt, final |-> FALSE]

\* Slip: an interrupted attempt is not charged, so its ordinal is used again.
BeginAttemptReusing(s) ==
    LET n == IF s.attempts > 0 /\ s.row[s.attempts].state = "interrupted"
             THEN s.attempts ELSE s.attempts + 1
    IN  [s EXCEPT !.state = "running", !.attempts = n, !.fence = s.fence + 1,
                  !.row = [s.row EXCEPT ![n] = RunningRow(s.fence + 1)]]

BeginAttempt(s) ==
    [s EXCEPT !.state = "running",
              !.attempts = s.attempts + 1,
              !.fence = s.fence + 1,
              !.row = [s.row EXCEPT ![s.attempts + 1] = RunningRow(s.fence + 1)]]

\* Slip: begin_attempt raises without committing the hand-over.
ExhaustBudgetUnrecorded(s) == s

ExhaustBudget(s) == [s EXCEPT !.state = "human_required"]

\* Slip: the fence is compared with the attempt's own, not with the run's.
HoldsFenceOfRow(s, n, fence) == fence = s.row[n].fence

\* The compare-and-swap every writer of an attempt's outcome passes.
HoldsFence(s, n, fence) ==
    /\ s.state = "running"
    /\ s.row[n].state = "running"
    /\ s.row[n].fence = s.fence
    /\ fence = s.fence

UpdateRow(s, n, state, fence, row) ==
    [s EXCEPT !.state = state, !.fence = fence, !.row = [s.row EXCEPT ![n] = row]]

\* Slip: only the runs row is updated.
FinishAttemptRunOnly(s, n, state, receipt) ==
    UpdateRow(s, n, state, s.fence, [s.row[n] EXCEPT !.receipt = receipt])

FinishAttempt(s, n, state, receipt) ==
    UpdateRow(s, n, state, s.fence,
              [s.row[n] EXCEPT !.state = state, !.receipt = receipt])

FinishAttemptWithDelivery(s, n, receipt) ==
    UpdateRow(s, n, "verified", s.fence,
              [s.row[n] EXCEPT !.state = "verified", !.receipt = receipt, !.final = TRUE])

\* A failed attempt ends the run at its effective ceiling.
AfterFailure(s, n) == IF n >= EffectiveMaxAttempts(s) THEN "stopped" ELSE "retry_pending"

\* An attempt whose delivery evidence is not GREEN.
AfterRedDelivery(s, n) ==
    IF n >= EffectiveMaxAttempts(s) THEN "human_required" ELSE "retry_pending"

-----------------------------------------------------------------------------
\* Reconciliation of a running row whose lease expired or is gone.

RunningOrdinals(s) == {n \in Ordinals : s.row[n].state = "running"}

ReconcileOrdinal(s) ==
    CHOOSE n \in RunningOrdinals(s) : \A m \in RunningOrdinals(s) : m <= n

\* Slip: a run without a further attempt is not worth reconciling.
CanReconcileWithBudget(s) ==
    /\ s.state = "running"
    /\ s.attempts < s.ceiling

CanReconcile(s) ==
    /\ s.state = "running"
    /\ RunningOrdinals(s) # {}
    /\ s.row[ReconcileOrdinal(s)].fence = s.fence

\* Slip: a receipt with exit code 0 is trusted.
ReconcilePromoting(s, files) ==
    LET n == ReconcileOrdinal(s)
        recovered == IF files[n].exit = "zero" THEN "verified" ELSE "retry_pending"
    IN  UpdateRow(s, n, recovered, s.fence + 1,
                  [s.row[n] EXCEPT !.state = recovered, !.receipt = files[n]])

\* files[n] is artifacts/<run>/<n>/receipt.json, NoReceipt if there is none.
\* A receipt without an integer exit code counts as none.
Reconcile(s, files) ==
    LET n == ReconcileOrdinal(s)
        recovered == CASE files[n].exit = "zero" -> "human_required"
                       [] files[n].exit = "nonzero" -> AfterFailure(s, n)
                       [] OTHER -> "retry_pending"
    IN  UpdateRow(s, n, recovered, s.fence + 1,
                  IF files[n].exit \in {"zero", "nonzero"}
                  THEN [s.row[n] EXCEPT !.state = recovered, !.receipt = files[n]]
                  ELSE [s.row[n] EXCEPT !.state = "interrupted"])

-----------------------------------------------------------------------------
\* External verdicts.

ParkExternalVerdict(s, n, receipt) ==
    FinishAttempt(s, n, "awaiting_external_verdict", receipt)

IsParked(s) == s.state = "awaiting_external_verdict"

ResolveExternalVerdict(s, state) ==
    [s EXCEPT !.state = state,
              !.row = [n \in Ordinals |->
                          IF @[n].state = "awaiting_external_verdict"
                          THEN [@[n] EXCEPT !.state = state] ELSE @[n]]]

CanResolveWithDelivery(s) ==
    /\ IsParked(s)
    /\ s.row[s.attempts].state = "awaiting_external_verdict"
    /\ s.row[s.attempts].fence = s.fence

ResolveExternalVerdictWithDelivery(s) ==
    FinishAttemptWithDelivery(s, s.attempts, s.row[s.attempts].receipt)

-----------------------------------------------------------------------------
(***************************************************************************)
(* What the transactions keep true of the two tables: the attempts rows    *)
(* are exactly 1..attempts, every row but the last is closed, the last one *)
(* agrees with the run, and no row carries a fence above the run's.        *)
(***************************************************************************)
OpenStates == {"running", "awaiting_external_verdict"}

RowsFollowRun(s) ==
    /\ \A n \in Ordinals : s.row[n].state = "absent" <=> n > s.attempts
    /\ \A n \in Ordinals : n < s.attempts => s.row[n].state \in {"retry_pending", "interrupted"}
    /\ s.attempts > 0 =>
          \/ s.row[s.attempts].state = s.state
          \/ s.row[s.attempts].state = "interrupted" /\ s.state \in {"retry_pending", "human_required"}
          \/ s.row[s.attempts].state = "retry_pending" /\ s.state = "human_required"
    /\ s.attempts = 0 => s.state \in {"queued", "human_required"}
    /\ s.state = "queued" => s.attempts = 0

FencesFollowRun(s) ==
    /\ \A n \in Ordinals : s.row[n].fence <= s.fence
    /\ s.state \in OpenStates => s.row[s.attempts].fence = s.fence
    /\ \A n, m \in Ordinals : n < m /\ m <= s.attempts => s.row[n].fence < s.row[m].fence

BudgetKept(s) ==
    /\ s.attempts <= s.ceiling
    /\ s.binding # "green" => s.attempts = 0

\* verified is the only state that carries final delivery evidence, and it
\* always does.
EvidenceKept(s) ==
    \A n \in Ordinals : s.row[n].final <=> s.row[n].state = "verified"

StoreOK(s) ==
    /\ RowsFollowRun(s)
    /\ FencesFollowRun(s)
    /\ BudgetKept(s)
    /\ EvidenceKept(s)
=============================================================================
