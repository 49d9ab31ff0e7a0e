--------------------------- MODULE RunStoreProofs ---------------------------
(***************************************************************************)
(* Every transaction of RunStore maps a typed, consistent pair of tables   *)
(* to a typed, consistent pair.  The modules with workers cite these.      *)
(***************************************************************************)
EXTENDS RunStore, TLAPS

\* The receipt of a file, or its absence, is a receipt a row may record.
LEMMA NoReceiptIsDistinct == NoReceipt \notin Receipt
  BY DEF NoReceipt, Receipt, ExitCodes

LEMMA OrdinalsFact == Ordinals \subseteq Nat /\ MaxAttempts \in Nat /\ 1 \in Ordinals
  BY MaxAttemptsAssumption DEF Ordinals

\* create_run starts with no attempt row and the whole budget.
LEMMA CreateRunOK ==
  ASSUME NEW b \in Bindings
  PROVE  CreateRun(b) \in Run /\ StoreOK(CreateRun(b))
<1> DEFINE s == CreateRun(b)
<1>1. Least(MaxAttempts, RepairMax) \in Ordinals /\ MaxAttempts \in Ordinals
  BY MaxAttemptsAssumption, RepairMaxAssumption DEF Ordinals, Least
<1>2. AbsentRow \in Row
  BY DEF AbsentRow, Row, AttemptStates, Settled, Receipts
<1>3. s \in Run
  BY <1>1, <1>2, OrdinalsFact DEF CreateRun, Run, RunStates, Executable
<1>4. StoreOK(s)
  <2>1. RowsFollowRun(s)
    BY OrdinalsFact DEF RowsFollowRun, CreateRun, AbsentRow, Ordinals
  <2>2. FencesFollowRun(s)
    BY OrdinalsFact DEF FencesFollowRun, CreateRun, AbsentRow, OpenStates, Ordinals
  <2>3. BudgetKept(s)
    BY <1>1, OrdinalsFact DEF BudgetKept, CreateRun, Ordinals
  <2>4. EvidenceKept(s)
    BY DEF EvidenceKept, CreateRun, AbsentRow
  <2>5. QED BY <2>1, <2>2, <2>3, <2>4 DEF StoreOK
<1>5. QED BY <1>3, <1>4

\* bind_delivery_contract and replan_delivery_contract only lower the ceiling
\* of a run that has not begun an attempt.
LEMMA BindContractOK ==
  ASSUME NEW s \in Run, StoreOK(s), s.binding # "green"
  PROVE  BindContract(s) \in Run /\ StoreOK(BindContract(s))
<1> DEFINE t == BindContract(s)
<1>1. Least(s.ceiling, RepairMax) \in Ordinals
  BY MaxAttemptsAssumption, RepairMaxAssumption DEF Ordinals, Least, Run
<1>2. /\ t.state = s.state /\ t.attempts = s.attempts /\ t.fence = s.fence
      /\ t.row = s.row /\ t.binding = "green" /\ t.ceiling = Least(s.ceiling, RepairMax)
  BY DEF BindContract, Run
<1>3. t \in Run
  BY <1>1 DEF BindContract, Run, Bindings
<1>4. RowsFollowRun(t) /\ FencesFollowRun(t) /\ EvidenceKept(t)
  BY <1>2 DEF StoreOK, RowsFollowRun, FencesFollowRun, EvidenceKept
<1>5. BudgetKept(t)
  BY <1>1, <1>2, OrdinalsFact DEF StoreOK, BudgetKept, Ordinals
<1>6. QED BY <1>3, <1>4, <1>5 DEF StoreOK

\* begin_attempt opens the next row under a fence no row has carried.
LEMMA BeginAttemptOK ==
  ASSUME NEW s \in Run, StoreOK(s), s.state \in Executable, s.binding = "green", BudgetLeft(s)
  PROVE  BeginAttempt(s) \in Run /\ StoreOK(BeginAttempt(s))
<1> DEFINE t == BeginAttempt(s)
           n == s.attempts + 1
<1>1. n \in Ordinals /\ s.attempts \in Nat /\ s.fence \in Nat /\ s.ceiling \in Ordinals
  BY OrdinalsFact DEF BudgetLeft, NextOrdinal, EffectiveMaxAttempts, Run, Ordinals
<1>2. /\ t.state = "running" /\ t.attempts = n /\ t.fence = s.fence + 1
      /\ t.ceiling = s.ceiling /\ t.binding = s.binding
      /\ t.row = [s.row EXCEPT ![n] = RunningRow(s.fence + 1)]
  BY DEF BeginAttempt, Run
<1>3. t \in Run
  <2>1. RunningRow(s.fence + 1) \in Row
    BY <1>1 DEF RunningRow, Row, AttemptStates, Receipts
  <2>2. [s.row EXCEPT ![n] = RunningRow(s.fence + 1)] \in [Ordinals -> Row]
    BY <2>1 DEF Run
  <2>3. n \in 0..MaxAttempts /\ "running" \in RunStates /\ s.fence + 1 \in Nat
    BY <1>1, OrdinalsFact DEF Ordinals, RunStates
  <2>4. QED BY <2>2, <2>3 DEF BeginAttempt, Run
<1>4. \A m \in Ordinals : m # n => t.row[m] = s.row[m]
  BY <1>2 DEF Run
<1>5. t.row[n] = [state |-> "running", fence |-> s.fence + 1, receipt |-> NoReceipt, final |-> FALSE]
  BY <1>1, <1>2 DEF Run, RunningRow
<1>6. RowsFollowRun(t)
  <2>1. \A m \in Ordinals : t.row[m].state = "absent" <=> m > n
    BY <1>1, <1>4, <1>5, OrdinalsFact DEF StoreOK, RowsFollowRun
  <2>2. \A m \in Ordinals : m < n => t.row[m].state \in {"retry_pending", "interrupted"}
    <3> SUFFICES ASSUME NEW m \in Ordinals, m < n
                 PROVE  s.row[m].state \in {"retry_pending", "interrupted"}
      BY <1>1, <1>4, OrdinalsFact
    <3>1. CASE m < s.attempts
      BY <3>1 DEF StoreOK, RowsFollowRun
    <3>2. CASE m = s.attempts
      <4>1. s.attempts > 0
        BY <3>2, OrdinalsFact DEF Ordinals
      <4>2. s.state = "retry_pending"
        BY <4>1, <1>1 DEF StoreOK, RowsFollowRun, Executable
      <4>3. QED BY <3>2, <4>1, <4>2 DEF StoreOK, RowsFollowRun
    <3>3. QED BY <1>1, <3>1, <3>2, OrdinalsFact DEF Ordinals
  <2>3. QED BY <1>1, <1>2, <1>5, <2>1, <2>2 DEF RowsFollowRun
<1>7. FencesFollowRun(t)
  <2>1. \A m \in Ordinals : m # n => t.row[m].fence <= s.fence /\ t.row[m].fence \in Nat
    BY <1>4 DEF StoreOK, FencesFollowRun, Run, Row
  <2>2. \A m \in Ordinals : t.row[m].fence <= t.fence
    BY <1>1, <1>2, <1>5, <2>1
  <2>3. ASSUME NEW m \in Ordinals, NEW k \in Ordinals, m < k, k <= n
        PROVE  t.row[m].fence < t.row[k].fence
    <3>1. CASE k = n
      BY <1>1, <1>5, <2>1, <2>3, <3>1, OrdinalsFact DEF Ordinals
    <3>2. CASE k # n
      BY <1>1, <1>4, <2>3, <3>2, OrdinalsFact DEF StoreOK, FencesFollowRun, Ordinals
    <3>3. QED BY <3>1, <3>2
  <2>4. QED BY <1>2, <1>5, <2>2, <2>3 DEF FencesFollowRun
<1>8. BudgetKept(t)
  BY <1>2 DEF BudgetKept, BudgetLeft, NextOrdinal, EffectiveMaxAttempts
<1>9. EvidenceKept(t)
  BY <1>4, <1>5 DEF StoreOK, EvidenceKept
<1>10. QED BY <1>3, <1>6, <1>7, <1>8, <1>9 DEF StoreOK

\* A transaction that closes or parks the last attempt: it may raise the fence
\* of the run, never the fence of the row, and the two states stay compatible.
LEMMA UpdateRowOK ==
  ASSUME NEW s \in Run, StoreOK(s), s.state # "queued", s.attempts > 0,
         NEW st \in RunStates \ {"queued"}, NEW f \in Nat, f >= s.fence,
         NEW r \in Row, r.state # "absent", r.fence = s.row[s.attempts].fence,
         \/ r.state = st
         \/ r.state = "interrupted" /\ st \in {"retry_pending", "human_required"},
         st \in OpenStates => r.fence = f,
         r.final <=> r.state = "verified"
  PROVE  UpdateRow(s, s.attempts, st, f, r) \in Run
         /\ StoreOK(UpdateRow(s, s.attempts, st, f, r))
<1> DEFINE n == s.attempts
           t == UpdateRow(s, n, st, f, r)
<1>1. n \in Ordinals /\ n \in Nat /\ s.fence \in Nat
  BY OrdinalsFact DEF Run, Ordinals
<1>2. /\ t.state = st /\ t.attempts = n /\ t.fence = f
      /\ t.ceiling = s.ceiling /\ t.binding = s.binding
      /\ t.row = [s.row EXCEPT ![n] = r]
  BY DEF UpdateRow, Run
<1>3. t \in Run
  <2>1. [s.row EXCEPT ![n] = r] \in [Ordinals -> Row]
    BY DEF Run
  <2>2. QED BY <2>1 DEF UpdateRow, Run
<1>4. (\A m \in Ordinals : m # n => t.row[m] = s.row[m]) /\ t.row[n] = r
  BY <1>1, <1>2 DEF Run
<1>5. RowsFollowRun(t)
  <2>1. \A m \in Ordinals : t.row[m].state = "absent" <=> m > n
    BY <1>1, <1>4, OrdinalsFact DEF StoreOK, RowsFollowRun
  <2>2. \A m \in Ordinals : m < n => t.row[m].state \in {"retry_pending", "interrupted"}
    BY <1>1, <1>4, OrdinalsFact DEF StoreOK, RowsFollowRun
  <2>3. QED BY <1>1, <1>2, <1>4, <2>1, <2>2 DEF RowsFollowRun
<1>6. FencesFollowRun(t)
  <2>1. \A m \in Ordinals : t.row[m].fence = s.row[m].fence /\ t.row[m].fence \in Nat
    BY <1>4 DEF Run, Row
  <2>2. \A m \in Ordinals : t.row[m].fence <= t.fence
    BY <1>1, <1>2, <2>1 DEF StoreOK, FencesFollowRun
  <2>3. QED BY <1>2, <1>4, <2>1, <2>2 DEF StoreOK, FencesFollowRun
<1>7. BudgetKept(t)
  BY <1>2 DEF StoreOK, BudgetKept
<1>8. EvidenceKept(t)
  BY <1>4 DEF StoreOK, EvidenceKept
<1>9. QED BY <1>3, <1>5, <1>6, <1>7, <1>8 DEF StoreOK

\* A run without budget is handed to a human; its rows stay.
LEMMA ExhaustBudgetOK ==
  ASSUME NEW s \in Run, StoreOK(s), s.state \in Executable
  PROVE  ExhaustBudget(s) \in Run /\ StoreOK(ExhaustBudget(s))
<1> DEFINE t == ExhaustBudget(s)
<1>1. /\ t.state = "human_required" /\ t.attempts = s.attempts /\ t.fence = s.fence
      /\ t.row = s.row /\ t.binding = s.binding /\ t.ceiling = s.ceiling
  BY DEF ExhaustBudget, Run
<1>2. t \in Run
  BY DEF ExhaustBudget, Run, RunStates, Settled
<1>3. RowsFollowRun(t)
  <2>1. s.attempts > 0 => s.state = "retry_pending"
    BY DEF StoreOK, RowsFollowRun, Executable, Run
  <2>2. QED BY <1>1, <2>1 DEF StoreOK, RowsFollowRun
<1>4. FencesFollowRun(t) /\ BudgetKept(t) /\ EvidenceKept(t)
  BY <1>1 DEF StoreOK, FencesFollowRun, BudgetKept, EvidenceKept, OpenStates
<1>5. QED BY <1>2, <1>3, <1>4 DEF StoreOK

\* The open attempt is the last one, so the fence check names its ordinal.
LEMMA RunningRowIsLast ==
  ASSUME NEW s \in Run, StoreOK(s), NEW n \in Ordinals, s.row[n].state = "running"
  PROVE  n = s.attempts /\ s.attempts > 0
BY OrdinalsFact DEF StoreOK, RowsFollowRun, Run, Ordinals

\* finish_attempt closes the attempt whose fence it holds.
LEMMA FinishAttemptOK ==
  ASSUME NEW s \in Run, StoreOK(s), NEW n \in Ordinals, NEW fence \in Nat,
         HoldsFence(s, n, fence),
         NEW st \in {"retry_pending", "stopped", "human_required"}, NEW rc \in Receipt
  PROVE  FinishAttempt(s, n, st, rc) \in Run /\ StoreOK(FinishAttempt(s, n, st, rc))
<1> DEFINE r == [s.row[n] EXCEPT !.state = st, !.receipt = rc]
<1>1. n = s.attempts /\ s.attempts > 0 /\ s.row[n] \in Row /\ s.fence \in Nat /\ s.state = "running"
  BY RunningRowIsLast DEF HoldsFence, Run
<1>2. r \in Row /\ r.state = st /\ r.fence = s.row[n].fence /\ r.final = s.row[n].final
  BY <1>1 DEF Row, AttemptStates, Settled, Receipts
<1>3. ~s.row[n].final
  BY DEF HoldsFence, StoreOK, EvidenceKept
<1>4. st \in RunStates \ {"queued"} /\ st \notin OpenStates /\ st # "verified" /\ st # "absent"
  BY DEF RunStates, Settled, Executable, OpenStates
<1> HIDE DEF r
<1>5. UpdateRow(s, s.attempts, st, s.fence, r) \in Run
      /\ StoreOK(UpdateRow(s, s.attempts, st, s.fence, r))
  BY <1>1, <1>2, <1>3, <1>4, UpdateRowOK
<1>6. QED BY <1>1, <1>5 DEF FinishAttempt, r

\* finish_attempt_with_delivery_result verifies and stores the evidence at once.
LEMMA FinishAttemptWithDeliveryOK ==
  ASSUME NEW s \in Run, StoreOK(s), NEW n \in Ordinals, NEW fence \in Nat,
         HoldsFence(s, n, fence), NEW rc \in Receipt
  PROVE  FinishAttemptWithDelivery(s, n, rc) \in Run
         /\ StoreOK(FinishAttemptWithDelivery(s, n, rc))
<1> DEFINE r == [s.row[n] EXCEPT !.state = "verified", !.receipt = rc, !.final = TRUE]
<1>1. n = s.attempts /\ s.attempts > 0 /\ s.row[n] \in Row /\ s.fence \in Nat /\ s.state = "running"
  BY RunningRowIsLast DEF HoldsFence, Run
<1>2. r \in Row /\ r.state = "verified" /\ r.fence = s.row[n].fence /\ r.final
  BY <1>1 DEF Row, AttemptStates, Settled, Receipts
<1>3. "verified" \in RunStates \ {"queued"} /\ "verified" \notin OpenStates
  BY DEF RunStates, Settled, Executable, OpenStates
<1> HIDE DEF r
<1>4. UpdateRow(s, s.attempts, "verified", s.fence, r) \in Run
      /\ StoreOK(UpdateRow(s, s.attempts, "verified", s.fence, r))
  BY <1>1, <1>2, <1>3, UpdateRowOK
<1>5. QED BY <1>1, <1>4 DEF FinishAttemptWithDelivery, r

\* Reconciliation finds exactly the open attempt.
LEMMA ReconcileOrdinalIsLast ==
  ASSUME NEW s \in Run, StoreOK(s), CanReconcile(s)
  PROVE  /\ ReconcileOrdinal(s) = s.attempts
         /\ s.attempts \in Ordinals
         /\ s.attempts > 0
         /\ s.row[s.attempts].state = "running"
<1>1. PICK n \in Ordinals : s.row[n].state = "running"
  BY DEF CanReconcile, RunningOrdinals
<1>2. n = s.attempts /\ s.attempts > 0
  BY <1>1, RunningRowIsLast
<1>3. RunningOrdinals(s) = {s.attempts}
  BY <1>1, <1>2, RunningRowIsLast DEF RunningOrdinals
<1>4. s.attempts <= s.attempts
  BY <1>1, <1>2, OrdinalsFact
<1>5. ReconcileOrdinal(s) = s.attempts
  BY <1>3, <1>4 DEF ReconcileOrdinal
<1>6. QED BY <1>1, <1>2, <1>5

\* _reconcile_expired_run raises the fence above the row it closes.
LEMMA ReconcileOK ==
  ASSUME NEW s \in Run, StoreOK(s), CanReconcile(s), NEW files \in [Ordinals -> Receipts]
  PROVE  Reconcile(s, files) \in Run /\ StoreOK(Reconcile(s, files))
<1> DEFINE n == s.attempts
           st == CASE files[n].exit = "zero" -> "human_required"
                   [] files[n].exit = "nonzero" -> AfterFailure(s, n)
                   [] OTHER -> "retry_pending"
           r == IF files[n].exit \in {"zero", "nonzero"}
                THEN [s.row[n] EXCEPT !.state = st, !.receipt = files[n]]
                ELSE [s.row[n] EXCEPT !.state = "interrupted"]
<1>1. /\ ReconcileOrdinal(s) = n /\ n \in Ordinals /\ n > 0
      /\ s.row[n].state = "running" /\ s.row[n] \in Row /\ s.fence \in Nat
      /\ s.state = "running" /\ files[n] \in Receipts
  BY ReconcileOrdinalIsLast DEF CanReconcile, Run
<1>2. st \in {"human_required", "stopped", "retry_pending"}
      /\ (files[n].exit \notin {"zero", "nonzero"} => st = "retry_pending")
  BY DEF AfterFailure
<1>3. st \in RunStates \ {"queued"} /\ st \notin OpenStates /\ st \notin {"verified", "absent"}
      /\ st \in AttemptStates
  BY <1>2 DEF RunStates, Settled, Executable, OpenStates, AttemptStates
<1>4. ~s.row[n].final
  BY <1>1 DEF StoreOK, EvidenceKept
<1>5. /\ r \in Row /\ r.fence = s.row[n].fence /\ ~r.final /\ r.state \notin {"verified", "absent"}
      /\ \/ r.state = st
         \/ r.state = "interrupted" /\ st = "retry_pending"
  <2>1. CASE files[n].exit \in {"zero", "nonzero"}
    <3> HIDE DEF st
    <3>1. r = [s.row[n] EXCEPT !.state = st, !.receipt = files[n]]
      BY <2>1
    <3>2. QED BY <1>1, <1>3, <1>4, <3>1 DEF Row
  <2>2. CASE files[n].exit \notin {"zero", "nonzero"}
    <3> HIDE DEF st
    <3>1. r = [s.row[n] EXCEPT !.state = "interrupted"]
      BY <2>2
    <3>2. QED BY <1>1, <1>2, <1>4, <2>2, <3>1 DEF Row, AttemptStates
  <2>3. QED BY <2>1, <2>2
<1>6. Reconcile(s, files) = UpdateRow(s, n, st, s.fence + 1, r)
  BY <1>1 DEF Reconcile
<1>7. s.fence + 1 \in Nat /\ s.fence + 1 >= s.fence
  BY <1>1
<1> HIDE DEF st, r
<1>8. QED BY <1>1, <1>3, <1>5, <1>6, <1>7, UpdateRowOK

\* The store's own forms of "this attempt waits for an answer from outside".
LEMMA ParkExternalVerdictOK ==
  ASSUME NEW s \in Run, StoreOK(s), NEW n \in Ordinals, NEW fence \in Nat,
         HoldsFence(s, n, fence), NEW rc \in Receipt
  PROVE  ParkExternalVerdict(s, n, rc) \in Run /\ StoreOK(ParkExternalVerdict(s, n, rc))
<1> DEFINE st == "awaiting_external_verdict"
           r == [s.row[n] EXCEPT !.state = st, !.receipt = rc]
<1>1. n = s.attempts /\ s.attempts > 0 /\ s.row[n] \in Row /\ s.fence \in Nat
      /\ s.state = "running" /\ s.row[n].fence = s.fence
  BY RunningRowIsLast DEF HoldsFence, Run
<1>2. r \in Row /\ r.state = st /\ r.fence = s.fence /\ r.final = s.row[n].final
  BY <1>1 DEF Row, AttemptStates, Receipts
<1>3. ~s.row[n].final
  BY DEF HoldsFence, StoreOK, EvidenceKept
<1>4. st \in RunStates \ {"queued"} /\ st # "verified" /\ st # "absent"
  BY DEF RunStates
<1>5. ParkExternalVerdict(s, n, rc) = UpdateRow(s, s.attempts, st, s.fence, r)
  BY <1>1 DEF ParkExternalVerdict, FinishAttempt
<1> HIDE DEF r, st
<1>6. UpdateRow(s, s.attempts, st, s.fence, r) \in Run
      /\ StoreOK(UpdateRow(s, s.attempts, st, s.fence, r))
  BY <1>1, <1>2, <1>3, <1>4, UpdateRowOK
<1>7. QED BY <1>5, <1>6

\* A parked run is parked in its last row and in no other.
LEMMA ParkedRowIsLast ==
  ASSUME NEW s \in Run, StoreOK(s), IsParked(s)
  PROVE  /\ s.attempts \in Ordinals /\ s.attempts > 0
         /\ \A n \in Ordinals : s.row[n].state = "awaiting_external_verdict" <=> n = s.attempts
<1>1. s.attempts > 0 /\ s.attempts \in Ordinals
  BY OrdinalsFact DEF StoreOK, RowsFollowRun, IsParked, Run, Ordinals
<1>2. s.row[s.attempts].state = "awaiting_external_verdict"
  BY <1>1 DEF StoreOK, RowsFollowRun, IsParked
<1>3. ASSUME NEW n \in Ordinals, n # s.attempts
      PROVE  s.row[n].state # "awaiting_external_verdict"
  <2>1. CASE n < s.attempts
    BY <2>1 DEF StoreOK, RowsFollowRun
  <2>2. CASE n > s.attempts
    BY <2>2 DEF StoreOK, RowsFollowRun
  <2>3. QED BY <1>1, <1>3, <2>1, <2>2, OrdinalsFact
<1>4. QED BY <1>1, <1>2, <1>3

\* resolve_external_verdict updates the parked rows, which is one row.
LEMMA ResolveExternalVerdictOK ==
  ASSUME NEW s \in Run, StoreOK(s), IsParked(s), NEW st \in {"retry_pending", "human_required"}
  PROVE  ResolveExternalVerdict(s, st) \in Run /\ StoreOK(ResolveExternalVerdict(s, st))
<1> DEFINE n == s.attempts
           r == [s.row[n] EXCEPT !.state = st]
<1>1. n \in Ordinals /\ n > 0 /\ s.row[n] \in Row /\ s.fence \in Nat
      /\ s.row[n].state = "awaiting_external_verdict"
  BY ParkedRowIsLast DEF Run
<1>2. r \in Row /\ r.state = st /\ r.fence = s.row[n].fence /\ r.final = s.row[n].final
  BY <1>1 DEF Row, AttemptStates, Settled
<1>3. ~s.row[n].final
  BY <1>1 DEF StoreOK, EvidenceKept
<1>4. st \in RunStates \ {"queued"} /\ st \notin OpenStates /\ st # "verified" /\ st # "absent"
  BY DEF RunStates, Settled, Executable, OpenStates
<1>5. ResolveExternalVerdict(s, st) = UpdateRow(s, n, st, s.fence, r)
  <2>1. [m \in Ordinals |-> IF s.row[m].state = "awaiting_external_verdict"
                            THEN [s.row[m] EXCEPT !.state = st] ELSE s.row[m]]
        = [s.row EXCEPT ![n] = r]
    BY <1>1, ParkedRowIsLast DEF Run
  <2>2. QED BY <2>1 DEF ResolveExternalVerdict, UpdateRow, Run
<1>6. s.state # "queued"
  BY DEF IsParked
<1> HIDE DEF r
<1>7. QED BY <1>1, <1>2, <1>3, <1>4, <1>5, <1>6, UpdateRowOK

\* resolve_external_verdict_with_delivery verifies the parked attempt and stores
\* the final evidence at once.
LEMMA ResolveWithDeliveryOK ==
  ASSUME NEW s \in Run, StoreOK(s), CanResolveWithDelivery(s)
  PROVE  ResolveExternalVerdictWithDelivery(s) \in Run
         /\ StoreOK(ResolveExternalVerdictWithDelivery(s))
<1> DEFINE n == s.attempts
           r == [s.row[n] EXCEPT !.state = "verified", !.receipt = s.row[n].receipt, !.final = TRUE]
<1>1. n \in Ordinals /\ n > 0 /\ s.row[n] \in Row /\ s.fence \in Nat /\ s.state # "queued"
  BY ParkedRowIsLast DEF CanResolveWithDelivery, IsParked, Run
<1>2. r \in Row /\ r.state = "verified" /\ r.fence = s.row[n].fence /\ r.final
  BY <1>1 DEF Row, AttemptStates, Settled
<1>3. "verified" \in RunStates \ {"queued"} /\ "verified" \notin OpenStates
  BY DEF RunStates, Settled, Executable, OpenStates
<1>4. ResolveExternalVerdictWithDelivery(s) = UpdateRow(s, n, "verified", s.fence, r)
  BY DEF ResolveExternalVerdictWithDelivery, FinishAttemptWithDelivery
<1> HIDE DEF r
<1>5. QED BY <1>1, <1>2, <1>3, <1>4, UpdateRowOK

-----------------------------------------------------------------------------
\* The evidence flag of the abstract run, and what each transaction does to it.
Proof(s) == s.attempts > 0 /\ s.row[s.attempts].final

\* Evidence of the last attempt is exactly a verified run.
LEMMA ProofFact ==
  ASSUME NEW s \in Run, StoreOK(s)
  PROVE  Proof(s) <=> s.state = "verified"
<1>1. CASE s.attempts > 0
  <2>1. s.attempts \in Ordinals
    BY <1>1, OrdinalsFact DEF Run, Ordinals
  <2>2. s.row[s.attempts].final <=> s.row[s.attempts].state = "verified"
    BY <2>1 DEF StoreOK, EvidenceKept
  <2>3. s.row[s.attempts].state = "verified" <=> s.state = "verified"
    BY <1>1 DEF StoreOK, RowsFollowRun
  <2>4. QED BY <1>1, <2>2, <2>3 DEF Proof
<1>2. CASE ~(s.attempts > 0)
  <2>1. s.attempts = 0
    BY <1>2, OrdinalsFact DEF Run
  <2>2. s.state # "verified"
    BY <2>1 DEF StoreOK, RowsFollowRun
  <2>3. QED BY <1>2, <2>2 DEF Proof
<1>3. QED BY <1>1, <1>2
=============================================================================
