------------------------- MODULE RunLifecycleProofs -------------------------
(***************************************************************************)
(* RunLifecycle keeps its invariants, and implements RunContract, for any  *)
(* number of workers, any number of crashes and every attempt budget.      *)
(***************************************************************************)
EXTENDS RunLifecycle, RunStoreProofs

-----------------------------------------------------------------------------
\* The inductive invariant.

\* What a process inside tick may rely on, whatever the others have done.
WorkerOK(l, d, fs) ==
    /\ l.at = "ready" => d.binding = "green"
    /\ l.at \in InAttempt => /\ l.ordinal \in 1..d.attempts
                             /\ l.fence = d.row[l.ordinal].fence
    /\ l.at \in {"working", "computed"} =>
          /\ fs[l.ordinal] = NoReceipt
          /\ d.row[l.ordinal].receipt = NoReceipt
    /\ l.at \in InAttempt \ {"working"} => /\ l.receipt \in Receipt
                                           /\ l.receipt.fence = l.fence
    /\ l.at \in {"receipted", "committing", "fallback"} => fs[l.ordinal] = l.receipt
    /\ l.at \in {"computed", "receipted", "committing"} /\ l.outcome = "verified" =>
          l.receipt.exit = "zero"
    /\ l.at = "committing" => l.outcome = "verified"

FilesOK(d, fs) ==
    \A n \in Ordinals :
        /\ d.row[n].receipt # NoReceipt => d.row[n].receipt = fs[n]
        /\ n > d.attempts => fs[n] = NoReceipt /\ d.row[n].receipt = NoReceipt

VerifiedOK(d) ==
    d.state = "verified" => /\ d.row[d.attempts].receipt.exit = "zero"
                            /\ d.row[d.attempts].receipt.fence = d.row[d.attempts].fence

Distinct ==
    \A v, w \in Workers :
        Executing(v) /\ Executing(w) /\ v # w => worker[v].ordinal # worker[w].ordinal

Inv ==
    /\ TypeOK
    /\ StoreOK(db)
    /\ \A w \in Workers : WorkerOK(worker[w], db, files)
    /\ Distinct
    /\ FilesOK(db, files)
    /\ VerifiedOK(db)

-----------------------------------------------------------------------------
\* Lemmas.

LEMMA InitialInv == Init => Inv
<1> SUFFICES ASSUME Init PROVE Inv
  OBVIOUS
<1>1. PICK b \in Bindings : db = CreateRun(b)
  BY DEF Init
<1>2. db \in Run /\ StoreOK(db)
  BY <1>1, CreateRunOK
<1>3. TypeOK
  <2>1. AtRest \in Local
    BY OrdinalsFact DEF AtRest, Local, Steps, Outcomes, Settled, Receipts
  <2>2. QED BY <1>2, <2>1, MaxCrashesAssumption DEF Init, TypeOK, Receipts
<1>4. \A w \in Workers : WorkerOK(worker[w], db, files)
  BY DEF Init, AtRest, WorkerOK, InAttempt
<1>5. Distinct
  BY DEF Init, AtRest, Distinct, Executing, InAttempt
<1>6. FilesOK(db, files)
  BY <1>1 DEF Init, FilesOK, CreateRun, AbsentRow
<1>7. VerifiedOK(db)
  BY <1>1 DEF VerifiedOK, CreateRun
<1>8. QED BY <1>2, <1>3, <1>4, <1>5, <1>6, <1>7 DEF Inv

\* A step in which one process moves on and the store stays as it is.
LEMMA LocalStep ==
  ASSUME Inv, NEW w \in Workers, NEW l \in Local,
         db' = db, files' = files, worker' = [worker EXCEPT ![w] = l],
         lease' \in [holder: Workers \cup {Nobody, Gone}, live: BOOLEAN],
         crashes' \in 0..MaxCrashes,
         WorkerOK(l, db, files),
         l.at \in InAttempt => Executing(w) /\ l.ordinal = worker[w].ordinal
  PROVE  Inv'
<1>1. worker'[w] = l /\ \A v \in Workers : v # w => worker'[v] = worker[v]
  BY DEF Inv, TypeOK
<1>2. TypeOK'
  BY DEF Inv, TypeOK
<1>3. (\A v \in Workers : WorkerOK(worker[v], db, files))'
  BY <1>1 DEF Inv
<1>4. Distinct'
  BY <1>1 DEF Inv, Distinct, Executing
<1>5. FilesOK(db, files)' /\ VerifiedOK(db)' /\ StoreOK(db)'
  BY DEF Inv
<1>6. QED BY <1>2, <1>3, <1>4, <1>5 DEF Inv

\* A step that closes or reconciles the last attempt; it may record the receipt
\* on disk and nothing else.
LEMMA CommitStep ==
  ASSUME Inv, NEW w \in Workers, NEW st \in RunStates, NEW f \in Nat, NEW r \in Row,
         NEW step \in {"recovered", "releasing"},
         db.attempts \in Ordinals,
         db' = UpdateRow(db, db.attempts, st, f, r),
         db' \in Run, StoreOK(db'),
         r.fence = db.row[db.attempts].fence,
         r.receipt \in {db.row[db.attempts].receipt, files[db.attempts]},
         st = "verified" => r.receipt.exit = "zero" /\ r.receipt.fence = r.fence,
         files' = files, worker' = [worker EXCEPT ![w] = [@ EXCEPT !.at = step]],
         lease' \in [holder: Workers \cup {Nobody, Gone}, live: BOOLEAN],
         crashes' = crashes
  PROVE  Inv'
<1> DEFINE n == db.attempts
<1>0. db \in Run /\ worker \in [Workers -> Local] /\ n \in Nat
  BY OrdinalsFact DEF Inv, TypeOK
<1>1. /\ db'.state = st /\ db'.attempts = n /\ db'.binding = db.binding
      /\ db'.row = [db.row EXCEPT ![n] = r]
  BY <1>0 DEF UpdateRow, Run
<1>2. (\A m \in Ordinals : m # n => db'.row[m] = db.row[m]) /\ db'.row[n] = r
  BY <1>0, <1>1 DEF Run
<1>3. /\ worker'[w] = [worker[w] EXCEPT !.at = step]
      /\ worker'[w].at = step
      /\ \A v \in Workers : v # w => worker'[v] = worker[v]
  BY <1>0 DEF Local
<1>4. TypeOK'
  <2>1. [worker[w] EXCEPT !.at = step] \in Local
    BY <1>0 DEF Local, Steps
  <2>2. QED BY <1>0, <2>1 DEF Inv, TypeOK
<1>5. ASSUME NEW v \in Workers PROVE WorkerOK(worker[v], db, files)'
  <2>1. CASE v = w
    BY <1>3, <2>1 DEF WorkerOK, InAttempt
  <2>2. CASE v # w
    <3> DEFINE l == worker[v]
    <3>1. worker'[v] = l /\ l \in Local /\ WorkerOK(l, db, files)
      BY <1>0, <1>3, <2>2 DEF Inv
    <3>2. l.at \in InAttempt => l.ordinal \in Ordinals /\ l.ordinal \in 1..n
      BY <1>0, <3>1, OrdinalsFact DEF WorkerOK, Ordinals
    <3>3. l.at \in InAttempt => db'.row[l.ordinal].fence = db.row[l.ordinal].fence
      BY <1>2, <3>2
    <3>4. l.at \in {"working", "computed"} => db'.row[l.ordinal].receipt = NoReceipt
      BY <1>2, <3>1, <3>2 DEF WorkerOK, InAttempt
    <3>5. WorkerOK(l, db', files)
      BY <1>1, <3>1, <3>3, <3>4 DEF WorkerOK
    <3>6. QED BY <3>1, <3>5
  <2>3. QED BY <2>1, <2>2
<1>6. Distinct'
  BY <1>3 DEF Inv, Distinct, Executing, InAttempt
<1>7. FilesOK(db, files)'
  <2> SUFFICES ASSUME NEW m \in Ordinals
               PROVE  /\ db'.row[m].receipt # NoReceipt => db'.row[m].receipt = files[m]
                      /\ m > n => files[m] = NoReceipt /\ db'.row[m].receipt = NoReceipt
    BY <1>1 DEF FilesOK
  <2>1. CASE m = n
    BY <1>0, <1>2, <2>1 DEF Inv, FilesOK
  <2>2. CASE m # n
    BY <1>2, <2>2 DEF Inv, FilesOK
  <2>3. QED BY <2>1, <2>2
<1>8. VerifiedOK(db)'
  BY <1>1, <1>2 DEF VerifiedOK
<1>9. QED BY <1>4, <1>5, <1>6, <1>7, <1>8 DEF Inv

\* The worker whose fence check succeeds executes the last attempt.
LEMMA FenceHolderIsLast ==
  ASSUME Inv, NEW w \in Workers, Executing(w),
         HoldsFence(db, worker[w].ordinal, worker[w].fence)
  PROVE  /\ worker[w].ordinal = db.attempts
         /\ db.attempts \in Ordinals
         /\ worker[w].ordinal \in Ordinals
         /\ worker[w].fence = db.row[db.attempts].fence
         /\ worker[w].fence \in Nat
         /\ db.state = "running"
         /\ db.row[db.attempts].state = "running"
         /\ db.row[db.attempts] \in Row
<1>1. db \in Run /\ StoreOK(db) /\ worker[w] \in Local /\ WorkerOK(worker[w], db, files)
  BY DEF Inv, TypeOK
<1>2. worker[w].ordinal \in Ordinals /\ worker[w].fence \in Nat
      /\ worker[w].fence = db.row[worker[w].ordinal].fence
  BY <1>1, OrdinalsFact DEF WorkerOK, Executing, Local, Run, Ordinals
<1>3. worker[w].ordinal = db.attempts
  BY <1>1, <1>2, RunningRowIsLast DEF HoldsFence
<1>4. QED BY <1>1, <1>2, <1>3 DEF HoldsFence, Run

\* A process that only moves to a step outside an attempt.
LEMMA GotoStep ==
  ASSUME Inv, NEW w \in Workers, NEW step \in Steps \ InAttempt, step # "ready",
         db' = db, files' = files, Goto(w, step), crashes' = crashes,
         lease' \in [holder: Workers \cup {Nobody, Gone}, live: BOOLEAN]
  PROVE  Inv'
<1> DEFINE l == [worker[w] EXCEPT !.at = step]
<1>1. worker[w] \in Local /\ crashes \in 0..MaxCrashes
  BY DEF Inv, TypeOK
<1>2. l \in Local /\ l.at = step
  BY <1>1 DEF Local
<1>3. WorkerOK(l, db, files) /\ l.at \notin InAttempt
  BY <1>2 DEF WorkerOK, InAttempt, Steps
<1>4. worker' = [worker EXCEPT ![w] = l]
  BY DEF Goto
<1> HIDE DEF l
<1>5. QED BY <1>1, <1>2, <1>3, <1>4, LocalStep

\* A process that is reset to rest.
LEMMA RestStep ==
  ASSUME Inv, NEW w \in Workers, db' = db, files' = files,
         worker' = [worker EXCEPT ![w] = AtRest], crashes' \in 0..MaxCrashes,
         lease' \in [holder: Workers \cup {Nobody, Gone}, live: BOOLEAN]
  PROVE  Inv'
<1>1. AtRest \in Local /\ WorkerOK(AtRest, db, files) /\ AtRest.at \notin InAttempt
  BY OrdinalsFact DEF AtRest, Local, Steps, Outcomes, Settled, Receipts, WorkerOK, InAttempt
<1>2. QED BY <1>1, LocalStep

-----------------------------------------------------------------------------
\* Entering the tick.

LEMMA RecoverStaleRunInv == ASSUME Inv, NEW w \in Workers, RecoverStaleRun(w) PROVE Inv'
<1>1. "recovered" \in Steps \ InAttempt
  BY DEF Steps, InAttempt
<1>2. lease' \in [holder: Workers \cup {Nobody, Gone}, live: BOOLEAN]
  <2>1. lease' = lease \/ lease' = [holder |-> Nobody, live |-> FALSE]
    BY DEF RecoverStaleRun
  <2>2. lease \in [holder: Workers \cup {Nobody, Gone}, live: BOOLEAN]
    BY DEF Inv, TypeOK
  <2>3. [holder |-> Nobody, live |-> FALSE] \in [holder: Workers \cup {Nobody, Gone}, live: BOOLEAN]
    OBVIOUS
  <2>4. CASE lease' = lease
    BY <2>2, <2>4
  <2>5. CASE lease' = [holder |-> Nobody, live |-> FALSE]
    BY <2>3, <2>5
  <2>6. QED BY <2>1, <2>4, <2>5
<1>3. CASE ~(CanReconcile(db) /\ ~lease.live)
  BY <1>1, <1>2, <1>3, GotoStep DEF RecoverStaleRun
<1>4. CASE CanReconcile(db) /\ ~lease.live
  <2> DEFINE n == db.attempts
             st == CASE files[n].exit = "zero" -> "human_required"
                     [] files[n].exit = "nonzero" -> AfterFailure(db, n)
                     [] OTHER -> "retry_pending"
             r == IF files[n].exit \in {"zero", "nonzero"}
                  THEN [db.row[n] EXCEPT !.state = st, !.receipt = files[n]]
                  ELSE [db.row[n] EXCEPT !.state = "interrupted"]
  <2>1. db \in Run /\ StoreOK(db) /\ files \in [Ordinals -> Receipts]
    BY DEF Inv, TypeOK
  <2>2. /\ ReconcileOrdinal(db) = n /\ n \in Ordinals
        /\ db.row[n] \in Row /\ db.fence \in Nat /\ files[n] \in Receipts
    BY <1>4, <2>1, ReconcileOrdinalIsLast DEF Run
  <2>3. db' = UpdateRow(db, n, st, db.fence + 1, r)
    BY <1>4, <2>2 DEF RecoverStaleRun, Reconcile
  <2>4. db' \in Run /\ StoreOK(db')
    BY <1>4, <2>1, ReconcileOK DEF RecoverStaleRun
  <2>5. st \in RunStates /\ st \in AttemptStates /\ st # "verified"
    BY DEF AfterFailure, RunStates, AttemptStates, Settled, Executable
  <2>6. r \in Row /\ r.fence = db.row[n].fence /\ r.receipt \in {db.row[n].receipt, files[n]}
    <3>1. CASE files[n].exit \in {"zero", "nonzero"}
      <4> HIDE DEF st
      <4>1. r = [db.row[n] EXCEPT !.state = st, !.receipt = files[n]]
        BY <3>1
      <4>2. QED BY <2>2, <2>5, <4>1 DEF Row
    <3>2. CASE files[n].exit \notin {"zero", "nonzero"}
      <4> HIDE DEF st
      <4>1. r = [db.row[n] EXCEPT !.state = "interrupted"]
        BY <3>2
      <4>2. QED BY <2>2, <4>1 DEF Row, AttemptStates
    <3>3. QED BY <3>1, <3>2
  <2>7. /\ files' = files /\ crashes' = crashes
        /\ worker' = [worker EXCEPT ![w] = [@ EXCEPT !.at = "recovered"]]
    BY DEF RecoverStaleRun, Goto
  <2>8. db.fence + 1 \in Nat
    BY <2>2
  <2> HIDE DEF st, r
  <2>9. QED BY <1>2, <2>2, <2>3, <2>4, <2>5, <2>6, <2>7, <2>8, CommitStep
<1>5. QED BY <1>3, <1>4

LEMMA AcquireLeaseInv == ASSUME Inv, NEW w \in Workers, AcquireLease(w) PROVE Inv'
<1>1. "idle" \in Steps \ InAttempt /\ "leased" \in Steps \ InAttempt
  BY DEF Steps, InAttempt
<1>2. lease' \in [holder: Workers \cup {Nobody, Gone}, live: BOOLEAN]
  <2>1. lease' = lease \/ lease' = [holder |-> w, live |-> TRUE]
    BY DEF AcquireLease
  <2>2. lease \in [holder: Workers \cup {Nobody, Gone}, live: BOOLEAN]
    BY DEF Inv, TypeOK
  <2>3. [holder |-> w, live |-> TRUE] \in [holder: Workers \cup {Nobody, Gone}, live: BOOLEAN]
    OBVIOUS
  <2>4. CASE lease' = lease
    BY <2>2, <2>4
  <2>5. CASE lease' = [holder |-> w, live |-> TRUE]
    BY <2>3, <2>5
  <2>6. QED BY <2>1, <2>4, <2>5
<1>3. QED BY <1>1, <1>2, GotoStep DEF AcquireLease

LEMMA ReadRunInv == ASSUME Inv, NEW w \in Workers, ReadRun(w) PROVE Inv'
<1>1. "runnable" \in Steps \ InAttempt /\ "releasing" \in Steps \ InAttempt
  BY DEF Steps, InAttempt
<1>2. lease' \in [holder: Workers \cup {Nobody, Gone}, live: BOOLEAN]
  BY DEF ReadRun, Inv, TypeOK
<1>3. QED BY <1>1, <1>2, GotoStep DEF ReadRun

\* A step that leaves the rows and the receipts and starts no execution.
LEMMA QuietStep ==
  ASSUME Inv, NEW w \in Workers, NEW step \in Steps \ InAttempt,
         step = "ready" => db'.binding = "green",
         db' \in Run, StoreOK(db'), db'.attempts = db.attempts, db'.row = db.row,
         db.binding = "green" => db'.binding = "green",
         db'.state = "verified" => db.state = "verified",
         Goto(w, step), UNCHANGED <<lease, files, crashes>>
  PROVE  Inv'
<1>0. worker \in [Workers -> Local]
  BY DEF Inv, TypeOK
<1>1. /\ worker'[w] = [worker[w] EXCEPT !.at = step]
      /\ \A v \in Workers : v # w => worker'[v] = worker[v]
  BY <1>0 DEF Goto
<1>2. worker'[w].at = step /\ worker'[w] \in Local
  BY <1>0, <1>1 DEF Local
<1>3. TypeOK'
  BY <1>0, <1>1, <1>2 DEF Inv, TypeOK, Goto
<1>4. ASSUME NEW v \in Workers PROVE WorkerOK(worker[v], db, files)'
  <2>1. CASE v = w
    BY <1>2, <2>1 DEF WorkerOK, InAttempt, Steps
  <2>2. CASE v # w
    <3>1. worker'[v] = worker[v] /\ WorkerOK(worker[v], db, files)
      BY <1>1, <2>2 DEF Inv
    <3>2. WorkerOK(worker[v], db', files)
      BY <3>1 DEF WorkerOK
    <3>3. QED BY <3>1, <3>2
  <2>3. QED BY <2>1, <2>2
<1>5. Distinct'
  <2>1. \A v \in Workers : Executing(v)' => Executing(v) /\ worker'[v] = worker[v]
    BY <1>1, <1>2 DEF Executing
  <2>2. QED BY <2>1 DEF Inv, Distinct
<1>6. FilesOK(db, files)' /\ VerifiedOK(db)'
  BY DEF Inv, FilesOK, VerifiedOK
<1>7. QED BY <1>3, <1>4, <1>5, <1>6 DEF Inv

\* Binding a contract concerns no process that executes: nothing has begun.
LEMMA BindStep ==
  ASSUME Inv, NEW w \in Workers, NEW step \in {"ready", "releasing"}, db.binding # "green",
         db' = BindContract(db), Goto(w, step), UNCHANGED <<lease, files, crashes>>
  PROVE  Inv'
<1>1. db \in Run /\ StoreOK(db)
  BY DEF Inv, TypeOK
<1>2. db' \in Run /\ StoreOK(db')
  BY <1>1, BindContractOK
<1>3. db'.state = db.state /\ db'.attempts = db.attempts /\ db'.row = db.row /\ db'.binding = "green"
  BY <1>1 DEF BindContract, Run
<1>4. step \in Steps \ InAttempt
  BY DEF Steps, InAttempt
<1>5. QED BY <1>2, <1>3, <1>4, QuietStep

LEMMA PreflightInv == ASSUME Inv, NEW w \in Workers, Preflight(w) PROVE Inv'
<1>0. "releasing" \in Steps \ InAttempt /\ lease \in [holder: Workers \cup {Nobody, Gone}, live: BOOLEAN]
  BY DEF Steps, InAttempt, Inv, TypeOK
<1>1. CASE db.binding = "green" /\ Goto(w, "ready") /\ UNCHANGED db
  <2> DEFINE l == [worker[w] EXCEPT !.at = "ready"]
  <2>1. worker[w] \in Local /\ crashes \in 0..MaxCrashes
    BY DEF Inv, TypeOK
  <2>2. l \in Local /\ l.at = "ready"
    BY <2>1 DEF Local, Steps
  <2>3. WorkerOK(l, db, files) /\ l.at \notin InAttempt
    BY <1>1, <2>2 DEF WorkerOK, InAttempt
  <2>4. worker' = [worker EXCEPT ![w] = l] /\ UNCHANGED <<db, lease, files, crashes>>
    BY <1>1 DEF Goto, Preflight
  <2> HIDE DEF l
  <2>5. QED BY <1>0, <2>1, <2>2, <2>3, <2>4, LocalStep
<1>2. CASE db.binding = "bindable" /\ db' = BindContract(db) /\ Goto(w, "ready")
  BY <1>2, BindStep DEF Preflight
<1>3. CASE CanReplan(db, 0) /\ db' = BindContract(db) /\ Goto(w, "releasing")
  BY <1>3, BindStep DEF Preflight, CanReplan
<1>4. CASE UNCHANGED db /\ Goto(w, "releasing")
  BY <1>0, <1>4, GotoStep DEF Preflight
<1>5. QED BY <1>1, <1>2, <1>3, <1>4 DEF Preflight

LEMMA VerifierUnreadyInv == ASSUME Inv, NEW w \in Workers, VerifierUnready(w) PROVE Inv'
<1>1. "releasing" \in Steps \ InAttempt
  BY DEF Steps, InAttempt
<1>2. lease' \in [holder: Workers \cup {Nobody, Gone}, live: BOOLEAN]
  BY DEF VerifierUnready, Inv, TypeOK
<1>3. QED BY <1>1, <1>2, GotoStep DEF VerifierUnready

\* begin_attempt gives out an ordinal and a fence nobody else has.
LEMMA BeginInv == ASSUME Inv, NEW w \in Workers, Begin(w) PROVE Inv'
<1>0. /\ db \in Run /\ StoreOK(db) /\ worker \in [Workers -> Local] /\ db.binding = "green"
      /\ files \in [Ordinals -> Receipts]
  BY DEF Inv, TypeOK, Begin, At, WorkerOK
<1>1. CASE ~(db.state \in Executable /\ BudgetLeft(db))
  <2>1. db' \in Run /\ StoreOK(db')
    BY <1>0, <1>1, ExhaustBudgetOK DEF Begin
  <2>2. db'.attempts = db.attempts /\ db'.row = db.row /\ db'.binding = db.binding
        /\ (db'.state = db.state \/ db'.state = "human_required")
    BY <1>0, <1>1 DEF Begin, ExhaustBudget, Run
  <2>3. "releasing" \in Steps \ InAttempt /\ Goto(w, "releasing")
        /\ UNCHANGED <<lease, files, crashes>>
    BY <1>1 DEF Begin, Steps, InAttempt
  <2>4. QED BY <2>1, <2>2, <2>3, QuietStep
<1>2. CASE db.state \in Executable /\ BudgetLeft(db)
  <2> DEFINE n == db.attempts + 1
  <2>1. db' = BeginAttempt(db) /\ db' \in Run /\ StoreOK(db')
    BY <1>0, <1>2, BeginAttemptOK DEF Begin
  <2>2. n \in Ordinals /\ n \in Nat /\ db.attempts \in Nat /\ db.fence + 1 \in Nat
    BY <1>0, <1>2, OrdinalsFact DEF BudgetLeft, NextOrdinal, EffectiveMaxAttempts, Run, Ordinals
  <2>3. /\ db'.state = "running" /\ db'.attempts = n /\ db'.binding = db.binding
        /\ \A m \in Ordinals : m # n => db'.row[m] = db.row[m]
        /\ db'.row[n].fence = db.fence + 1 /\ db'.row[n].receipt = NoReceipt
    BY <1>0, <2>1, <2>2 DEF BeginAttempt, RunningRow, Run
  <2>4. /\ worker'[w] \in Local
        /\ worker'[w].at = "working" /\ worker'[w].ordinal = n /\ worker'[w].fence = db.fence + 1
        /\ \A v \in Workers : v # w => worker'[v] = worker[v]
    <3>1. worker' = [worker EXCEPT
                       ![w] = [worker[w] EXCEPT !.at = "working", !.ordinal = n,
                                                !.fence = db.fence + 1]]
      BY <1>2 DEF Begin, NextOrdinal
    <3>2. worker'[w] = [worker[w] EXCEPT !.at = "working", !.ordinal = n, !.fence = db.fence + 1]
          /\ \A v \in Workers : v # w => worker'[v] = worker[v]
      BY <1>0, <3>1
    <3>3. n \in 0..MaxAttempts /\ worker[w] \in Local /\ "working" \in Steps
      BY <1>0, <2>2, OrdinalsFact DEF Ordinals, Steps
    <3>4. QED BY <2>2, <3>2, <3>3 DEF Local
  <2>5. TypeOK'
    BY <1>0, <1>2, <2>1, <2>4 DEF Inv, TypeOK, Begin
  <2>6. ASSUME NEW v \in Workers PROVE WorkerOK(worker[v], db, files)'
    <3>1. CASE v = w
      <4>1. n \in 1..n /\ files[n] = NoReceipt
        BY <2>2 DEF Inv, FilesOK
      <4>2. QED BY <2>3, <2>4, <3>1, <4>1 DEF WorkerOK, InAttempt, Begin
    <3>2. CASE v # w
      <4> DEFINE l == worker[v]
      <4>1. worker'[v] = l /\ l \in Local /\ WorkerOK(l, db, files)
        BY <1>0, <2>4, <3>2 DEF Inv
      <4>2. l.at \in InAttempt =>
              l.ordinal \in Ordinals /\ l.ordinal \in 1..n /\ l.ordinal # n
        BY <2>2, <4>1, OrdinalsFact DEF WorkerOK, Ordinals
      <4>3. l.at \in InAttempt => db'.row[l.ordinal] = db.row[l.ordinal]
        BY <2>3, <4>2
      <4>4. WorkerOK(l, db', files)
        BY <2>3, <4>1, <4>2, <4>3 DEF WorkerOK, InAttempt
      <4>5. QED BY <4>1, <4>4 DEF Begin
    <3>3. QED BY <3>1, <3>2
  <2>7. Distinct'
    <3>1. \A v \in Workers : Executing(v) => worker[v].ordinal # n
      BY <1>0, <2>2 DEF Inv, WorkerOK, Executing
    <3>2. QED BY <2>4, <3>1 DEF Inv, Distinct, Executing
  <2>8. FilesOK(db, files)'
    BY <2>2, <2>3, OrdinalsFact DEF Inv, FilesOK, Begin
  <2>9. VerifiedOK(db)'
    BY <2>3 DEF VerifiedOK
  <2>10. QED BY <2>1, <2>5, <2>6, <2>7, <2>8, <2>9 DEF Inv
<1>3. QED BY <1>1, <1>2

-----------------------------------------------------------------------------
\* The attempt.

LEMMA ExecuteInv == ASSUME Inv, NEW w \in Workers, Execute(w) PROVE Inv'
<1>1. PICK v \in Verdicts(db, worker[w].ordinal) :
        worker' = [worker EXCEPT
                     ![w] = [worker[w] EXCEPT
                               !.at = "computed",
                               !.outcome = v.outcome,
                               !.receipt = [exit |-> v.exit, route |-> v.route,
                                            fence |-> worker[w].fence]]]
  BY DEF Execute
<1> DEFINE rc == [exit |-> v.exit, route |-> v.route, fence |-> worker[w].fence]
           l == [worker[w] EXCEPT !.at = "computed", !.outcome = v.outcome, !.receipt = rc]
<1>2. worker[w] \in Local /\ WorkerOK(worker[w], db, files) /\ worker[w].at = "working"
  BY DEF Inv, TypeOK, Execute, At
<1>3. /\ v.exit \in ExitCodes /\ v.route \in Routes /\ v.outcome \in Outcomes
      /\ v.outcome = "verified" => v.exit = "zero"
  BY DEF Verdicts, ExitCodes, Routes, Outcomes, Settled, AfterRedDelivery, AfterFailure
<1>4. rc \in Receipt /\ rc \in Receipts /\ rc.fence = worker[w].fence /\ rc.exit = v.exit
  BY <1>2, <1>3 DEF Receipt, Receipts, Local
<1> HIDE DEF rc
<1>5. /\ l \in Local /\ l.at = "computed" /\ l.outcome = v.outcome /\ l.receipt = rc
      /\ l.ordinal = worker[w].ordinal /\ l.fence = worker[w].fence
  BY <1>2, <1>3, <1>4 DEF Local, Steps
<1>6. worker' = [worker EXCEPT ![w] = l]
  BY <1>1 DEF rc
<1> HIDE DEF l
<1>7. WorkerOK(l, db, files)
  BY <1>2, <1>3, <1>4, <1>5 DEF WorkerOK, InAttempt
<1>8. Executing(w)
  BY <1>2 DEF Executing, InAttempt
<1>9. /\ UNCHANGED <<db, lease, files, crashes>>
      /\ lease' \in [holder: Workers \cup {Nobody, Gone}, live: BOOLEAN]
      /\ crashes' \in 0..MaxCrashes
  BY DEF Execute, Inv, TypeOK
<1>10. QED BY <1>5, <1>6, <1>7, <1>8, <1>9, LocalStep

\* The receipt lands in a file whose digest is not recorded yet, whoever owns
\* the run by now.
LEMMA WriteReceiptInv == ASSUME Inv, NEW w \in Workers, WriteReceipt(w) PROVE Inv'
<1> DEFINE n == worker[w].ordinal
           rc == worker[w].receipt
<1>1. /\ worker \in [Workers -> Local] /\ WorkerOK(worker[w], db, files)
      /\ worker[w].at = "computed" /\ db \in Run /\ files \in [Ordinals -> Receipts]
  BY DEF Inv, TypeOK, WriteReceipt, At
<1>2. /\ n \in 1..db.attempts /\ n \in Ordinals /\ db.row[n].receipt = NoReceipt
      /\ rc \in Receipt /\ rc.fence = worker[w].fence
  BY <1>1, OrdinalsFact DEF WorkerOK, InAttempt, Run, Ordinals
<1>3. /\ files' = [files EXCEPT ![n] = rc] /\ UNCHANGED <<db, lease, crashes>>
      /\ worker' = [worker EXCEPT ![w] = [worker[w] EXCEPT !.at = "receipted"]]
  BY DEF WriteReceipt, Goto
<1>4. /\ files'[n] = rc /\ \A m \in Ordinals : m # n => files'[m] = files[m]
      /\ files' \in [Ordinals -> Receipts]
  BY <1>1, <1>2, <1>3 DEF Receipts
<1>5. /\ worker'[w] = [worker[w] EXCEPT !.at = "receipted"]
      /\ \A v \in Workers : v # w => worker'[v] = worker[v]
  BY <1>1, <1>3
<1>6. /\ worker'[w].at = "receipted" /\ worker'[w].ordinal = n /\ worker'[w].receipt = rc
      /\ worker'[w].fence = worker[w].fence /\ worker'[w].outcome = worker[w].outcome
      /\ worker'[w] \in Local
  BY <1>1, <1>5 DEF Local, Steps
<1>7. TypeOK'
  BY <1>1, <1>3, <1>4, <1>6 DEF Inv, TypeOK
<1>8. ASSUME NEW v \in Workers PROVE WorkerOK(worker[v], db, files)'
  <2>1. CASE v = w
    BY <1>1, <1>2, <1>3, <1>4, <1>6, <2>1 DEF WorkerOK, InAttempt
  <2>2. CASE v # w
    <3>1. worker'[v] = worker[v] /\ WorkerOK(worker[v], db, files)
      BY <1>5, <2>2 DEF Inv
    <3>2. Executing(w)
      BY <1>1 DEF Executing, InAttempt
    <3>3. worker[v].at \in InAttempt => worker[v].ordinal \in Ordinals /\ worker[v].ordinal # n
      BY <1>1, <2>2, <3>1, <3>2, OrdinalsFact DEF Inv, Distinct, Executing, WorkerOK, Run, Ordinals
    <3>4. worker[v].at \in InAttempt => files'[worker[v].ordinal] = files[worker[v].ordinal]
      BY <1>4, <3>3
    <3>5. WorkerOK(worker[v], db, files')
      BY <3>1, <3>4 DEF WorkerOK, InAttempt
    <3>6. QED BY <1>3, <3>1, <3>5
  <2>3. QED BY <2>1, <2>2
<1>9. Distinct'
  <2>1. \A v \in Workers : Executing(v)' => Executing(v) /\ worker'[v].ordinal = worker[v].ordinal
    BY <1>1, <1>5, <1>6 DEF Executing, InAttempt
  <2>2. QED BY <2>1 DEF Inv, Distinct
<1>10. FilesOK(db, files)'
  <2>1. n <= db.attempts /\ db.attempts \in Nat
    BY <1>1, <1>2, OrdinalsFact DEF Run
  <2>2. ASSUME NEW m \in Ordinals
        PROVE  /\ db.row[m].receipt # NoReceipt => db.row[m].receipt = files'[m]
               /\ m > db.attempts => files'[m] = NoReceipt /\ db.row[m].receipt = NoReceipt
    <3>1. CASE m = n
      BY <1>2, <2>1, <3>1, OrdinalsFact DEF Ordinals
    <3>2. CASE m # n
      BY <1>4, <3>2 DEF Inv, FilesOK
    <3>3. QED BY <3>1, <3>2
  <2>3. QED BY <1>3, <2>2 DEF FilesOK
<1>11. VerifiedOK(db)' /\ StoreOK(db)'
  BY <1>3 DEF Inv, VerifiedOK
<1>12. QED BY <1>7, <1>8, <1>9, <1>10, <1>11 DEF Inv

LEMMA AbandonAttemptInv == ASSUME Inv, NEW w \in Workers, AbandonAttempt(w) PROVE Inv'
<1>1. "releasing" \in Steps \ InAttempt
  BY DEF Steps, InAttempt
<1>2. lease' \in [holder: Workers \cup {Nobody, Gone}, live: BOOLEAN]
  BY DEF AbandonAttempt, Inv, TypeOK
<1>3. QED BY <1>1, <1>2, GotoStep DEF AbandonAttempt

-----------------------------------------------------------------------------
\* Committing the outcome.

LEMMA CommitOutcomeInv ==
  ASSUME Inv, NEW w \in Workers, worker[w].at \in {"receipted", "fallback"},
         NEW st \in {"retry_pending", "stopped", "human_required"},
         CommitOutcome(w, st), UNCHANGED <<lease, files, crashes>>
  PROVE  Inv'
<1>0. "releasing" \in Steps \ InAttempt /\ Goto(w, "releasing")
      /\ lease' \in [holder: Workers \cup {Nobody, Gone}, live: BOOLEAN]
  BY DEF Steps, InAttempt, CommitOutcome, Inv, TypeOK
<1>1. CASE ~(ReceiptValid(w) /\ HoldsFence(db, worker[w].ordinal, worker[w].fence))
  BY <1>0, <1>1, GotoStep DEF CommitOutcome
<1>2. CASE ReceiptValid(w) /\ HoldsFence(db, worker[w].ordinal, worker[w].fence)
  <2> DEFINE n == db.attempts
             rc == worker[w].receipt
             r == [db.row[n] EXCEPT !.state = st, !.receipt = rc]
  <2>1. Executing(w)
    BY DEF Executing, InAttempt
  <2>2. /\ worker[w].ordinal = n /\ n \in Ordinals /\ worker[w].fence \in Nat
        /\ db.row[n] \in Row
    BY <1>2, <2>1, FenceHolderIsLast
  <2>3. /\ db \in Run /\ StoreOK(db) /\ rc \in Receipt /\ db.fence \in Nat
        /\ rc = files[n]
    BY <1>2, <2>2 DEF Inv, TypeOK, WorkerOK, InAttempt, Run, ReceiptValid
  <2>4. db' = FinishAttempt(db, n, st, rc)
    BY <1>2, <2>2 DEF CommitOutcome
  <2>5. db' \in Run /\ StoreOK(db')
    BY <1>2, <2>2, <2>3, <2>4, FinishAttemptOK
  <2>6. /\ r \in Row /\ r.fence = db.row[n].fence /\ r.receipt = files[n]
        /\ st \in RunStates /\ st # "verified"
    BY <2>2, <2>3 DEF Row, AttemptStates, RunStates, Settled, Executable, Receipts
  <2>7. db' = UpdateRow(db, n, st, db.fence, r)
    BY <2>4 DEF FinishAttempt
  <2>8. worker' = [worker EXCEPT ![w] = [@ EXCEPT !.at = "releasing"]]
    BY <1>0 DEF Goto
  <2> HIDE DEF r
  <2>9. QED BY <1>0, <2>2, <2>3, <2>5, <2>6, <2>7, <2>8, CommitStep
<1>3. QED BY <1>1, <1>2

LEMMA FinishInv == ASSUME Inv, NEW w \in Workers, Finish(w) PROVE Inv'
<1>1. worker[w].outcome \in {"retry_pending", "stopped", "human_required"}
  BY DEF Inv, TypeOK, Local, Outcomes, Settled, Finish
<1>2. QED BY <1>1, CommitOutcomeInv DEF Finish, At

LEMMA FinishRejectedDeliveryInv ==
  ASSUME Inv, NEW w \in Workers, FinishRejectedDelivery(w) PROVE Inv'
<1>1. AfterRedDelivery(db, worker[w].ordinal) \in {"retry_pending", "stopped", "human_required"}
  BY DEF AfterRedDelivery
<1>2. QED BY <1>1, CommitOutcomeInv DEF FinishRejectedDelivery, At

LEMMA CheckDeliveryInv == ASSUME Inv, NEW w \in Workers, CheckDelivery(w) PROVE Inv'
<1>0. /\ lease' \in [holder: Workers \cup {Nobody, Gone}, live: BOOLEAN]
      /\ UNCHANGED <<db, files, crashes>> /\ crashes' \in 0..MaxCrashes
      /\ worker[w] \in Local /\ WorkerOK(worker[w], db, files)
      /\ worker[w].at = "receipted" /\ worker[w].outcome = "verified"
  BY DEF CheckDelivery, At, Inv, TypeOK
<1>1. CASE Goto(w, "releasing")
  BY <1>0, <1>1, GotoStep DEF Steps, InAttempt
<1>2. ASSUME NEW step \in {"committing", "fallback"}, Goto(w, step) PROVE Inv'
  <2> DEFINE l == [worker[w] EXCEPT !.at = step]
  <2>1. /\ l \in Local /\ l.at = step /\ l.ordinal = worker[w].ordinal
        /\ l.fence = worker[w].fence /\ l.receipt = worker[w].receipt
        /\ l.outcome = worker[w].outcome
    BY <1>0 DEF Local, Steps
  <2>2. worker' = [worker EXCEPT ![w] = l]
    BY <1>2 DEF Goto
  <2> HIDE DEF l
  <2>3. WorkerOK(l, db, files)
    BY <1>0, <2>1 DEF WorkerOK, InAttempt
  <2>4. Executing(w)
    BY <1>0 DEF Executing, InAttempt
  <2>5. QED BY <1>0, <2>1, <2>2, <2>3, <2>4, LocalStep
<1>3. QED BY <1>1, <1>2 DEF CheckDelivery

LEMMA FinishWithDeliveryInv ==
  ASSUME Inv, NEW w \in Workers, FinishWithDelivery(w) PROVE Inv'
<1>0. "releasing" \in Steps \ InAttempt /\ Goto(w, "releasing")
      /\ lease' \in [holder: Workers \cup {Nobody, Gone}, live: BOOLEAN]
      /\ UNCHANGED <<files, crashes>>
  BY DEF Steps, InAttempt, FinishWithDelivery, Inv, TypeOK
<1>1. CASE ~HoldsFence(db, worker[w].ordinal, worker[w].fence)
  BY <1>0, <1>1, GotoStep DEF FinishWithDelivery
<1>2. CASE HoldsFence(db, worker[w].ordinal, worker[w].fence)
  <2> DEFINE n == db.attempts
             rc == worker[w].receipt
             r == [db.row[n] EXCEPT !.state = "verified", !.receipt = rc, !.final = TRUE]
  <2>1. Executing(w) /\ worker[w].at = "committing"
    BY DEF Executing, InAttempt, FinishWithDelivery, At
  <2>2. /\ worker[w].ordinal = n /\ n \in Ordinals /\ worker[w].fence \in Nat
        /\ db.row[n] \in Row /\ worker[w].fence = db.row[n].fence
    BY <1>2, <2>1, FenceHolderIsLast
  <2>3. /\ db \in Run /\ StoreOK(db) /\ db.fence \in Nat
        /\ rc \in Receipt /\ rc = files[n] /\ rc.exit = "zero" /\ rc.fence = db.row[n].fence
    BY <2>1, <2>2 DEF Inv, TypeOK, WorkerOK, InAttempt, Run
  <2>4. db' = FinishAttemptWithDelivery(db, n, rc)
    BY <1>2, <2>2 DEF FinishWithDelivery
  <2>5. db' \in Run /\ StoreOK(db')
    BY <1>2, <2>2, <2>3, <2>4, FinishAttemptWithDeliveryOK
  <2>6. r \in Row /\ r.fence = db.row[n].fence /\ r.receipt = rc /\ "verified" \in RunStates
    BY <2>2, <2>3 DEF Row, AttemptStates, RunStates, Settled, Executable, Receipts
  <2>7. db' = UpdateRow(db, n, "verified", db.fence, r)
    BY <2>4 DEF FinishAttemptWithDelivery
  <2>8. worker' = [worker EXCEPT ![w] = [@ EXCEPT !.at = "releasing"]]
    BY <1>0 DEF Goto
  <2> HIDE DEF r
  <2>9. QED BY <1>0, <2>2, <2>3, <2>5, <2>6, <2>7, <2>8, CommitStep
<1>3. QED BY <1>1, <1>2

-----------------------------------------------------------------------------
\* Leaving the tick, and the environment.

LEMMA ReleaseLeaseInv == ASSUME Inv, NEW w \in Workers, ReleaseLease(w) PROVE Inv'
<1>1. lease' \in [holder: Workers \cup {Nobody, Gone}, live: BOOLEAN]
  <2>1. lease' = lease \/ lease' = [holder |-> Nobody, live |-> FALSE]
    BY DEF ReleaseLease
  <2>2. lease \in [holder: Workers \cup {Nobody, Gone}, live: BOOLEAN]
    BY DEF Inv, TypeOK
  <2>3. [holder |-> Nobody, live |-> FALSE] \in [holder: Workers \cup {Nobody, Gone}, live: BOOLEAN]
    OBVIOUS
  <2>4. CASE lease' = lease
    BY <2>2, <2>4
  <2>5. CASE lease' = [holder |-> Nobody, live |-> FALSE]
    BY <2>3, <2>5
  <2>6. QED BY <2>1, <2>4, <2>5
<1>2. crashes' \in 0..MaxCrashes /\ UNCHANGED <<db, files>> /\ worker' = [worker EXCEPT ![w] = AtRest]
  BY DEF ReleaseLease, Inv, TypeOK
<1>3. QED BY <1>1, <1>2, RestStep

LEMMA CrashInv == ASSUME Inv, NEW w \in Workers, Crash(w) PROVE Inv'
<1>1. lease' \in [holder: Workers \cup {Nobody, Gone}, live: BOOLEAN]
  <2>1. lease \in [holder: Workers \cup {Nobody, Gone}, live: BOOLEAN]
    BY DEF Inv, TypeOK
  <2>2. [lease EXCEPT !.holder = Gone] \in [holder: Workers \cup {Nobody, Gone}, live: BOOLEAN]
    BY <2>1
  <2>3. CASE lease' = lease
    BY <2>1, <2>3
  <2>4. CASE lease' = [lease EXCEPT !.holder = Gone]
    BY <2>2, <2>4
  <2>5. QED BY <2>3, <2>4 DEF Crash
<1>2. crashes' \in 0..MaxCrashes
  BY MaxCrashesAssumption DEF Crash, Inv, TypeOK
<1>3. UNCHANGED <<db, files>> /\ worker' = [worker EXCEPT ![w] = AtRest]
  BY DEF Crash
<1>4. QED BY <1>1, <1>2, <1>3, RestStep

LEMMA LeaseExpiresInv == ASSUME Inv, LeaseExpires PROVE Inv'
<1>1. lease' \in [holder: Workers \cup {Nobody, Gone}, live: BOOLEAN]
  <2>1. lease \in [holder: Workers \cup {Nobody, Gone}, live: BOOLEAN]
    BY DEF Inv, TypeOK
  <2>2. [lease EXCEPT !.live = FALSE] \in [holder: Workers \cup {Nobody, Gone}, live: BOOLEAN]
    BY <2>1
  <2>3. QED BY <2>2 DEF LeaseExpires
<1>2. UNCHANGED <<db, files, worker, crashes>>
  BY DEF LeaseExpires
<1>3. TypeOK'
  BY <1>1, <1>2 DEF Inv, TypeOK
<1>4. (\A w \in Workers : WorkerOK(worker[w], db, files))' /\ Distinct'
  BY <1>2 DEF Inv, Distinct, Executing
<1>5. QED BY <1>2, <1>3, <1>4 DEF Inv

LEMMA NextInv == Inv /\ [Next]_vars => Inv'
<1> SUFFICES ASSUME Inv, [Next]_vars PROVE Inv'
  OBVIOUS
<1>1. ASSUME NEW w \in Workers, Tick(w) PROVE Inv'
  BY <1>1, RecoverStaleRunInv, AcquireLeaseInv, ReadRunInv, PreflightInv, BeginInv, ExecuteInv,
     WriteReceiptInv, FinishInv, CheckDeliveryInv, FinishWithDeliveryInv,
     FinishRejectedDeliveryInv, ReleaseLeaseInv DEF Tick
<1>2. ASSUME NEW w \in Workers, VerifierUnready(w) \/ AbandonAttempt(w) \/ Crash(w) PROVE Inv'
  BY <1>2, VerifierUnreadyInv, AbandonAttemptInv, CrashInv
<1>3. CASE LeaseExpires
  BY <1>3, LeaseExpiresInv
<1>4. CASE UNCHANGED vars
  BY <1>4 DEF vars, Inv, TypeOK, Distinct, Executing
<1>5. QED BY <1>1, <1>2, <1>3, <1>4 DEF Next

-----------------------------------------------------------------------------
\* The invariants of the safety run.

LEMMA InvIsInvariant == Spec => []Inv
BY InitialInv, NextInv, PTL DEF Spec

\* Every state the workers reach is typed.
THEOREM TypeCorrect == Spec => []TypeOK
<1>1. Inv => TypeOK
  BY DEF Inv
<1>2. QED BY <1>1, InvIsInvariant, PTL

\* The run row and the attempts rows never disagree.
THEOREM StoreAlwaysAgrees == Spec => []StoreAgrees
<1>1. Inv => StoreAgrees
  BY DEF Inv, StoreAgrees
<1>2. QED BY <1>1, InvIsInvariant, PTL

\* However many processes believe they execute, each holds an attempt of its
\* own, under the fence that attempt was begun with.
THEOREM AtMostOneCommitter == Spec => []OneCommitter
<1>1. Inv => OneCommitter
  BY DEF Inv, OneCommitter, Distinct, WorkerOK, Executing
<1>2. QED BY <1>1, InvIsInvariant, PTL

\* A recorded digest always matches the receipt on disk.
THEOREM DigestsStayValid == Spec => []ReceiptsMatchDigests
<1>1. Inv => ReceiptsMatchDigests
  BY DEF Inv, ReceiptsMatchDigests, FilesOK
<1>2. QED BY <1>1, InvIsInvariant, PTL

\* A verified run was verified by the process that began its last attempt.
THEOREM VerifiedIsOwn == Spec => []VerifiedByItsOwnAttempt
<1>1. ASSUME Inv, db.state = "verified"
      PROVE  /\ db.row[db.attempts].receipt.exit = "zero"
             /\ db.row[db.attempts].receipt.fence = db.row[db.attempts].fence
             /\ db.row[db.attempts].final
  <2>1. db \in Run /\ StoreOK(db) /\ VerifiedOK(db)
    BY <1>1 DEF Inv, TypeOK
  <2>2. db.attempts > 0
    BY <1>1, <2>1, OrdinalsFact DEF StoreOK, RowsFollowRun, Run
  <2>3. db.attempts \in Ordinals /\ db.row[db.attempts].state = "verified"
    BY <1>1, <2>1, <2>2, OrdinalsFact DEF StoreOK, RowsFollowRun, Run, Ordinals
  <2>4. QED BY <1>1, <2>1, <2>3 DEF VerifiedOK, StoreOK, EvidenceKept
<1>2. Inv => VerifiedByItsOwnAttempt
  BY <1>1 DEF VerifiedByItsOwnAttempt
<1>3. QED BY <1>2, InvIsInvariant, PTL

-----------------------------------------------------------------------------
\* Refinement of RunContract.

LEMMA ContractInit == Init => Contract!Init
<1> SUFFICES ASSUME Init PROVE Contract!Init
  OBVIOUS
<1>1. PICK b \in Bindings : db = CreateRun(b)
  BY DEF Init
<1>2. db.state = "queued" /\ db.attempts = 0
  BY <1>1 DEF CreateRun
<1>3. QED BY <1>2 DEF Contract!Init

\* A step that leaves state and attempts, or moves them as RunContract may.
LEMMA ContractStep ==
  ASSUME Inv, Inv',
         \/ db'.state = db.state /\ db'.attempts = db.attempts
         \/ /\ db.state \in Executable /\ db.attempts < MaxAttempts
            /\ db'.state = "running" /\ db'.attempts = db.attempts + 1
         \/ /\ db.state = "running" /\ db'.attempts = db.attempts
            /\ db'.state \in {"retry_pending", "stopped", "human_required", "verified"}
         \/ /\ db.state \in Executable /\ db.attempts > 0
            /\ db'.state = "human_required" /\ db'.attempts = db.attempts
  PROVE  Contract!Next \/ UNCHANGED Contract!vars
<1>1. db \in Run /\ StoreOK(db) /\ db' \in Run /\ StoreOK(db')
  BY DEF Inv, TypeOK
<1>2. Proof(db) <=> db.state = "verified"
  BY <1>1, ProofFact
<1>3. Proof(db') <=> db'.state = "verified"
  BY <1>1, ProofFact
<1>4. CASE db'.state = db.state /\ db'.attempts = db.attempts
  BY <1>2, <1>3, <1>4 DEF Contract!vars, Proof
<1>5. CASE /\ db.state \in Executable /\ db.attempts < MaxAttempts
           /\ db'.state = "running" /\ db'.attempts = db.attempts + 1
  BY <1>2, <1>3, <1>5 DEF Contract!Next, Contract!Dispatch, Contract!Pending, Proof, Executable
<1>6. CASE /\ db.state = "running" /\ db'.attempts = db.attempts
           /\ db'.state \in {"retry_pending", "stopped", "human_required"}
  BY <1>2, <1>3, <1>6 DEF Contract!Next, Contract!Fail, Contract!Open, Proof
<1>7. CASE db.state = "running" /\ db'.attempts = db.attempts /\ db'.state = "verified"
  BY <1>2, <1>3, <1>7 DEF Contract!Next, Contract!Verify, Contract!Open, Proof
<1>8. CASE /\ db.state \in Executable /\ db.attempts > 0
           /\ db'.state = "human_required" /\ db'.attempts = db.attempts
  BY <1>2, <1>3, <1>8 DEF Contract!Next, Contract!GiveUp, Contract!Pending, Proof, Executable
<1>9. QED BY <1>4, <1>5, <1>6, <1>7, <1>8

\* What one step of the workers does to state and attempts.
LEMMA StoreStep ==
  ASSUME Inv, [Next]_vars
  PROVE  \/ db'.state = db.state /\ db'.attempts = db.attempts
         \/ /\ db.state \in Executable /\ db.attempts < MaxAttempts
            /\ db'.state = "running" /\ db'.attempts = db.attempts + 1
         \/ /\ db.state = "running" /\ db'.attempts = db.attempts
            /\ db'.state \in {"retry_pending", "stopped", "human_required", "verified"}
         \/ /\ db.state \in Executable /\ db.attempts > 0
            /\ db'.state = "human_required" /\ db'.attempts = db.attempts
<1>0. db \in Run /\ StoreOK(db)
  BY DEF Inv, TypeOK
<1>1. CASE db' = db
  BY <1>1
<1>2. ASSUME NEW w \in Workers, RecoverStaleRun(w), CanReconcile(db), db' # db
      PROVE  /\ db.state = "running" /\ db'.attempts = db.attempts
             /\ db'.state \in {"retry_pending", "stopped", "human_required", "verified"}
  <2>1. db' = Reconcile(db, files)
    BY <1>2 DEF RecoverStaleRun
  <2>2. db.state = "running"
    BY <1>2 DEF CanReconcile
  <2>3. QED BY <1>0, <2>1, <2>2 DEF Reconcile, UpdateRow, AfterFailure, Run
<1>3. ASSUME NEW w \in Workers, Preflight(w)
      PROVE  db'.state = db.state /\ db'.attempts = db.attempts
  BY <1>0, <1>3 DEF Preflight, BindContract, Run
<1>4. ASSUME NEW w \in Workers, Begin(w), db.state \in Executable, BudgetLeft(db)
      PROVE  /\ db.state \in Executable /\ db.attempts < MaxAttempts
             /\ db'.state = "running" /\ db'.attempts = db.attempts + 1
  <2>1. db.attempts + 1 \in Ordinals /\ db.attempts \in Nat
    BY <1>0, <1>4, OrdinalsFact DEF BudgetLeft, NextOrdinal, EffectiveMaxAttempts, Run, Ordinals
  <2>2. db' = BeginAttempt(db)
    BY <1>4 DEF Begin
  <2>3. QED BY <1>0, <1>4, <2>1, <2>2, OrdinalsFact DEF BeginAttempt, Run, Ordinals
<1>5. ASSUME NEW w \in Workers, Begin(w), db.state \in Executable, ~BudgetLeft(db)
      PROVE  /\ db.state \in Executable /\ db.attempts > 0
             /\ db'.state = "human_required" /\ db'.attempts = db.attempts
  <2>1. db.ceiling \in Nat /\ db.ceiling >= 1 /\ db.attempts \in Nat /\ ~(db.attempts + 1 <= db.ceiling)
    BY <1>0, <1>5, OrdinalsFact DEF BudgetLeft, NextOrdinal, EffectiveMaxAttempts, Run, Ordinals
  <2>2. db' = ExhaustBudget(db)
    BY <1>5 DEF Begin
  <2>3. QED BY <1>0, <1>5, <2>1, <2>2 DEF ExhaustBudget, Run
<1>6. ASSUME NEW w \in Workers, NEW st \in {"retry_pending", "stopped", "human_required"},
             CommitOutcome(w, st), db' # db
      PROVE  /\ db.state = "running" /\ db'.attempts = db.attempts
             /\ db'.state \in {"retry_pending", "stopped", "human_required", "verified"}
  <2>1. /\ HoldsFence(db, worker[w].ordinal, worker[w].fence)
        /\ db' = FinishAttempt(db, worker[w].ordinal, st, worker[w].receipt)
    BY <1>6 DEF CommitOutcome
  <2>2. QED BY <1>0, <2>1 DEF FinishAttempt, UpdateRow, HoldsFence, Run
<1>7. ASSUME NEW w \in Workers, FinishWithDelivery(w), db' # db
      PROVE  /\ db.state = "running" /\ db'.attempts = db.attempts
             /\ db'.state \in {"retry_pending", "stopped", "human_required", "verified"}
  <2>1. /\ HoldsFence(db, worker[w].ordinal, worker[w].fence)
        /\ db' = FinishAttemptWithDelivery(db, worker[w].ordinal, worker[w].receipt)
    BY <1>7 DEF FinishWithDelivery
  <2>2. QED BY <1>0, <2>1 DEF FinishAttemptWithDelivery, UpdateRow, HoldsFence, Run
<1>8. ASSUME NEW w \in Workers, Finish(w)
      PROVE  \E st \in {"retry_pending", "stopped", "human_required"} : CommitOutcome(w, st)
  <2>1. worker[w].outcome \in {"retry_pending", "stopped", "human_required"}
    BY <1>8 DEF Inv, TypeOK, Local, Outcomes, Settled, Finish
  <2>2. QED BY <1>8, <2>1 DEF Finish
<1>9. ASSUME NEW w \in Workers, FinishRejectedDelivery(w)
      PROVE  \E st \in {"retry_pending", "stopped", "human_required"} : CommitOutcome(w, st)
  <2>1. AfterRedDelivery(db, worker[w].ordinal) \in {"retry_pending", "stopped", "human_required"}
    BY DEF AfterRedDelivery
  <2>2. QED BY <1>9, <2>1 DEF FinishRejectedDelivery
<1>10. ASSUME NEW w \in Workers, RecoverStaleRun(w), ~CanReconcile(db) PROVE db' = db
  BY <1>10 DEF RecoverStaleRun
<1>11. ASSUME NEW w \in Workers, Begin(w), db.state \notin Executable PROVE db' = db
  BY <1>11 DEF Begin
<1>12. ASSUME NEW w \in Workers,
              \/ AcquireLease(w) \/ ReadRun(w) \/ Execute(w) \/ WriteReceipt(w)
              \/ CheckDelivery(w) \/ ReleaseLease(w) \/ VerifierUnready(w)
              \/ AbandonAttempt(w) \/ Crash(w)
       PROVE  db' = db
  BY <1>12 DEF AcquireLease, ReadRun, Execute, WriteReceipt, CheckDelivery, ReleaseLease,
               VerifierUnready, AbandonAttempt, Crash
<1>13. LeaseExpires \/ UNCHANGED vars => db' = db
  BY DEF LeaseExpires, vars
<1>14. CASE db' # db
  <2>1. PICK w \in Workers : \/ RecoverStaleRun(w) \/ Preflight(w) \/ Begin(w)
                             \/ Finish(w) \/ FinishWithDelivery(w) \/ FinishRejectedDelivery(w)
    BY <1>12, <1>13, <1>14 DEF Next, Tick
  <2>2. CASE RecoverStaleRun(w)
    BY <1>2, <1>10, <1>14, <2>2
  <2>3. CASE Preflight(w)
    BY <1>3, <2>3
  <2>4. CASE Begin(w)
    BY <1>4, <1>5, <1>11, <1>14, <2>4
  <2>5. CASE Finish(w) \/ FinishRejectedDelivery(w)
    <3>1. PICK st \in {"retry_pending", "stopped", "human_required"} : CommitOutcome(w, st)
      BY <1>8, <1>9, <2>5
    <3>2. QED BY <1>6, <1>14, <3>1
  <2>6. CASE FinishWithDelivery(w)
    BY <1>7, <1>14, <2>6
  <2>7. QED BY <2>1, <2>2, <2>3, <2>4, <2>5, <2>6
<1>15. QED BY <1>1, <1>14

\* The workers, leases, files and crashes of RunLifecycle add nothing to what
\* RunContract promises.
THEOREM LifecycleImplementsContract == Spec => ImplementsContract
<1>1. ASSUME Inv, Inv', [Next]_vars PROVE Contract!Next \/ UNCHANGED Contract!vars
  BY <1>1, StoreStep, ContractStep
<1>2. Inv /\ Inv' /\ [Next]_vars => [Contract!Next]_(Contract!vars)
  BY <1>1
<1>3. QED BY <1>2, ContractInit, InvIsInvariant, PTL DEF Spec, ImplementsContract, Contract!Spec
=============================================================================
