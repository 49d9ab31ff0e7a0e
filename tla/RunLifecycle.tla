---------------------------- MODULE RunLifecycle ----------------------------
(***************************************************************************)
(* One Run and the worker processes that tick it with a local verifier:    *)
(* LoopController.tick of lh_runtime/controller.py, step by step, over the *)
(* transactions of RunStore.  Each step is one transaction, one file write *)
(* or one stretch of work outside the store; between any two of them       *)
(* another worker may run, the lease may expire, or the process may die.   *)
(***************************************************************************)
EXTENDS RunStore, FiniteSets

CONSTANTS
    Workers,        \* process holders: label, pid, start time and nonce
    Timer,          \* the process the outside scheduler calls again and again
    MaxCrashes      \* bound on the number of process deaths

ASSUME WorkersAssumption == IsFiniteSet(Workers) /\ Workers # {}
ASSUME TimerAssumption == Timer \in Workers
ASSUME MaxCrashesAssumption == MaxCrashes \in Nat

Nobody == "nobody"      \* no row in leases
Gone == "gone"          \* the row of a process that died

ASSUME HoldersAssumption == Nobody \notin Workers /\ Gone \notin Workers

VARIABLES
    db,         \* the runs and attempts rows
    lease,      \* the leases row, and whether expires_at is still ahead
    files,      \* receipt.json of each attempt on disk
    worker,     \* the progress of each process through tick
    crashes     \* process deaths so far

vars == <<db, lease, files, worker, crashes>>

\* Where a process is inside tick:
\*   recovered   recover_stale_run returned      leased      acquire_lease was granted
\*   runnable    the state read was executable   ready       preflight was GREEN
\*   working     the attempt is begun            computed    model and verifier are done
\*   receipted   receipt.json is written         committing  delivery-final.json is written
\*   fallback    the delivery was rejected       releasing   in the finally block
Steps == {"idle", "recovered", "leased", "runnable", "ready", "working", "computed",
          "receipted", "committing", "fallback", "releasing"}

Outcomes == Settled \cup {"retry_pending"}

Local == [at: Steps, ordinal: 0..MaxAttempts, fence: Nat,
          outcome: Outcomes, receipt: Receipts]

AtRest == [at |-> "idle", ordinal |-> 0, fence |-> 0,
           outcome |-> "human_required", receipt |-> NoReceipt]

TypeOK ==
    /\ db \in Run
    /\ lease \in [holder: Workers \cup {Nobody, Gone}, live: BOOLEAN]
    /\ files \in [Ordinals -> Receipts]
    /\ worker \in [Workers -> Local]
    /\ crashes \in 0..MaxCrashes

Init ==
    /\ db \in {CreateRun(b) : b \in Bindings}
    /\ lease = [holder |-> Nobody, live |-> FALSE]
    /\ files = [n \in Ordinals |-> NoReceipt]
    /\ worker = [w \in Workers |-> AtRest]
    /\ crashes = 0

At(w, step) == worker[w].at = step

Goto(w, step) == worker' = [worker EXCEPT ![w] = [@ EXCEPT !.at = step]]

-----------------------------------------------------------------------------
\* Entering the tick.

\* recover_stale_run: an unexpired lease protects the running attempt.
RecoverStaleRun(w) ==
    /\ At(w, "idle")
    /\ IF CanReconcile(db) /\ ~lease.live
       THEN /\ db' = Reconcile(db, files)
            /\ lease' = [holder |-> Nobody, live |-> FALSE]
       ELSE UNCHANGED <<db, lease>>
    /\ Goto(w, "recovered")
    /\ UNCHANGED <<files, crashes>>

AcquireLease(w) ==
    /\ At(w, "recovered")
    /\ IF lease.live /\ lease.holder # w
       THEN /\ Goto(w, "idle")
            /\ UNCHANGED lease
       ELSE /\ Goto(w, "leased")
            /\ lease' = [holder |-> w, live |-> TRUE]
    /\ UNCHANGED <<db, files, crashes>>

ReadRun(w) ==
    /\ At(w, "leased")
    /\ Goto(w, IF db.state \in Executable THEN "runnable" ELSE "releasing")
    /\ UNCHANGED <<db, lease, files, crashes>>

\* delivery_preflight, and plan_pending_delivery when it is RED.  A candidate
\* without a predecessor is bound and passes at once; a superseding one is
\* applied but the tick still answers planning_required.
Preflight(w) ==
    /\ At(w, "runnable")
    /\ \/ /\ db.binding = "green"
          /\ Goto(w, "ready")
          /\ UNCHANGED db
       \/ /\ db.binding = "bindable"
          /\ db' = BindContract(db)
          /\ Goto(w, "ready")
       \/ /\ CanReplan(db, 0)
          /\ db' = BindContract(db)
          /\ Goto(w, "releasing")
       \/ /\ db.binding \in {"supersedable", "unplanned"}
          /\ ~CanReplan(db, 0)
          /\ Goto(w, "releasing")
          /\ UNCHANGED db
    /\ UNCHANGED <<lease, files, crashes>>

\* waiting_for_verifier: the verifier cannot be launched, no attempt is spent.
VerifierUnready(w) ==
    /\ At(w, "ready")
    /\ Goto(w, "releasing")
    /\ UNCHANGED <<db, lease, files, crashes>>

\* begin_attempt re-reads the state and the budget in its own transaction.
Begin(w) ==
    /\ At(w, "ready")
    /\ IF db.state \in Executable /\ BudgetLeft(db)
       THEN /\ db' = BeginAttempt(db)
            /\ worker' = [worker EXCEPT
                             ![w] = [@ EXCEPT !.at = "working",
                                              !.ordinal = NextOrdinal(db),
                                              !.fence = db.fence + 1]]
       ELSE /\ db' = IF db.state \in Executable THEN ExhaustBudget(db) ELSE db
            /\ Goto(w, "releasing")
    /\ UNCHANGED <<lease, files, crashes>>

-----------------------------------------------------------------------------
\* The attempt.

\* The verdict of model, routing, verifier and delivery checker, as the
\* outcome tick asks for and the receipt it will write; a route of the model goes
\* before the exit code, also where the verifier has passed.
Verdicts(s, n) ==
    {[exit |-> "zero", route |-> "none", outcome |-> "verified"],
     [exit |-> "zero", route |-> "none", outcome |-> AfterRedDelivery(s, n)],
     [exit |-> "nonzero", route |-> "none", outcome |-> AfterFailure(s, n)],
     [exit |-> "untyped", route |-> "human_required", outcome |-> "human_required"]}
    \cup {[exit |-> exit, route |-> "human_required", outcome |-> "human_required"] :
             exit \in {"zero", "nonzero"}}
    \cup {[exit |-> exit, route |-> "stop", outcome |-> "stopped"] : exit \in {"zero", "nonzero"}}

Execute(w) ==
    /\ At(w, "working")
    /\ \E v \in Verdicts(db, worker[w].ordinal) :
          worker' = [worker EXCEPT
                        ![w] = [@ EXCEPT !.at = "computed",
                                         !.outcome = v.outcome,
                                         !.receipt = [exit |-> v.exit, route |-> v.route,
                                                      fence |-> worker[w].fence]]]
    /\ UNCHANGED <<db, lease, files, crashes>>

\* write_artifact replaces the file without looking at the fence.
WriteReceipt(w) ==
    /\ At(w, "computed")
    /\ files' = [files EXCEPT ![worker[w].ordinal] = worker[w].receipt]
    /\ Goto(w, "receipted")
    /\ UNCHANGED <<db, lease, crashes>>

\* AttemptTimeout, or an error raised out of tick: the run stays running and
\* only the lease is given back.
AbandonAttempt(w) ==
    /\ worker[w].at \in {"working", "computed", "receipted"}
    /\ Goto(w, "releasing")
    /\ UNCHANGED <<db, lease, files, crashes>>

-----------------------------------------------------------------------------
\* _finish_attempt_after_receipt.

ReceiptValid(w) == files[worker[w].ordinal] = worker[w].receipt

\* finish_attempt: the compare-and-swap, or fence_rejected.
CommitOutcome(w, outcome) ==
    /\ db' = IF ReceiptValid(w) /\ HoldsFence(db, worker[w].ordinal, worker[w].fence)
             THEN FinishAttempt(db, worker[w].ordinal, outcome, worker[w].receipt)
             ELSE db
    /\ Goto(w, "releasing")

Finish(w) ==
    /\ At(w, "receipted")
    /\ worker[w].outcome # "verified"
    /\ CommitOutcome(w, worker[w].outcome)
    /\ UNCHANGED <<lease, files, crashes>>

\* finish_attempt_with_delivery_result checks the fence and the evidence on a
\* read of its own; the evidence may still be rejected here.
CheckDelivery(w) ==
    /\ At(w, "receipted")
    /\ worker[w].outcome = "verified"
    /\ \/ /\ ReceiptValid(w)
          /\ ~HoldsFence(db, worker[w].ordinal, worker[w].fence)
          /\ Goto(w, "releasing")
       \/ /\ HoldsFence(db, worker[w].ordinal, worker[w].fence)
          /\ ReceiptValid(w)
          /\ Goto(w, "committing")
       \/ Goto(w, "fallback")
    /\ UNCHANGED <<db, lease, files, crashes>>

FinishWithDelivery(w) ==
    /\ At(w, "committing")
    /\ db' = IF HoldsFence(db, worker[w].ordinal, worker[w].fence)
             THEN FinishAttemptWithDelivery(db, worker[w].ordinal, worker[w].receipt)
             ELSE db
    /\ Goto(w, "releasing")
    /\ UNCHANGED <<lease, files, crashes>>

\* A rejected delivery keeps the bounded retry.
FinishRejectedDelivery(w) ==
    /\ At(w, "fallback")
    /\ CommitOutcome(w, AfterRedDelivery(db, worker[w].ordinal))
    /\ UNCHANGED <<lease, files, crashes>>

ReleaseLease(w) ==
    /\ At(w, "releasing")
    /\ lease' = IF lease.holder = w THEN [holder |-> Nobody, live |-> FALSE] ELSE lease
    /\ worker' = [worker EXCEPT ![w] = AtRest]
    /\ UNCHANGED <<db, files, crashes>>

-----------------------------------------------------------------------------
\* The environment.

LeaseExpires ==
    /\ lease.live
    /\ lease' = [lease EXCEPT !.live = FALSE]
    /\ UNCHANGED <<db, files, worker, crashes>>

\* The process dies and is started again under a new nonce, so its lease row
\* belongs to nobody who is still alive.
Crash(w) ==
    /\ ~At(w, "idle")
    /\ crashes < MaxCrashes
    /\ crashes' = crashes + 1
    /\ worker' = [worker EXCEPT ![w] = AtRest]
    /\ lease' = IF lease.holder = w THEN [lease EXCEPT !.holder = Gone] ELSE lease
    /\ UNCHANGED <<db, files>>

Tick(w) ==
    \/ RecoverStaleRun(w)
    \/ AcquireLease(w)
    \/ ReadRun(w)
    \/ Preflight(w)
    \/ Begin(w)
    \/ Execute(w)
    \/ WriteReceipt(w)
    \/ Finish(w)
    \/ CheckDelivery(w)
    \/ FinishWithDelivery(w)
    \/ FinishRejectedDelivery(w)
    \/ ReleaseLease(w)

Next ==
    \/ \E w \in Workers : Tick(w) \/ VerifierUnready(w) \/ AbandonAttempt(w) \/ Crash(w)
    \/ LeaseExpires

Spec == Init /\ [][Next]_vars

\* An outside scheduler calls the driver again and again; every process keeps
\* taking the steps of a tick it began; time passes, so a lease expires; and a
\* verifier that is looked for again and again is launched in the end.
FairSpec ==
    /\ Spec
    /\ WF_vars(Tick(Timer))
    /\ \A w \in Workers : WF_vars(~At(w, "idle") /\ Tick(w)) /\ SF_vars(Begin(w))
    /\ WF_vars(LeaseExpires)
-----------------------------------------------------------------------------
\* Properties.

InAttempt == {"working", "computed", "receipted", "committing", "fallback"}

Executing(w) == worker[w].at \in InAttempt

\* The run row and the attempts rows, written by separate UPDATEs of several
\* processes, never disagree: see StoreOK.
StoreAgrees == StoreOK(db)

\* However many processes still believe they execute an attempt after leases
\* expired under them, at most one of them could still commit an outcome, and
\* it is the one that began the open attempt (begin_attempt, finish_attempt,
\* _reconcile_expired_run).
OneCommitter ==
    /\ \A v, w \in Workers :
          Executing(v) /\ Executing(w) /\ v # w => worker[v].ordinal # worker[w].ordinal
    /\ \A w \in Workers :
          Executing(w) => /\ worker[w].ordinal \in 1..db.attempts
                          /\ worker[w].fence = db.row[worker[w].ordinal].fence

\* A recorded receipt digest always matches the bytes on disk: a process that
\* lost its fence still overwrites receipt.json before finish_attempt refuses
\* it, yet never under an attempt whose digest is already recorded
\* (write_artifact, _receipt_artifact_valid).
ReceiptsMatchDigests ==
    \A n \in Ordinals : db.row[n].receipt # NoReceipt => db.row[n].receipt = files[n]

\* The receipt of a verified run was written under the fence of its own
\* attempt with exit code 0, so no reconciliation and no late process of an
\* earlier attempt can have promoted it (finish_attempt_with_delivery_result).
VerifiedByItsOwnAttempt ==
    db.state = "verified" =>
        LET last == db.row[db.attempts]
        IN  /\ last.receipt.exit = "zero"
            /\ last.receipt.fence = last.fence
            /\ last.final

\* What tick does to the store, over all workers, is what RunContract allows.
Contract == INSTANCE RunContract WITH
    Budget <- MaxAttempts,
    state <- db.state,
    attempts <- db.attempts,
    proof <- db.attempts > 0 /\ db.row[db.attempts].final

ImplementsContract == Contract!Spec

\* From some point on only the scheduled process ticks.  Without it two
\* processes may find each other's lease alive for ever and nobody reconciles.
RivalsGone == <>[](\A w \in Workers \ {Timer} : At(w, "idle"))

\* Whatever rivals and crashes did before, a running row does not stay: its
\* worker finishes it or, once the lease is gone, a tick reconciles it
\* (recover_stale_run).
RunningResolves == RivalsGone => ((db.state = "running") ~> (db.state # "running"))

\* Whatever rivals and crashes did before, a run whose delivery contract can be
\* bound is settled in the end.
Settles == RivalsGone => ((db.binding # "unplanned") ~> (db.state \in Settled))

\* "An executor that moved a source ref has crossed the clone; a human must
\* look" (controller.py, _source_refs_guard): once the receipt of an attempt on
\* disk routes to a human, no later attempt is begun.
HumanRouteIsKept ==
    \A n \in Ordinals : files[n].route = "human_required" => db.attempts <= n
=============================================================================
