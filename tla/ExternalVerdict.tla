--------------------------- MODULE ExternalVerdict ---------------------------
(***************************************************************************)
(* One Run whose verdict comes from outside: LoopController.tick_async     *)
(* opens an external action and parks the run, resume_external polls for   *)
(* the conclusion and closes it (lh_runtime/controller.py), through the    *)
(* VerdictStore and the ActionLedger, which are databases of their own.    *)
(* Every step is one transaction on one database, or one file write.       *)
(***************************************************************************)
EXTENDS RunStore, FiniteSets

CONSTANTS
    Crews,          \* the sets of processes that may tick the run and poll
    Pollers,        \* processes that only poll: goal_loop_run polls before it
                    \* asks for the driver lease, and may not get it
    Diffs,          \* operation keys: one per diff an attempt can produce
    MaxCrashes      \* bound on the number of process deaths

Workers == (UNION Crews) \cup Pollers

ASSUME DiffsAssumption == IsFiniteSet(Diffs) /\ Diffs # {}
ASSUME WorkersAssumption == IsFiniteSet(Workers) /\ {} \notin Crews
ASSUME MaxCrashesAssumption == MaxCrashes \in Nat

Nobody == "nobody"
Gone == "gone"
NoOp == "no_op"
ASSUME NamesAssumption == {Nobody, Gone} \cap Workers = {} /\ NoOp \notin Diffs

VARIABLES
    db,         \* the runs and attempts rows
    lease,      \* the leases row of the run
    files,      \* receipt.json of each attempt
    asked,      \* verification.op_key in that receipt
    performed,  \* the operations the adapter has performed and the ledger knows
    answer,     \* the conclusion of each operation, once it has landed
    verdict,    \* the verdicts row of the run
    ready,      \* normalized_verifier_results with their value_reduction_ready event
    worker,     \* the progress of each process
    crew,       \* the processes that tick this run
    crashes

vars == <<db, lease, files, asked, performed, answer, verdict, ready, worker, crew, crashes>>
outside == <<performed, answer, crew>>

Conclusions == {"success", "failure"}
Ops == Diffs \cup {NoOp}

\* tick_async: recovered .. releasing; resume_external: polled .. rejecting.
Steps == {"idle", "recovered", "leased", "ready", "working", "executed", "performed",
          "offered", "failed", "receipted", "releasing",
          "polled", "landed", "closing", "committing", "rejecting"}

Outcomes == {"awaiting_external_verdict", "retry_pending", "stopped", "human_required"}

Local == [at: Steps, ordinal: 0..MaxAttempts, fence: Nat, op: Ops,
          conclusion: Conclusions, outcome: Outcomes]

AtRest == [at |-> "idle", ordinal |-> 0, fence |-> 0, op |-> NoOp,
           conclusion |-> "failure", outcome |-> "human_required"]

Verdict == [state: {"absent", "awaiting", "verified", "retry_pending"}, op: Ops, by: 0..MaxAttempts]

TypeOK ==
    /\ db \in Run
    /\ lease \in [holder: Workers \cup {Nobody, Gone}, live: BOOLEAN]
    /\ files \in [Ordinals -> Receipts]
    /\ asked \in [Ordinals -> Ops]
    /\ performed \subseteq Diffs
    /\ answer \in [Diffs -> Conclusions \cup {"none"}]
    /\ verdict \in Verdict
    /\ ready \subseteq [attempt: Ordinals, op: Diffs, by: Ordinals]
    /\ worker \in [Workers -> Local]
    /\ crew \in Crews
    /\ crashes \in 0..MaxCrashes

Init ==
    /\ db = CreateRun("green")
    /\ lease = [holder |-> Nobody, live |-> FALSE]
    /\ files = [n \in Ordinals |-> NoReceipt]
    /\ asked = [n \in Ordinals |-> NoOp]
    /\ performed = {}
    /\ answer = [d \in Diffs |-> "none"]
    /\ verdict = [state |-> "absent", op |-> NoOp, by |-> 0]
    /\ ready = {}
    /\ worker = [w \in Workers |-> AtRest]
    /\ crew \in Crews
    /\ crashes = 0

At(w, step) == worker[w].at = step
Goto(w, step) == worker' = [worker EXCEPT ![w] = [@ EXCEPT !.at = step]]
Rest(w) == worker' = [worker EXCEPT ![w] = AtRest]

-----------------------------------------------------------------------------
\* tick_async: up to the begun attempt, as in tick but with no local verifier.

RecoverStaleRun(w) ==
    /\ At(w, "idle")
    /\ IF CanReconcile(db) /\ ~lease.live
       THEN /\ db' = Reconcile(db, files)
            /\ lease' = [holder |-> Nobody, live |-> FALSE]
       ELSE UNCHANGED <<db, lease>>
    /\ Goto(w, "recovered")
    /\ UNCHANGED <<files, asked, outside, verdict, ready, crashes>>

AcquireLease(w) ==
    /\ At(w, "recovered")
    /\ IF lease.live /\ lease.holder # w
       THEN Rest(w) /\ UNCHANGED lease
       ELSE Goto(w, "leased") /\ lease' = [holder |-> w, live |-> TRUE]
    /\ UNCHANGED <<db, files, asked, outside, verdict, ready, crashes>>

ReadRun(w) ==
    /\ At(w, "leased")
    /\ Goto(w, IF db.state \in Executable THEN "ready" ELSE "releasing")
    /\ UNCHANGED <<db, lease, files, asked, outside, verdict, ready, crashes>>

Begin(w) ==
    /\ At(w, "ready")
    /\ IF db.state \in Executable /\ BudgetLeft(db)
       THEN /\ db' = BeginAttempt(db)
            /\ worker' = [worker EXCEPT
                             ![w] = [@ EXCEPT !.at = "working",
                                              !.ordinal = NextOrdinal(db),
                                              !.fence = db.fence + 1]]
       ELSE /\ db' = IF db.state \in Executable THEN ExhaustBudget(db) ELSE db
            /\ Goto(w, "releasing")
    /\ UNCHANGED <<lease, files, asked, outside, verdict, ready, crashes>>

\* The model produces a diff whose source delivery is GREEN, or the attempt
\* fails: by itself, by its delivery, or by a routing to a human.
Execute(w) ==
    /\ At(w, "working")
    /\ \/ \E d \in Diffs :
             worker' = [worker EXCEPT
                          ![w] = [@ EXCEPT !.at = "executed", !.op = d,
                                           !.outcome = "awaiting_external_verdict"]]
       \/ \E o \in {AfterFailure(db, worker[w].ordinal),
                    AfterRedDelivery(db, worker[w].ordinal), "human_required"} :
             worker' = [worker EXCEPT ![w] = [@ EXCEPT !.at = "failed", !.outcome = o]]
    /\ UNCHANGED <<db, lease, files, asked, outside, verdict, ready, crashes>>

\* Slip: an adapter error is taken for an answer.
PerformActionBlindly(w) ==
    /\ At(w, "executed")
    /\ \/ performed' = performed \cup {worker[w].op}
       \/ UNCHANGED performed
    /\ Goto(w, "performed")
    /\ UNCHANGED <<db, lease, files, asked, answer, crew, verdict, ready, crashes>>

\* dispatch_external: the ledger answers a known operation, otherwise the
\* adapter performs it (idempotently) or raises, which fails the attempt.
PerformAction(w) ==
    /\ At(w, "executed")
    /\ \/ /\ performed' = performed \cup {worker[w].op}
          /\ Goto(w, "performed")
       \/ /\ worker[w].op \notin performed
          /\ worker' = [worker EXCEPT
                          ![w] = [@ EXCEPT !.at = "failed", !.op = NoOp,
                                           !.outcome = AfterFailure(db, worker[w].ordinal)]]
          /\ UNCHANGED performed
    /\ UNCHANGED <<db, lease, files, asked, answer, crew, verdict, ready, crashes>>

\* Slip: the row of an earlier attempt is kept, the insert is ignored.
ParkVerdictOnce(w) ==
    /\ At(w, "performed")
    /\ verdict' = IF verdict.state = "absent"
                  THEN [state |-> "awaiting", op |-> worker[w].op, by |-> worker[w].ordinal]
                  ELSE verdict
    /\ Goto(w, "offered")
    /\ UNCHANGED <<db, lease, files, asked, outside, ready, crashes>>

\* VerdictStore.park upserts the row of the run; it knows no fence.
ParkVerdict(w) ==
    /\ At(w, "performed")
    /\ verdict' = [state |-> "awaiting", op |-> worker[w].op, by |-> worker[w].ordinal]
    /\ Goto(w, "offered")
    /\ UNCHANGED <<db, lease, files, asked, outside, ready, crashes>>

ReceiptOf(w) ==
    [exit |-> "untyped", fence |-> worker[w].fence,
     route |-> IF worker[w].outcome = "human_required" THEN "human_required" ELSE "none"]

WriteReceipt(w) ==
    /\ worker[w].at \in {"offered", "failed"}
    /\ files' = [files EXCEPT ![worker[w].ordinal] = ReceiptOf(w)]
    /\ asked' = [asked EXCEPT ![worker[w].ordinal] = worker[w].op]
    /\ Goto(w, "receipted")
    /\ UNCHANGED <<db, lease, outside, verdict, ready, crashes>>

\* park_external_verdict or finish_attempt, both behind the fence.
CloseAttempt(w) ==
    /\ At(w, "receipted")
    /\ db' = IF HoldsFence(db, worker[w].ordinal, worker[w].fence)
             THEN IF worker[w].outcome = "awaiting_external_verdict"
                  THEN ParkExternalVerdict(db, worker[w].ordinal, ReceiptOf(w))
                  ELSE FinishAttempt(db, worker[w].ordinal, worker[w].outcome, ReceiptOf(w))
             ELSE db
    /\ Goto(w, "releasing")
    /\ UNCHANGED <<lease, files, asked, outside, verdict, ready, crashes>>

\* AttemptTimeout or an error out of tick_async.
AbandonAttempt(w) ==
    /\ worker[w].at \in {"working", "executed", "performed", "offered", "failed", "receipted"}
    /\ Goto(w, "releasing")
    /\ UNCHANGED <<db, lease, files, asked, outside, verdict, ready, crashes>>

ReleaseLease(w) ==
    /\ At(w, "releasing")
    /\ lease' = IF lease.holder = w THEN [holder |-> Nobody, live |-> FALSE] ELSE lease
    /\ Rest(w)
    /\ UNCHANGED <<db, files, asked, outside, verdict, ready, crashes>>

-----------------------------------------------------------------------------
\* resume_external.

\* poll_and_resume reads the awaiting row and asks the source about its op_key.
PollRead(w) ==
    /\ At(w, "idle")
    /\ verdict.state = "awaiting"
    /\ answer[verdict.op] # "none"
    /\ worker' = [worker EXCEPT
                    ![w] = [@ EXCEPT !.at = "polled", !.op = verdict.op,
                                     !.conclusion = answer[verdict.op]]]
    /\ UNCHANGED <<db, lease, files, asked, outside, verdict, ready, crashes>>

\* VerdictStore.resolve names the run and the state of the row, not its op_key.
ResolveVerdict(w) ==
    /\ At(w, "polled")
    /\ verdict' = IF verdict.state = "awaiting"
                  THEN [verdict EXCEPT !.state = IF worker[w].conclusion = "success"
                                                 THEN "verified" ELSE "retry_pending"]
                  ELSE verdict
    /\ Goto(w, "landed")
    /\ UNCHANGED <<db, lease, files, asked, outside, ready, crashes>>

\* Slip: the recovery pass skips the normalizer, the row says verified already.
RecoverVerdictUnnormalized(w) ==
    /\ At(w, "idle")
    /\ verdict.state = "verified"
    /\ IsParked(db)
    /\ Goto(w, "closing")
    /\ UNCHANGED <<db, lease, files, asked, outside, verdict, ready, crashes>>

\* The recovery pass re-offers a success whose run never crossed.
RecoverVerdict(w) ==
    /\ At(w, "idle")
    /\ verdict.state = "verified"
    /\ IsParked(db)
    /\ worker' = [worker EXCEPT
                    ![w] = [@ EXCEPT !.at = "landed", !.op = verdict.op,
                                     !.conclusion = "success"]]
    /\ UNCHANGED <<db, lease, files, asked, outside, verdict, ready, crashes>>

\* Slip: the state of the run is not checked again.
ResumeFailedUnchecked(w) ==
    /\ At(w, "landed")
    /\ worker[w].conclusion = "failure"
    /\ db' = ResolveExternalVerdict(db, "retry_pending")
    /\ Rest(w)
    /\ UNCHANGED <<lease, files, asked, outside, verdict, ready, crashes>>

\* resolve_external_verdict, which names no attempt and no fence.
ResumeFailed(w) ==
    /\ At(w, "landed")
    /\ worker[w].conclusion = "failure"
    /\ db' = IF IsParked(db) THEN ResolveExternalVerdict(db, "retry_pending") ELSE db
    /\ Rest(w)
    /\ UNCHANGED <<lease, files, asked, outside, verdict, ready, crashes>>

\* normalize_resolved_run: superseded or late evidence is discarded.  The goal
\* is taken to be on the revision it was; a second record for a binding carries
\* the same evidence, since a parked row is resolved once.
Binding == [attempt |-> db.attempts, op |-> verdict.op, by |-> verdict.by]

EvidenceIsCurrent(w) ==
    /\ verdict.op = worker[w].op
    /\ verdict.state # "awaiting"
    /\ db.state \in {"awaiting_external_verdict", "verified"}

Normalize(w) ==
    /\ At(w, "landed")
    /\ worker[w].conclusion = "success"
    /\ IF EvidenceIsCurrent(w)
       THEN ready' = ready \cup {Binding} /\ Goto(w, "closing")
       ELSE UNCHANGED ready /\ Rest(w)
    /\ UNCHANGED <<db, lease, files, asked, outside, verdict, crashes>>

\* The final delivery package is assembled, and checked against the attempt
\* that is parked by now.
AssembleFinal(w) ==
    /\ At(w, "closing")
    /\ \/ /\ CanResolveWithDelivery(db)
          /\ worker' = [worker EXCEPT
                          ![w] = [@ EXCEPT !.at = "committing", !.ordinal = db.attempts,
                                           !.fence = db.fence]]
       \/ Goto(w, "rejecting")
    /\ UNCHANGED <<db, lease, files, asked, outside, verdict, ready, crashes>>

CommitFinal(w) ==
    /\ At(w, "committing")
    /\ IF CanResolveWithDelivery(db) /\ db.fence = worker[w].fence
       THEN db' = ResolveExternalVerdictWithDelivery(db) /\ Rest(w)
       ELSE UNCHANGED db /\ Goto(w, "rejecting")
    /\ UNCHANGED <<lease, files, asked, outside, verdict, ready, crashes>>

RejectFinal(w) ==
    /\ At(w, "rejecting")
    /\ db' = IF IsParked(db) THEN ResolveExternalVerdict(db, "human_required") ELSE db
    /\ Rest(w)
    /\ UNCHANGED <<lease, files, asked, outside, verdict, ready, crashes>>

-----------------------------------------------------------------------------
\* The environment.

ConclusionLands(d) ==
    /\ d \in performed
    /\ answer[d] = "none"
    /\ \E c \in Conclusions : answer' = [answer EXCEPT ![d] = c]
    /\ UNCHANGED <<db, lease, files, asked, performed, crew, verdict, ready, worker, crashes>>

LeaseExpires ==
    /\ lease.live
    /\ lease' = [lease EXCEPT !.live = FALSE]
    /\ UNCHANGED <<db, files, asked, outside, verdict, ready, worker, crashes>>

Crash(w) ==
    /\ ~At(w, "idle")
    /\ crashes < MaxCrashes
    /\ crashes' = crashes + 1
    /\ Rest(w)
    /\ lease' = IF lease.holder = w THEN [lease EXCEPT !.holder = Gone] ELSE lease
    /\ UNCHANGED <<db, files, asked, outside, verdict, ready>>

TickAsync(w) ==
    \/ RecoverStaleRun(w)
    \/ AcquireLease(w)
    \/ ReadRun(w)
    \/ Begin(w)
    \/ Execute(w)
    \/ PerformAction(w)
    \/ ParkVerdict(w)
    \/ WriteReceipt(w)
    \/ CloseAttempt(w)
    \/ ReleaseLease(w)

Finishing(w) ==
    \/ ResolveVerdict(w)
    \/ ResumeFailed(w)
    \/ Normalize(w)
    \/ AssembleFinal(w)
    \/ CommitFinal(w)
    \/ RejectFinal(w)

ResumeExternal(w) == PollRead(w) \/ RecoverVerdict(w) \/ Finishing(w)

Next ==
    \/ \E w \in crew : TickAsync(w) \/ AbandonAttempt(w)
    \/ \E w \in crew \cup Pollers : ResumeExternal(w) \/ Crash(w)
    \/ \E d \in Diffs : ConclusionLands(d)
    \/ LeaseExpires

Spec == Init /\ [][Next]_vars

\* The driver is called again and again and each time polls before it ticks;
\* an operation that was performed is concluded; a lease runs out.
FairSpec ==
    /\ Spec
    /\ \A w \in UNION Crews : WF_vars(w \in crew /\ TickAsync(w))
    /\ \A w \in Workers : /\ WF_vars(Finishing(w))
                          /\ SF_vars(w \in crew \cup Pollers /\ PollRead(w))
                          /\ SF_vars(w \in crew \cup Pollers /\ RecoverVerdict(w))
    /\ \A d \in Diffs : WF_vars(ConclusionLands(d))
    /\ WF_vars(LeaseExpires)
-----------------------------------------------------------------------------
\* Properties.

\* The rows agree however tick_async, several polls and crashes interleave.
StoreAgrees == StoreOK(db)

\* The run is verified only after a normalized record is durable and some action
\* it opened has succeeded; with one process at work the record is that of the
\* last attempt (resume_external: "crosses the run to verified only after the
\* LH-owned normalized record and its ready event are durable").
ReadyPrecedesVerified ==
    db.state = "verified" =>
        /\ \E d \in performed : answer[d] = "success"
        /\ \E b \in ready : Cardinality(crew \cup Pollers) = 1 => b.attempt = db.attempts

\* The action whose conclusion verified the run is the one its last attempt
\* opened (verifier_normalizer: "bound to the same Goal revision, Run, Attempt,
\* check and receipt").
OwnActionSucceeded ==
    db.state = "verified" => /\ asked[db.attempts] # NoOp
                             /\ answer[asked[db.attempts]] = "success"

\* The same where one process is at work, which is when the code keeps it.
VerifiedByItsOwnAction == Cardinality(crew \cup Pollers) = 1 => OwnActionSucceeded

\* The record that let the run be verified is bound to its last attempt, whoever
\* polls.  The code does not keep this: resume_external normalizes one attempt
\* and assembles the final delivery of whichever attempt is parked by then.
RecordIsOfItsAttempt ==
    db.state = "verified" => \E b \in ready : b.attempt = db.attempts

\* A run never waits for an answer to a question nobody asked: its parked
\* attempt recorded an operation the adapter has performed.
ParkedIsAsked ==
    IsParked(db) => asked[db.attempts] \in performed /\ verdict.state # "absent"

Contract == INSTANCE RunContract WITH
    Budget <- MaxAttempts,
    state <- db.state,
    attempts <- db.attempts,
    proof <- db.attempts > 0 /\ db.row[db.attempts].final

\* Parking and resuming are steps RunContract allows.
ImplementsContract == Contract!Spec

\* "resolve every parked run whose external verdict has landed" (resume_external).
ParkedIsResumed == IsParked(db) ~> ~IsParked(db)
=============================================================================
