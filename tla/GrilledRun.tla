----------------------------- MODULE GrilledRun -----------------------------
(***************************************************************************)
(* A run with a local verifier under the challenger: the driver session    *)
(* (lh_runtime/goal_loop_driver.py) calls GoalLoopWorker.tick, which       *)
(* grills a failure case before it spends the attempt the case stands      *)
(* before, and books what the attempt did to the case.  The failure cases  *)
(* and the run are rows of one database, the goal of another; every step   *)
(* is one transaction.  The attempt itself is that of RunLifecycle: its    *)
(* compare-and-swap shows here as the outcome of Finish.                   *)
(***************************************************************************)
EXTENDS FailureCases, FiniteSets

CONSTANTS
    Crews,          \* the sets of processes that may share the store
    IdleLimit,      \* idle_limit of run_driver
    MaxCrashes,     \* bound on the number of process deaths
    MaxRevivals,    \* bound on the commands that reopen the goal
    MaxClaims       \* bound on the claims of a case that expire

Workers == UNION Crews

ASSUME CrewsAssumption == IsFiniteSet(Workers)
ASSUME IdleLimitAssumption == IdleLimit \in Nat \ {0}
ASSUME GrillBoundsAssumption == {MaxCrashes, MaxRevivals, MaxClaims} \subseteq Nat

Nobody == "nobody"
Gone == "gone"
ASSUME HoldersAssumption == {Nobody, Gone} \cap Workers = {}

VARIABLES
    run,        \* the row of the run, with what its receipts say
    lease,      \* its lease
    cases,      \* failure_cases and failure_outbox
    goal,       \* goals.state
    session,    \* the progress of each process
    crew,       \* the processes of this behaviour
    flaky,      \* the verifier may be missing and attempts may time out
    crashes,
    revivals

vars == <<run, lease, cases, goal, session, crew, flaky, crashes, revivals>>
store == <<run, lease, cases, goal>>
bounds == <<crew, flaky, crashes, revivals>>

Executable == {"queued", "retry_pending"}
Settled == {"verified", "stopped", "human_required"}
Results == Signatures \cup {NoSignature, Passed}

\* ceiling: the effective ceiling, which the delivery contract may lower.
\* last: what the receipt of the last attempt says; latest: the latest receipt
\* there is.  routed: it asks for a human.  value: the verdict of the final
\* delivery evidence and of the value reducer on a verified run.
RunRow == [state: Executable \cup Settled \cup {"running"}, attempts: 0..MaxAttempts,
           ceiling: Ordinals, last: Results, latest: Results, routed: BOOLEAN,
           value: {"green", "red", "undelivered"}]

\* tick: startup .. ending; the challenger: ensuring .. parking;
\* controller.tick: recovering .. releasing; _reduce_run_result: reducing .. closing.
Steps == {"off", "startup", "event", "dispatch", "ending",
          "ensuring", "claiming", "judging", "parking",
          "recovering", "acquiring", "leased", "ready", "working", "booking", "releasing",
          "reducing", "refusing", "advancing", "closing"}

Cases == Signatures \cup {NoSignature}

\* case, generation, fence: the claim.  remediation: the case the attempt
\* remedies; repeated: the result it may repeat.  then: where the tick goes on
\* after a reduction.  moved: the tick made progress; idle: the idle streak.
Session == [at: Steps, case: Cases, generation: Ordinals, fence: Nat,
            remediation: Cases, repeated: Results, then: {"event", "ending"},
            moved: BOOLEAN, idle: 0..IdleLimit]

Off == [at |-> "off", case |-> NoSignature, generation |-> 1, fence |-> 0,
        remediation |-> NoSignature, repeated |-> NoSignature, then |-> "event",
        moved |-> FALSE, idle |-> 0]

TypeOK ==
    /\ run \in RunRow
    /\ lease \in [holder: Workers \cup {Nobody, Gone}, live: BOOLEAN]
    /\ cases \in Table
    /\ goal \in {"active", "human_required", "stopped", "completed"}
    /\ session \in [Workers -> Session]
    /\ crew \in Crews
    /\ flaky \in BOOLEAN
    /\ crashes \in 0..MaxCrashes
    /\ revivals \in 0..MaxRevivals

Init ==
    /\ \E c \in {MaxAttempts - 1, MaxAttempts} \ {0} :
          run = [state |-> "queued", attempts |-> 0, ceiling |-> c, last |-> NoSignature,
                 latest |-> NoSignature, routed |-> FALSE, value |-> "green"]
    /\ lease = [holder |-> Nobody, live |-> FALSE]
    /\ cases = EmptyTable
    /\ goal = "active"
    /\ session = [w \in Workers |-> Off]
    /\ crew \in Crews
    /\ flaky \in BOOLEAN
    /\ crashes = 0
    /\ revivals = 0

Alone == Cardinality(crew) = 1

At(w, step) == w \in crew /\ session[w].at = step
Goto(w, step) == session' = [session EXCEPT ![w].at = step]

\* The step made progress, in the sense of tick.
Progress(w, step) == session' = [session EXCEPT ![w].at = step, ![w].moved = TRUE]

\* transition_goal(..., expected_state="active") raises if the goal has moved,
\* and the error ends the session.
MoveGoal(w, state, step) ==
    IF goal = "active"
    THEN goal' = state /\ Progress(w, step)
    ELSE UNCHANGED goal /\ session' = [session EXCEPT ![w] = Off]

-----------------------------------------------------------------------------
\* The session and the head of a tick.

StartSession(w) ==
    /\ At(w, "off")
    /\ Goto(w, "startup")
    /\ UNCHANGED <<store, bounds>>

\* A running row that nobody's lease protects: the attempt left no receipt, or
\* one that is taken over (RunStore!Reconcile).
Reconciled ==
    {[run EXCEPT !.state = "retry_pending", !.last = NoSignature]}
    \cup {[run EXCEPT !.state = IF run.attempts >= run.ceiling THEN "stopped" ELSE "retry_pending",
                      !.last = r, !.latest = r] : r \in Signatures}
    \cup {[run EXCEPT !.state = "human_required", !.last = Passed, !.latest = Passed]}

RecoverStaleRun ==
    IF run.state = "running" /\ ~lease.live
    THEN /\ run' \in Reconciled
         /\ lease' = [holder |-> Nobody, live |-> FALSE]
    ELSE UNCHANGED <<run, lease>>

Startup(w) ==
    /\ At(w, "startup")
    /\ RecoverStaleRun
    /\ session' = [session EXCEPT ![w].at = "reducing", ![w].then = "event",
                                  ![w].moved = (run' # run)]
    /\ UNCHANGED <<cases, goal, bounds>>

\* _process_one_event: at most one command, which may find the goal given up
\* while its run is still open and make it active again with that run.
ProcessEvent(w) ==
    /\ At(w, "event")
    /\ \/ /\ session' = [session EXCEPT ![w].at = "dispatch", ![w].then = "ending"]
          /\ UNCHANGED <<goal, revivals>>
       \/ /\ goal \in {"human_required", "stopped"}
          /\ run.state \in Executable
          /\ Alone
          /\ revivals < MaxRevivals
          /\ goal' = "active"
          /\ revivals' = revivals + 1
          /\ session' = [session EXCEPT ![w].at = "dispatch", ![w].then = "ending",
                                        ![w].moved = TRUE]
    /\ UNCHANGED <<run, lease, cases, crew, flaky, crashes>>

\* The streak of idle ticks ends the session; a tick that made progress resets
\* it and is followed by the next without a pause.
EndTick(w) ==
    /\ At(w, "ending")
    /\ session' = [session EXCEPT
          ![w] = IF session[w].moved THEN [Off EXCEPT !.at = "startup"]
                 ELSE IF session[w].idle + 1 >= IdleLimit THEN Off
                 ELSE [Off EXCEPT !.at = "startup", !.idle = session[w].idle + 1]]
    /\ UNCHANGED <<store, bounds>>

-----------------------------------------------------------------------------
\* _dispatch_one_run and _grill_before_final_attempt.

\* Slip: the challenger is asked once the last attempt is spent.
ShouldGrillTooLate == run.attempts >= 2 /\ run.attempts = MaxAttempts

ShouldGrill == run.attempts >= 2 /\ run.attempts = MaxAttempts - 1

Eligible == run.state \in Executable /\ goal = "active"

Dispatch(w) ==
    /\ At(w, "dispatch")
    /\ LET open == LatestCase(cases, Grillable)
           due == ShouldGrill /\ run.latest \in Signatures
       IN  session' = [session EXCEPT
              ![w] = IF ~Eligible THEN [@ EXCEPT !.at = "ending"]
                     ELSE IF open # NoSignature THEN [@ EXCEPT !.at = "claiming", !.case = open]
                     ELSE IF due THEN [@ EXCEPT !.at = "ensuring", !.case = run.latest]
                     ELSE [@ EXCEPT !.at = "recovering"]]
    /\ UNCHANGED <<store, bounds>>

EnsureCase(w) ==
    /\ At(w, "ensuring")
    /\ cases' = EnsureFailureCase(cases, session[w].case)
    /\ Goto(w, "claiming")
    /\ UNCHANGED <<run, lease, goal, bounds>>

\* A case that cannot be claimed ends the tick as grill_busy, which is progress.
Claim(w) ==
    /\ At(w, "claiming")
    /\ LET c == session[w].case
       IN  IF CanClaim(cases, c)
           THEN /\ cases' = ClaimGrill(cases, c)
                /\ session' = [session EXCEPT
                                  ![w].at = "judging",
                                  ![w].generation = cases.case[c].generation,
                                  ![w].fence = cases.case[c].fence + 1]
           ELSE /\ Progress(w, "ending")
                /\ UNCHANGED cases
    /\ UNCHANGED <<run, lease, goal, bounds>>

AfterJudgement(outcome) == IF outcome = "runner-fixable" THEN "recovering" ELSE "parking"

\* The challenger answers, raises, answers outside the closed set, or there is
\* none; what the transaction returns is not looked at.
Judge(w) ==
    /\ At(w, "judging")
    /\ \E outcome \in Outcomes :
          /\ cases' = RecordOutcome(cases, session[w].case, session[w].generation,
                                    session[w].fence, outcome)
          /\ Goto(w, AfterJudgement(outcome))
    /\ UNCHANGED <<run, lease, goal, bounds>>

\* The goal goes to a human; the result is reduced like that of a run.
Park(w) ==
    /\ At(w, "parking")
    /\ MoveGoal(w, "human_required", "reducing")
    /\ UNCHANGED <<run, lease, cases, bounds>>

-----------------------------------------------------------------------------
\* LoopController.tick.

Recover(w) ==
    /\ At(w, "recovering")
    /\ RecoverStaleRun
    /\ Goto(w, "acquiring")
    /\ UNCHANGED <<cases, goal, bounds>>

AcquireLease(w) ==
    /\ At(w, "acquiring")
    /\ IF lease.live /\ lease.holder # w
       THEN Progress(w, "ending") /\ UNCHANGED lease
       ELSE Goto(w, "leased") /\ lease' = [holder |-> w, live |-> TRUE]
    /\ UNCHANGED <<run, cases, goal, bounds>>

ReleaseLease(w) ==
    lease' = IF lease.holder = w THEN [holder |-> Nobody, live |-> FALSE] ELSE lease

\* The case under remediation is read here, before the attempt is begun.  A run
\* that waits for its verifier is no progress.
ReadRun(w) ==
    /\ At(w, "leased")
    /\ \/ /\ run.state \in Executable
          /\ session' = [session EXCEPT
                            ![w].at = "ready",
                            ![w].remediation = LatestCase(cases, {"remediation_running"})]
          /\ UNCHANGED lease
       \/ /\ run.state \notin Executable
          /\ ReleaseLease(w)
          /\ Progress(w, "ending")
       \/ /\ run.state \in Executable /\ flaky
          /\ ReleaseLease(w)
          /\ Goto(w, "ending")
    /\ UNCHANGED <<run, cases, goal, bounds>>

Begin(w) ==
    /\ At(w, "ready")
    /\ IF run.attempts < run.ceiling
       THEN /\ run' = [run EXCEPT !.state = "running", !.attempts = @ + 1, !.last = NoSignature]
            /\ session' = [session EXCEPT ![w].at = "working", ![w].repeated = run.last]
            /\ UNCHANGED lease
       ELSE /\ run' = [run EXCEPT !.state = "human_required"]
            /\ Progress(w, "reducing")
            /\ ReleaseLease(w)
    /\ UNCHANGED <<cases, goal, bounds>>

AfterFailure == IF run.attempts >= run.ceiling THEN "stopped" ELSE "retry_pending"

\* What the attempt can come to: verified, a delivery that is not GREEN, a
\* failure, or a routing to a human or to a stop.
Finished ==
    {[run EXCEPT !.state = "verified", !.last = Passed, !.latest = Passed, !.value = v] :
        v \in {"green", "red", "undelivered"}}
    \cup {[run EXCEPT !.state = IF run.attempts >= run.ceiling
                                THEN "human_required" ELSE "retry_pending",
                      !.last = Passed, !.latest = Passed]}
    \cup {[run EXCEPT !.state = AfterFailure, !.last = r, !.latest = r] : r \in Signatures}
    \cup {[run EXCEPT !.state = "human_required", !.last = r, !.latest = r, !.routed = TRUE] :
             r \in Signatures}
    \cup {[run EXCEPT !.state = "stopped", !.last = r, !.latest = r] : r \in Signatures}

\* finish_attempt.  repeated is kept if the attempt failed like the one before
\* it, no case is under remediation and a retry is left.
Finish(w) ==
    /\ At(w, "working")
    /\ run' \in Finished
    /\ session' = [session EXCEPT
          ![w].at = "booking",
          ![w].repeated = IF /\ run'.state = "retry_pending"
                             /\ run'.last \in Signatures
                             /\ run'.last = session[w].repeated
                             /\ session[w].remediation = NoSignature
                          THEN run'.last ELSE NoSignature]
    /\ UNCHANGED <<lease, cases, goal, bounds>>

\* AttemptTimeout: the run stays running, the lease is given back.
TimeOut(w) ==
    /\ At(w, "working")
    /\ flaky
    /\ ReleaseLease(w)
    /\ Progress(w, "ending")
    /\ UNCHANGED <<run, cases, goal, bounds>>

\* Slip: a passing verifier resolves the case at once.
BookedEagerly(w) ==
    IF session[w].remediation # NoSignature
    THEN RecordResolution(cases, run.attempts, run.last = Passed, TRUE)
    ELSE IF session[w].repeated # NoSignature
    THEN EnsureFailureCase(cases, session[w].repeated)
    ELSE cases

\* A failed remediation is grilled again; a passing one is left for the value
\* gate; a repeated failure raises a case.
Booked(w) ==
    IF session[w].remediation # NoSignature /\ run.last # Passed
    THEN RecordResolution(cases, run.attempts, FALSE, TRUE)
    ELSE IF session[w].repeated # NoSignature
    THEN EnsureFailureCase(cases, session[w].repeated)
    ELSE cases

Book(w) ==
    /\ At(w, "booking")
    /\ cases' = Booked(w)
    /\ session' = [session EXCEPT ![w] = [Off EXCEPT !.at = "releasing", !.then = "ending",
                                                     !.moved = TRUE]]
    /\ UNCHANGED <<run, lease, goal, bounds>>

Release(w) ==
    /\ At(w, "releasing")
    /\ ReleaseLease(w)
    /\ Goto(w, IF run.state \in Settled THEN "reducing" ELSE "ending")
    /\ UNCHANGED <<run, cases, goal, bounds>>

-----------------------------------------------------------------------------
\* _reduce_run_result: of terminal_runs at the head of a tick, of the result
\* at its end.

Reducible(w) == goal = "active" /\ (session[w].then = "event" => run.state \in Settled)

\* Slip: a settled run that is looked at again counts as progress.
NothingToReduceMoves(w) ==
    /\ At(w, "reducing")
    /\ ~Reducible(w)
    /\ Progress(w, session[w].then)
    /\ UNCHANGED <<store, bounds>>

NothingToReduce(w) ==
    /\ At(w, "reducing")
    /\ ~Reducible(w)
    /\ Goto(w, session[w].then)
    /\ UNCHANGED <<store, bounds>>

\* A run without a receipt, one routed to a human, one whose final delivery is
\* not GREEN, and one a challenger decided on end with a human; the failure
\* cases are left as they are.
ReduceGivenUp(w) ==
    /\ At(w, "reducing")
    /\ Reducible(w)
    /\ \/ run.latest = NoSignature
       \/ run.state # "verified"
       \/ run.value = "undelivered"
    /\ MoveGoal(w, IF \/ run.latest = NoSignature
                      \/ run.state = "verified"
                      \/ run.routed
                      \/ HasDecision(cases)
                   THEN "human_required" ELSE "stopped", session[w].then)
    /\ UNCHANGED <<run, lease, cases, bounds>>

\* The value gate decides on the case first, then on the goal.
ReduceVerified(w) ==
    /\ At(w, "reducing")
    /\ Reducible(w)
    /\ run.state = "verified"
    /\ run.value \in {"green", "red"}
    /\ cases' = RecordResolution(cases, run.attempts, run.value = "green", FALSE)
    /\ Goto(w, IF run.value = "green" THEN "advancing" ELSE "refusing")
    /\ UNCHANGED <<run, lease, goal, bounds>>

RefuseGoal(w) ==
    /\ At(w, "refusing")
    /\ MoveGoal(w, "human_required", session[w].then)
    /\ UNCHANGED <<run, lease, cases, bounds>>

\* The campaign compiler has a next candidate or is done, or it refuses the
\* completion: then no next node is recorded.
CompleteGoal(w) ==
    /\ At(w, "advancing")
    /\ \E step \in {"closing", session[w].then} : MoveGoal(w, "completed", step)
    /\ UNCHANGED <<run, lease, cases, bounds>>

CloseCase(w) ==
    /\ At(w, "closing")
    /\ cases' = RecordNextNode(cases)
    /\ Goto(w, session[w].then)
    /\ UNCHANGED <<run, lease, goal, bounds>>

-----------------------------------------------------------------------------
\* The environment.

\* The challenger outlives its claim, or its process is dead.
ClaimExpires(c) ==
    /\ cases.case[c].live
    /\ cases.case[c].fence <= IF Alone THEN MaxClaims ELSE 1
    /\ cases' = [cases EXCEPT !.case[c].live = FALSE]
    /\ UNCHANGED <<run, lease, goal, session, bounds>>

\* The lease of a dead process expires; RunLifecycle has those of live ones.
LeaseExpires ==
    /\ lease.live
    /\ lease.holder = Gone
    /\ lease' = [lease EXCEPT !.live = FALSE]
    /\ UNCHANGED <<run, cases, goal, session, bounds>>

Crash(w) ==
    /\ w \in crew
    /\ session[w].at # "off"
    /\ Alone
    /\ crashes < MaxCrashes
    /\ crashes' = crashes + 1
    /\ session' = [session EXCEPT ![w] = Off]
    /\ lease' = IF lease.holder = w THEN [lease EXCEPT !.holder = Gone] ELSE lease
    /\ UNCHANGED <<run, cases, goal, crew, flaky, revivals>>

Tick(w) ==
    \/ Startup(w) \/ ProcessEvent(w) \/ EndTick(w)
    \/ Dispatch(w) \/ EnsureCase(w) \/ Claim(w) \/ Judge(w) \/ Park(w)
    \/ Recover(w) \/ AcquireLease(w) \/ ReadRun(w) \/ Begin(w) \/ Finish(w) \/ TimeOut(w)
    \/ Book(w) \/ Release(w)
    \/ NothingToReduce(w) \/ ReduceGivenUp(w) \/ ReduceVerified(w) \/ RefuseGoal(w)
    \/ CompleteGoal(w) \/ CloseCase(w)

Next ==
    \/ \E w \in Workers : StartSession(w) \/ Tick(w) \/ Crash(w)
    \/ \E c \in Signatures : ClaimExpires(c)
    \/ LeaseExpires

Spec == Init /\ [][Next]_vars

\* A scheduler starts the session again after it ended; a session takes its
\* steps; time passes.
FairSpec ==
    /\ Spec
    /\ \A w \in Workers : WF_vars(StartSession(w)) /\ WF_vars(Tick(w))
    /\ \A c \in Signatures : WF_vars(ClaimExpires(c))
    /\ WF_vars(LeaseExpires)
-----------------------------------------------------------------------------
\* Properties.

Undisturbed == Alone /\ ~flaky /\ crashes = 0 /\ revivals = 0
Ticking(w) == session[w].at # "off"
Beginning == run'.attempts > run.attempts

\* However many processes hold a claim on the same generation after claims
\* expired under their challengers, one outcome of it is recorded, and a case
\* is under remediation only on a recorded diagnosis of its generation
\* (claim_grill, record_grill_result, record_grill_failure).
OneOutcome ==
    /\ \A o, p \in cases.outbox :
          o.case = p.case /\ o.generation = p.generation => o = p
    /\ \A c \in Signatures :
          cases.case[c].state = "remediation_running" =>
              \E o \in cases.outbox : /\ o.case = c
                                      /\ o.generation = cases.case[c].generation
                                      /\ o.outcome = "runner-fixable"

\* While one process ticks, and whatever crashes and revivals there were, the
\* last attempt of the full budget is begun after two failures only on a
\* diagnosis (_grill_before_final_attempt, should_grill).
GrilledBeforeLast ==
    [][Beginning /\ Alone /\ run.attempts = MaxAttempts - 1 /\ run.attempts >= 2
          => run.latest \notin Signatures \/ LatestCase(cases, {"remediation_running"}) # NoSignature]_vars

\* "the loop may not silently consume another attempt" (grill_loop.py): while
\* one process ticks undisturbed, no attempt is begun once a challenger
\* refused the goal, failed or was missing.
RefusalStands ==
    [][Beginning /\ Undisturbed => \A o \in cases.outbox : o.outcome = "runner-fixable"]_vars

\* A case is resolved only by the final delivery evidence and the value gate of
\* a verified run, never by a passing verifier alone, and the resolution is
\* never taken back by the reduction that follows it, crashes included
\* (record_resolution in tick and in _reduce_run_result, record_next_node).
ResolvedIsAccepted ==
    \A c \in Signatures :
        /\ Alone /\ cases.case[c].state = "resolved" =>
              /\ run.state = "verified" /\ run.value = "green"
              /\ goal \in {"active", "completed"}
        /\ cases.case[c].closed => cases.case[c].state = "resolved" /\ goal = "completed"

\* A run that spent the whole budget in one undisturbed session leaves no case
\* that waits for a challenger (record_resolution with has_budget).
NothingLeftToGrill ==
    Undisturbed /\ goal # "active" /\ run.attempts = MaxAttempts =>
        \A c \in Signatures : cases.case[c].state \notin Grillable

\* A claim whose process died is taken over, and its generation is decided
\* (claim_expires_at in claim_grill).
ClaimsAreDecided ==
    \A c \in Signatures :
        Alone /\ cases.case[c].state = "grill_claimed" ~> cases.case[c].state # "grill_claimed"

\* A session that nothing disturbs spins on nothing: it ends by its idle streak.
UndisturbedStops ==
    \A w \in Workers : Undisturbed /\ Ticking(w) ~> ~Ticking(w) \/ ~Undisturbed

\* "always stops on a gate rather than spinning" (goal_loop_driver.py).
DriverStops == \A w \in Workers : Ticking(w) ~> ~Ticking(w)
=============================================================================
