------------------------------ MODULE GoalLoop ------------------------------
(***************************************************************************)
(* The goal loop over one stage of a campaign: GoalLoopWorker.tick         *)
(* (lh_runtime/goal_loop_worker.py) turns commands into a goal, admits it  *)
(* as a run (lh_runtime/admission_bridge.py), dispatches the run and       *)
(* reduces its result back onto the goal.  The GoalStore and the RunStore  *)
(* are separate databases and every step below is one transaction on one   *)
(* of them, so the process may die between any two.                        *)
(*                                                                         *)
(* One process ticks at a time, the holder of the driver lease; commands   *)
(* arrive from anywhere.  A run is what RunContract says of it.  The stage *)
(* is verified by a local lamp and has an auto-admissible successor.       *)
(***************************************************************************)
EXTENDS GoalStore, Sequences

CONSTANTS
    Goal,           \* the goal of the stage
    Commands,       \* candidate events, each with its own idempotency key
    Standing,       \* those the worker itself emits, one a day
    Budget,         \* attempts of a run
    MaxCrashes      \* bound on the number of process deaths

\* The other goals of the store are never created here.
ASSUME GoalAssumption == Goal \in Goals
ASSUME CommandsAssumption == IsFiniteSet(Commands) /\ Standing \subseteq Commands
ASSUME BudgetAssumption == Budget \in Nat \ {0}
ASSUME LoopCrashesAssumption == MaxCrashes \in Nat

\* A command bumps the revision at most once, and once more for each time the
\* process dies before the new run is linked.
Revisions == 1..(Cardinality(Commands) + MaxCrashes)

NoCommand == "no_command"
ASSUME NoCommandAssumption == NoCommand \notin Commands

VARIABLES
    goals,      \* the goals table
    source,     \* goals.source_event_key
    command,    \* goal_events.state of each command
    run,        \* the run of each revision, "absent" before create_run
    settled,    \* terminal_runs(): the settled runs, oldest update first
    announced,  \* runs whose stage_completion event is recorded
    worker,     \* the process
    crashes

vars == <<goals, source, command, run, settled, announced, worker, crashes>>

Pending == {"event_received", "candidate"}
CommandStates == Pending \cup {"absent", "active", "completed", "human_required"}

Runnable == {"queued", "retry_pending"}
Terminal == {"verified", "stopped", "human_required"}

\* receipt is the latest receipt of the run: none, one whose routing asks for
\* a human, or one that does not.  leased is the run's own lease.
RunRow == [state: Runnable \cup Terminal \cup {"absent", "running"}, attempts: 0..Budget,
           receipt: {"none", "plain", "human"}, leased: BOOLEAN]

AbsentRun == [state |-> "absent", attempts |-> 0, receipt |-> "none", leased |-> FALSE]

Steps == {"idle", "startup", "reducing", "event", "dispatch", "running",
          "settled", "announcing", "completing", "admitting", "bumped", "created", "admitted", "refused"}

\* then is where the tick goes on after a reduction: after terminal_before it
\* processes events, after terminal_after it is over.
Worker == [at: Steps, run: {0} \cup Revisions, command: Commands \cup {NoCommand},
           then: {"event", "idle"}]

AtRest == [at |-> "idle", run |-> 0, command |-> NoCommand, then |-> "idle"]

TypeOK ==
    /\ goals \in [Goals -> GoalRow]
    /\ goals[Goal].revision \in {0} \cup Revisions
    /\ source \in Commands \cup {NoCommand}
    /\ command \in [Commands -> CommandStates]
    /\ run \in [Revisions -> RunRow]
    /\ settled \in Seq(Revisions)
    /\ announced \subseteq Revisions
    /\ worker \in Worker
    /\ crashes \in 0..MaxCrashes

Init ==
    /\ goals = [g \in Goals |-> AbsentGoal]
    /\ source = NoCommand
    /\ command = [c \in Commands |-> "absent"]
    /\ run = [v \in Revisions |-> AbsentRun]
    /\ settled = <<>>
    /\ announced = {}
    /\ worker = AtRest
    /\ crashes = 0

goal == goals[Goal]
At(step) == worker.at = step
Goto(step) == worker' = [worker EXCEPT !.at = step]
Move(state) == goals' = TransitionGoal(goals, Goal, state)
Answer(state) == command' = [command EXCEPT ![worker.command] = state]

\* A run changes its row; once settled it is the newest of terminal_runs.
UpdateRun(v, row) ==
    /\ run' = [run EXCEPT ![v] = row]
    /\ settled' = IF row.state \in Terminal THEN Append(settled, v) ELSE settled

-----------------------------------------------------------------------------
\* Commands and the start of a tick.

SubmitCommand(c) ==
    /\ c \notin Standing
    /\ command[c] = "absent"
    /\ command' = [command EXCEPT ![c] = "event_received"]
    /\ UNCHANGED <<goals, source, run, settled, announced, worker, crashes>>

\* An open goal blocks the daily intent.
GoalIsOpen == goal.state \in {"candidate", "active", "human_required"}

EmitStandingIntents ==
    /\ At("idle")
    /\ \/ UNCHANGED command
       \/ /\ ~GoalIsOpen
          /\ \E c \in Standing :
                /\ command[c] = "absent"
                /\ command' = [command EXCEPT ![c] = "event_received"]
    /\ Goto("startup")
    /\ UNCHANGED <<goals, source, run, settled, announced, crashes>>

\* Slip: a run without a further attempt is not recovered.
StaleRunsWithBudget ==
    {v \in Revisions : /\ run[v].state = "running"
                       /\ ~run[v].leased
                       /\ run[v].attempts < Budget}

StaleRuns == {v \in Revisions : run[v].state = "running" /\ ~run[v].leased}

\* reconcile_startup: what a dead attempt left behind decides, see RunStore.
Startup ==
    /\ At("startup")
    /\ IF StaleRuns = {}
       THEN /\ Goto("reducing")
            /\ UNCHANGED <<run, settled>>
       ELSE \E v \in StaleRuns :
               \/ UpdateRun(v, [run[v] EXCEPT !.state = "retry_pending"]) /\ UNCHANGED worker
               \/ /\ UpdateRun(v, [run[v] EXCEPT !.state = "human_required", !.receipt = "plain"])
                  /\ UNCHANGED worker
               \/ /\ run[v].attempts = Budget
                  /\ UpdateRun(v, [run[v] EXCEPT !.state = "stopped", !.receipt = "plain"])
                  /\ UNCHANGED worker
    /\ UNCHANGED <<goals, source, command, announced, crashes>>

-----------------------------------------------------------------------------
\* _reduce_run_result: the result of run v is carried over to an active goal.

\* A human is asked if there is no receipt, if the receipt routes to one, if
\* the delivery or the value of a verified run is not GREEN, or if the final
\* attempt failed after a grill.
Reduce(v, then) ==
    \/ /\ goal.state # "active"
       /\ worker' = [worker EXCEPT !.at = then]
       /\ UNCHANGED goals
    \/ /\ goal.state = "active"
       /\ Move("human_required")
       /\ worker' = [worker EXCEPT !.at = then]
    \/ /\ goal.state = "active"
       /\ run[v].state = "verified"
       /\ worker' = [worker EXCEPT !.at = "announcing", !.run = v, !.then = then]
       /\ UNCHANGED goals
    \/ /\ goal.state = "active"
       /\ run[v].state # "verified"
       /\ run[v].receipt = "plain"
       /\ Move("stopped")
       /\ worker' = [worker EXCEPT !.at = then]

\* terminal_before: the oldest settled run is reduced, whether or not it is
\* the run the goal is linked to.
ReduceOneTerminalRun ==
    /\ At("reducing")
    /\ IF settled = <<>> THEN Goto("event") /\ UNCHANGED goals ELSE Reduce(Head(settled), "event")
    /\ UNCHANGED <<source, command, run, settled, announced, crashes>>

\* Slip: the goal is completed first and its successor recorded after.
CompleteGoalFirst ==
    /\ At("announcing")
    /\ Move("completed")
    /\ Goto("completing")
    /\ UNCHANGED <<source, command, run, settled, announced, crashes>>

\* record_event of the successor's candidate, deduplicated by its key.
AnnounceSuccessor ==
    /\ At("announcing")
    /\ announced' = announced \cup {worker.run}
    /\ Goto("completing")
    /\ UNCHANGED <<goals, source, command, run, settled, crashes>>

CompleteGoal ==
    /\ At("completing")
    /\ Move("completed")
    /\ Goto(worker.then)
    /\ UNCHANGED <<source, command, run, settled, announced, crashes>>

-----------------------------------------------------------------------------
\* _process_one_event.

NothingPending ==
    /\ At("event")
    /\ \A c \in Commands : command[c] \notin Pending
    /\ Goto("dispatch")
    /\ UNCHANGED <<goals, source, command, run, settled, announced, crashes>>

\* A candidate for an active goal is bound to it.  The event lease of a dead
\* process may hide the oldest command, so any pending one may be next.
BindCommand(c) ==
    /\ At("event")
    /\ command[c] \in Pending
    /\ goal.state = "active"
    /\ command' = [command EXCEPT ![c] = "active"]
    /\ Goto("dispatch")
    /\ UNCHANGED <<goals, source, run, settled, announced, crashes>>

Take(c) == worker' = [worker EXCEPT !.at = "admitting", !.command = c]

\* create_candidate, its replay by the event that created the goal, and the
\* revival of a parked or terminal goal by another event.
ProcessCandidate(c) ==
    /\ At("event")
    /\ command[c] \in Pending
    /\ \/ /\ goal.state = "absent"
          /\ goals' = CreateCandidate(goals, Goal, NoGoal, {})
          /\ source' = c
          /\ command' = [command EXCEPT ![c] = "candidate"]
       \/ /\ goal.state = "candidate" \/ (source = c /\ goal.state \notin {"absent", "active"})
          /\ UNCHANGED <<goals, source, command>>
       \/ /\ source # c
          /\ goal.state \in {"human_required", "stopped", "completed"}
          /\ Move("candidate")
          /\ UNCHANGED <<source, command>>
    /\ Take(c)
    /\ UNCHANGED <<run, settled, announced, crashes>>

-----------------------------------------------------------------------------
\* GoalAdmissionBridge.admit.

\* The run the goal is linked to, otherwise the run of its revision.
ExistingRun == IF goal.run # 0 THEN goal.run ELSE goal.revision

\* The envelope, the base revision or the goal's state does not admit.
RefuseAdmission ==
    /\ At("admitting")
    /\ IF goal.state = "candidate" THEN Move("human_required") ELSE UNCHANGED goals
    /\ Goto("refused")
    /\ UNCHANGED <<source, command, run, settled, announced, crashes>>

Admissible == At("admitting") /\ goal.state = "candidate"

RefuseParkedRun ==
    /\ Admissible
    /\ run[ExistingRun].state = "human_required"
    /\ Move("human_required")
    /\ Goto("refused")
    /\ UNCHANGED <<source, command, run, settled, announced, crashes>>

\* Slip: a verified run is linked again (the day-1 bug of revival_canary).
RelinkVerifiedRun ==
    /\ Admissible
    /\ run[ExistingRun].state \in Runnable \cup {"running", "verified"}
    /\ goals' = ActivateWithRun(goals, Goal, ExistingRun)
    /\ Answer("active")
    /\ Goto("admitted")
    /\ UNCHANGED <<source, run, settled, announced, crashes>>

ReuseOpenRun ==
    /\ Admissible
    /\ run[ExistingRun].state \in Runnable \cup {"running"}
    /\ goals' = ActivateWithRun(goals, Goal, ExistingRun)
    /\ Answer("active")
    /\ Goto("admitted")
    /\ UNCHANGED <<source, run, settled, announced, crashes>>

\* Slip: the cap is forgotten, as if every cycle had succeeded.
BumpRevisionAlways ==
    /\ Admissible
    /\ run[ExistingRun].state \in {"stopped", "verified"}
    /\ goals' = BumpRevision(goals, Goal)
    /\ Goto("bumped")
    /\ UNCHANGED <<source, command, run, settled, announced, crashes>>

\* A settled run is never linked again; a failed one only while the cap of
\* revisions allows.
BumpForNewRun ==
    /\ Admissible
    /\ \/ run[ExistingRun].state = "verified"
       \/ run[ExistingRun].state = "stopped" /\ goal.revision < MaxGoalRevisions
    /\ goals' = BumpRevision(goals, Goal)
    /\ Goto("bumped")
    /\ UNCHANGED <<source, command, run, settled, announced, crashes>>

\* Slip: the refusal is not written to the event.
RefuseAtCapSilently ==
    /\ Admissible
    /\ run[ExistingRun].state = "stopped"
    /\ goal.revision >= MaxGoalRevisions
    /\ Goto("dispatch")
    /\ UNCHANGED <<goals, source, command, run, settled, announced, crashes>>

\* revision_cap_reached: the goal itself is left a candidate.
RefuseAtCap ==
    /\ Admissible
    /\ run[ExistingRun].state = "stopped"
    /\ goal.revision >= MaxGoalRevisions
    /\ Goto("refused")
    /\ UNCHANGED <<goals, source, command, run, settled, announced, crashes>>

CreateRun ==
    /\ \/ At("bumped")
       \/ Admissible /\ run[ExistingRun].state = "absent"
    /\ run' = [run EXCEPT ![goal.revision] = [AbsentRun EXCEPT !.state = "queued"]]
    /\ Goto("created")
    /\ UNCHANGED <<goals, source, command, settled, announced, crashes>>

\* Slip: the goal is linked before its run exists.
ActivateNewRunEarly ==
    /\ worker.at \in {"bumped", "created"}
    /\ goals' = ActivateWithRun(goals, Goal, goal.revision)
    /\ Answer("active")
    /\ Goto("admitted")
    /\ UNCHANGED <<source, run, settled, announced, crashes>>

ActivateNewRun ==
    /\ At("created")
    /\ goals' = ActivateWithRun(goals, Goal, goal.revision)
    /\ Answer("active")
    /\ Goto("admitted")
    /\ UNCHANGED <<source, run, settled, announced, crashes>>

\* The command is answered last.
AnswerCommand ==
    /\ worker.at \in {"admitted", "refused"}
    /\ Answer(IF At("admitted") THEN "completed" ELSE "human_required")
    /\ Goto("dispatch")
    /\ UNCHANGED <<goals, source, run, settled, announced, crashes>>

-----------------------------------------------------------------------------
\* _dispatch_one_run and the tick of the run.

Eligible(v) == goal.state = "active" /\ goal.run = v /\ run[v].state \in Runnable

NothingEligible ==
    /\ At("dispatch")
    /\ \A v \in Revisions : ~Eligible(v)
    /\ worker' = AtRest
    /\ UNCHANGED <<goals, source, command, run, settled, announced, crashes>>

DispatchRun(v) ==
    /\ At("dispatch")
    /\ Eligible(v)
    /\ IF run[v].attempts < Budget
       THEN /\ UpdateRun(v, [run[v] EXCEPT !.state = "running", !.leased = TRUE,
                                           !.attempts = @ + 1])
            /\ worker' = [worker EXCEPT !.at = "running", !.run = v]
       ELSE /\ UpdateRun(v, [run[v] EXCEPT !.state = "human_required"])
            /\ worker' = [worker EXCEPT !.at = "settled", !.run = v]
    /\ UNCHANGED <<goals, source, command, announced, crashes>>

Finish(v, state, receipt) ==
    UpdateRun(v, [run[v] EXCEPT !.state = state, !.receipt = receipt, !.leased = FALSE])

\* The attempt ends and its lease is released; a settled run is reduced at once.
FinishRun ==
    /\ At("running")
    /\ LET v == worker.run IN
       \/ Finish(v, "verified", "plain") /\ Goto("settled")
       \/ Finish(v, "human_required", "human") /\ Goto("settled")
       \/ run[v].attempts = Budget /\ Finish(v, "stopped", "plain") /\ Goto("settled")
       \/ run[v].attempts < Budget /\ Finish(v, "retry_pending", "plain") /\ worker' = AtRest
    /\ UNCHANGED <<goals, source, command, announced, crashes>>

\* terminal_after: the run that was just dispatched is reduced.
ReduceRunResult ==
    /\ At("settled")
    /\ Reduce(worker.run, "idle")
    /\ UNCHANGED <<source, command, run, settled, announced, crashes>>

-----------------------------------------------------------------------------
\* The environment.

\* AttemptTimeout: the lease is released, the run is left running.
AbandonAttempt ==
    /\ At("running")
    /\ run' = [run EXCEPT ![worker.run] = [@ EXCEPT !.leased = FALSE]]
    /\ worker' = AtRest
    /\ UNCHANGED <<goals, source, command, settled, announced, crashes>>

LeaseExpires(v) ==
    /\ run[v].leased
    /\ run' = [run EXCEPT ![v] = [@ EXCEPT !.leased = FALSE]]
    /\ UNCHANGED <<goals, source, command, settled, announced, worker, crashes>>

Crash ==
    /\ ~At("idle")
    /\ crashes < MaxCrashes
    /\ crashes' = crashes + 1
    /\ worker' = AtRest
    /\ UNCHANGED <<goals, source, command, run, settled, announced>>

Tick ==
    \/ EmitStandingIntents
    \/ Startup
    \/ ReduceOneTerminalRun
    \/ AnnounceSuccessor
    \/ CompleteGoal
    \/ NothingPending
    \/ \E c \in Commands : BindCommand(c) \/ ProcessCandidate(c)
    \/ RefuseAdmission
    \/ RefuseParkedRun
    \/ ReuseOpenRun
    \/ BumpForNewRun
    \/ RefuseAtCap
    \/ CreateRun
    \/ ActivateNewRun
    \/ AnswerCommand
    \/ NothingEligible
    \/ \E v \in Revisions : DispatchRun(v)
    \/ FinishRun
    \/ ReduceRunResult

Next ==
    \/ Tick
    \/ AbandonAttempt
    \/ Crash
    \/ \E c \in Commands : SubmitCommand(c)
    \/ \E v \in Revisions : LeaseExpires(v)

Spec == Init /\ [][Next]_vars

\* The driver ticks again and again, and a lease runs out.
FairSpec ==
    /\ Spec
    /\ WF_vars(Tick)
    /\ \A v \in Revisions : WF_vars(LeaseExpires(v))
-----------------------------------------------------------------------------
\* Properties.

\* The two databases agree about an active goal wherever the process died: the
\* run it is linked to exists and is the run of its current revision (admit,
\* activate_with_run).
ActiveIsBacked ==
    goal.state = "active" => goal.run = goal.revision /\ run[goal.run].state # "absent"

\* "Capped at MAX_GOAL_REVISIONS": a goal whose runs all failed never gets
\* beyond the cap, however often it is re-issued (bump_revision).
FailLoopIsCapped ==
    goal.revision > MaxGoalRevisions => \E v \in Revisions : run[v].state = "verified"

\* A settled run is never linked to a goal that becomes active (admit: "a
\* terminal run is never re-linked").
Activates == goal.state # "active" /\ goals'[Goal].state = "active"
FreshRunPerCycle ==
    [][Activates => run[goals'[Goal].run].state \notin Terminal]_vars

\* The tick never asks the store for a move it refuses, although it decides on a
\* state it read several transactions earlier: transition_goal raises "invalid
\* goal transition", activate_with_run "goal is not an admissible candidate".
MovesAreAllowed ==
    [][\A g \in Goals :
          /\ goals'[g].state # goals[g].state =>
                goals'[g].state \in IF Exists(goals, g) THEN AllowedTransitions[goals[g].state]
                                    ELSE {"candidate"}
          /\ goals'[g].run # goals[g].run => goals[g].state = "candidate"]_vars

\* A goal is completed only by a verified run, after the event that carries
\* its successor is durable (_reduce_run_result).
Completes == goal.state # "completed" /\ goals'[Goal].state = "completed"
CompletionIsAnnounced ==
    [][Completes => run[worker.run].state = "verified" /\ worker.run \in announced]_vars

\* Every command gets an answer, wherever the process died while it was being
\* processed (_process_one_event).
CommandsAreAnswered == \A c \in Commands : command[c] \in Pending ~> command[c] \notin Pending

\* An active goal does not stay active: its run is recovered, retried and
\* reduced until the goal leaves the state (tick).
ActiveGoalsEnd == goal.state = "active" ~> goal.state # "active"

\* The run that completed a goal is the one the goal is linked to, never the
\* settled run of an earlier cycle (revival_canary: "the next tick consumed
\* the stale receipt instead of re-running the lamp").
CompletedByItsOwnRun == goal.state = "completed" => run[goal.run].state = "verified"
=============================================================================
