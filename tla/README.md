# Loop Hybrid 2 — TLA+ models and proofs

Loop Hybrid 2 (`lh_runtime/`) is a control loop around a coding agent. A goal
arrives as an event, is admitted as a run, the run spends attempts in which a
model edits a workspace and a machine lamp judges the result, and the outcome
is reduced back onto the goal. Everything the loop knows lives in SQLite
databases and receipt files; processes come and go, die in the middle of a
step, lose their leases to each other and replay what is half done. The models
here are about exactly that part: the state machines of runs, verdicts and goals
and the transactions that move them. What a model writes into a workspace, and
how a verifier judges it, appears only as its outcome.

## The system and its parts

| part | source | state it keeps | operations | modelled by |
|---|---|---|---|---|
| Run store | `run_store.py` | rows of `runs`, `attempts`, `leases`; `artifacts/<run>/<n>/receipt.json` | create, bind and replan the delivery contract, lease, begin, finish, reconcile, park, resolve | `RunStore` (transactions), `RunContract` (promise) |
| Controller, local verifier | `controller.py: tick` | nothing durable; progress of a process | one tick of a run | `RunLifecycle` |
| Controller, external verdict | `controller.py: tick_async, resume_external`, `external_verdict.py`, `external_action_port.py`, `verifier_normalizer.py` | `verdicts` row, action ledger, normalized results and ready events | dispatch an action, park, poll, resolve, normalize, close | `ExternalVerdict` |
| Goal store | `goal_store.py` | `goals` (state, revision, run link, parent, dependencies), `goal_events` | create candidate, transition, activate, bump revision; rollup and dependency break | `GoalStore` (transactions), `GoalHierarchy` |
| Goal loop and admission | `goal_loop_worker.py`, `admission_bridge.py` | progress of the ticking process | standing intents, process one event, admit, dispatch one run, reduce a result | `GoalLoop` |
| Failure cases and grill | `run_store.py`, `grill_loop.py`, `goal_loop_worker.py` | `failure_cases` with generation and fence, `failure_outbox` | ensure, claim, record result or failure, resolve, record the next node | `FailureCases` (transactions), `GrilledRun` |
| Driver session | `goal_loop_driver.py` | the idle streak of a session | start, tick again, stop | `GrilledRun` |
| Owner lease of the driver | `lifecycle.py`, `platform_ports.py` | owner lease file, scheduler lock | acquire, heartbeat, take over, release | not modelled |
| Work unit store | `work_unit_store.py` | rows of `work_units`, `runs`, `attempts`, `leases`, `dispatch_consumptions`, `delivery_bindings`, `completion_phases` | consume a dispatch, bind, accept / retry / reconcile an executor outcome, claim and settle a phase, retry a RED phase, record the verdict, finish, integrate | `WorkUnitStore` (transactions) |
| Task area, consumer, executor, completion | `task_area.py`, `parallel_scheduler.py`, `successor_executor.py`, `work_unit_completion.py` | the executor's files of each attempt; progress of the tick and its pool threads | select a wave, consume and execute in threads, complete in order | `TaskArea`, `DeliveryWave` (promise) |
| Planner recovery of a Run | `work_unit_store.py`, `work_unit_completion.py` | recovery requests with their role claims, decision and disposition | record a request, claim and finish a role call, apply the decision, retry the completion | `UnitRecovery` |
| Durable phase jobs | `work_unit_completion.py: _effect`, `runner_adapter.py`, `work_unit_store.py` | job events, resource slots, completion phases | reserve, acquire slots, submit, claim, launch, record, accept, settle | `PhaseJobs` |
| Post-merge resume | `post_merge_resume.py` | three JSON files: watch, poller's record, controller's state | arm, repair, supersede, claim, poll, hand over, apply, dispatch, finish | `PostMergeResume` |
| Campaign compiler | `campaign_compiler.py` | none | derive the successor candidate | not modelled (pure) |
| Delivery contract | `delivery_contract.py` | none | check contract and evidence | verdict only |
| Ports, fences, executors | `execution_fence*.py`, `platform_*.py`, ... | operating system | run, isolate | outcome only |
| Projections, gates, canaries | `status_snapshot.py`, `*_canary.py`, ... | none | read | not modelled; read for what they promise |

There are two ways from a goal to code. The goal loop runs one goal as one run;
the task area takes an approved list of work units and delivers them in waves.
They share the idea of runs, attempts and fences, not the tables.

How they interact. A driver process calls `GoalLoopWorker.tick` again and again.
A tick reconciles stale runs, reduces one settled run, processes one pending
event (which may create or revive a goal and admit it), dispatches one eligible
run through the controller, and reduces that run if it settled. Admission writes
to the GoalStore and to the RunStore, which are separate databases, so there is
no transaction around it. An external verdict adds two more databases: the
VerdictStore and the ActionLedger. Polling for conclusions happens at start-up
*before* the driver lease is asked for (`goal_loop_run.py:1183`).

A task-area tick holds a file lock. It picks the largest compatible group of
units that fits the free slots, gives each a pool thread which consumes its
dispatch and runs its executor, and completes the results on the calling thread
in the order of the group while later threads still run.
A RED unit may be taken up by the planner recovery, which pays for its calls
from one budget of the Run; a phase may be handed to a carrier process as a
durable job, and only read by the controllers. After a merge, short scheduler
ticks and the hook of the code host both hand the merge to one controller,
which lets the successor be dispatched. A unit is integrated
after eight phases (candidate, checks, verifier, integration, its checks and
verifier, delivery verdict, machine completion), each claimed before its effect
is performed and settled after. Whatever a dead controller leaves is found by
the next tick in the rows and in the executor's files.

What is hard here:

- **late processes**: a run lease is not renewed while an attempt runs, so a
  second process may reconcile and start the next attempt while the first still
  works. Only the fence in the rows keeps the first one from committing, and
  files carry no fence at all;
- **crashes between transactions** of different databases, and between a file
  and a row, with a recovery that must guess right from what it finds;
- **late answers**: an external conclusion asked for by one attempt arrives when
  another is parked;
- **old facts replayed**: each settled run is offered to the reducer at each
  tick, each pending command is replayed until it is answered;
- **effects outside any transaction**: an executor process, a merge, a check run
  happen between a row that announces them and a row that records them; what was
  announced and not recorded may or may not have happened;
- **claims that outlive their holder**: a challenger's generation, a planner
  call, a phase job and a watch are each claimed by a process that may die, or
  be taken for dead while it lives and answers after all;
- **waiting for each other**: units hold slots and paths while they wait for the
  delivery of other units, and only a tick that looks again moves them on;
- **chains inside one transaction**: rollups climb, stops break dependents, and
  validation walks parent links.

The correctness of each part, in one line: the two tables of a run never
disagree and at most one process can still commit; a recorded digest is that of
the file on disk; a run is verified by its own attempt (and its own external
action) with final evidence; an active goal is backed by the run of its current
revision; no failing cycle is endless; a goal is completed by its own run, after
its successor is announced; every command, running attempt and active goal comes
to an end; a parent says what its children say; an executor is never launched
twice for an attempt nor an effect performed twice; a unit is integrated on its
own evidence, in delivery order, and none is forgotten; a failure case is decided
once per generation, before the attempt it guards; role calls never overlap and
keep to their budget; a phase job runs once and frees its slots only when it is
settled; a successor is dispatched by one transition only.

## Modules

`RunStore` is a library without variables: the rows of one run as a record and
each `BEGIN IMMEDIATE` transaction as an operator on it, with its
compare-and-swap as an operator of its own (`HoldsFence`, `CanReconcile`,
`CanResolveWithDelivery`). `StoreOK` collects what those transactions keep true.
A receipt is its typed exit code, its routing, and the fence of the attempt that
wrote it, which stands for its bytes: two attempts never write the same receipt.

`RunContract` is the abstract specification of a run for its owner: attempts are
consumed one at a time up to a budget, a settled run stays settled, it is
verified only with final evidence.

`RunLifecycle` composes `RunStore` with worker processes. Each action is one
step of `LoopController.tick`: `RecoverStaleRun`, `AcquireLease`, `ReadRun`,
`Preflight` (planning included), `VerifierUnready`, `Begin`, `Execute` (model
and verifier), `WriteReceipt`, then `Finish` or `CheckDelivery` /
`FinishWithDelivery` / `FinishRejectedDelivery`, and `ReleaseLease`. A process
may be cut off after any of them (`Crash`), leave through the `finally` block
(`AbandonAttempt`: AttemptTimeout or an error), or find its lease gone
(`LeaseExpires`). `Verdicts` lists the outcomes the code between lines 746 and
1000 can reach, with the receipt that goes with each. The route a model returns
decides before the exit code, so a human or a stop route comes with either; the
models of `src/` that route also report a failure, which keeps the verifier from
running, but `tick` takes any model and does not ask for that.

`ExternalVerdict` composes `RunStore` with the verdict row, the ledger, the
normalizer's ready events and the environment's conclusions. The processes of a
crew tick and poll, `Pollers` only poll. `verdict.by` is a history field: the attempt that
parked the row. `asked[n]` is `verification.op_key` of the receipt of attempt n.

`GoalStore` is the library for the goals table: `CreateCandidate` with
`_validate_hierarchy`, `TransitionGoal` with `_after_goal_transition` (dependents
of a stopped sibling, then the rollup that climbs), `ActivateWithRun`,
`BumpRevision`. `GoalHierarchy` lets producers and the loop apply these to a few
goals in every order; its `subject` remembers the goal that was moved.

`GoalLoop` composes `GoalStore` (one goal) with runs reduced to what
`RunContract` says of them and the process that ticks. Its actions follow `tick`
from `EmitStandingIntents` to `ReduceRunResult`; admission is cut at each commit
(`BumpForNewRun`, `CreateRun`, `ActivateNewRun`, `AnswerCommand`).

`WorkUnitStore` is the library for one work unit: its rows in seven tables as a
record and each transaction of `work_unit_store.py` on it. Admission
(`Admits`) and delivery order (`DeliveryPending`, `CanClaim`) look at the other
units of the parent goal. `DeliveryWave` is the abstract specification: a unit
enters a slot after its dependencies and without touching another's paths, and
is delivered after the units its delivery waits for, or stopped.

`TaskArea` composes `WorkUnitStore` with the tick. `SelectWave` is the selection
part of `_tick_owned` (`Candidates`, `Eligible`, `Selected`, `Draining`).
`Consume`, `Replay`, `Bind`, `ReadBack`, `Reserve`, `Launch`, `ExitZero`,
`KnownFailure`, `OutcomeLost`, `Seal`, `Accept`, `Retry` and `Reconcile` are the
steps of a unit's pool thread; `file[u][a]` is the set of files the executor
adapter has written for an attempt. `CollectIncomplete` to `Integrate` are the
steps of the caller, which takes results in selected order (`IsNext`); `advance`
enters phase after phase (`ClaimPhase`, `SettlePhase`) until the unit waits, is
sent back, or is integrated. `started` and `performed` are history variables:
processes launched and effects performed, which no row records. `Crash` drops
the lock and every thread at any step.

`FailureCases` is the library for the failure cases of a run: one case per
signature, the latest generation of its claims, the order of their last updates
and the outbox of outcomes.
`GrilledRun` composes it with the run, the goal and driver sessions: `Startup`
to `EndTick` are the legs of `GoalLoopWorker.tick`, `EnsureCase`, `Claim`,
`Judge` and `Park` those of `_grill_before_final_attempt`, `Recover` to
`Release` the attempt as `RunLifecycle` has it with the bookings around it
(`Booked`), `ReduceGivenUp` to `CloseCase` those of `_reduce_run_result`. The
history is in the rows themselves: the outbox is never emptied.

`UnitRecovery` models the recovery of one Run. `ClaimPhase` reserves a call of
the audit, the planner or the plan verifier under the budget (`Exhausted`),
`FinishPhase` records what the role answered, `LoseClaim` is what a caller does
to a claim whose owner it takes for dead, `ApplyDecision` and `RetryCompletion`
turn a verified plan into the next attempt. `PhaseJobs` models the jobs: a
controller walks `EnterPhase`, `Reserve` (`Reenter` if the job was listed
already), `AcquireSlots`, `Submit`, `ReadJob`, `AcceptResult`, `SettleJob`; a
carrier `ClaimJob`, `Launch`, `RecordResult`. The list may be read at any moment
between `EnterPhase` and `Reserve`, hence the two ways on from a job another
controller reserved in between: seen in the list it is read, else left alone.
The carrier is `tools/session_task_area.py`, which is not part of the
repository; its steps are external and follow from the store calls it must make.
`effects` counts commands started, which no row does.

`PostMergeResume` models the three files. `Arm`, `Repair`, `Supersede`, `Claim`
and `Finish` are the operations of the watch; `EnterPoll`, `ReadMerge`, `ReadCI`
and `Record` those of the poller; `HandleEvent`, `Acquire`, `Apply`, `Dispatch`
and `Acknowledge` those of the controller, entered by a tick or by the hook.
Locks follow from where the processes stand (`PollerBusy`, `ControllerBusy`): the
poller's is held through `poll_once` and the controller's through
`handle_event`, calls to the outside included; who does not get one in the five
seconds of `locked_file` answers `waiting` (`LockBusy`). A tick polls with the
binding it read at its claim (`alias` of its process), which a repair may have
replaced in the watch since. `requests` is a history variable: the lease
generations that dispatch calls have carried. `MergeHappens` and `CIConcludes`
are steps of the SCM, known only from what the readers accept.

`MCGoalHierarchy` adds the symmetry set and `MCTaskArea` the list of units for
TLC, `MCUnitRecovery` the budgets and a symmetry set, `MCPhaseJobs` the phases
and their slots. The other modules are run directly. Definitions commented "Slip" are plausible mistakes in
the operator that follows them; nothing in a specification uses them, they show
that a property notices the mistake.

## Runs

| run | question | bounds | result |
|---|---|---|---|
| `run_lifecycle` | do rows, fences, digests and verification survive late processes and a crash, and is `RunContract` implemented? | 2 processes, 3 attempts under a contract ceiling of 2, 1 crash | holds |
| | is a running row always resolved, and is a run settled, once only the scheduled process ticks? | the same run | holds under `FairSpec` |
| `external_verdict` | is a run verified only after a record and a success, does it never wait for nothing, is `RunContract` implemented; with one process, are record and action those of its last attempt? | crews of 1 and of 2 dispatchers, 2 attempts, 2 operation keys, 1 crash | holds |
| `verdict_lost` | is every parked run resumed? | 1 process, 1 crash, fair | **violated** |
| `goal_loop` | the goal loop's safety and liveness | 2 commands and 1 standing intent, cap of 2 revisions, 2 attempts, 1 crash | holds |
| `stale_receipt` | is a goal completed by the run it is linked to? | 2 commands, no crash | **violated** |
| `goal_hierarchy` | rollups and dependency breaks | 3 goals (symmetric), at most one dependency each | holds |
| `task_area` | are launches counted, effects performed once, units integrated on their own evidence, is nothing retried on an unknown outcome; is `DeliveryWave` implemented; does every unit end? | 3 units, 2 slots, 2 launches, 2 cycles, 2 faults | holds, the last under `FairSpec` |
| `grilled_run` | are failure cases decided once, before the attempt they guard, also after a death; is none resolved by a refused run or left waiting; does an undisturbed session stop? | crews of 1 and of 2, 3 attempts, 2 signatures, 2 crashes and 1 revival (crew of 1), 4 claims of a case (1 for a crew of 2) | holds, the last two under `FairSpec` |
| `driver_spins` | does the session always stop? | 1 process, no crash, flaky verifier | **violated** |
| `unit_recovery` | do role calls never overlap, within one budget; does a retry follow its own verdict? | 2 processes, 2 requests, 3 attempts, 2 budgets, 1 live process taken for dead | holds |
| `phase_jobs` | do effects respect slots, one command per job; is every phase settled without a fault? | 2 controllers, 2 units of 2 phases, 3 slot classes, 1 fault | holds, the last under `FairSpec` |
| `post_merge_resume` | is the successor dispatched by one transition, is what is completed dispatched, is a settled watch left alone; does a pending watch end? | 2 schedulers, 1 hook, 2 polls, 2 faults | holds, the last under `FairSpec` |

Each module also has a type invariant, and some have supporting invariants that
follow the shape of the transactions rather than a hazard: `AuditedBeforePlanned`
and `StoppedOnlyClosesOut` of `UnitRecovery`, `SettledOnResult` and
`UnknownStands` of `PhaseJobs`, `RefusalStands` of `GrilledRun`,
`MovesAreAllowed` of `GoalLoop`, `StoreAgrees` of `ExternalVerdict` and
`TaskArea`. They hold on the instances above, may be
added to a cfg when a module is changed, and are proved.

Why these bounds are enough to be interesting. Three attempts under a ceiling of
two let an attempt be lost, retried and exhausted, and let the budget be lowered
below `max_attempts` while a run is pending. Two processes let one be late while
the other reconciles and begins; the proofs are for any number. Two operation keys let a retry repeat the
diff of an earlier attempt (and be answered from the ledger) or produce another.
A cap of two revisions and three commands reach the cap after failures and get
beyond it after successes. Three goals make a chain of two levels, siblings that
depend on each other, and cycles of every length up to three. Of the three work
units, one depends on and one is delivered after the first, those two write the
same paths, and one has its verifier before its checks; two faults let a unit be
sent back or stopped while another waits for it, and a crash hit a unit that is
recovering. Three attempts are the least at which a challenger judges before
the last one; two signatures let the failure change under remediation; four
claims let a case be claimed, lost, taken over and regrilled. Two requests of
one RED, and a budget smaller than both need, make them compete. Two units that
want the same heavy and then the same model slot must queue for both; the limit
of two jobs per model slot is scaled to one. Two schedulers let a tick outlive
its claim while the other finishes the watch, and two polls let it be put back
once. In `TaskArea`, `MaxFaults` counts crashes, failures, RED verdicts, refused
candidates and raised effects together; in `PhaseJobs` deaths and missed
deadlines, in `PostMergeResume` deaths, claims that run out under a live tick
and admissions that are not held at the moment. `MaxLaunches` is the caller's
`max_total_launches`, two here and at most three in the code. `MaxCrashes`,
`MaxFaults`, `MaxLaunches`, `MaxCycles`, `RepairBudget`,
`MaxAttempts`, `RepairMax`, `MaxGoalRevisions`, `Budget`, `MaxClaims`,
`MaxRevivals`, `IdleLimit`, `MaxBlinks`, `MaxPolls` and the sizes of the
sets are the only bounds; `Revisions` in `GoalLoop` is derived from them, and
that it is never exceeded is part of `TypeOK` and proved.

Deadlock is checked in every run but two: a driver and a task area can always
tick again, and a goal can always be created, moved or moved back, while a
recovery whose requests are spent and a unit whose phases are all settled have
nothing left to do (`unit_recovery`, `phase_jobs`).

### Fairness

The driver is invoked again and again by an outside scheduler, so the steps of a
tick are weakly fair for a process; `Begin` is strongly fair in `RunLifecycle`
because a tick that finds the run unfit goes round once more, so it is enabled
again and again rather than continuously. A lease ends as time passes. In
`ExternalVerdict` polling is strongly fair, since the driver polls before each
tick; an action that was performed is concluded some day, which is what the
external system owes. In `RunLifecycle` only the process `Timer` is called for
ever; a rival finishes the tick it began and may begin others, and the liveness
properties speak of behaviours where rivals stop in the end (`RivalsGone`): two
processes that keep finding each other's lease alive reconcile nothing. In
`TaskArea` the timer repeats the tick, the pool runs every thread, and executor
and effects are bounded by timeouts. In `GrilledRun` a scheduler starts a session again after it has
stopped, a session goes on, and leases and claims of dead processes run out. In
`PhaseJobs` a controller polls each unit again and again and a carrier runs its
command to the end, both only as long as nothing fails. In `PostMergeResume` the scheduler ticks again, calls to the
outside return and time passes; nothing is assumed of the code host, of the hook
or of the operators. Crashes and timeouts are never fair: they may happen and
are bounded. The liveness runs use these specifications and no other assumption.
`Settles` speaks of runs whose contract can be bound: a run for which nobody
supplies a delivery plan stays queued, which the code intends. `ComesToRest`
says that every unit ends or has one of the reasons in `Excused`: it is parked
for a human (`Parked` lists how), or it waits for another unit's delivery or slot.

## Findings

Three runs show the code doing something else than it says; they are in
`PROJECT.json` with their lines.

1. `verdict_lost`: the recovery pass of `resume_external` re-offers successes
   only. A failure conclusion lost between two databases parks the run for ever.
2. `stale_receipt`: the reducer never compares the settled run with
   `goal.run_id`; a revived goal is completed by the run of an earlier cycle.
3. `driver_spins`: once a case is under remediation and its attempt timed out or
   its verifier was not ready, no later tick can claim the case, each of them
   reports progress, and the driver neither pauses nor begins the last attempt.

Further counterexamples are kept beside the runs, each with a cfg of its own:

| command | what the trace shows |
|---|---|
| `tlc -config HumanRoute.cfg RunLifecycle.tla` | a receipt that routes to a human is reconciled by its exit code alone after a crash, and the attempt is simply retried (`HumanRouteIsKept`) |
| `tlc -config ExternalPolls.cfg ExternalVerdict.tla` | `VerdictStore.resolve` names the run and not the operation key, so a slow poll of attempt 1 answers for attempt 2 (`OwnActionSucceeded`, with a second process that polls) |
| `tlc -config EarlierRecord.cfg ExternalVerdict.tla` | one process normalizes attempt 2; before it closes, another fails that attempt on a late conclusion of attempt 1 and parks attempt 3; `_assemble_external_final_delivery` then takes the latest attempt and verifies it on the record of attempt 2 (`RecordIsOfItsAttempt`; two attempts are not enough to see it) |
| `tlc -config HierarchyCycle.cfg MCGoalHierarchy.tla` | a candidate that closes a cycle is stored with its link, and the next validation under that cycle never ends, inside a transaction (`EveryCreationReturns`) |
| `tlc -config UnboundUnit.cfg MCTaskArea.tla` | dispatch and delivery binding are two transactions and the replay of a dispatch writes no binding: after a crash between them the unit is executed and merged, and then refused at its verdict for ever (`BoundBeforeStart`) |
| `tlc -config UnknownBlocks.cfg MCUnitRecovery.tla` | a role call is settled with the outcome `unknown` while the claim of the next one looks for `outcome_unknown`; "unresolved Run claims block all keys" does not hold (`UnknownBlocks`) |
| `tlc -config SupersededWatch.cfg PostMergeResume.tla` | a watch retired under a tick that still holds its claim is made pending again by the late finish (`SupersededStaysRetired`) |
| `tlc -config LateRepair.cfg PostMergeResume.tla` | the merge is read back, the claim runs out, a second tick is not admitted and gives the claim back: the binding is then repaired although a readback has happened (`RepairedBeforeReadback`) |

The counterexamples of `stale_receipt`, `HierarchyCycle.cfg` and
`UnboundUnit.cfg` were replayed against the Python code, with the same outcome.

Other behaviour met while modelling, which no document rules out: a ceiling of
the delivery contract below `max_attempts`, or a stop that routes to a human,
leaves a case in `grill_required`; a RED final delivery leaves it in
`remediation_running`; a crash between the completion of a goal and
`record_next_node` leaves a resolved case open. With two drivers a challenger
goes on although its fence was rejected. A crash between the claim of a phase
and its reservation makes every later tick answer
`phase_job_reservation_missing_for_claim`, and a job in `outcome_unknown` keeps
its slots until a human settles it. A watch may expire, or be rejected, although
its transition was applied or even dispatched by the hook; a poll that is not
admitted is not counted, so an admission that is never held keeps a watch
pending for ever. In a task area outside durable mode, units that wait by
`delivery_after` may fill every slot while the units they wait for are pending.

## Proofs

`RunStoreProofs` proves, for every operator of `RunStore`, that it keeps
`StoreOK` and the type `Run`; the two modules about runs rest on it. Each of the
others is about one component, or two of one store: `WorkUnitProofs` holds the
proofs of `PhaseJobs` and of `UnitRecovery`, `GoalProofs` those of `GoalLoop` and
of `GoalHierarchy`. Where two specifications meet in one module, one of them has
prefixed names (`JobsSpec`, `HierarchySpec`). The theorems hold for every value of the
constants that meets the named `ASSUME`s of the modules, and assume nothing else:
any finite set of processes, every `MaxAttempts` in 1..4 (the range `create_run`
accepts), every `RepairMax`, any phases and slot limits, any number of requests,
crashes, polls and faults, any units with any dependencies among them and every
launch budget, any commands, attempt budget and cap of revisions, and any finite
set of goals with any parent links and dependencies among them, cycles included.

| module | theorem | states |
|---|---|---|
| `RunLifecycleProofs` | `TypeCorrect` | `TypeOK` |
| | `StoreAlwaysAgrees` | `StoreAgrees`: rows, fences, budget and evidence agree |
| | `AtMostOneCommitter` | `OneCommitter` |
| | `DigestsStayValid` | `ReceiptsMatchDigests` |
| | `VerifiedIsOwn` | `VerifiedByItsOwnAttempt` |
| | `LifecycleImplementsContract` | `ImplementsContract` |
| `ExternalVerdictProofs` | `VerdictTypeCorrect` | `TypeOK` |
| | `ParkedStoreAgrees` | `StoreAgrees` |
| | `WaitsForItsQuestion` | `ParkedIsAsked` |
| | `RecordComesFirst` | `ReadyPrecedesVerified` |
| | `VerifiedByOwnAction` | `VerifiedByItsOwnAction` |
| | `ExternalImplementsContract` | `ImplementsContract` |
| `GoalProofs` | `LoopTypeCorrect` | `TypeOK` of `GoalLoop` |
| | `ActiveIsBackedHolds` | `ActiveIsBacked` |
| | `FailLoopIsCappedHolds` | `FailLoopIsCapped` |
| | `FreshRunPerCycleHolds` | `FreshRunPerCycle`, an action property |
| | `CompletionIsAnnouncedHolds` | `CompletionIsAnnounced`, an action property |
| | `MovesAreAllowedHolds` | `MovesAreAllowed`, an action property |
| | `HierarchyTypeCorrect` | `HierarchyTypeOK` |
| | `StoppedBreaksDependentsHolds` | `StoppedBreaksDependents`, an action property |
| | `RollupReachesTheTopHolds` | `RollupReachesTheTop`, an action property |
| | `ValidationReturns` | `WalkEnds` below every chain of ancestors that ends |
| `WorkUnitProofs` | `RecoveryTypeCorrect` | `TypeOK` of `UnitRecovery` |
| | `RoleCallsNeverOverlap` | `OneRoleCall` |
| | `RoleCallsAreBounded` | `CallsWithinBudget` |
| | `RetriesAreVerified` | `RetriedOnItsVerdict` |
| | `PlansAreAudited` | `AuditedBeforePlanned` |
| | `StoppedRunsOnlyCloseOut` | `StoppedOnlyClosesOut`, an action property |
| | `PhaseJobsTypeCorrect` | `JobsTypeOK` |
| | `EffectsAreExclusive` | `EffectsNeverOverlap` |
| | `SettledByItsResult` | `SettledOnResult` |
| | `UnknownIsFinal` | `UnknownStands`, an action property |
| `GrilledRunProofs` | `TypeCorrect` | `TypeOK` |
| | `OneOutcomeRecorded` | `OneOutcome` |
| | `ResolvedByValueGate` | `ResolvedIsAccepted` |
| | `SpentBudgetLeavesNoCase` | `NothingLeftToGrill` |
| | `LastAttemptIsGrilled` | `GrilledBeforeLast`, an action property |
| | `RefusalIsFinal` | `RefusalStands`, an action property |
| `PostMergeResumeProofs` | `ResumeTypeCorrect` | `TypeOK` |
| | `SuccessorIsAskedForOnce` | `DispatchedAlike`: one generation for all dispatches, after merge and green CI |
| | `CompletionIsHonest` | `CompletedIsDispatched` |
| | `SettledOnce` | `SettledByOneTick`, an action property |
| `TaskAreaProofs` | `TypeCorrect` | `TypeOK` |
| | `RowsNeverDisagree` | `StoreAgrees` |
| | `LaunchesAreCounted` | `LaunchesCounted` |
| | `EffectsPerformedOnce` | `EffectsOnce` |
| | `OwnEvidence` | `IntegratedOnOwnEvidence` |
| | `OutcomeKnownBeforeRetry` | `KnownOutcomeBeforeRetry`, an action property |
| | `TaskAreaImplementsWave` | `ImplementsWave` |

Hardly any of the safety properties is inductive on its own. Each invariant below
was model-checked on the instance of its run before it was proved, and each
action has its own lemma.

**`RunLifecycle`.** `Inv` adds
what the processes know to what the rows say: `WorkerOK` (a process inside an
attempt holds an ordinal that exists, a fence no larger than the run's, and, as
long as the fence of its row is its own, the receipt it computed), `Distinct`
(two processes inside attempts hold different ordinals, since `BeginAttempt`
never uses one twice), `FilesOK` (a receipt on disk was written under the fence
of its row, and only the process of that attempt can still write it),
`VerifiedOK` (final evidence goes with a passing receipt). With these, a late
process fails every compare-and-swap: reconciliation has raised the fence above
its own. The refinement theorem maps each
action to a step of `RunContract` or to a stutter, by the same lemmas.

**`ExternalVerdict`.** Here no fence helps, so the invariant says what remains
true whoever comes late. `VerdictOK`: a verdict row stands for a performed action
and its answer is that of the outside. `AttemptOK` and `FinishOK`: what a process
holds between two steps (its ordinal, the record it normalized, the success it
read) is backed by rows that are never taken back. `ParkedOK`: a parked run has a
row and an action for its last attempt. These need no word on how many processes
there are, and give `ParkedIsAsked`, the refinement and the first half of
`ReadyPrecedesVerified`. The rest holds for one process only: `AloneOK` says that
then the verdict row is of the last attempt, so that the answer it
carries is its own. That the theorem needs this hypothesis is not a weakness of
the proof: without it `ExternalPolls.cfg` and `EarlierRecord.cfg` are
counterexamples.

**`GoalLoop`.** The invariant of the tick, `LoopInv`, is about what two databases
and a process that may die between them agree on. `GoalOK`: the goal is alone in
its table, and a goal without a linked run is at its first revision. `RunsOK`:
only the newest revision may lack a run or have one that is not settled; a goal
that is linked to an older revision is linked to a settled run, and an active
goal to the newest. This is why an open run that `admit` finds may be linked
again. `RevisionsCounted`: every revision after the first was paid for, by a
command that has its answer, by a process that died before it could answer, or by
the command at hand. It bounds the revisions for any cap, since the cap itself
only stops failures. `WorkerOK`: what the process has read (an active goal, a
verified run, a command that waits, a candidate with a new revision) is still
true when it uses it. For the action properties a step is classified by what it
does to the goal: created, moved, linked, or kept. `MovesAreAllowed` is the
justification of a simplification in the model, which has no action for a
transition that the store refuses: there is none.

**`GoalHierarchy`.** Only the types are invariant; the two properties are about one
transaction, whose rollup climbs parent links that may form cycles. The climb is
a recursive function over levels and is never unfolded: `RollupClimbs` names its
levels, `RollupStep` says what one level does, and `EveryLevel` carries a fact
from each level to the next, by the least number that lacks it.
`BrokenStayBroken` needs a fact about the whole climb: while a dependent waits
for a human, the parent at hand has a child that does, so no level reopens it.
`RollupReachesTheTop` rests on `ChainIsSimple`: a chain of parents that ends meets
no goal twice, so the levels above an ancestor change neither it nor its
children, and a climb that stopped below it has changed none of them.
`ValidationReturns` adds the pigeonhole principle: a chain that ends is no longer
than there are goals, so the counterexample of `HierarchyCycle.cfg` needs its
cycle.

**`UnitRecovery`.** `OneOpenClaim` says that over all requests and phases one
claim at most is open, and `CallOK` that a process in a call is the owner of an
open claim; a claim taken from a live process ends in a state that stays open
until it is closed, so its late answer finds no other call beside it.
`StatusOK`, `AttemptOK` and `ResultOK` tie the status of a request to its claims,
to the attempt it is about and to the attempt it led to; `OneResultEach` that no two led to the
same. `CallsWithinBudget` is a cardinality over all claims ever made; it is
inductive because `ClaimPhase` counts the same set in its guard.

**`PhaseJobs`.** `SlotsKept` counts the jobs that own a slot rather than
those that run: a job that waits for its carrier, and one whose outcome is
unknown, keep theirs. `OnePerUnit` says that a unit has at most one job that is
asked for and not settled. `CarrierOK` and `EffectOK` relate the carriers of a job
to its row: only the carrier named there can start or run the command, which is not
started before it exists and has been started once there is a result. `PhaseOK`
relates the phase row to the job row through the crash window between their two
settlements, and `Knows` says that the result a controller goes on with stays.

**`GrilledRun`.** The invariant has four layers. `TableOK` is about the rows
alone and holds for any crew: a case that exists is listed, an outcome belongs
to a generation that was claimed before, one to each, a remediation rests on the
outcome of its own. `Bounded` and `WorkOK` add the lease: only its holder is on
the run, and the attempt it works at is younger than every generation, so that
a failed remediation never asks for a generation beyond the budget. `AloneOK`
is what a process that ticks alone relies on between two steps: the goal is
active and the run open from `Dispatch` to `Begin`, the claim it holds is its
own, and before the last attempt there is a diagnosis or nothing to diagnose.
It survives crashes and revivals. `CalmOK` needs a session without any: one
case at most waits for a challenger, none while an attempt is on its way or the
budget is spent, and an outcome that refused leaves the goal inactive. The lemmas
about the table read its newest case as the last of a finite set of indices,
with no induction of their own.

**`PostMergeResume`.** `OneHandler`: the controller's lock has one holder.
`Knows`: what a process took
into its memory (a CI conclusion, the absence of a transition, the generation it
dispatches with, a completion it will report) is still true when it uses it,
because only the holder of the lock changes a transition, a merge is never
undone and a conclusion never replaced. `TransitionOK`: a transition stands for
a merge with a green CI and for every request made. `WatchOK`: a settled watch
is claimed by nobody, unless it was retired by `settle_superseded`. The last
exception is the counterexample of `SupersededWatch.cfg`: `SettledOnce` cannot be
proved without it.

**`TaskArea`.** Every clause of the invariant is about one unit, and a step
changes one unit, so that the lemma of an action only has to look at its own.
`StoreOK` says that the rows of the unit agree, that its launches are counted
and that an attempt which may still launch, or has not begun, has no phase. `AttemptOK` is about the files and
effects of each attempt: an effect is performed when its claim is recorded and
never again, a process is started once at most and after its invocation file,
its task file comes after the process, and an attempt the rows do not have has
none of these. `Evidence` ties a state of the unit to what it rests on: accepted
goes with the task file and the receipt, integrated with a bound delivery, all
phases GREEN and a verdict of its own that was not refused. `ThreadOK` says that
what a thread has read is still true when it uses it, among other things that
the dependencies of a selected unit are integrated, and they stay so. For the
action property and the refinement each step is classified by its effect on
its unit: admitted to a slot, worked on within its attempt, replaced by a next
attempt, or delivered.

Only model-checked is liveness (`RunningResolves`, `Settles`,
`CommandsAreAnswered`, `ActiveGoalsEnd`, `ComesToRest`, `ClaimsAreDecided`,
`UndisturbedStops`, `UndisturbedSettles`, `WatchEnds`), which the prover does not
reach. Every safety property of a passing run is proved.

## What is abstracted

- `RunLifecycle`: usage ledger, event log, failure signatures and the contents of
  delivery evidence; the model and the verifier are their outcome.
- `ExternalVerdict`: the delivery preflight is GREEN; a source package that is
  RED when the run is parked, a goal that changes its revision while its run is
  parked, and conflicting evidence for one binding are left out; performing an
  operation key twice has no further effect, as the port asks of its adapters.
- `GoalLoop`: one process ticks (the driver lease is taken as given); the base
  revision does not move; campaign failure lines, campaign recovery, turning
  points, grill notes, the external leg and the result events are left out; the
  event lease appears as the choice of any pending command.
- `TaskArea`: the fence of an attempt is its ordinal, which is so on this route;
  leases are taken and dropped but nobody on it checks their expiry; digests and
  bindings of receipts are taken to match; a refused candidate is a property of
  the attempt. Settlement of prerequisites, `ParallelScheduler.dispatch` and the
  route with a recovery port or durable jobs are left out here; what these two
  add is in `UnitRecovery` and `PhaseJobs`.
- `GrilledRun`: one run and one goal; crashes and revivals only for a crew of
  one; the attempt is the outcome of its compare-and-swap, which `RunLifecycle`
  has in full; pause flag, budgets and heartbeats end a session earlier and are
  left out; texts of snapshot, prompt and diagnosis are left out.
- `UnitRecovery`: the checks stand for any phase that can end RED; environment
  successor requests, model slots and the digests of the repair context are left
  out. With a recovery port the completion is called with `allow_retry=False`
  (`task_area.py:2655`), so that attempts after a RED are its own.
  `docs/contracts/planner-recovery-v1.md` (section 4) says that no engine path
  of this version calls the interface: the model is of the store's promise.
- `PhaseJobs`: a unit is its current attempt and its verdicts are left out, as a
  RED only ends the sequence; an observation of a live process that fails is
  covered by the missed deadline.
- `PostMergeResume`: one goal node, so one transition key; the readback of the CI
  is monotone; several goals in one state root, readbacks inside an event and a
  poll without a CI reader are left out. Nothing in `lh_runtime` calls the module
  besides a canary: the processes are the ones its documentation names.
- `GoalHierarchy`: at most one dependency per created goal; no caller moves a
  goal to `stale`.

## Plan

1. `DriverLease`: the owner lease under the scheduler lock, heartbeats and the
   takeover from a process judged dead.
2. `GoalLoop` extended by a moving base revision and by the external leg;
   `ExternalVerdict` extended by revision changes while a run is parked.
3. `UnitRecovery` extended by environment successor requests and repair
   successors of a completed attempt.
4. `PostMergeResume` extended by a second goal node with its own transition.
5. Proofs for each extension as it is made: the invariants above name what a new
   action has to keep.

## Not modelled

The campaign compiler, the delivery contract engine, capability resolution and
the projections are pure: what they compute from documents has no state to
interleave, and the models keep their verdict. Execution fences, workspaces,
process and runner ports act on the operating system; the models keep whether
they succeeded. Most of the remaining lines of the work unit store validate the
shape and the digests of records, which the models take to match.
