------------------------------ MODULE TaskArea ------------------------------
(***************************************************************************)
(* The bounded tick of lh_runtime/task_area.py over the approved units of  *)
(* one parent goal: the controller selects a compatible wave, one pool     *)
(* thread per selected unit consumes its dispatch and runs its executor    *)
(* (parallel_scheduler.py, successor_executor.py), and the caller of the   *)
(* pool completes the results one after the other (work_unit_completion.py)*)
(* while later threads of the wave still run.                              *)
(*                                                                         *)
(* The controller holds the task-area lock for the whole tick, so there is *)
(* one tick at a time; a crash drops the lock and every thread and keeps   *)
(* the store and the executor's files.                                     *)
(***************************************************************************)
EXTENDS WorkUnitStore

CONSTANTS
    DependsOn,      \* depends_on of each unit
    MaxCycles,      \* max_cycles of tick
    MaxFaults       \* bound on crashes, failures, RED verdicts and lost outcomes

ASSUME DependsOnAssumption == DependsOn \in [Units -> SUBSET Units]
ASSUME MaxCyclesAssumption == MaxCycles \in 1..100
ASSUME MaxFaultsAssumption == MaxFaults \in Nat

VARIABLES
    unit,       \* the store: one WorkUnit value per node
    file,       \* the executor's files of each attempt
    refused,    \* attempts whose candidate the scope check refuses
    thread,     \* what is being done for each unit of the wave
    area,       \* the tick: its cycle, wave, visited and delivery_waits
    faults,     \* how many of MaxFaults have happened
    started,    \* history: processes started for each attempt
    performed   \* history: how often each phase's effect was performed

durable == <<unit, file, refused>>
history == <<started, performed>>
vars == <<unit, file, refused, thread, area, faults, started, performed>>

Files == {"invocation", "task", "receipt", "failure", "recovery"}

\* consume .. reconcile run in the unit's pool thread, which ends in one of
\* Results; advance and perform run on the caller of the pool.
Results == {"accepted", "pending", "rescheduled", "blocked"}
ThreadStates == {"idle", "consume", "bind", "dispatch", "spawn", "process", "seal",
                 "accept", "retry", "reconcile", "advance", "perform"} \cup Results

Thread == [pc: ThreadStates, visit: 0..MaxLaunches]
NoThread == [pc |-> "idle", visit |-> 0]

Area == [pc: {"idle", "select", "drain"}, cycle: 0..MaxCycles, wave: SUBSET Units,
         visited: SUBSET (Units \X (0..MaxLaunches)), waits: [Units -> 0..MaxLaunches]]
Unlocked == [pc |-> "idle", cycle |-> 0, wave |-> {}, visited |-> {},
             waits |-> [u \in Units |-> 0]]

Init ==
    /\ unit = [u \in Units |-> Registered]
    /\ file = [u \in Units |-> [a \in Ordinals |-> {}]]
    /\ refused = [u \in Units |-> {}]
    /\ thread = [u \in Units |-> NoThread]
    /\ area = Unlocked
    /\ faults = 0
    /\ started = [u \in Units |-> [a \in Ordinals |-> 0]]
    /\ performed = [u \in Units |-> [a \in Ordinals |-> [p \in Phases |-> 0]]]

-----------------------------------------------------------------------------
\* The controller: selection of a wave.

Occupied == {u \in Units : Occupies(unit[u])}

\* visit in _tick_owned: a unit is replayed at most once per tick unless its
\* attempt changed or the delivery it waited for has happened.
Visitable(u) ==
    \/ <<u, unit[u].attempts>> \notin area.visited
    \/ /\ area.waits[u] # 0
       /\ area.waits[u] = unit[u].attempts
       /\ DeliveryPending(unit, u) = {}

Candidates ==
    {u \in Units : /\ unit[u].state # "integrated"
                   /\ \A d \in DependsOn[u] : unit[d].state = "integrated"
                   /\ Visitable(u)}

Eligible == {u \in Candidates : Compatible(Occupied \cup {u})}

\* S comes before T among the combinations of one size.
Before(S, T) == \E x \in S \ T : \A y \in T \ S : x < y

\* _choose_compatible: the first of the largest compatible groups, if any.
Groups == {S \in SUBSET Eligible : Cardinality(S) <= MaxWorkers /\ Compatible(S)}
Largest == {S \in Groups : \A T \in Groups : Cardinality(T) <= Cardinality(S)}
Selected == UNION {S \in Largest : \A T \in Largest \ {S} : Before(S, T)}

\* Units that hold a slot are drained first come, the others take what is left.
Remaining == IF Cardinality(Occupied) < MaxWorkers
             THEN MaxWorkers - Cardinality(Occupied) ELSE 0
\* Slip: units that hold a slot compete for the free ones too.
DrainingFreeSlots == {u \in Selected : Cardinality({v \in Selected : v < u}) < Remaining}

Draining ==
    {u \in Selected : \/ u \in Occupied
                      \/ Cardinality({v \in Selected \ Occupied : v < u}) < Remaining}

StartTick ==
    /\ area.pc = "idle"
    /\ area' = [area EXCEPT !.pc = "select"]
    /\ UNCHANGED <<durable, thread, faults, history>>

SelectWave ==
    /\ area.pc = "select"
    /\ Draining # {}
    /\ area' = [area EXCEPT !.pc = "drain", !.wave = Draining]
    /\ thread' = [u \in Units |->
          IF u \in Draining THEN [pc |-> "consume", visit |-> unit[u].attempts]
                            ELSE NoThread]
    /\ UNCHANGED <<durable, faults, history>>

EndTick ==
    /\ area.pc = "select"
    /\ Draining = {}
    /\ area' = Unlocked
    /\ UNCHANGED <<durable, thread, faults, history>>

-----------------------------------------------------------------------------
\* Steps of the pool thread of a unit.

Goto(u, pc) == thread' = [thread EXCEPT ![u].pc = pc]

Store(u, s) == unit' = [unit EXCEPT ![u] = s]

At(u, pc) == thread[u].pc = pc

Attempt(u) == unit[u].attempts

FilesOf(u) == file[u][Attempt(u)]

\* One of the adverse outcomes the bound counts.
Fault == faults < MaxFaults /\ faults' = faults + 1

Write(u, kind) == file' = [file EXCEPT ![u][Attempt(u)] = @ \cup {kind}]

\* consume_dispatch: the first call admits the unit, a later one replays.
Consume(u) ==
    /\ At(u, "consume")
    /\ unit[u].executor = "none"
    /\ IF Admits(unit, u)
       THEN Store(u, ConsumeDispatch(unit[u])) /\ Goto(u, "bind")
       ELSE UNCHANGED unit /\ Goto(u, "blocked")
    /\ UNCHANGED <<file, refused, area, faults, history>>

Replay(u) ==
    /\ At(u, "consume")
    /\ unit[u].executor # "none"
    /\ Goto(u, CASE unit[u].executor = "ready" -> "dispatch"
                 [] unit[u].executor = "accepted" -> "accepted"
                 [] OTHER -> "pending")
    /\ UNCHANGED <<durable, area, faults, history>>

Bind(u) ==
    /\ At(u, "bind")
    /\ Store(u, BindDeliveryContract(unit[u]))
    /\ Goto(u, "dispatch")
    /\ UNCHANGED <<file, refused, area, faults, history>>

\* CommandExecutorAdapter.dispatch on an attempt that has files: it only reads
\* back what they say, and never starts another process.
ReadBack(u) ==
    /\ At(u, "dispatch")
    /\ FilesOf(u) # {}
    /\ Goto(u, IF {"task", "receipt"} \subseteq FilesOf(u) THEN "accept"
               ELSE IF "task" \in FilesOf(u) THEN "blocked"
               ELSE IF "failure" \in FilesOf(u) THEN "retry" ELSE "reconcile")
    /\ IF FilesOf(u) = {"invocation"} THEN Write(u, "recovery") ELSE UNCHANGED file
    /\ UNCHANGED <<unit, refused, area, faults, history>>

Reserve(u) ==
    /\ At(u, "dispatch")
    /\ FilesOf(u) = {}
    /\ Write(u, "invocation")
    /\ Goto(u, "spawn")
    /\ UNCHANGED <<unit, refused, area, faults, history>>

Launch(u) ==
    /\ At(u, "spawn")
    /\ started' = [started EXCEPT ![u][Attempt(u)] = @ + 1]
    /\ Goto(u, "process")
    /\ UNCHANGED <<durable, area, faults, performed>>

\* The process exits 0; what it left in the workspace may be refused later.
ExitZero(u) ==
    /\ At(u, "process")
    /\ Write(u, "task")
    /\ \/ UNCHANGED <<refused, faults>>
       \/ Fault /\ refused' = [refused EXCEPT ![u] = @ \cup {Attempt(u)}]
    /\ Goto(u, "seal")
    /\ UNCHANGED <<unit, area, history>>

\* The command cannot be launched, exits nonzero or is terminated at its timeout.
KnownFailure(u) ==
    /\ thread[u].pc \in {"spawn", "process"}
    /\ Fault
    /\ Write(u, "failure")
    /\ Goto(u, "retry")
    /\ UNCHANGED <<unit, refused, area, history>>

\* The readback fails or the timed-out process cannot be terminated.
OutcomeLost(u) ==
    /\ At(u, "process")
    /\ Fault
    /\ Goto(u, "blocked")
    /\ UNCHANGED <<durable, area, history>>

Seal(u) ==
    /\ At(u, "seal")
    /\ Write(u, "receipt")
    /\ Goto(u, "accept")
    /\ UNCHANGED <<unit, refused, area, faults, history>>

Accept(u) ==
    /\ At(u, "accept")
    /\ IsQueued(unit[u])
    /\ Store(u, AcceptExecutorDispatch(unit[u]))
    /\ Goto(u, "accepted")
    /\ UNCHANGED <<file, refused, area, faults, history>>

Retry(u) ==
    /\ At(u, "retry")
    /\ IsQueued(unit[u])
    /\ Store(u, RetryExecutorDispatch(unit[u]))
    /\ Goto(u, IF unit'[u].executor = "ready" THEN "rescheduled" ELSE "pending")
    /\ UNCHANGED <<file, refused, area, faults, history>>

Reconcile(u) ==
    /\ At(u, "reconcile")
    /\ Store(u, ReconcileExecutorUnknown(unit[u]))
    /\ Goto(u, "pending")
    /\ UNCHANGED <<file, refused, area, faults, history>>

-----------------------------------------------------------------------------
\* The caller of the pool: results are taken in selected order.

IsNext(u) == area.pc = "drain" /\ u \in area.wave /\ \A v \in area.wave : u <= v

\* The result of u is settled with these visits and waits; after the last one
\* the next cycle begins, if the tick has one left.
Settled(u, visited, waits) ==
    LET rest == area.wave \ {u}
    IN  IF rest # {} THEN [area EXCEPT !.wave = rest, !.visited = visited, !.waits = waits]
        ELSE IF area.cycle + 1 = MaxCycles THEN Unlocked
        ELSE [pc |-> "select", cycle |-> area.cycle + 1, wave |-> {},
              visited |-> visited, waits |-> waits]

\* visited of a result: the visit itself, and the first attempt it made.
Visited(u) ==
    area.visited \cup {<<u, thread[u].visit>>}
        \cup (IF thread[u].visit = 0 /\ thread[u].pc \in {"accepted", "pending"}
              THEN {<<u, Attempt(u)>>} ELSE {})

NotWaiting(u) == [area.waits EXCEPT ![u] = 0]

\* A result without an accepted executor receipt has nothing to complete.
CollectIncomplete(u) ==
    /\ IsNext(u)
    /\ thread[u].pc \in Results \ {"accepted"}
    /\ area' = Settled(u, Visited(u), NotWaiting(u))
    /\ thread' = [thread EXCEPT ![u] = NoThread]
    /\ UNCHANGED <<durable, faults, history>>

CollectAccepted(u) ==
    /\ IsNext(u)
    /\ At(u, "accepted")
    /\ area' = [area EXCEPT !.visited = Visited(u)]
    /\ Goto(u, "advance")
    /\ UNCHANGED <<durable, faults, history>>

\* advance returns, with the unit waiting for a delivery or not.
Return(u, waits) ==
    /\ area' = Settled(u, area.visited, waits)
    /\ thread' = [thread EXCEPT ![u] = NoThread]

Advancing(u) == At(u, "advance")

\* The phase advance is about to enter, once it has accepted the candidate.
Entering(u, p) ==
    /\ Advancing(u)
    /\ Attempt(u) \notin refused[u]
    /\ NextPhase(u, unit[u]) = p

\* Nothing changed, a path out of scope or no test delta: incomplete, not RED.
CandidateRefused(u) ==
    /\ Advancing(u)
    /\ Attempt(u) \in refused[u]
    /\ Return(u, NotWaiting(u))
    /\ UNCHANGED <<durable, faults, history>>

\* Slip: the effect of a claimed phase is performed again.
ClaimPhaseAgain(u, p) ==
    /\ Entering(u, p)
    /\ PhaseOf(unit[u], p) \in {"none", "claimed"}
    /\ p = "machine_complete" => unit[u].verdict = Attempt(u)
    /\ CanClaim(unit, u, p)
    /\ Store(u, SetPhase(unit[u], p, "claimed"))
    /\ performed' = [performed EXCEPT ![u][Attempt(u)][p] = @ + 1]
    /\ Goto(u, "perform")
    /\ UNCHANGED <<file, refused, area, faults, started>>

\* _effect claims the phase before it performs the effect.
ClaimPhase(u, p) ==
    /\ Entering(u, p)
    /\ PhaseOf(unit[u], p) = "none"
    /\ p = "machine_complete" => unit[u].verdict = Attempt(u)
    /\ CanClaim(unit, u, p)
    /\ Store(u, SetPhase(unit[u], p, "claimed"))
    /\ performed' = [performed EXCEPT ![u][Attempt(u)][p] = @ + 1]
    /\ Goto(u, "perform")
    /\ UNCHANGED <<file, refused, area, faults, started>>

SettlePhase(u, p) ==
    /\ At(u, "perform")
    /\ NextPhase(u, unit[u]) = p
    /\ \/ Store(u, SetPhase(unit[u], p, "green")) /\ UNCHANGED faults
       \/ p \in Judged /\ Fault /\ Store(u, SetPhase(unit[u], p, "red"))
    /\ Goto(u, "advance")
    /\ UNCHANGED <<file, refused, area, history>>

\* The effect raises: the claim stays and its outcome is unknown from now on.
EffectRaises(u) ==
    /\ At(u, "perform")
    /\ NextPhase(u, unit[u]) \in Fallible
    /\ Fault
    /\ Return(u, NotWaiting(u))
    /\ UNCHANGED <<durable, history>>

\* completion_reconciliation_required: a claim without a receipt is never redone.
LeaveClaimed(u, p) ==
    /\ Entering(u, p)
    /\ PhaseOf(unit[u], p) = "claimed"
    /\ Return(u, NotWaiting(u))
    /\ UNCHANGED <<durable, faults, history>>

WaitForDelivery(u) ==
    /\ Entering(u, "integration")
    /\ PhaseOf(unit[u], "integration") = "none"
    /\ DeliveryPending(unit, u) # {}
    /\ Return(u, [area.waits EXCEPT ![u] = Attempt(u)])
    /\ UNCHANGED <<durable, faults, history>>

RepairOrStop(u, p) ==
    /\ Entering(u, p)
    /\ PhaseOf(unit[u], p) = "red"
    /\ CanRetryCompletion(unit[u])
    /\ Store(u, RetryCompletion(unit[u]))
    /\ Return(u, NotWaiting(u))
    /\ UNCHANGED <<file, refused, faults, history>>

\* record_delivery_verdict, between delivery_verifier and machine_complete.
RecordVerdict(u) ==
    /\ Entering(u, "machine_complete")
    /\ unit[u].verdict # Attempt(u)
    /\ IF unit[u].bound
       THEN Store(u, RecordDeliveryVerdict(unit[u])) /\ UNCHANGED <<thread, area>>
       ELSE UNCHANGED unit /\ Return(u, NotWaiting(u))
    /\ UNCHANGED <<file, refused, faults, history>>

Finish(u) ==
    /\ Entering(u, "complete")
    /\ unit[u].run = "running"
    /\ CanFinish(unit[u])
    /\ Store(u, FinishAttempt(unit[u]))
    /\ UNCHANGED <<file, refused, thread, area, faults, history>>

Integrate(u) ==
    /\ Entering(u, "complete")
    /\ unit[u].run = "verified"
    /\ CanIntegrate(unit, u)
    /\ Store(u, MarkIntegrated(unit[u]))
    /\ Return(u, NotWaiting(u))
    /\ UNCHANGED <<file, refused, faults, history>>

-----------------------------------------------------------------------------
\* The controller process dies: the lock and every thread are gone.
Crash ==
    /\ area.pc # "idle"
    /\ Fault
    /\ area' = Unlocked
    /\ thread' = [u \in Units |-> NoThread]
    /\ UNCHANGED <<durable, history>>

ThreadStep(u) ==
    \/ Consume(u) \/ Replay(u) \/ Bind(u)
    \/ ReadBack(u) \/ Reserve(u) \/ Launch(u)
    \/ ExitZero(u) \/ KnownFailure(u) \/ OutcomeLost(u)
    \/ Seal(u) \/ Accept(u) \/ Retry(u) \/ Reconcile(u)

Completion(u) ==
    \/ CollectIncomplete(u) \/ CollectAccepted(u) \/ CandidateRefused(u)
    \/ EffectRaises(u) \/ WaitForDelivery(u)
    \/ \E p \in Phases : \/ ClaimPhase(u, p) \/ SettlePhase(u, p)
                         \/ LeaveClaimed(u, p) \/ RepairOrStop(u, p)
    \/ RecordVerdict(u) \/ Finish(u) \/ Integrate(u)

Tick == StartTick \/ SelectWave \/ EndTick

Next ==
    \/ Tick
    \/ \E u \in Units : ThreadStep(u) \/ Completion(u)
    \/ Crash

Spec == Init /\ [][Next]_vars

\* A timer runs the tick again and again, the pool runs every thread, and the
\* executor and every effect are bounded by a timeout.
Fairness ==
    /\ WF_vars(Tick)
    /\ \A u \in Units : WF_vars(ThreadStep(u)) /\ WF_vars(Completion(u))

FairSpec == Spec /\ Fairness

-----------------------------------------------------------------------------
\* Every variable of the task area has the type its rows and files give it.
TypeOK ==
    /\ unit \in [Units -> Unit]
    /\ file \in [Units -> [Ordinals -> SUBSET Files]]
    /\ refused \in [Units -> SUBSET Ordinals]
    /\ thread \in [Units -> Thread]
    /\ area \in Area
    /\ faults \in 0..MaxFaults
    /\ started \in [Units -> [Ordinals -> Nat]]
    /\ performed \in [Units -> [Ordinals -> [Phases -> Nat]]]

\* The work_units, runs, attempts, leases and dispatch rows of a unit are written
\* by different transactions and never disagree about where the unit is.
RowsAgree(s) ==
    /\ CASE s.state = "pending" -> s.run = "none" /\ s.attempts = 0 /\ s.executor = "none"
         [] s.state = "ready" ->
                s.run = "queued" /\ Current(s) = "ready" /\ s.executor \in {"ready", "unknown"}
         [] s.state = "stopped" ->
                s.run = "stopped" /\ Current(s) = "stopped" /\ s.executor = "exhausted"
         [] OTHER -> s.run = s.state /\ Current(s) = s.state /\ s.executor = "accepted"
    /\ s.lease = IF s.state = "running" THEN s.attempts ELSE 0
    /\ \A a \in Ordinals : /\ a > s.attempts => s.row[a] = "absent"
                           /\ a < s.attempts => s.row[a] \in {"interrupted", "stopped"}

StoreAgrees == \A u \in Units : RowsAgree(unit[u])

\* The three-launch budget counts what really happened: no attempt starts a
\* second process, whatever crashes, and every attempt but one whose outcome is
\* still open has been counted exactly once.
LaunchesCounted ==
    \A u \in Units :
        /\ unit[u].launches = unit[u].attempts - (IF unit[u].executor = "ready" THEN 1 ELSE 0)
        /\ \A a \in Ordinals : /\ started[u][a] <= 1
                               /\ started[u][a] = 1 => /\ a <= unit[u].attempts
                                                       /\ "invocation" \in file[u][a]

\* A phase effect - a merge, a check run, a verdict - is performed at most once
\* for an attempt, however often the tick is repeated after crashes and errors.
EffectsOnce ==
    \A u \in Units, a \in Ordinals, p \in Phases : performed[u][a][p] <= 1

\* A unit is integrated on the evidence of its own last attempt alone: accepted
\* executor receipt, every phase GREEN, a verdict of that attempt.
IntegratedOnOwnEvidence ==
    \A u \in Units : unit[u].state = "integrated" =>
        LET a == unit[u].attempts
        IN  /\ started[u][a] = 1
            /\ {"task", "receipt"} \subseteq file[u][a]
            /\ a \notin refused[u]
            /\ \A p \in Phases : unit[u].phase[a][p] = "green" /\ performed[u][a][p] = 1
            /\ unit[u].bound /\ unit[u].verdict = a

\* A new attempt replaces only an attempt whose outcome is known: a recorded
\* executor failure or a RED phase, and no claimed effect.  A unit whose
\* executor outcome is unknown is never touched again by the task area.
KnownOutcomeBeforeRetry ==
    [][\A u \in Units :
        LET a == unit[u].attempts
        IN  /\ unit[u].executor = "unknown" => UNCHANGED <<unit[u], started[u]>>
            /\ a > 0 /\ unit'[u].attempts > a =>
                  /\ \/ "failure" \in file[u][a]
                     \/ \E p \in Phases : unit[u].phase[a][p] = "red"
                  /\ \A p \in Phases : unit[u].phase[a][p] # "claimed"]_vars

\* "normal coding units are required to have a binding before they can start"
\* (work_unit_store.py): a running unit has its delivery_bindings row.
BoundBeforeStart == \A u \in Units : unit[u].state = "running" => unit[u].bound

-----------------------------------------------------------------------------
\* The task area implements the delivery of a wave.

Stage(s) == CASE s.state = "pending" -> "waiting"
              [] s.state = "integrated" -> "delivered"
              [] s.state = "stopped" -> "stopped"
              [] OTHER -> "active"

Wave == INSTANCE DeliveryWave WITH stage <- [u \in Units |-> Stage(unit[u])]

\* Whatever the executors, phases, ticks and crashes do, each unit is admitted,
\* delivered or stopped as DeliveryWave allows.
ImplementsWave == Wave!Spec

-----------------------------------------------------------------------------
\* Only a human moves a unit on from here: an unknown executor outcome, a torn
\* receipt, a claimed effect, a refused candidate or a missing binding.
Parked(u) ==
    /\ Occupies(unit[u])
    /\ \/ unit[u].executor = "unknown"
       \/ unit[u].executor = "ready" /\ FilesOf(u) \cap {"task", "receipt"} = {"task"}
       \/ \E p \in Phases : PhaseOf(unit[u], p) = "claimed"
       \/ Attempt(u) \in refused[u]
       \/ NextPhase(u, unit[u]) = "machine_complete" /\ ~unit[u].bound

\* What may keep a unit from ending: a human, or a slot, a path or a delivery
\* held back by another unit that has not ended as integrated.
Excused(u) ==
    \/ unit[u].state \in {"integrated", "stopped"}
    \/ Parked(u)
    \/ \E d \in DependsOn[u] \cup DeliveryAfter[u] : unit[d].state # "integrated"
    \/ /\ unit[u].state = "pending"
       /\ ~Admits(unit, u)

\* The task area comes to rest with every unit ended or excused: no eligible
\* unit is starved of a free slot, and none that has one is forgotten.
ComesToRest == <>[](\A u \in Units : Excused(u))
=============================================================================
