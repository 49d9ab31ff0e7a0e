--------------------------- MODULE WorkUnitStore ----------------------------
(***************************************************************************)
(* The work_units, runs, attempts, leases, dispatch_consumptions,          *)
(* delivery_bindings and completion_phases rows of one WorkUnit as a       *)
(* value, and the transactions of lh_runtime/work_unit_store.py on it.     *)
(* The admission of a unit and the delivery order look at the rows of the  *)
(* other units of the parent goal, so they take the whole store.           *)
(*                                                                         *)
(* On this path the fence of an attempt always equals its ordinal: both    *)
(* start at 1 and every new attempt adds one to each.                      *)
(***************************************************************************)
EXTENDS Naturals, Sequences, FiniteSets

CONSTANTS
    Units,          \* the nodes of the approved task list, ordered by node_id
    DeliveryAfter,  \* delivery_after of each unit
    Overlaps,       \* pairs whose read and write sets conflict
    MaxWorkers,     \* max_workers of the controller
    MaxLaunches,    \* max_total_launches, at most MAX_EXECUTOR_LAUNCHES = 3
    RepairBudget,   \* repair_same_unit.max_attempts of the delivery contracts
    Reviewed        \* units whose contract carries a candidate review policy

ASSUME UnitsAssumption == Units \subseteq Nat /\ IsFiniteSet(Units)
ASSUME DeliveryAfterAssumption == DeliveryAfter \in [Units -> SUBSET Units]
ASSUME OverlapsAssumption ==
    /\ Overlaps \subseteq Units \X Units
    /\ \A u, v \in Units : <<u, v>> \in Overlaps => <<v, u>> \in Overlaps
ASSUME MaxWorkersAssumption == MaxWorkers \in 1..3
ASSUME MaxLaunchesAssumption == MaxLaunches \in 1..3
ASSUME RepairBudgetAssumption == RepairBudget \in Nat \ {0}
ASSUME ReviewedAssumption == Reviewed \subseteq Units

Ordinals == 1..MaxLaunches

-----------------------------------------------------------------------------
\* The completion phases, in the order advance claims them.

Phases == {"candidate", "checks", "verifier", "integration", "integration_checks",
           "integration_verifier", "delivery_verifier", "machine_complete"}

\* A review policy moves the verifier before the full checks.
PhaseOrder(u) ==
    (IF u \in Reviewed THEN <<"candidate", "verifier", "checks">>
                       ELSE <<"candidate", "checks", "verifier">>)
    \o <<"integration", "integration_checks", "integration_verifier",
         "delivery_verifier", "machine_complete">>

\* Phases whose evidence carries a verdict, and those whose effect runs a
\* command or git and so can fail without leaving evidence.
Judged == {"checks", "verifier", "integration_checks", "integration_verifier",
           "delivery_verifier"}
Fallible == Phases \ {"delivery_verifier", "machine_complete"}

-----------------------------------------------------------------------------
UnitStates == {"pending", "ready", "running", "verified", "integrated", "stopped"}
RunStates == {"none", "queued", "running", "verified", "integrated", "stopped"}
AttemptStates == {"absent", "ready", "running", "interrupted", "stopped",
                  "verified", "integrated"}
\* executor_status of the dispatch receipt; "none" before it exists.
ExecutorStates == {"none", "ready", "accepted", "unknown", "exhausted"}
PhaseStates == {"none", "claimed", "green", "red"}

Unit == [state: UnitStates, run: RunStates, attempts: 0..MaxLaunches,
         row: [Ordinals -> AttemptStates], lease: 0..MaxLaunches,
         executor: ExecutorStates, launches: 0..MaxLaunches,
         bound: BOOLEAN, verdict: 0..MaxLaunches,
         phase: [Ordinals -> [Phases -> PhaseStates]]]

\* A registered unit without a Run.
Registered ==
    [state |-> "pending", run |-> "none", attempts |-> 0,
     row |-> [a \in Ordinals |-> "absent"], lease |-> 0,
     executor |-> "none", launches |-> 0, bound |-> FALSE, verdict |-> 0,
     phase |-> [a \in Ordinals |-> [p \in Phases |-> "none"]]]

Current(s) == s.row[s.attempts]
PhaseOf(s, p) == s.phase[s.attempts][p]

\* Slip: a RED phase is settled, so the next one is entered.
NextPhasePastRed(u, s) ==
    LET open == {i \in 1..8 : PhaseOf(s, PhaseOrder(u)[i]) \in {"none", "claimed"}}
    IN  IF open = {} THEN "complete"
        ELSE PhaseOrder(u)[CHOOSE i \in open : \A j \in open : i <= j]

\* The first phase of the current attempt that is not settled GREEN.
NextPhase(u, s) ==
    LET open == {i \in 1..8 : PhaseOf(s, PhaseOrder(u)[i]) # "green"}
    IN  IF open = {} THEN "complete"
        ELSE PhaseOrder(u)[CHOOSE i \in open : \A j \in open : i <= j]

-----------------------------------------------------------------------------
\* Admission.

Occupies(s) == s.state \in {"ready", "running", "verified"}

Compatible(S) == \A u, v \in S : u # v => <<u, v>> \notin Overlaps

\* The capacity and scope checks inside consume_dispatch.
Admits(store, u) ==
    LET others == {v \in Units \ {u} : Occupies(store[v])}
    IN  /\ Cardinality(others) < MaxWorkers
        /\ \A v \in others : <<u, v>> \notin Overlaps

\* Queue admission creates the Run and a ready Attempt, never a running one.
ConsumeDispatch(s) ==
    [s EXCEPT !.state = "ready", !.run = "queued", !.attempts = 1,
              !.row[1] = "ready", !.executor = "ready"]

\* The delivery binding is written by a second transaction.
BindDeliveryContract(s) == [s EXCEPT !.bound = TRUE]

-----------------------------------------------------------------------------
\* Executor outcomes.

\* The queue record still is the ready attempt that was launched.
IsQueued(s) == Current(s) = "ready" /\ s.run = "queued" /\ s.state = "ready"

AcceptExecutorDispatch(s) ==
    [s EXCEPT !.state = "running", !.run = "running", !.row[s.attempts] = "running",
              !.lease = s.attempts, !.executor = "accepted", !.launches = @ + 1]

\* A new ready attempt replaces the current one, which becomes old.
NewAttempt(s, old) ==
    [s EXCEPT !.state = "ready", !.run = "queued", !.attempts = @ + 1,
              !.row[s.attempts] = old, !.row[s.attempts + 1] = "ready",
              !.lease = 0, !.executor = "ready"]

Stop(s) ==
    [s EXCEPT !.state = "stopped", !.run = "stopped", !.row[s.attempts] = "stopped",
              !.lease = 0, !.executor = "exhausted"]

\* A known failure: counted, then relaunched while launches are left.
RetryExecutorDispatch(s) ==
    LET counted == [s EXCEPT !.launches = @ + 1]
    IN  IF counted.launches >= MaxLaunches THEN Stop(counted)
                                           ELSE NewAttempt(counted, "interrupted")

\* Slip: the launch is not counted.
ReconcileExecutorUnknownUncounted(s) == [s EXCEPT !.executor = "unknown"]

\* Slip: an unknown outcome is retried like a failure.
ReconcileExecutorUnknownAsFailure(s) == RetryExecutorDispatch(s)

\* An unknown outcome: counted, the attempt stays as it is.
ReconcileExecutorUnknown(s) ==
    [s EXCEPT !.executor = "unknown", !.launches = @ + 1]

-----------------------------------------------------------------------------
\* Completion phases and the terminal transactions.

SetPhase(s, p, v) == [s EXCEPT !.phase[s.attempts][p] = v]

IsIntegrated(s) ==
    s.state = "integrated" /\ s.run = "integrated" /\ Current(s) = "integrated"

\* Slip: nobody waits for a unit that has stopped.
DeliveryPendingActive(store, u) == {v \in DeliveryAfter[u] : ~IsIntegrated(store[v])
                                                      /\ store[v].state # "stopped"}

DeliveryPending(store, u) == {v \in DeliveryAfter[u] : ~IsIntegrated(store[v])}

CanClaim(store, u, p) ==
    /\ store[u].run = "running"
    /\ p = "integration" => DeliveryPending(store, u) = {}

\* A RED phase sends the unit back to a new attempt, or stops it.
CanRetryCompletion(s) == \A p \in Phases : PhaseOf(s, p) # "claimed"
EffectiveBudget == IF RepairBudget < MaxLaunches THEN RepairBudget ELSE MaxLaunches
RepairExhausted(s) == s.attempts >= EffectiveBudget \/ s.launches >= EffectiveBudget
RetryCompletion(s) == IF RepairExhausted(s) THEN Stop(s) ELSE NewAttempt(s, "stopped")

RecordDeliveryVerdict(s) == [s EXCEPT !.verdict = s.attempts]

\* _delivery_verdict_allows_terminal: a verdict of exactly this attempt.
VerdictAllowsTerminal(s) ==
    s.bound /\ s.verdict = s.attempts /\ PhaseOf(s, "delivery_verifier") = "green"

CanFinish(s) ==
    /\ VerdictAllowsTerminal(s)
    /\ Current(s) = "running" /\ s.run = "running" /\ s.lease = s.attempts

FinishAttempt(s) ==
    [s EXCEPT !.state = "verified", !.run = "verified", !.row[s.attempts] = "verified",
              !.lease = 0]

\* advance always finishes the attempt first, so it integrates a verified one.
CanIntegrate(store, u) ==
    /\ VerdictAllowsTerminal(store[u])
    /\ Current(store[u]) = "verified"
    /\ DeliveryPending(store, u) = {}

MarkIntegrated(s) ==
    [s EXCEPT !.state = "integrated", !.run = "integrated",
              !.row[s.attempts] = "integrated", !.lease = 0]
=============================================================================
