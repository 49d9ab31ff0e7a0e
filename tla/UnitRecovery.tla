---------------------------- MODULE UnitRecovery ----------------------------
(***************************************************************************)
(* The planner recovery of one Run: coordinating processes record a        *)
(* request for its RED or its completed attempt, claim one read-only role  *)
(* call after the other (audit, planner, plan verifier), record what the   *)
(* role answered and apply the verified decision                           *)
(* (record_recovery_request .. retry_completion of                         *)
(* lh_runtime/work_unit_store.py).  Every action is one transaction, except *)
(* the role call itself, which happens between a claim and its finish and  *)
(* during which the process may die.                                       *)
(*                                                                         *)
(* The Run's checks stand for any phase that can end RED; ordinal and      *)
(* fence of an attempt move together.  Retries belong to the recovery: with *)
(* a recovery port the completion itself is called with allow_retry=False.  *)
(***************************************************************************)
EXTENDS Naturals, FiniteSets

CONSTANTS
    Hosts,          \* coordinating processes
    Requests,       \* request ids: one per evidence and authority digest
    MaxAttempts,    \* attempts of the Run
    Limits,         \* call budgets a Run may have been given: planner_calls,
                    \* plan_verifier_calls (audits are charged to it too) and the
                    \* failures in a row that require an audit, 3 in the code
    MaxBlinks       \* bound on the observations that miss a live process

ASSUME RequestsAssumption == IsFiniteSet(Requests)
ASSUME MaxAttemptsAssumption == MaxAttempts \in Nat \ {0}
ASSUME LimitsAssumption ==
    Limits \subseteq [planner : Nat \ {0}, verifier : Nat \ {0}, audit : Nat \ {0}]
ASSUME MaxBlinksAssumption == MaxBlinks \in Nat

Ordinals == 1..MaxAttempts
NoRequest == "no_request"
NoHost == "no_host"
ASSUME NamesAssumption == NoRequest \notin Requests /\ NoHost \notin Hosts

VARIABLES
    unit,           \* the runs row, and which attempts have settled RED checks
    parent,         \* state of the parent goal
    approved,       \* the request whose closeout an accepted disposition names
    record,         \* the planning_requests rows of the Run
    late,           \* incident_deadline_at has passed
    call,           \* the role call each process is in
    alive,          \* processes that live
    blinks,
    limits          \* budget_limits of the Run, which never change

vars == <<unit, parent, approved, record, late, call, alive, blinks, limits>>
run == <<unit, parent, approved>>
world == <<late, alive, blinks, limits>>

Phases == {"audit", "planner", "plan_verifier"}
ClaimStates == {"none", "claimed", "success", "failed", "unknown", "outcome_unknown"}

\* "unsupported" stands for collect_evidence and for any plan or verdict that
\* _recovery_validate_plan refuses.
Actions == {"retry", "closeout", "dispatch_successor", "request_authority",
            "insufficient_evidence", "unsupported"}

Statuses == {"absent", "requested", "audit_claimed", "audit_recorded", "claimed",
             "result_recorded", "verifier_claimed", "plan_verified", "applied",
             "awaiting_authority", "awaiting_evidence", "failed", "outcome_unknown"}

\* reason: the RED checks of the attempt, or its machine_complete.
\* intent: the state of the record's apply; resulting: the attempt it began.
Record == [status: Statuses, reason: {"checks", "machine_complete"}, attempt: Ordinals,
           action: Actions \cup {"none"},
           intent: {"none", "retry_pending", "awaiting", "applied"},
           resulting: {0} \cup Ordinals,
           claim: [Phases -> [state: ClaimStates, owner: Hosts \cup {NoHost}]]]

NoRecord ==
    [status |-> "absent", reason |-> "checks", attempt |-> 1, action |-> "none",
     intent |-> "none", resulting |-> 0,
     claim |-> [p \in Phases |-> [state |-> "none", owner |-> NoHost]]]

Idle == <<NoRequest, "planner">>

TypeOK ==
    /\ unit \in [state: {"running", "red", "integrated"}, attempt: Ordinals,
                 red: SUBSET Ordinals]
    /\ parent \in {"active", "stopped"}
    /\ approved \in Requests \cup {NoRequest}
    /\ record \in [Requests -> Record]
    /\ late \in BOOLEAN
    /\ call \in [Hosts -> (Requests \X Phases) \cup {Idle}]
    /\ alive \subseteq Hosts
    /\ blinks \in 0..MaxBlinks
    /\ limits \in Limits

Init ==
    /\ unit = [state |-> "running", attempt |-> 1, red |-> {}]
    /\ parent = "active"
    /\ approved = NoRequest
    /\ record = [r \in Requests |-> NoRecord]
    /\ late = FALSE
    /\ call = [h \in Hosts |-> Idle]
    /\ alive = Hosts
    /\ blinks = 0
    /\ limits \in Limits

-----------------------------------------------------------------------------
\* The claims of the Run, over all its records.

Keys == Requests \X Phases
ClaimOf(k) == record[k[1]].claim[k[2]]
ClaimsIn(states) == {k \in Keys : ClaimOf(k).state \in states}
Made == ClaimsIn(ClaimStates \ {"none"})

Ready(h) == h \in alive /\ call[h] = Idle
IsCurrent(r) == record[r].status # "absent" /\ record[r].attempt = unit.attempt

\* _recovery_incident_conn: the failures in a row up to an attempt, and the
\* first of them, which identifies the incident.
Streak(a) == {n \in Ordinals : n <= a /\ n..a \subseteq unit.red}
Incident(r) == CHOOSE n \in Streak(record[r].attempt) :
                  \A m \in Streak(record[r].attempt) : n <= m
IsRepair(r) == record[r].reason = "checks" /\ record[r].status # "absent"
AuditRequired(r) == IsRepair(r) /\ Cardinality(Streak(record[r].attempt)) >= limits.audit

\* An audit is claimed once in an incident, whatever became of it.
AuditSpent(r) ==
    \E q \in Requests : /\ IsRepair(q)
                        /\ Incident(q) = Incident(r)
                        /\ record[q].claim["audit"].state # "none"

\* Slip: the calls of this request alone.
CallsOfRequest(r, phases) == {k \in Made : k[1] = r /\ k[2] \in phases}

\* The calls of the Run that are charged to the same limit.
Calls(r, phases) == {k \in Made : k[2] \in phases}

Exhausted(r, p) ==
    IF p = "planner" THEN Cardinality(Calls(r, {"planner"})) >= limits.planner
    ELSE Cardinality(Calls(r, {"audit", "plan_verifier"})) >= limits.verifier

-----------------------------------------------------------------------------
\* Requests.

\* record_recovery_request: bound to the attempt as it is now, which is a
\* settled RED or an integrated Run.
RecordRequest(h, r) ==
    /\ Ready(h)
    /\ record[r].status = "absent"
    /\ unit.state \in {"red", "integrated"}
    /\ record' = [record EXCEPT ![r] =
          [NoRecord EXCEPT !.status = "requested", !.attempt = unit.attempt,
                           !.reason = IF unit.state = "red" THEN "checks" ELSE "machine_complete"]]
    /\ UNCHANGED <<run, call, world>>

\* _recovery_disposition_conn: of the closeout of one completed attempt, while
\* nothing of the Run is in flight or unknown.
DispositionSound(r) ==
    /\ IsCurrent(r) /\ record[r].reason = "machine_complete" /\ unit.state = "integrated"
    /\ ClaimsIn({"claimed", "unknown", "outcome_unknown"}) = {}
    /\ \A q \in Requests : record[q].status # "outcome_unknown"
    /\ record[r].status \in {"requested", "claimed", "result_recorded",
                             "verifier_claimed", "plan_verified"}
    /\ ~late

\* A stopped parent lets only the approved request go on.
Permitted(r) == parent = "active" \/ (approved = r /\ DispositionSound(r))

-----------------------------------------------------------------------------
\* Role calls.

\* Slip: a claim that lost its process no longer counts.
UnresolvedAlive(r) == ClaimsIn({"claimed"})

Unresolved(r) == ClaimsIn({"claimed", "outcome_unknown"})

\* The status a claim of the phase starts from.
Allowed(r, p) ==
    CASE p = "audit" -> "requested"
      [] p = "planner" -> IF AuditRequired(r) THEN "audit_recorded" ELSE "requested"
      [] p = "plan_verifier" -> "result_recorded"

ClaimedStatus(p) ==
    CASE p = "audit" -> "audit_claimed"
      [] p = "planner" -> "claimed"
      [] p = "plan_verifier" -> "verifier_claimed"

\* Everything claim_recovery_phase looks at before the budget.
Claimable(r, p) ==
    /\ Permitted(r)
    /\ parent = "stopped" => p # "audit"
    /\ Unresolved(r) = {}
    /\ IsCurrent(r)
    /\ p = "audit" => AuditRequired(r) /\ ~AuditSpent(r)
    /\ record[r].status = Allowed(r, p)
    /\ record[r].claim[p].state = "none"

\* claim_recovery_phase: the call is reserved before the role is launched; a
\* spent budget or a passed deadline ends the request.
ClaimPhase(h, r, p) ==
    /\ Ready(h)
    /\ Claimable(r, p)
    /\ IF Exhausted(r, p) \/ late
       THEN /\ record' = [record EXCEPT ![r].status = "failed"]
            /\ UNCHANGED call
       ELSE /\ record' = [record EXCEPT ![r].status = ClaimedStatus(p),
                                        ![r].claim[p] = [state |-> "claimed", owner |-> h]]
            /\ call' = [call EXCEPT ![h] = <<r, p>>]
    /\ UNCHANGED <<run, world>>

\* claim_recovery_phase on any request of the Run: a claim whose process is not
\* observed alive loses its outcome.  A process that is merely not observable
\* counts as gone, and nothing is claimed by the same transaction.
LoseClaim(h, k) ==
    /\ Ready(h)
    /\ parent = "active"
    /\ ClaimOf(k).state = "claimed"
    /\ \/ ClaimOf(k).owner \notin alive /\ UNCHANGED blinks
       \/ ClaimOf(k).owner \in alive /\ blinks < MaxBlinks /\ blinks' = blinks + 1
    /\ record' = [record EXCEPT ![k[1]].status = "outcome_unknown",
                                ![k[1]].claim[k[2]].state = "outcome_unknown"]
    /\ UNCHANGED <<run, call, late, alive, limits>>

FinishedStatus == [audit |-> "audit_recorded", planner |-> "result_recorded",
                   plan_verifier |-> "plan_verified"]

\* finish_recovery_phase behind the claim, which must still be this process's.
\* A success may carry evidence that binds something else, a verdict may be RED.
FinishPhase(h) ==
    LET r == call[h][1]
        p == call[h][2]
        Close(state, status) ==
            [record EXCEPT ![r].claim[p].state = state, ![r].status = status]
    IN  /\ h \in alive
        /\ call[h] # Idle
        /\ IF ClaimOf(call[h]) # [state |-> "claimed", owner |-> h]
           THEN UNCHANGED record
           ELSE \/ record' = Close("unknown", "outcome_unknown")
                \/ record' = Close("failed", "failed")
                \/ record' = Close("success", "failed")
                \/ /\ p # "planner"
                   /\ record' = Close("success", FinishedStatus[p])
                \/ /\ p = "planner"
                   /\ \E a \in Actions :
                        record' = [Close("success", FinishedStatus[p]) EXCEPT ![r].action = a]
        /\ call' = [call EXCEPT ![h] = Idle]
        /\ UNCHANGED <<run, world>>

-----------------------------------------------------------------------------
\* Decisions.

\* What an action leaves in the record: its status and the state of its apply.
\* The first two are refused unless the Run is integrated.
Decided(r, a) ==
    CASE a = "closeout" /\ unit.state = "integrated" -> {<<"applied", "applied">>}
      [] a = "dispatch_successor" /\ unit.state = "integrated"
            /\ record[r].reason = "machine_complete" -> {<<"applied", "applied">>}
      [] a = "retry" -> {<<"plan_verified", "retry_pending">>}
      [] a = "request_authority" -> {<<"awaiting_authority", "awaiting">>}
      [] a = "insufficient_evidence" -> {<<"awaiting_evidence", "awaiting">>}
      [] OTHER -> {}

Applicable(r) ==
    /\ Permitted(r)
    /\ parent = "stopped" => record[r].action = "closeout"
    /\ record[r].status = "plan_verified" /\ record[r].intent = "none"
    /\ IsCurrent(r) /\ Unresolved(r) = {} /\ ~late

\* apply_recovery_decision: a retry is only an intent until retry_completion.
ApplyDecision(h, r) ==
    /\ Ready(h)
    /\ Applicable(r)
    /\ \E d \in Decided(r, record[r].action) :
          record' = [record EXCEPT ![r].status = d[1], ![r].intent = d[2]]
    /\ UNCHANGED <<run, call, world>>

\* Slip: the attempt the request was made for is not compared.
RetriableUnfenced(r) == record[r].status = "plan_verified" /\ record[r].intent = "retry_pending"

Retriable(r) ==
    /\ record[r].status = "plan_verified" /\ record[r].intent = "retry_pending"
    /\ IsCurrent(r)

\* retry_completion with a recovery request, on the settled RED of the attempt;
\* it asks neither for the parent nor for the claims of the Run.
RetryCompletion(h, r) ==
    /\ Ready(h)
    /\ Retriable(r)
    /\ unit.state = "red"
    /\ unit.attempt < MaxAttempts
    /\ unit' = [unit EXCEPT !.state = "running", !.attempt = @ + 1]
    /\ record' = [record EXCEPT ![r].status = "applied", ![r].intent = "applied",
                                ![r].resulting = unit.attempt + 1]
    /\ UNCHANGED <<parent, approved, call, world>>

-----------------------------------------------------------------------------
\* The completion of the Run, the parent goal and time.

\* The attempt is completed, its checks fail, or its executor fails and is
\* launched again without a RED.
AdvanceRun ==
    /\ unit.state = "running"
    /\ parent = "active"
    /\ unit' \in {[unit EXCEPT !.state = "integrated"],
                  [unit EXCEPT !.state = "red", !.red = @ \cup {unit.attempt}]}
                 \cup {[unit EXCEPT !.attempt = n] : n \in {unit.attempt + 1} \cap Ordinals}
    /\ UNCHANGED <<parent, approved, record, call, world>>

StopParent ==
    /\ parent = "active"
    /\ parent' = "stopped"
    /\ UNCHANGED <<unit, approved, record, call, world>>

\* record_task_area_recovery_disposition, claimed and settled as accepted: only
\* for a request nobody has claimed yet.
ApproveDisposition(r) ==
    /\ parent = "stopped"
    /\ approved = NoRequest
    /\ record[r].status = "requested"
    /\ DispositionSound(r)
    /\ approved' = r
    /\ UNCHANGED <<unit, parent, record, call, world>>

DeadlinePasses ==
    /\ ~late /\ Made # {}
    /\ late' = TRUE
    /\ UNCHANGED <<run, record, call, alive, blinks, limits>>

Die(h) ==
    /\ h \in alive
    /\ alive' = alive \ {h}
    /\ call' = [call EXCEPT ![h] = Idle]
    /\ UNCHANGED <<run, record, late, blinks, limits>>

Next ==
    \/ \E h \in Hosts :
          \/ \E r \in Requests : RecordRequest(h, r) \/ ApplyDecision(h, r) \/ RetryCompletion(h, r)
          \/ \E r \in Requests, p \in Phases : ClaimPhase(h, r, p)
          \/ \E k \in Keys : LoseClaim(h, k)
          \/ FinishPhase(h) \/ Die(h)
    \/ \E r \in Requests : ApproveDisposition(r)
    \/ AdvanceRun \/ StopParent \/ DeadlinePasses

Spec == Init /\ [][Next]_vars
-----------------------------------------------------------------------------
\* What must hold.

InCall == {h \in Hosts : call[h] # Idle}

\* The role calls of a Run never overlap, whichever of its requests they belong
\* to, even when a process that still runs was taken for dead: a lost claim
\* keeps the Run blocked (claim_recovery_phase).
OneRoleCall == Cardinality(InCall) <= 1

\* All the requests of the Run together stay within one budget, and an audit is
\* paid from the verifier's: recording another request buys no further call
\* (claim_recovery_phase, planner_calls and plan_verifier_calls).
CallsWithinBudget ==
    /\ Cardinality({k \in Made : k[2] = "planner"}) <= limits.planner
    /\ Cardinality({k \in Made : k[2] # "planner"}) <= limits.verifier

\* An attempt begun by the recovery follows the very attempt its request was
\* made for and has one request to answer for it, whose planner and verifier
\* both succeeded, however many requests of the same RED were verified at once
\* (apply_recovery_decision, retry_completion).
RetriedOnItsVerdict ==
    \A r \in Requests : record[r].resulting # 0 =>
        /\ record[r].attempt \in unit.red
        /\ record[r].resulting = record[r].attempt + 1
        /\ \A p \in {"planner", "plan_verifier"} : record[r].claim[p].state = "success"
        /\ \A q \in Requests \ {r} : record[q].resulting # record[r].resulting

\* From the third failure in a row on (limits.audit here) no planner is called for the incident
\* before an audit of the same request succeeded, and an incident is audited
\* once (claim_recovery_phase, _recovery_audit_required).
AuditedBeforePlanned ==
    /\ \A r \in Requests :
          AuditRequired(r) /\ record[r].claim["planner"].state # "none" =>
              record[r].claim["audit"].state = "success"
    /\ \A k, l \in {m \in Made : m[2] = "audit"} : Incident(k[1]) = Incident(l[1]) => k = l

\* Once the parent goal is stopped the only decision that is still applied is
\* the closeout of the completed attempt that was approved, and no planner or
\* verifier is called for anything else (_recovery_disposition_conn).
StoppedOnlyClosesOut ==
    [][parent = "stopped" =>
         \A r \in Requests :
            /\ record[r].intent = "none" /\ record'[r].intent # "none" =>
                 /\ r = approved
                 /\ record[r].reason = "machine_complete" /\ record[r].action = "closeout"
            /\ \A p \in Phases :
                 record[r].claim[p].state = "none" /\ record'[r].claim[p].state # "none" =>
                    r = approved]_vars

\* "Reserve one planner call before launch; unresolved Run claims block all
\* keys" (claim_recovery_phase): no role call is reserved while the outcome of
\* another call of the Run is not known.
UnknownBlocks ==
    [][Made' = Made \/ ClaimsIn({"claimed", "unknown", "outcome_unknown"}) = {}]_vars
=============================================================================
