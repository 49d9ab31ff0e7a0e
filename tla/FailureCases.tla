---------------------------- MODULE FailureCases ----------------------------
(***************************************************************************)
(* The failure_cases and failure_outbox rows of one Run as a value, and    *)
(* the transactions of lh_runtime/run_store.py on that value.  A case is   *)
(* identified by the failure signature (exit code and diff digest) of the  *)
(* attempt that raised it: the rest of its identity is fixed by the goal.  *)
(***************************************************************************)
EXTENDS Naturals, SequencesExt

CONSTANTS
    Signatures,     \* failure signatures an attempt can leave
    MaxAttempts     \* runs.max_attempts

ASSUME MaxAttemptsAssumption == MaxAttempts \in 1..4

Ordinals == 1..MaxAttempts

NoSignature == "no_signature"   \* no receipt
Passed == "passed"              \* a receipt with exit code 0
ASSUME SignaturesAssumption == {NoSignature, Passed} \cap Signatures = {}

Grillable == {"grill_required", "grill_claimed"}
CaseStates == Grillable \cup {"remediation_running", "human_required", "resolved"}

\* live: the claim has not expired; closed: next_node_id is set.
Case == [state: CaseStates \cup {"absent"}, generation: Ordinals, fence: Nat,
         live: BOOLEAN, closed: BOOLEAN]

AbsentCase == [state |-> "absent", generation |-> 1, fence |-> 0, live |-> FALSE, closed |-> FALSE]

\* The outcome of one generation of a grill, as the outbox keeps it.
Outcomes == {"runner-fixable", "goal-broken", "failed"}
Outcome == [case: Signatures, generation: Ordinals, fence: Nat, outcome: Outcomes]

\* updated lists the cases by updated_at, the newest last.
Table == [case: [Signatures -> Case], updated: Seq(Signatures), outbox: SUBSET Outcome]

EmptyTable == [case |-> [c \in Signatures |-> AbsentCase], updated |-> <<>>, outbox |-> {}]

Put(s, c, row) ==
    [s EXCEPT !.case[c] = row, !.updated = Append(RemoveFirst(@, c), c)]

\* failure_case_for_run: the case of these states that was updated last.
InStates(s, states) == {i \in DOMAIN s.updated : s.case[s.updated[i]].state \in states}
LatestCase(s, states) ==
    IF InStates(s, states) = {} THEN NoSignature ELSE s.updated[Max(InStates(s, states))]

\* An existing case is returned as it is, whatever its state.
EnsureFailureCase(s, c) ==
    IF s.case[c].state = "absent"
    THEN Put(s, c, [AbsentCase EXCEPT !.state = "grill_required"])
    ELSE s

\* Slip: a claim never expires.
CanClaimOnce(s, c) == s.case[c].state = "grill_required"

CanClaim(s, c) ==
    \/ s.case[c].state = "grill_required"
    \/ s.case[c].state = "grill_claimed" /\ ~s.case[c].live

ClaimGrill(s, c) ==
    Put(s, c, [s.case[c] EXCEPT !.state = "grill_claimed", !.fence = @ + 1, !.live = TRUE])

\* Slip: whoever claimed this generation may answer for it.
HoldsClaimOfGeneration(s, c, generation, fence) ==
    /\ s.case[c].generation = generation
    /\ s.case[c].fence >= fence

HoldsClaim(s, c, generation, fence) ==
    /\ s.case[c].state = "grill_claimed"
    /\ s.case[c].generation = generation
    /\ s.case[c].fence = fence

\* record_grill_result and record_grill_failure; a stale claim changes nothing.
RecordOutcome(s, c, generation, fence, outcome) ==
    IF HoldsClaim(s, c, generation, fence)
    THEN [Put(s, c, [s.case[c] EXCEPT
                        !.state = IF outcome = "runner-fixable"
                                  THEN "remediation_running" ELSE "human_required",
                        !.live = FALSE])
          EXCEPT !.outbox = @ \cup {[case |-> c, generation |-> generation,
                                     fence |-> fence, outcome |-> outcome]}]
    ELSE s

\* Slip: a failed remediation is grilled again whatever is left of the budget.
RecordResolutionUnbudgeted(s, n, resolved, regrill) ==
    LET c == LatestCase(s, {"remediation_running"})
    IN  IF c = NoSignature THEN s
        ELSE Put(s, c, [s.case[c] EXCEPT !.state = IF resolved THEN "resolved" ELSE "grill_required"])

\* The check of attempt n against the case under remediation.
RecordResolution(s, n, resolved, regrill) ==
    LET c == LatestCase(s, {"remediation_running"})
        again == ~resolved /\ regrill /\ n < MaxAttempts
    IN  IF c = NoSignature THEN s
        ELSE Put(s, c, [s.case[c] EXCEPT
                           !.state = IF resolved THEN "resolved"
                                     ELSE IF again THEN "grill_required" ELSE "human_required",
                           !.generation = IF again THEN @ + 1 ELSE @,
                           !.live = FALSE])

RecordNextNode(s) ==
    LET c == LatestCase(s, {"resolved"})
    IN  IF c = NoSignature THEN s ELSE Put(s, c, [s.case[c] EXCEPT !.closed = TRUE])

\* grill_evidence: a decision was recorded for the run.
HasDecision(s) == \E o \in s.outbox : o.outcome # "failed"
=============================================================================
