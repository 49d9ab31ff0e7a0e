------------------------------ MODULE GoalStore ------------------------------
(***************************************************************************)
(* The goals table of the GoalStore (lh_runtime/goal_store.py) as a value  *)
(* and its transactions on that value.  A goal row keeps its hierarchy     *)
(* fields from creation on; a state change has effects on other rows in    *)
(* the same transaction: a stopped goal breaks the siblings that depend on *)
(* it, and the parent's state is rolled up from its children.              *)
(***************************************************************************)
EXTENDS Naturals, FiniteSets

CONSTANTS
    Goals,              \* goal ids
    MaxGoalRevisions    \* MAX_GOAL_REVISIONS, 4 in the code

NoGoal == "no_goal"
ASSUME GoalsAssumption == IsFiniteSet(Goals) /\ NoGoal \notin Goals
ASSUME MaxGoalRevisionsAssumption == MaxGoalRevisions \in Nat \ {0}

GoalStates == {"candidate", "active", "stale", "conflict", "human_required",
               "completed", "stopped"}

AllowedTransitions ==
    [candidate |-> {"active", "stale", "conflict", "human_required", "stopped"},
     active |-> {"stale", "conflict", "human_required", "completed", "stopped"},
     stale |-> {"human_required"},
     conflict |-> {"human_required"},
     human_required |-> {"candidate", "active", "stopped"},
     completed |-> {"candidate"},
     stopped |-> {"candidate", "human_required"}]

\* run is the revision whose run is linked, 0 for none: the run id of a
\* revision is a digest of it.
GoalRow == [state: GoalStates \cup {"absent"}, revision: Nat, run: Nat,
            parent: Goals \cup {NoGoal}, dependsOn: SUBSET Goals]

AbsentGoal == [state |-> "absent", revision |-> 0, run |-> 0,
               parent |-> NoGoal, dependsOn |-> {}]

Exists(G, g) == G[g].state # "absent"
Children(G, p) == {g \in Goals : Exists(G, g) /\ G[g].parent = p}
ChildStates(G, p) == {G[c].state : c \in Children(G, p)}
SetState(G, g, state) == [G EXCEPT ![g] = [@ EXCEPT !.state = state]]

-----------------------------------------------------------------------------
\* create_candidate.

Extendable == {"candidate", "active", "human_required"}

ParentOf(G, g) == IF g = NoGoal THEN NoGoal ELSE G[g].parent

\* The walk up the parent links, one row at a time, n rows above g.
AncestorAt(G, g, n) ==
    LET up[k \in 0..n] == IF k = 0 THEN g ELSE ParentOf(G, up[k - 1])
    IN  up[n]

AncestorsOf(G, g) == {AncestorAt(G, g, n) : n \in 0..Cardinality(Goals)}

\* The walk from a parent that can be extended goes on until it meets the new
\* goal or the end of the links; on a cycle without the new goal it never
\* returns.
WalkEnds(G, g, parent) ==
    parent # NoGoal /\ G[parent].state \in Extendable =>
        {g, NoGoal} \cap AncestorsOf(G, parent) # {}

\* _validate_hierarchy looks at a table that holds the new row already.
HierarchyViolated(G, g) ==
    \/ /\ G[g].parent # NoGoal
       /\ \/ ~Exists(G, G[g].parent)
          \/ G[G[g].parent].state \notin Extendable
          \/ g \in AncestorsOf(G, G[g].parent)
    \/ \E d \in G[g].dependsOn :
          d = g \/ ~Exists(G, d) \/ G[d].parent # G[g].parent

CreateCandidate(G, g, parent, dependsOn) ==
    LET stored == [G EXCEPT ![g] = [state |-> "candidate", revision |-> 1, run |-> 0,
                                    parent |-> parent, dependsOn |-> dependsOn]]
    IN  IF HierarchyViolated(stored, g) THEN SetState(stored, g, "human_required") ELSE stored

-----------------------------------------------------------------------------
\* transition_goal.

CanTransition(G, g, new) == Exists(G, g) /\ new \in AllowedTransitions[G[g].state]

\* Slip: only a dependent that runs already is routed.
BreakDependentsActive(G, g) ==
    [h \in Goals |->
        IF /\ h # g
           /\ G[h].parent = G[g].parent
           /\ G[h].state = "active"
           /\ g \in G[h].dependsOn
        THEN [G[h] EXCEPT !.state = "human_required"]
        ELSE G[h]]

\* Only completed releases a dependency.
BreakDependents(G, g) ==
    [h \in Goals |->
        IF /\ h # g
           /\ G[h].parent = G[g].parent
           /\ G[h].state \in {"candidate", "active"}
           /\ g \in G[h].dependsOn
        THEN [G[h] EXCEPT !.state = "human_required"]
        ELSE G[h]]

RollupTarget(states) ==
    IF "human_required" \in states THEN "human_required"
    ELSE IF states \subseteq {"completed", "stopped"} THEN "completed"
    ELSE "active"

\* One level of _recompute_rollup: c.at is the parent to recompute, and the
\* next one up if that changed it.
Rollup(c) ==
    LET target == RollupTarget(ChildStates(c.goals, c.at))
    IN  IF \/ c.at = NoGoal
           \/ c.goals[c.at].state \notin {"active", "human_required"}
           \/ Children(c.goals, c.at) = {}
           \/ c.goals[c.at].state = target
        THEN [c EXCEPT !.at = NoGoal]
        ELSE [goals |-> SetState(c.goals, c.at, target), at |-> c.goals[c.at].parent]

\* Slip: the grandparent is not told.
RecomputeRollupOnce(G, parent) == Rollup([goals |-> G, at |-> parent]).goals

\* On a cycle of parent links the climb may come round a second time before
\* nothing changes.
RecomputeRollup(G, parent) ==
    LET climb[n \in 0..2 * Cardinality(Goals)] ==
            IF n = 0 THEN [goals |-> G, at |-> parent] ELSE Rollup(climb[n - 1])
    IN  climb[2 * Cardinality(Goals)].goals

AfterGoalTransition(G, g, new) ==
    RecomputeRollup(IF new = "stopped" THEN BreakDependents(G, g) ELSE G, G[g].parent)

TransitionGoal(G, g, new) == AfterGoalTransition(SetState(G, g, new), g, new)

-----------------------------------------------------------------------------
\* activate_with_run and bump_revision touch one row only.

ActivateWithRun(G, g, run) == [G EXCEPT ![g] = [@ EXCEPT !.state = "active", !.run = run]]

BumpRevision(G, g) == [G EXCEPT ![g].revision = @ + 1]
=============================================================================
