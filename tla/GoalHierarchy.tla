---------------------------- MODULE GoalHierarchy ----------------------------
(***************************************************************************)
(* A tree of goals under the transactions of lh_runtime/goal_store.py, in  *)
(* any order their callers may issue them: producers create goals under    *)
(* parents that may not exist, admission activates them, the loop and      *)
(* people move them through ALLOWED_TRANSITIONS.                           *)
(***************************************************************************)
EXTENDS GoalStore

VARIABLES
    table,      \* the goals table
    subject     \* the goal the last transition_goal named, for the properties

hierarchyVars == <<table, subject>>

HierarchyTypeOK ==
    /\ table \in [Goals -> GoalRow]
    /\ subject \in Goals \cup {NoGoal}

HierarchyInit ==
    /\ table = [g \in Goals |-> AbsentGoal]
    /\ subject = NoGoal

\* A producer names at most one dependency here.
Create(g) ==
    /\ ~Exists(table, g)
    /\ \E parent \in Goals \cup {NoGoal} :
          /\ WalkEnds(table, g, parent)
          /\ \E dependsOn \in {{}} \cup {{d} : d \in Goals} :
                table' = CreateCandidate(table, g, parent, dependsOn)
    /\ subject' = NoGoal

\* Admission activates without a rollup; the run it links is left out here.
Activate(g) ==
    /\ table[g].state = "candidate"
    /\ table' = ActivateWithRun(table, g, 0)
    /\ subject' = NoGoal

\* No caller moves a goal to stale; only events go there.
Targets == GoalStates \ {"stale"}

Transition(g) ==
    /\ \E new \in Targets :
          /\ CanTransition(table, g, new)
          /\ table' = TransitionGoal(table, g, new)
    /\ subject' = g

HierarchyNext == \E g \in Goals : Create(g) \/ Activate(g) \/ Transition(g)

HierarchySpec == HierarchyInit /\ [][HierarchyNext]_hierarchyVars
-----------------------------------------------------------------------------
\* Properties.

Became(g, state) == table[g].state # state /\ table'[g].state = state

\* The rollup climbs until nothing changes: an admitted ancestor of the goal
\* that moved agrees with its children after the step if it did before it, as
\* long as the chain of ancestors ends.
RolledUp(G, p) == Children(G, p) # {} => G[p].state = RollupTarget(ChildStates(G, p))
Admitted(G, p) == G[p].state \in {"active", "human_required"}
RollupReachesTheTop ==
    [][subject' # NoGoal /\ NoGoal \in AncestorsOf(table, subject') =>
          \A p \in AncestorsOf(table, table[subject'].parent) \ {NoGoal, subject'} :
             Admitted(table, p) /\ RolledUp(table, p) => RolledUp(table', p)]_hierarchyVars

\* When a goal stops, no sibling that depends on it is left waiting for it
\* ("only completed releases a dependency").
StoppedBreaksDependents ==
    [][\A g \in Goals : Became(g, "stopped") =>
          \A h \in Goals \ {g} :
             table[h].parent = table[g].parent /\ g \in table[h].dependsOn =>
                table'[h].state \notin {"candidate", "active"}]_hierarchyVars

\* Whatever spec a producer sends under a goal that can be extended, it is
\* stored or routed to a human ("a broken hierarchy spec ... fails closed",
\* create_candidate): the validation of the links returns.
EveryCreationReturns ==
    \A g, p \in Goals : ~Exists(table, g) => WalkEnds(table, g, p)
=============================================================================
