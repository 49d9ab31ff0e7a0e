------------------------------ MODULE GoalProofs ------------------------------
(***************************************************************************)
(* The goals table: its transactions on one goal and on a tree, the loop   *)
(* of GoalLoop over one of its goals and the tree of GoalHierarchy.        *)
(*                                                                         *)
(* The climb of a rollup is a recursive function.  What it computes is     *)
(* read off step by step, by induction over a set of numbers.              *)
(***************************************************************************)
EXTENDS GoalLoop, GoalHierarchy, FiniteSetTheorems, WellFoundedInduction, TLAPS

-----------------------------------------------------------------------------
\* Induction along a climb.

LEMMA Smallest ==
  ASSUME NEW T \in SUBSET Nat, T # {}
  PROVE  \E n \in T : \A m \in T : n <= m
<1> DEFINE Less == {p \in Nat \X Nat : p[1] < p[2]}
<1>1. Less = OpToRel(<, Nat)
  BY DEF OpToRel
<1>2. IsWellFoundedOn(Less, Nat)
  BY <1>1, NatLessThanWellFounded
<1>3. PICK n \in T : \A m \in T : <<m, n>> \notin Less
  <2> HIDE DEF Less
  <2> QED BY <1>2, WFMin
<1>4. ASSUME NEW m \in T PROVE n <= m
  <2>1. <<m, n>> \notin Less /\ n \in Nat /\ m \in Nat
    BY <1>3
  <2>2. QED BY <2>1
<1>5. QED BY <1>4

\* A set of levels that has the first one, and with each one the next, has all.
LEMMA EveryLevel ==
  ASSUME NEW K \in Nat, NEW T, 0 \in T, \A n \in 1..K : n - 1 \in T => n \in T
  PROVE  \A n \in 0..K : n \in T
<1> SUFFICES ASSUME {n \in 0..K : n \notin T} # {} PROVE FALSE
  OBVIOUS
<1>1. PICK n \in {m \in 0..K : m \notin T} : \A m \in {i \in 0..K : i \notin T} : n <= m
  <2>1. {m \in 0..K : m \notin T} \in SUBSET Nat
    OBVIOUS
  <2>2. QED BY <2>1, Smallest
<1>2. n \in 1..K /\ n - 1 \in 0..K /\ n - 1 < n
  BY <1>1
<1>3. n - 1 \in T
  BY <1>1, <1>2
<1>4. QED BY <1>1, <1>2, <1>3

Height == 2 * Cardinality(Goals)

LEMMA HeightFact == Cardinality(Goals) \in Nat /\ Height \in Nat
  BY GoalsAssumption, FS_CardinalityType DEF Height

\* f is the climb of RecomputeRollup from c, n levels high.
Climb(f, c, n) == f = [m \in 0..n |-> IF m = 0 THEN c ELSE Rollup(f[m - 1])]

LEMMA ClimbExists ==
  ASSUME NEW c
  PROVE  \A n \in 0..Height : \E f : Climb(f, c, n)
<1> DEFINE T == {n \in 0..Height : \E f : Climb(f, c, n)}
<1>1. 0 \in T
  <2>1. Climb([m \in 0..0 |-> c], c, 0)
    BY DEF Climb
  <2>2. QED BY <2>1, HeightFact
<1>2. ASSUME NEW n \in 1..Height, n - 1 \in T PROVE n \in T
  <2>1. PICK f : Climb(f, c, n - 1)
    BY <1>2
  <2> DEFINE g == [m \in 0..n |-> IF m = n THEN Rollup(f[n - 1]) ELSE f[m]]
  <2>2. ASSUME NEW m \in 0..n
        PROVE  g[m] = IF m = 0 THEN c ELSE Rollup(g[m - 1])
    <3>1. \A i \in 0..n - 1 : f[i] = IF i = 0 THEN c ELSE Rollup(f[i - 1])
      BY <2>1 DEF Climb
    <3>2. \A i \in 0..n - 1 : g[i] = f[i]
      BY HeightFact
    <3>3. CASE m = n
      <4>1. g[m] = Rollup(f[n - 1]) /\ m # 0 /\ g[n - 1] = f[n - 1]
        BY <3>2, <3>3, HeightFact
      <4>2. QED BY <3>3, <4>1
    <3>4. CASE m # n
      <4>1. m \in 0..n - 1
        BY <3>4, HeightFact
      <4>2. CASE m = 0
        BY <3>1, <3>2, <4>1, <4>2
      <4>3. CASE m # 0
        <5>1. m - 1 \in 0..n - 1
          BY <4>1, <4>3, HeightFact
        <5>2. g[m] = f[m] /\ g[m - 1] = f[m - 1] /\ f[m] = Rollup(f[m - 1])
          BY <3>1, <3>2, <4>1, <4>3, <5>1
        <5>3. QED BY <4>3, <5>2
      <4>4. QED BY <4>2, <4>3
    <3>5. QED BY <3>3, <3>4
  <2>3. Climb(g, c, n)
    <3>1. DOMAIN g = 0..n /\ g = [m \in 0..n |-> g[m]]
      OBVIOUS
    <3> HIDE DEF g
    <3>2. QED BY <2>2, <3>1 DEF Climb
  <2>4. QED BY <2>3
<1>3. \A n \in 0..Height : n \in T
  <2> HIDE DEF T
  <2> QED BY <1>1, <1>2, EveryLevel, HeightFact
<1>4. QED BY <1>3

\* _recompute_rollup returns the table at the top of a climb.
LEMMA RollupClimbs ==
  ASSUME NEW G, NEW p
  PROVE  \E f : /\ f[0] = [goals |-> G, at |-> p]
                /\ \A n \in 1..Height : f[n] = Rollup(f[n - 1])
                /\ RecomputeRollup(G, p) = f[Height].goals
<1> DEFINE c == [goals |-> G, at |-> p]
           f == CHOOSE g : Climb(g, c, Height)
<1>1. \E g : Climb(g, c, Height)
  BY ClimbExists, HeightFact
<1>2. Climb(f, c, Height)
  BY <1>1
<1>3. RecomputeRollup(G, p) = f[Height].goals
  BY DEF RecomputeRollup, Climb, Height
<1> HIDE DEF f
<1>4. \A n \in 0..Height : f[n] = IF n = 0 THEN c ELSE Rollup(f[n - 1])
  BY <1>2 DEF Climb
<1>5. f[0] = c /\ \A n \in 1..Height : f[n] = Rollup(f[n - 1])
  <2>1. 0 \in 0..Height /\ \A n \in 1..Height : n \in 0..Height /\ n # 0
    BY HeightFact
  <2>2. QED BY <1>4, <2>1
<1>6. QED BY <1>3, <1>5

\* Above a goal without parent there is nothing to recompute.
LEMMA NoRollup ==
  ASSUME NEW G
  PROVE  RecomputeRollup(G, NoGoal) = G
<1> DEFINE c == [goals |-> G, at |-> NoGoal]
<1>1. PICK f : /\ f[0] = c
               /\ \A n \in 1..Height : f[n] = Rollup(f[n - 1])
               /\ RecomputeRollup(G, NoGoal) = f[Height].goals
  BY RollupClimbs
<1>2. Rollup(c) = c
  BY DEF Rollup
<1> DEFINE T == {n \in 0..Height : f[n] = c}
<1>3. 0 \in T
  BY <1>1, HeightFact
<1>4. ASSUME NEW n \in 1..Height, n - 1 \in T PROVE n \in T
  BY <1>1, <1>2, <1>4
<1>5. \A n \in 0..Height : n \in T
  <2> HIDE DEF T
  <2> QED BY <1>3, <1>4, EveryLevel, HeightFact
<1>6. f[Height] = c
  BY <1>5, HeightFact
<1>7. QED BY <1>1, <1>6


-----------------------------------------------------------------------------
\* The goal loop.

\* The commands that have their answer, and so have used up their new run.
Answered == {c \in Commands : command[c] \notin Pending \cup {"absent"}}

\* Where a new revision has no linked run yet, and where a command is worked on.
Linking == {"bumped", "created"}
Working == Linking \cup {"admitting", "refused"}

\* A stage without parent, alone in the store.
GoalOK ==
    /\ goal.parent = NoGoal
    /\ \A g \in Goals \ {Goal} : goals[g].state = "absent"
    /\ goal.run \in 0..goal.revision
    /\ goal.state = "absent" => goal.revision = 0
    /\ goal.state # "absent" => goal.revision > 0
    /\ goal.run = 0 => goal.revision <= 1

\* Only the newest revision may lack a run or have one that is not settled; an
\* active goal is linked to that one.
RunsOK ==
    /\ \A v \in Revisions : v > goal.revision => run[v].state = "absent"
    /\ goal.run # 0 => run[goal.run].state # "absent"
    /\ goal.run # 0 /\ goal.run # goal.revision => run[goal.run].state \in Terminal
    /\ goal.revision # 0 /\ goal.run # goal.revision =>
          run[goal.revision].state \in {"absent", "queued"}
    /\ goal.state = "active" => goal.run = goal.revision

\* Each new revision after the first belongs to an answered command, to a
\* process that died before it could answer, or to the command at hand.
RevisionsCounted ==
    goal.run # 0 =>
        goal.revision <= Cardinality(Answered) + crashes + (IF worker.at \in Linking THEN 1 ELSE 0)

\* What the process has read stays true, as nobody else moves the goal.
WorkerOK ==
    /\ worker.at \in {"running", "settled", "announcing", "completing"} => worker.run # 0
    /\ At("running") => run[worker.run].state = "running"
    /\ worker.at \in {"announcing", "completing"} =>
          run[worker.run].state = "verified" /\ goal.state = "active"
    /\ At("completing") => worker.run \in announced
    /\ worker.at \in Working => worker.command \in Commands /\ command[worker.command] \in Pending
    /\ At("admitting") => goal.state \notin {"absent", "active"}
    /\ worker.at \in Linking =>
          /\ goal.state = "candidate"
          /\ goal.run # goal.revision
          /\ run[goal.revision].state = IF At("bumped") THEN "absent" ELSE "queued"
    /\ At("bumped") => goal.run # 0

LoopInv ==
    /\ TypeOK
    /\ GoalOK
    /\ RunsOK
    /\ RevisionsCounted
    /\ WorkerOK
    /\ FailLoopIsCapped

LEMMA RevisionsFact ==
  /\ Cardinality(Commands) \in Nat
  /\ Cardinality(Commands) + MaxCrashes \in Nat
  /\ Revisions \subseteq Nat
  /\ \A n \in Nat : n \in Revisions <=> 1 <= n /\ n <= Cardinality(Commands) + MaxCrashes
<1>1. Cardinality(Commands) \in Nat
  BY CommandsAssumption, FS_CardinalityType
<1>2. QED BY <1>1, LoopCrashesAssumption DEF Revisions

\* What a transaction on the row of the goal leaves of the store.
LEMMA RowStep ==
  ASSUME LoopInv, NEW row \in GoalRow, goals' = [goals EXCEPT ![Goal] = row]
  PROVE  /\ goals' \in [Goals -> GoalRow]
         /\ goals'[Goal] = row
         /\ \A g \in Goals \ {Goal} : goals'[g] = goals[g]
  BY GoalAssumption DEF LoopInv, TypeOK

LEMMA GoalFact ==
  ASSUME LoopInv
  PROVE  /\ goal \in GoalRow
         /\ goal.revision \in Nat /\ goal.run \in Nat /\ goal.run <= goal.revision
         /\ goal.revision # 0 => goal.revision \in Revisions
         /\ goal.run # 0 => goal.run \in Revisions
         /\ goal.state # "absent" => goal.revision \in Revisions /\ ExistingRun \in Revisions
<1>1. goal \in GoalRow /\ goal.revision \in {0} \cup Revisions
  BY GoalAssumption DEF LoopInv, TypeOK, goal
<1>2. goal.revision \in Nat /\ goal.run \in Nat
  BY <1>1 DEF GoalRow
<1>3. goal.run <= goal.revision /\ (goal.state # "absent" => goal.revision # 0)
  BY <1>2 DEF LoopInv, GoalOK
<1>4. goal.run # 0 => goal.run \in Revisions
  BY <1>1, <1>2, <1>3, RevisionsFact
<1>5. QED BY <1>1, <1>2, <1>3, <1>4 DEF ExistingRun

\* transition_goal on a goal without parent or dependents touches its row only.
LEMMA MoveRow ==
  ASSUME LoopInv, NEW st \in GoalStates, Move(st)
  PROVE  goals' = [goals EXCEPT ![Goal] = [goal EXCEPT !.state = st]]
<1> DEFINE S == SetState(goals, Goal, st)
<1>1. S = [goals EXCEPT ![Goal] = [goal EXCEPT !.state = st]]
  BY GoalAssumption DEF SetState, goal, LoopInv, TypeOK
<1>2. S[Goal].parent = NoGoal
  BY <1>1, GoalFact, GoalAssumption DEF LoopInv, TypeOK, GoalOK, goal, GoalRow
<1>3. BreakDependents(S, Goal) = S
  <2>1. S \in [Goals -> GoalRow] /\ \A h \in Goals \ {Goal} : S[h].state = "absent"
    <3>1. [goal EXCEPT !.state = st] \in GoalRow
      BY GoalFact DEF GoalRow
    <3>2. QED BY <1>1, <3>1, GoalAssumption DEF LoopInv, TypeOK, GoalOK
  <2> HIDE DEF S
  <2>2. QED BY <2>1 DEF BreakDependents
<1> HIDE DEF S
<1>4. TransitionGoal(goals, Goal, st) = RecomputeRollup(S, NoGoal)
  BY <1>2, <1>3 DEF TransitionGoal, AfterGoalTransition, S
<1>5. QED BY <1>1, <1>4, NoRollup DEF Move

\* After a move the goal has its new state, and its runs are as consistent as
\* before; only to be active it must be linked to its newest run.
LEMMA MoveStep ==
  ASSUME LoopInv, goal.state # "absent", UNCHANGED run,
         NEW st \in {"candidate", "human_required", "completed", "stopped"}, Move(st)
  PROVE  /\ goals' \in [Goals -> GoalRow]
         /\ goals'[Goal] = [goal EXCEPT !.state = st]
         /\ goal'.state = st /\ goal'.revision = goal.revision /\ goal'.run = goal.run
         /\ goal'.revision \in {0} \cup Revisions
         /\ GoalOK' /\ RunsOK' /\ FailLoopIsCapped'
<1> DEFINE row == [goal EXCEPT !.state = st]
<1>1. row \in GoalRow /\ st \in GoalStates
  BY GoalFact DEF GoalRow, GoalStates
<1>2. goals' = [goals EXCEPT ![Goal] = row]
  BY <1>1, MoveRow
<1>3. row.state = st /\ row.revision = goal.revision /\ row.run = goal.run /\ row.parent = goal.parent
  BY GoalFact DEF GoalRow
<1> HIDE DEF row
<1>4. /\ goals' \in [Goals -> GoalRow] /\ goal' = row
      /\ \A g \in Goals \ {Goal} : goals'[g] = goals[g]
  BY <1>1, <1>2, RowStep DEF goal
<1>5. GoalOK'
  BY <1>3, <1>4 DEF LoopInv, GoalOK
<1>6. RunsOK'
  BY <1>3, <1>4 DEF LoopInv, RunsOK
<1>7. FailLoopIsCapped'
  BY <1>3, <1>4 DEF LoopInv, FailLoopIsCapped
<1>8. goal'.revision \in {0} \cup Revisions
  BY <1>3, <1>4 DEF LoopInv, TypeOK, goal
<1>9. goals'[Goal] = [goal EXCEPT !.state = st]
  BY <1>4 DEF goal, row
<1>10. QED BY <1>3, <1>4, <1>5, <1>6, <1>7, <1>8, <1>9

\* A row changes its state only from running, or for the run that is linked;
\* a settled run never changes it.
LEMMA RunStep ==
  ASSUME LoopInv, UNCHANGED goals,
         NEW v \in Revisions, NEW row \in RunRow, run' = [run EXCEPT ![v] = row],
         run[v].state # "absent", row.state # "absent",
         \/ row.state = run[v].state
         \/ run[v].state = "running"
         \/ run[v].state \in Runnable /\ v = goal.run /\ goal.state = "active"
  PROVE  /\ run' \in [Revisions -> RunRow]
         /\ \A w \in Revisions : w # v => run'[w] = run[w]
         /\ run'[v] = row
         /\ GoalOK' /\ RunsOK' /\ FailLoopIsCapped'
<1>1. /\ run' \in [Revisions -> RunRow] /\ run'[v] = row
      /\ \A w \in Revisions : w # v => run'[w] = run[w]
  BY DEF LoopInv, TypeOK
<1>2. goal' = goal
  BY DEF goal
<1>3. GoalOK'
  BY <1>2 DEF LoopInv, GoalOK
<1>4. run[v].state \in Terminal => row.state = run[v].state
  BY DEF Terminal, Runnable
<1>5. run[v].state \in {"absent", "queued"} /\ v = goal.revision /\ goal.run # goal.revision
        => row.state = run[v].state
  BY GoalFact
<1>6. RunsOK'
  <2>1. \A w \in Revisions : w > goal.revision => run'[w].state = "absent"
    BY <1>1 DEF LoopInv, RunsOK
  <2>2. goal.run # 0 => run'[goal.run].state # "absent"
    BY <1>1, GoalFact DEF LoopInv, RunsOK
  <2>3. goal.run # 0 /\ goal.run # goal.revision => run'[goal.run].state \in Terminal
    BY <1>1, <1>4, GoalFact DEF LoopInv, RunsOK
  <2>4. goal.revision # 0 /\ goal.run # goal.revision =>
          run'[goal.revision].state \in {"absent", "queued"}
    BY <1>1, <1>5, GoalFact DEF LoopInv, RunsOK
  <2>5. QED BY <1>2, <2>1, <2>2, <2>3, <2>4 DEF LoopInv, RunsOK
<1>7. FailLoopIsCapped'
  BY <1>1, <1>2, <1>4 DEF LoopInv, FailLoopIsCapped, Terminal
<1>8. QED BY <1>1, <1>3, <1>6, <1>7

\* The number of answered commands, which are commands.
LEMMA AnsweredFact ==
  ASSUME TypeOK
  PROVE  /\ IsFiniteSet(Answered) /\ Cardinality(Answered) \in Nat
         /\ Cardinality(Answered) <= Cardinality(Commands)
         /\ Answered # Commands => Cardinality(Answered) < Cardinality(Commands)
<1>1. Answered \in SUBSET Commands
  BY DEF Answered
<1>2. /\ IsFiniteSet(Answered) /\ Cardinality(Answered) <= Cardinality(Commands)
      /\ Cardinality(Commands) = Cardinality(Answered) => Commands = Answered
  BY <1>1, CommandsAssumption, FS_Subset
<1>3. Cardinality(Answered) \in Nat
  BY <1>2, FS_CardinalityType
<1>4. QED BY <1>2, <1>3, RevisionsFact

\* An answer is never taken back, and one more command is answered at most.
LEMMA AnswerStep ==
  ASSUME TypeOK, NEW c \in Commands, NEW st \in CommandStates,
         command' = [command EXCEPT ![c] = st], st \notin Pending \cup {"absent"}
  PROVE  /\ command' \in [Commands -> CommandStates]
         /\ \A d \in Commands : d # c => command'[d] = command[d]
         /\ command'[c] = st
         /\ Cardinality(Answered') =
               Cardinality(Answered) + (IF command[c] \in Pending \cup {"absent"} THEN 1 ELSE 0)
<1>1. /\ command' \in [Commands -> CommandStates] /\ command'[c] = st
      /\ \A d \in Commands : d # c => command'[d] = command[d]
  BY DEF TypeOK
<1>2. Answered' = Answered \cup {c}
  BY <1>1 DEF Answered
<1>3. c \in Answered <=> command[c] \notin Pending \cup {"absent"}
  BY DEF Answered
<1>4. Cardinality(Answered') = IF c \in Answered THEN Cardinality(Answered)
                                                  ELSE Cardinality(Answered) + 1
  BY <1>2, AnsweredFact, FS_AddElement
<1>5. QED BY <1>1, <1>3, <1>4, AnsweredFact

\* A command that is submitted or bound to its candidate still waits.
LEMMA StillPending ==
  ASSUME TypeOK, NEW c \in Commands, NEW st \in Pending,
         command[c] \in Pending \cup {"absent"}, command' = [command EXCEPT ![c] = st]
  PROVE  /\ command' \in [Commands -> CommandStates]
         /\ \A d \in Commands : command[d] \in Pending => command'[d] \in Pending
         /\ Answered' = Answered
<1>1. /\ command' \in [Commands -> CommandStates] /\ command'[c] = st
      /\ \A d \in Commands : d # c => command'[d] = command[d]
  BY DEF TypeOK, CommandStates
<1>2. Answered' = Answered
  BY <1>1 DEF Answered
<1>3. QED BY <1>1, <1>2

LEMMA GotoStep ==
  ASSUME TypeOK, NEW step \in Steps, Goto(step)
  PROVE  /\ worker' \in Worker /\ worker'.at = step
         /\ worker'.run = worker.run /\ worker'.command = worker.command
  BY DEF TypeOK, Worker, Goto

LEMMA RestStep ==
  ASSUME worker' = AtRest
  PROVE  worker' \in Worker /\ worker'.at = "idle"
  BY DEF AtRest, Worker, Steps

LEMMA QuietStep ==
  ASSUME LoopInv, UNCHANGED <<goals, run>>
  PROVE  GoalOK' /\ RunsOK' /\ FailLoopIsCapped'
  BY DEF LoopInv, GoalOK, RunsOK, FailLoopIsCapped, goal

-----------------------------------------------------------------------------
\* The actions, in the order of the tick.

LEMMA InitLoopInv == Init => LoopInv
<1> SUFFICES ASSUME Init PROVE LoopInv
  OBVIOUS
<1>1. goal = AbsentGoal
  BY GoalAssumption DEF Init, goal
<1>2. AbsentGoal \in GoalRow /\ AbsentRun \in RunRow
  BY BudgetAssumption DEF AbsentGoal, GoalRow, AbsentRun, RunRow
<1>3. goals[Goal].revision = 0
  BY <1>1 DEF goal, AbsentGoal
<1>4. TypeOK
  BY <1>2, <1>3, LoopCrashesAssumption, RestStep
     DEF Init, TypeOK, AtRest, Worker, Steps, CommandStates, Pending
<1>5. GoalOK
  BY <1>1, GoalAssumption DEF Init, GoalOK, AbsentGoal
<1>6. RunsOK
  BY <1>1 DEF Init, RunsOK, AbsentGoal, AbsentRun
<1>7. RevisionsCounted /\ WorkerOK
  BY <1>1 DEF Init, RevisionsCounted, WorkerOK, AbsentGoal, AtRest, At, Linking, Working
<1>8. FailLoopIsCapped
  BY <1>1, MaxGoalRevisionsAssumption DEF FailLoopIsCapped, AbsentGoal
<1>9. QED BY <1>4, <1>5, <1>6, <1>7, <1>8 DEF LoopInv

LEMMA SubmitCommandInv ==
  ASSUME LoopInv, NEW c \in Commands, SubmitCommand(c)
  PROVE  LoopInv'
<1>1. /\ command' \in [Commands -> CommandStates] /\ Answered' = Answered
      /\ \A d \in Commands : command[d] \in Pending => command'[d] \in Pending
  BY StillPending DEF LoopInv, SubmitCommand, Pending
<1>2. TypeOK'
  BY <1>1 DEF LoopInv, TypeOK, SubmitCommand
<1>3. GoalOK' /\ RunsOK' /\ FailLoopIsCapped'
  BY QuietStep DEF SubmitCommand
<1>4. RevisionsCounted' /\ WorkerOK'
  BY <1>1 DEF LoopInv, SubmitCommand, RevisionsCounted, WorkerOK, goal, At
<1>5. QED BY <1>2, <1>3, <1>4 DEF LoopInv

LEMMA EmitStandingIntentsInv ==
  ASSUME LoopInv, EmitStandingIntents
  PROVE  LoopInv'
<1>1. command' \in [Commands -> CommandStates] /\ Answered' = Answered
  <2>1. CASE UNCHANGED command
    BY <2>1 DEF LoopInv, TypeOK, Answered
  <2>2. CASE \E c \in Standing : command[c] = "absent"
                                 /\ command' = [command EXCEPT ![c] = "event_received"]
    BY <2>2, StillPending, CommandsAssumption DEF LoopInv, Pending
  <2>3. QED BY <2>1, <2>2 DEF EmitStandingIntents
<1>2. worker' \in Worker /\ At("idle") /\ worker'.at = "startup"
  BY GotoStep DEF LoopInv, EmitStandingIntents, Steps
<1>3. TypeOK'
  BY <1>1, <1>2 DEF LoopInv, TypeOK, EmitStandingIntents
<1>4. GoalOK' /\ RunsOK' /\ FailLoopIsCapped'
  BY QuietStep DEF EmitStandingIntents
<1>5. RevisionsCounted' /\ WorkerOK'
  BY <1>1, <1>2 DEF LoopInv, EmitStandingIntents, RevisionsCounted, WorkerOK, goal, At, Linking, Working
<1>6. QED BY <1>3, <1>4, <1>5 DEF LoopInv

\* The updates of a run keep the type of the settled list.
LEMMA SettledStep ==
  ASSUME TypeOK, NEW v \in Revisions, NEW row \in RunRow, UpdateRun(v, row)
  PROVE  run' = [run EXCEPT ![v] = row] /\ settled' \in Seq(Revisions)
  BY DEF TypeOK, UpdateRun

LEMMA StartupInv ==
  ASSUME LoopInv, Startup
  PROVE  LoopInv'
<1>1. CASE Goto("reducing") /\ UNCHANGED <<run, settled>>
  <2>1. worker' \in Worker /\ At("startup") /\ worker'.at = "reducing"
    BY <1>1, GotoStep DEF LoopInv, Startup, Steps
  <2>2. TypeOK'
    BY <1>1, <2>1 DEF LoopInv, TypeOK, Startup
  <2>3. GoalOK' /\ RunsOK' /\ FailLoopIsCapped'
    BY <1>1, QuietStep DEF Startup
  <2>4. RevisionsCounted' /\ WorkerOK'
    BY <1>1, <2>1 DEF LoopInv, Startup, RevisionsCounted, WorkerOK, Answered, goal, At, Linking, Working
  <2>5. QED BY <2>2, <2>3, <2>4 DEF LoopInv
<1>2. ASSUME NEW v \in StaleRuns, NEW row \in RunRow, row.state # "absent",
             UpdateRun(v, row), UNCHANGED worker
      PROVE  LoopInv'
  <2>1. v \in Revisions /\ run[v].state = "running"
    BY DEF StaleRuns
  <2>2. run' = [run EXCEPT ![v] = row] /\ settled' \in Seq(Revisions)
    BY <1>2, <2>1, SettledStep DEF LoopInv
  <2>3. run' \in [Revisions -> RunRow] /\ GoalOK' /\ RunsOK' /\ FailLoopIsCapped'
    BY <1>2, <2>1, <2>2, RunStep DEF Startup
  <2>4. TypeOK'
    BY <1>2, <2>2, <2>3 DEF LoopInv, TypeOK, Startup
  <2>5. RevisionsCounted' /\ WorkerOK'
    BY <1>2 DEF LoopInv, Startup, RevisionsCounted, WorkerOK, Answered, goal, At, Linking, Working
  <2>6. QED BY <2>3, <2>4, <2>5 DEF LoopInv
<1>3. CASE \E v \in StaleRuns :
              \/ UpdateRun(v, [run[v] EXCEPT !.state = "retry_pending"]) /\ UNCHANGED worker
              \/ /\ UpdateRun(v, [run[v] EXCEPT !.state = "human_required", !.receipt = "plain"])
                 /\ UNCHANGED worker
              \/ /\ UpdateRun(v, [run[v] EXCEPT !.state = "stopped", !.receipt = "plain"])
                 /\ UNCHANGED worker
  <2>1. PICK v \in StaleRuns :
              \/ UpdateRun(v, [run[v] EXCEPT !.state = "retry_pending"]) /\ UNCHANGED worker
              \/ /\ UpdateRun(v, [run[v] EXCEPT !.state = "human_required", !.receipt = "plain"])
                 /\ UNCHANGED worker
              \/ /\ UpdateRun(v, [run[v] EXCEPT !.state = "stopped", !.receipt = "plain"])
                 /\ UNCHANGED worker
    BY <1>3
  <2>2. run[v] \in RunRow
    BY DEF LoopInv, TypeOK, StaleRuns
  <2>3. PICK row \in RunRow : row.state # "absent" /\ UpdateRun(v, row) /\ UNCHANGED worker
    <3>1. /\ [run[v] EXCEPT !.state = "retry_pending"] \in RunRow
          /\ [run[v] EXCEPT !.state = "human_required", !.receipt = "plain"] \in RunRow
          /\ [run[v] EXCEPT !.state = "stopped", !.receipt = "plain"] \in RunRow
          /\ [run[v] EXCEPT !.state = "retry_pending"].state # "absent"
          /\ [run[v] EXCEPT !.state = "human_required", !.receipt = "plain"].state # "absent"
          /\ [run[v] EXCEPT !.state = "stopped", !.receipt = "plain"].state # "absent"
      BY <2>2 DEF RunRow, Runnable, Terminal
    <3>2. QED BY <2>1, <3>1
  <2>4. QED BY <1>2, <2>3
<1>4. QED BY <1>1, <1>3 DEF Startup

\* The outcomes of a reduction, of a settled run in the list or of the last one.
LEMMA ReduceInv ==
  ASSUME LoopInv, NEW v \in Revisions, NEW then \in {"event", "idle"}, Reduce(v, then),
         worker.at \in {"reducing", "settled"},
         UNCHANGED <<source, command, run, settled, announced, crashes>>
  PROVE  LoopInv'
<1>0. \A st \in Steps : [worker EXCEPT !.at = st] \in Worker /\ [worker EXCEPT !.at = st].at = st
  BY DEF LoopInv, TypeOK, Worker
<1>1. CASE goals' = goals /\ worker' = [worker EXCEPT !.at = then]
  <2>1. worker' \in Worker /\ worker'.at = then
    BY <1>0, <1>1 DEF Steps
  <2>2. TypeOK'
    BY <1>1, <2>1 DEF LoopInv, TypeOK
  <2>3. GoalOK' /\ RunsOK' /\ FailLoopIsCapped'
    BY <1>1, QuietStep
  <2>4. RevisionsCounted' /\ WorkerOK'
    BY <1>1, <2>1 DEF LoopInv, RevisionsCounted, WorkerOK, Answered, goal, At, Linking, Working
  <2>5. QED BY <2>2, <2>3, <2>4 DEF LoopInv
<1>2. CASE /\ goal.state = "active" /\ worker' = [worker EXCEPT !.at = then]
           /\ Move("human_required") \/ Move("stopped")
  <2>1. worker' \in Worker /\ worker'.at = then
    BY <1>0, <1>2 DEF Steps
  <2>2. /\ goals' \in [Goals -> GoalRow] /\ goal'.revision \in {0} \cup Revisions
        /\ goal'.run = goal.run /\ goal'.revision = goal.revision
        /\ GoalOK' /\ RunsOK' /\ FailLoopIsCapped'
    BY <1>2, MoveStep
  <2>3. TypeOK'
    BY <2>1, <2>2 DEF LoopInv, TypeOK, goal
  <2>4. RevisionsCounted' /\ WorkerOK'
    BY <2>1, <2>2 DEF LoopInv, RevisionsCounted, WorkerOK, Answered, At, Linking, Working
  <2>5. QED BY <2>2, <2>3, <2>4 DEF LoopInv
<1>3. CASE /\ goal.state = "active" /\ run[v].state = "verified" /\ goals' = goals
           /\ worker' = [worker EXCEPT !.at = "announcing", !.run = v, !.then = then]
  <2>1. worker' \in Worker /\ worker'.at = "announcing" /\ worker'.run = v
    BY <1>3 DEF LoopInv, TypeOK, Worker, Steps
  <2>2. TypeOK'
    BY <1>3, <2>1 DEF LoopInv, TypeOK
  <2>3. GoalOK' /\ RunsOK' /\ FailLoopIsCapped'
    BY <1>3, QuietStep
  <2>4. RevisionsCounted' /\ WorkerOK'
    BY <1>3, <2>1, RevisionsFact
       DEF LoopInv, RevisionsCounted, WorkerOK, Answered, goal, At, Linking, Working
  <2>5. QED BY <2>2, <2>3, <2>4 DEF LoopInv
<1>4. QED BY <1>1, <1>2, <1>3 DEF Reduce

LEMMA ReduceOneTerminalRunInv ==
  ASSUME LoopInv, ReduceOneTerminalRun
  PROVE  LoopInv'
<1>1. CASE settled = <<>>
  <2>1. worker' \in Worker /\ worker'.at = "event"
    BY <1>1, GotoStep DEF LoopInv, ReduceOneTerminalRun, Steps
  <2>2. TypeOK'
    BY <1>1, <2>1 DEF LoopInv, TypeOK, ReduceOneTerminalRun
  <2>3. GoalOK' /\ RunsOK' /\ FailLoopIsCapped'
    BY <1>1, QuietStep DEF ReduceOneTerminalRun
  <2>4. RevisionsCounted' /\ WorkerOK'
    BY <1>1, <2>1 DEF LoopInv, ReduceOneTerminalRun, RevisionsCounted, WorkerOK, Answered, goal, At,
                      Linking, Working
  <2>5. QED BY <2>2, <2>3, <2>4 DEF LoopInv
<1>2. CASE settled # <<>>
  <2>1. Head(settled) \in Revisions
    BY <1>2 DEF LoopInv, TypeOK
  <2>2. QED BY <1>2, <2>1, ReduceInv DEF ReduceOneTerminalRun, At
<1>3. QED BY <1>1, <1>2

LEMMA ReduceRunResultInv ==
  ASSUME LoopInv, ReduceRunResult
  PROVE  LoopInv'
<1>1. worker.run \in Revisions
  BY DEF LoopInv, TypeOK, Worker, WorkerOK, ReduceRunResult, At
<1>2. QED BY <1>1, ReduceInv DEF ReduceRunResult, At

LEMMA AnnounceSuccessorInv ==
  ASSUME LoopInv, AnnounceSuccessor
  PROVE  LoopInv'
<1>1. worker' \in Worker /\ worker'.at = "completing" /\ worker'.run = worker.run
  BY GotoStep DEF LoopInv, AnnounceSuccessor, Steps
<1>2. worker.run \in Revisions
  BY DEF LoopInv, TypeOK, Worker, WorkerOK, AnnounceSuccessor, At
<1>3. TypeOK'
  BY <1>1, <1>2 DEF LoopInv, TypeOK, AnnounceSuccessor
<1>4. GoalOK' /\ RunsOK' /\ FailLoopIsCapped'
  BY QuietStep DEF AnnounceSuccessor
<1>5. RevisionsCounted' /\ WorkerOK'
  BY <1>1
     DEF LoopInv, AnnounceSuccessor, RevisionsCounted, WorkerOK, Answered, goal, At, Linking, Working
<1>6. QED BY <1>3, <1>4, <1>5 DEF LoopInv

LEMMA CompleteGoalInv ==
  ASSUME LoopInv, CompleteGoal
  PROVE  LoopInv'
<1>1. worker.then \in {"event", "idle"} /\ worker.then \in Steps
  BY DEF LoopInv, TypeOK, Worker, Steps
<1>2. worker' \in Worker /\ worker'.at = worker.then
  BY <1>1, GotoStep DEF LoopInv, CompleteGoal
<1>3. goal.state = "active"
  BY DEF LoopInv, WorkerOK, CompleteGoal, At
<1>4. /\ goals' \in [Goals -> GoalRow] /\ goal'.revision \in {0} \cup Revisions
      /\ goal'.run = goal.run /\ goal'.revision = goal.revision
      /\ GoalOK' /\ RunsOK' /\ FailLoopIsCapped'
  BY <1>3, MoveStep DEF CompleteGoal
<1>5. TypeOK'
  BY <1>2, <1>4 DEF LoopInv, TypeOK, CompleteGoal, goal
<1>6. RevisionsCounted' /\ WorkerOK'
  BY <1>1, <1>2, <1>4
     DEF LoopInv, CompleteGoal, RevisionsCounted, WorkerOK, Answered, At, Linking, Working
<1>7. QED BY <1>4, <1>5, <1>6 DEF LoopInv

LEMMA NothingPendingInv ==
  ASSUME LoopInv, NothingPending
  PROVE  LoopInv'
<1>1. worker' \in Worker /\ worker'.at = "dispatch"
  BY GotoStep DEF LoopInv, NothingPending, Steps
<1>2. TypeOK'
  BY <1>1 DEF LoopInv, TypeOK, NothingPending
<1>3. GoalOK' /\ RunsOK' /\ FailLoopIsCapped'
  BY QuietStep DEF NothingPending
<1>4. RevisionsCounted' /\ WorkerOK'
  BY <1>1 DEF LoopInv, NothingPending, RevisionsCounted, WorkerOK, Answered, goal, At, Linking, Working
<1>5. QED BY <1>2, <1>3, <1>4 DEF LoopInv

LEMMA BindCommandInv ==
  ASSUME LoopInv, NEW c \in Commands, BindCommand(c)
  PROVE  LoopInv'
<1>1. worker' \in Worker /\ worker'.at = "dispatch" /\ At("event")
  BY GotoStep DEF LoopInv, BindCommand, Steps
<1>2. command' \in [Commands -> CommandStates] /\ Cardinality(Answered') = Cardinality(Answered) + 1
  BY AnswerStep DEF LoopInv, BindCommand, CommandStates, Pending
<1>3. Cardinality(Answered) \in Nat
  BY AnsweredFact DEF LoopInv
<1>4. TypeOK'
  BY <1>1, <1>2 DEF LoopInv, TypeOK, BindCommand
<1>5. GoalOK' /\ RunsOK' /\ FailLoopIsCapped'
  BY QuietStep DEF BindCommand
<1>6. RevisionsCounted'
  BY <1>1, <1>2, <1>3, GoalFact, LoopCrashesAssumption
     DEF LoopInv, TypeOK, BindCommand, RevisionsCounted, goal, At, Linking
<1>7. WorkerOK'
  BY <1>1 DEF LoopInv, BindCommand, WorkerOK, goal, At, Linking, Working
<1>8. QED BY <1>4, <1>5, <1>6, <1>7 DEF LoopInv

\* The goal of a taken command is neither absent nor active.
LEMMA ProcessCandidateInv ==
  ASSUME LoopInv, NEW c \in Commands, ProcessCandidate(c)
  PROVE  LoopInv'
<1>1. worker' \in Worker /\ worker'.at = "admitting" /\ worker'.command = c /\ At("event")
  BY DEF LoopInv, TypeOK, ProcessCandidate, Take, Worker, Steps
<1>2. CASE /\ goal.state = "absent"
           /\ goals' = CreateCandidate(goals, Goal, NoGoal, {})
           /\ source' = c
           /\ command' = [command EXCEPT ![c] = "candidate"]
  <2> DEFINE row == [state |-> "candidate", revision |-> 1, run |-> 0,
                     parent |-> NoGoal, dependsOn |-> {}]
  <2>1. row \in GoalRow
    BY DEF GoalRow, GoalStates
  <2>2. goals' = [goals EXCEPT ![Goal] = row]
    <3> DEFINE stored == [goals EXCEPT ![Goal] = row]
    <3>1. stored[Goal] = row
      BY GoalAssumption DEF LoopInv, TypeOK
    <3>2. row.parent = NoGoal /\ row.dependsOn = {}
      OBVIOUS
    <3>3. ~HierarchyViolated(stored, Goal)
      <4> HIDE DEF stored, row
      <4>1. QED BY <3>1, <3>2 DEF HierarchyViolated
    <3>4. CreateCandidate(goals, Goal, NoGoal, {}) = stored
      BY <3>3 DEF CreateCandidate
    <3>5. QED BY <1>2, <3>4
  <2>3. row.state = "candidate" /\ row.revision = 1 /\ row.run = 0 /\ row.parent = NoGoal
    OBVIOUS
  <2> HIDE DEF row
  <2>4. /\ goals' \in [Goals -> GoalRow] /\ goal' = row
        /\ \A g \in Goals \ {Goal} : goals'[g] = goals[g]
    BY <2>1, <2>2, RowStep DEF goal
  <2>5. goal.revision = 0 /\ goal.run = 0
    BY <1>2, GoalFact DEF LoopInv, GoalOK
  <2>6. 1 \in Revisions
    <3>1. Answered # Commands
      BY DEF Answered, ProcessCandidate
    <3>2. Cardinality(Commands) > 0
      BY <3>1, AnsweredFact, RevisionsFact DEF LoopInv
    <3>3. QED BY <3>2, RevisionsFact, LoopCrashesAssumption
  <2>7. \A v \in Revisions : run[v].state = "absent"
    BY <2>5, RevisionsFact DEF LoopInv, RunsOK
  <2>8. /\ command' \in [Commands -> CommandStates] /\ command'[c] \in Pending
    BY <1>2 DEF LoopInv, TypeOK, CommandStates, Pending
  <2>9. TypeOK'
    BY <1>1, <1>2, <2>3, <2>4, <2>6, <2>8 DEF LoopInv, TypeOK, ProcessCandidate, goal
  <2>10. GoalOK'
    BY <2>3, <2>4 DEF LoopInv, GoalOK
  <2>11. RunsOK'
    BY <2>3, <2>4, <2>6, <2>7 DEF RunsOK, ProcessCandidate
  <2>12. RevisionsCounted' /\ FailLoopIsCapped'
    BY <2>3, <2>4, MaxGoalRevisionsAssumption DEF RevisionsCounted, FailLoopIsCapped
  <2>13. WorkerOK'
    BY <1>1, <2>3, <2>4, <2>8 DEF WorkerOK, At, Linking, Working
  <2>14. QED BY <2>9, <2>10, <2>11, <2>12, <2>13 DEF LoopInv
<1>3. CASE /\ goal.state = "candidate" \/ (source = c /\ goal.state \notin {"absent", "active"})
           /\ UNCHANGED <<goals, source, command>>
  <2>1. TypeOK'
    BY <1>1, <1>3 DEF LoopInv, TypeOK, ProcessCandidate
  <2>2. GoalOK' /\ RunsOK' /\ FailLoopIsCapped'
    BY <1>3, QuietStep DEF ProcessCandidate
  <2>3. RevisionsCounted' /\ WorkerOK'
    BY <1>1, <1>3
       DEF LoopInv, ProcessCandidate, RevisionsCounted, WorkerOK, Answered, goal, At, Linking, Working
  <2>4. QED BY <2>1, <2>2, <2>3 DEF LoopInv
<1>4. CASE /\ goal.state \in {"human_required", "stopped", "completed"}
           /\ Move("candidate")
           /\ UNCHANGED <<source, command>>
  <2>1. /\ goals' \in [Goals -> GoalRow] /\ goal'.revision \in {0} \cup Revisions
        /\ goal'.run = goal.run /\ goal'.revision = goal.revision /\ goal'.state = "candidate"
        /\ GoalOK' /\ RunsOK' /\ FailLoopIsCapped'
    BY <1>4, MoveStep DEF ProcessCandidate
  <2>2. TypeOK'
    BY <1>1, <1>4, <2>1 DEF LoopInv, TypeOK, ProcessCandidate, goal
  <2>3. RevisionsCounted' /\ WorkerOK'
    BY <1>1, <1>4, <2>1
       DEF LoopInv, ProcessCandidate, RevisionsCounted, WorkerOK, Answered, At, Linking, Working
  <2>4. QED BY <2>1, <2>2, <2>3 DEF LoopInv
<1>5. QED BY <1>2, <1>3, <1>4 DEF ProcessCandidate

\* A refused command is still to be answered.
LEMMA RefusalInv ==
  ASSUME LoopInv, At("admitting"), Goto("refused"),
         goals' = goals \/ (goal.state # "absent" /\ Move("human_required")),
         UNCHANGED <<source, command, run, settled, announced, crashes>>
  PROVE  LoopInv'
<1>1. worker' \in Worker /\ worker'.at = "refused" /\ worker'.command = worker.command
  BY GotoStep DEF LoopInv, Steps
<1>2. /\ goals' \in [Goals -> GoalRow] /\ goal'.revision \in {0} \cup Revisions
      /\ goal'.run = goal.run /\ goal'.revision = goal.revision
      /\ GoalOK' /\ RunsOK' /\ FailLoopIsCapped'
  <2>1. CASE goals' = goals
    BY <2>1, QuietStep DEF LoopInv, TypeOK, goal
  <2>2. CASE goal.state # "absent" /\ Move("human_required")
    BY <2>2, MoveStep
  <2>3. QED BY <2>1, <2>2
<1>3. TypeOK'
  BY <1>1, <1>2 DEF LoopInv, TypeOK, goal
<1>4. RevisionsCounted' /\ WorkerOK'
  BY <1>1, <1>2 DEF LoopInv, RevisionsCounted, WorkerOK, Answered, At, Linking, Working
<1>5. QED BY <1>2, <1>3, <1>4 DEF LoopInv

LEMMA RefuseAdmissionInv ==
  ASSUME LoopInv, RefuseAdmission
  PROVE  LoopInv'
  BY RefusalInv DEF RefuseAdmission

LEMMA RefuseParkedRunInv ==
  ASSUME LoopInv, RefuseParkedRun
  PROVE  LoopInv'
  BY RefusalInv DEF RefuseParkedRun, Admissible

LEMMA RefuseAtCapInv ==
  ASSUME LoopInv, RefuseAtCap
  PROVE  LoopInv'
  BY RefusalInv DEF RefuseAtCap, Admissible

\* activate_with_run links the newest run, which exists, and the command is
\* answered in the same transaction.
LEMMA LinkStep ==
  ASSUME LoopInv, worker.at \in {"admitting", "created"}, goal.state = "candidate",
         goals' = ActivateWithRun(goals, Goal, goal.revision), run[goal.revision].state # "absent",
         Answer("active"), Goto("admitted"),
         UNCHANGED <<source, run, settled, announced, crashes>>
  PROVE  LoopInv'
<1> DEFINE c == worker.command
           row == [goal EXCEPT !.state = "active", !.run = goal.revision]
<1>1. worker' \in Worker /\ worker'.at = "admitted"
  BY GotoStep DEF LoopInv, Steps
<1>2. c \in Commands /\ command[c] \in Pending
  BY DEF LoopInv, WorkerOK, Working, Linking
<1>3. command' \in [Commands -> CommandStates] /\ Cardinality(Answered') = Cardinality(Answered) + 1
  BY <1>2, AnswerStep DEF LoopInv, Answer, CommandStates, Pending
<1>4. goal.revision \in Revisions /\ goal.revision \in Nat /\ goal.run \in Nat /\ goal.revision > 0
  BY GoalFact, RevisionsFact DEF LoopInv, GoalOK
<1>5. row \in GoalRow
  BY <1>4, GoalFact DEF GoalRow, GoalStates
<1>6. goals' = [goals EXCEPT ![Goal] = row]
  BY GoalAssumption DEF ActivateWithRun, goal, LoopInv, TypeOK
<1>7. /\ row.state = "active" /\ row.run = goal.revision /\ row.revision = goal.revision
      /\ row.parent = goal.parent
  BY GoalFact DEF GoalRow
<1> HIDE DEF row, c
<1>8. /\ goals' \in [Goals -> GoalRow] /\ goal' = row
      /\ \A g \in Goals \ {Goal} : goals'[g] = goals[g]
  BY <1>5, <1>6, RowStep DEF goal
<1>9. TypeOK'
  BY <1>1, <1>3, <1>4, <1>7, <1>8 DEF LoopInv, TypeOK, goal
<1>10. GoalOK'
  BY <1>4, <1>7, <1>8 DEF LoopInv, GoalOK
<1>11. RunsOK'
  BY <1>4, <1>7, <1>8 DEF LoopInv, RunsOK
<1>12. RevisionsCounted'
  <2>1. Cardinality(Answered) \in Nat /\ crashes \in Nat /\ crashes' = crashes
    BY AnsweredFact, LoopCrashesAssumption DEF LoopInv, TypeOK
  <2>2. goal.revision <= Cardinality(Answered) + crashes + 1
    <3>1. CASE goal.run = 0
      BY <1>4, <2>1, <3>1 DEF LoopInv, GoalOK
    <3>2. CASE goal.run # 0
      BY <1>4, <2>1, <3>2 DEF LoopInv, RevisionsCounted
    <3>3. QED BY <3>1, <3>2
  <2>3. worker'.at \notin Linking
    BY <1>1 DEF Linking
  <2>4. goal'.revision <= Cardinality(Answered') + crashes'
    BY <1>3, <1>4, <1>7, <1>8, <2>1, <2>2
  <2>5. QED BY <1>3, <2>1, <2>3, <2>4 DEF RevisionsCounted
<1>13. WorkerOK'
  BY <1>1 DEF WorkerOK, At, Linking, Working
<1>14. FailLoopIsCapped'
  BY <1>7, <1>8 DEF LoopInv, FailLoopIsCapped
<1>15. QED BY <1>9, <1>10, <1>11, <1>12, <1>13, <1>14 DEF LoopInv

\* An open run is the newest one: all others are settled.
LEMMA ReuseOpenRunInv ==
  ASSUME LoopInv, ReuseOpenRun
  PROVE  LoopInv'
<1>1. run[ExistingRun].state \in Runnable \cup {"running"} /\ goal.state = "candidate"
  BY DEF ReuseOpenRun, Admissible
<1>2. ExistingRun = goal.revision
  <2>1. CASE goal.run = 0
    BY <2>1 DEF ExistingRun
  <2>2. CASE goal.run # 0
    BY <1>1, <2>2 DEF ExistingRun, LoopInv, RunsOK, Runnable, Terminal
  <2>3. QED BY <2>1, <2>2
<1>3. run[goal.revision].state # "absent"
  BY <1>1, <1>2 DEF Runnable
<1>4. QED BY <1>1, <1>2, <1>3, LinkStep DEF ReuseOpenRun, Admissible, At

LEMMA ActivateNewRunInv ==
  ASSUME LoopInv, ActivateNewRun
  PROVE  LoopInv'
<1>1. goal.state = "candidate" /\ run[goal.revision].state # "absent"
  BY DEF LoopInv, WorkerOK, ActivateNewRun, At, Linking
<1>2. QED BY <1>1, LinkStep DEF ActivateNewRun, At

\* bump_revision leaves the settled run linked until the next one exists.  The
\* budget of revisions lasts: the command at hand has not used its own.
LEMMA BumpForNewRunInv ==
  ASSUME LoopInv, BumpForNewRun
  PROVE  LoopInv'
<1> DEFINE row == [goal EXCEPT !.revision = goal.revision + 1]
<1>1. worker' \in Worker /\ worker'.at = "bumped" /\ worker'.command = worker.command
  BY GotoStep DEF LoopInv, BumpForNewRun, Steps
<1>2. /\ goal.state = "candidate" /\ run[ExistingRun].state \in {"stopped", "verified"}
      /\ run[ExistingRun].state = "verified" \/ goal.revision < MaxGoalRevisions
      /\ ExistingRun \in Revisions
  BY GoalFact DEF BumpForNewRun, Admissible
<1>3. worker.command \in Commands /\ command[worker.command] \in Pending /\ worker.at = "admitting"
  BY DEF LoopInv, WorkerOK, Working, BumpForNewRun, Admissible, At
<1>4. goal.revision \in Nat /\ goal.revision > 0 /\ goal.run \in Nat /\ goal.run <= goal.revision
  BY <1>2, GoalFact DEF LoopInv, GoalOK
<1>5. goal.run # 0 /\ ExistingRun = goal.run
  <2>1. CASE goal.run = 0
    BY <1>2, <1>4, <2>1 DEF ExistingRun, LoopInv, RunsOK
  <2>2. QED BY <2>1 DEF ExistingRun
<1>6. /\ goal.revision <= Cardinality(Answered) + crashes
      /\ Cardinality(Answered) \in Nat /\ crashes \in Nat /\ crashes <= MaxCrashes
      /\ Cardinality(Answered) < Cardinality(Commands)
  <2>1. Answered # Commands
    BY <1>3 DEF Answered
  <2>2. goal.revision <= Cardinality(Answered) + crashes + 0
    BY <1>3, <1>5 DEF LoopInv, RevisionsCounted, Linking
  <2>3. QED BY <2>1, <2>2, AnsweredFact, LoopCrashesAssumption DEF LoopInv, TypeOK
<1>7. goal.revision + 1 \in Revisions
  BY <1>4, <1>6, RevisionsFact, LoopCrashesAssumption
<1>8. row \in GoalRow /\ goals' = [goals EXCEPT ![Goal] = row]
  <2>1. goals' = [goals EXCEPT ![Goal].revision = goals[Goal].revision + 1]
    BY DEF BumpForNewRun, BumpRevision
  <2>2. goal \in GoalRow /\ goal.revision + 1 \in Nat
    BY <1>4, GoalFact
  <2>3. row \in GoalRow
    BY <2>2 DEF GoalRow
  <2>4. QED BY <2>1, <2>3, GoalAssumption DEF goal, LoopInv, TypeOK
<1>9. /\ row.state = goal.state /\ row.revision = goal.revision + 1 /\ row.run = goal.run
      /\ row.parent = goal.parent
  BY GoalFact DEF GoalRow
<1> HIDE DEF row
<1>10. /\ goals' \in [Goals -> GoalRow] /\ goal' = row
       /\ \A g \in Goals \ {Goal} : goals'[g] = goals[g]
  BY <1>8, RowStep DEF goal
<1>11. UNCHANGED <<source, command, run, settled, announced, crashes>>
  BY DEF BumpForNewRun
<1>12. TypeOK'
  BY <1>1, <1>7, <1>9, <1>10, <1>11 DEF LoopInv, TypeOK, goal
<1>13. GoalOK'
  BY <1>2, <1>4, <1>5, <1>9, <1>10 DEF LoopInv, GoalOK
<1>14. run[goal.revision + 1].state = "absent"
  BY <1>4, <1>7 DEF LoopInv, RunsOK
<1>15. RunsOK'
  <2>1. \A v \in Revisions : v > goal.revision + 1 => run[v].state = "absent"
    BY <1>4, RevisionsFact DEF LoopInv, RunsOK
  <2>2. run[goal.run].state \in Terminal /\ run[goal.run].state # "absent"
    BY <1>2, <1>5 DEF Terminal
  <2>3. QED BY <1>2, <1>4, <1>9, <1>10, <1>11, <1>14, <2>1, <2>2 DEF RunsOK
<1>16. RevisionsCounted'
  <2>1. Answered' = Answered /\ worker'.at \in Linking
    BY <1>1, <1>11 DEF Answered, Linking
  <2>2. QED BY <1>4, <1>6, <1>9, <1>10, <1>11, <2>1 DEF RevisionsCounted
<1>17. WorkerOK'
  BY <1>1, <1>2, <1>3, <1>4, <1>5, <1>9, <1>10, <1>11, <1>14 DEF WorkerOK, At, Linking, Working
<1>18. FailLoopIsCapped'
  BY <1>2, <1>4, <1>9, <1>10, <1>11, MaxGoalRevisionsAssumption DEF LoopInv, FailLoopIsCapped
<1>19. QED BY <1>12, <1>13, <1>15, <1>16, <1>17, <1>18 DEF LoopInv

\* create_run makes the run of the newest revision, which had none.
LEMMA CreateRunInv ==
  ASSUME LoopInv, CreateRun
  PROVE  LoopInv'
<1> DEFINE row == [AbsentRun EXCEPT !.state = "queued"]
           v == goal.revision
<1>1. /\ worker' \in Worker /\ worker'.at = "created" /\ worker'.command = worker.command
      /\ worker'.run = worker.run
  BY GotoStep DEF LoopInv, CreateRun, Steps
<1>2. goal.state = "candidate" /\ goal.run # v /\ run[v].state = "absent" /\ v \in Revisions
  <2>1. CASE At("bumped")
    BY <2>1, GoalFact DEF LoopInv, WorkerOK, Linking, At
  <2>2. CASE Admissible /\ run[ExistingRun].state = "absent"
    <3>1. goal.run = 0
      BY <2>2 DEF LoopInv, RunsOK, ExistingRun
    <3>2. QED BY <2>2, <3>1, GoalFact DEF ExistingRun, Admissible, LoopInv, GoalOK
  <2>3. QED BY <2>1, <2>2 DEF CreateRun
<1>3. worker.command \in Commands /\ command[worker.command] \in Pending
      /\ worker.at \in {"admitting", "bumped"}
  BY DEF LoopInv, WorkerOK, CreateRun, Admissible, At, Linking, Working
<1>4. row \in RunRow /\ row.state = "queued"
  <2>1. AbsentRun \in RunRow
    BY BudgetAssumption DEF AbsentRun, RunRow
  <2>2. "queued" \in Runnable
    BY DEF Runnable
  <2>3. QED BY <2>1, <2>2 DEF RunRow
<1> HIDE DEF row
<1>5. /\ run' \in [Revisions -> RunRow] /\ run'[v] = row
      /\ \A w \in Revisions : w # v => run'[w] = run[w]
  BY <1>2, <1>4 DEF LoopInv, TypeOK, CreateRun, row
<1>6. goal' = goal /\ UNCHANGED <<goals, source, command, settled, announced, crashes>>
  BY DEF CreateRun, goal
<1>7. TypeOK'
  BY <1>1, <1>5, <1>6 DEF LoopInv, TypeOK
<1>8. GoalOK'
  BY <1>6 DEF LoopInv, GoalOK
<1>9. RunsOK'
  <2>1. \A w \in Revisions : w > v => run'[w].state = "absent"
    BY <1>2, <1>5, GoalFact, RevisionsFact DEF LoopInv, RunsOK
  <2>2. goal.run # 0 => run'[goal.run].state # "absent" /\ run'[goal.run].state \in Terminal
    BY <1>2, <1>5, GoalFact DEF LoopInv, RunsOK
  <2>3. QED BY <1>2, <1>4, <1>5, <1>6, <2>1, <2>2 DEF LoopInv, RunsOK
<1>10. RevisionsCounted'
  <2>1. Answered' = Answered /\ worker'.at \in Linking
    BY <1>1, <1>6 DEF Answered, Linking
  <2>2. Cardinality(Answered) \in Nat /\ crashes \in Nat /\ v \in Nat
    BY AnsweredFact, GoalFact, LoopCrashesAssumption DEF LoopInv, TypeOK
  <2>3. QED BY <1>6, <2>1, <2>2 DEF LoopInv, RevisionsCounted
<1>11. WorkerOK'
  BY <1>1, <1>2, <1>3, <1>4, <1>5, <1>6 DEF WorkerOK, At, Linking, Working
<1>12. FailLoopIsCapped'
  BY <1>2, <1>5, <1>6 DEF LoopInv, FailLoopIsCapped
<1>13. QED BY <1>7, <1>8, <1>9, <1>10, <1>11, <1>12 DEF LoopInv

LEMMA AnswerCommandInv ==
  ASSUME LoopInv, AnswerCommand
  PROVE  LoopInv'
<1> DEFINE c == worker.command
           st == IF At("admitted") THEN "completed" ELSE "human_required"
<1>1. worker' \in Worker /\ worker'.at = "dispatch" /\ worker.at \in {"admitted", "refused"}
  BY GotoStep DEF LoopInv, AnswerCommand, Steps
<1>2. /\ command' \in [Commands -> CommandStates]
      /\ Cardinality(Answered') \in Nat /\ Cardinality(Answered') >= Cardinality(Answered)
  <2>1. CASE c \in Commands
    <3>1. st \in CommandStates /\ st \notin Pending \cup {"absent"}
      BY DEF CommandStates, Pending
    <3> HIDE DEF st
    <3>2. command' = [command EXCEPT ![c] = st]
      BY DEF AnswerCommand, Answer, st
    <3>3. /\ command' \in [Commands -> CommandStates]
          /\ Cardinality(Answered') =
                Cardinality(Answered) + (IF command[c] \in Pending \cup {"absent"} THEN 1 ELSE 0)
      BY <2>1, <3>1, <3>2, AnswerStep DEF LoopInv
    <3>4. Cardinality(Answered) \in Nat
      BY AnsweredFact DEF LoopInv
    <3> HIDE DEF c
    <3>5. QED BY <3>3, <3>4
  <2>2. CASE c \notin Commands
    <3>1. command' = command
      BY <2>2 DEF AnswerCommand, Answer, LoopInv, TypeOK
    <3>2. QED BY <3>1, AnsweredFact DEF LoopInv, TypeOK, Answered
  <2>3. QED BY <2>1, <2>2
<1>3. TypeOK'
  BY <1>1, <1>2 DEF LoopInv, TypeOK, AnswerCommand
<1>4. GoalOK' /\ RunsOK' /\ FailLoopIsCapped'
  BY QuietStep DEF AnswerCommand
<1>5. RevisionsCounted'
  BY <1>1, <1>2, AnsweredFact, GoalFact, LoopCrashesAssumption
     DEF LoopInv, TypeOK, AnswerCommand, RevisionsCounted, goal, Linking
<1>6. WorkerOK'
  BY <1>1 DEF WorkerOK, At, Linking, Working
<1>7. QED BY <1>3, <1>4, <1>5, <1>6 DEF LoopInv

LEMMA NothingEligibleInv ==
  ASSUME LoopInv, NothingEligible
  PROVE  LoopInv'
<1>1. worker' \in Worker /\ worker'.at = "idle"
  BY RestStep DEF NothingEligible
<1>2. TypeOK'
  BY <1>1 DEF LoopInv, TypeOK, NothingEligible
<1>3. GoalOK' /\ RunsOK' /\ FailLoopIsCapped'
  BY QuietStep DEF NothingEligible
<1>4. RevisionsCounted' /\ WorkerOK'
  BY <1>1 DEF LoopInv, NothingEligible, RevisionsCounted, WorkerOK, Answered, goal, At, Linking, Working
<1>5. QED BY <1>2, <1>3, <1>4 DEF LoopInv

LEMMA DispatchRunInv ==
  ASSUME LoopInv, NEW v \in Revisions, DispatchRun(v)
  PROVE  LoopInv'
<1>1. /\ run[v] \in RunRow /\ run[v].state \in Runnable /\ v = goal.run /\ goal.state = "active"
      /\ run[v].state # "absent" /\ v # 0
  BY RevisionsFact DEF LoopInv, TypeOK, DispatchRun, Eligible, Runnable
<1>2. PICK row \in RunRow, st \in {"running", "settled"} :
         /\ UpdateRun(v, row)
         /\ worker' = [worker EXCEPT !.at = st, !.run = v]
         /\ row.state # "absent" /\ (st = "running" => row.state = "running")
  <2>1. CASE run[v].attempts < Budget
    <3> DEFINE row == [run[v] EXCEPT !.state = "running", !.leased = TRUE, !.attempts = run[v].attempts + 1]
    <3>1. row \in RunRow /\ row.state = "running"
      <4>1. run[v].attempts + 1 \in 0..Budget
        BY <1>1, <2>1, BudgetAssumption DEF RunRow
      <4>2. QED BY <1>1, <4>1 DEF RunRow
    <3>2. UpdateRun(v, row) /\ worker' = [worker EXCEPT !.at = "running", !.run = v]
      BY <2>1 DEF DispatchRun
    <3> HIDE DEF row
    <3>3. QED BY <3>1, <3>2
  <2>2. CASE ~(run[v].attempts < Budget)
    <3> DEFINE row == [run[v] EXCEPT !.state = "human_required"]
    <3>1. row \in RunRow /\ row.state = "human_required"
      BY <1>1 DEF RunRow, Terminal
    <3>2. UpdateRun(v, row) /\ worker' = [worker EXCEPT !.at = "settled", !.run = v]
      BY <2>2 DEF DispatchRun
    <3> HIDE DEF row
    <3>3. QED BY <3>1, <3>2
  <2>3. QED BY <2>1, <2>2
<1>3. worker' \in Worker /\ worker'.at = st /\ worker'.run = v
  BY <1>2 DEF LoopInv, TypeOK, Worker, Steps
<1>4. run' = [run EXCEPT ![v] = row] /\ settled' \in Seq(Revisions)
  BY <1>2, SettledStep DEF LoopInv
<1>5. UNCHANGED <<goals, source, command, announced, crashes>>
  BY DEF DispatchRun
<1>6. run' \in [Revisions -> RunRow] /\ run'[v] = row /\ GoalOK' /\ RunsOK' /\ FailLoopIsCapped'
  BY <1>1, <1>2, <1>4, <1>5, RunStep
<1>7. TypeOK'
  BY <1>3, <1>4, <1>5, <1>6 DEF LoopInv, TypeOK
<1>8. RevisionsCounted' /\ WorkerOK'
  BY <1>1, <1>2, <1>3, <1>5, <1>6
     DEF LoopInv, DispatchRun, RevisionsCounted, WorkerOK, Answered, goal, At, Linking, Working
<1>9. QED BY <1>6, <1>7, <1>8 DEF LoopInv

LEMMA FinishRunInv ==
  ASSUME LoopInv, FinishRun
  PROVE  LoopInv'
<1> DEFINE v == worker.run
<1>1. v \in Revisions /\ v # 0 /\ run[v] \in RunRow /\ run[v].state = "running"
  BY DEF LoopInv, TypeOK, Worker, WorkerOK, FinishRun, At
<1>2. PICK state \in {"verified", "human_required", "stopped", "retry_pending"},
           receipt \in {"plain", "human"} :
         Finish(v, state, receipt) /\ (Goto("settled") \/ worker' = AtRest)
  BY DEF FinishRun
<1> DEFINE row == [run[v] EXCEPT !.state = state, !.receipt = receipt, !.leased = FALSE]
<1>3. row \in RunRow /\ row.state = state
  BY <1>1 DEF RunRow, Runnable, Terminal
<1>4. UpdateRun(v, row)
  BY <1>2 DEF Finish
<1>5. worker' \in Worker /\ worker'.at \in {"settled", "idle"} /\ (worker'.at = "settled" => worker'.run = v)
  BY <1>2, GotoStep, RestStep DEF LoopInv, Steps
<1> HIDE DEF row
<1>6. run' = [run EXCEPT ![v] = row] /\ settled' \in Seq(Revisions)
  BY <1>1, <1>3, <1>4, SettledStep DEF LoopInv
<1>7. UNCHANGED <<goals, source, command, announced, crashes>> /\ worker.at = "running"
  BY DEF FinishRun, At
<1>8. run' \in [Revisions -> RunRow] /\ GoalOK' /\ RunsOK' /\ FailLoopIsCapped'
  BY <1>1, <1>3, <1>6, <1>7, RunStep
<1>9. TypeOK'
  BY <1>5, <1>6, <1>7, <1>8 DEF LoopInv, TypeOK
<1>10. RevisionsCounted' /\ WorkerOK'
  BY <1>1, <1>5, <1>7
     DEF LoopInv, RevisionsCounted, WorkerOK, Answered, goal, At, Linking, Working
<1>11. QED BY <1>8, <1>9, <1>10 DEF LoopInv

\* A lease that ends leaves the state of its run.
LEMMA LeaseEnds ==
  ASSUME LoopInv, NEW v \in Revisions,
         run' = [run EXCEPT ![v] = [@ EXCEPT !.leased = FALSE]],
         UNCHANGED <<goals, source, command, settled, announced, crashes>>,
         worker' = worker \/ (At("running") /\ worker' = AtRest)
  PROVE  LoopInv'
<1> DEFINE row == [run[v] EXCEPT !.leased = FALSE]
<1>1. row \in RunRow /\ row.state = run[v].state /\ run' = [run EXCEPT ![v] = row]
  BY DEF LoopInv, TypeOK, RunRow
<1> HIDE DEF row
<1>2. /\ run' \in [Revisions -> RunRow] /\ GoalOK' /\ RunsOK' /\ FailLoopIsCapped'
      /\ \A w \in Revisions : run'[w].state = run[w].state
  <2>1. /\ run' \in [Revisions -> RunRow]
        /\ \A w \in Revisions : run'[w].state = run[w].state
    BY <1>1 DEF LoopInv, TypeOK
  <2>2. goal' = goal
    BY DEF goal
  <2>3. QED BY <2>1, <2>2, GoalFact DEF LoopInv, GoalOK, RunsOK, FailLoopIsCapped
<1>3. worker' \in Worker /\ (worker' = worker \/ worker'.at = "idle")
  BY RestStep DEF LoopInv, TypeOK
<1>4. TypeOK'
  BY <1>2, <1>3 DEF LoopInv, TypeOK
<1>5. RevisionsCounted'
  <2>1. Cardinality(Answered) \in Nat /\ crashes \in Nat /\ goal.revision \in Nat
    BY AnsweredFact, GoalFact, LoopCrashesAssumption DEF LoopInv, TypeOK
  <2>2. Answered' = Answered /\ goal' = goal
    BY DEF Answered, goal
  <2>3. worker' = worker \/ (worker.at \notin Linking /\ worker'.at \notin Linking)
    BY RestStep DEF At, Linking
  <2>4. QED BY <2>1, <2>2, <2>3 DEF LoopInv, RevisionsCounted
<1>6. WorkerOK'
  BY <1>2, <1>3, GoalFact DEF LoopInv, TypeOK, Worker, WorkerOK, goal, At, Linking, Working
<1>7. QED BY <1>2, <1>4, <1>5, <1>6 DEF LoopInv

LEMMA AbandonAttemptInv ==
  ASSUME LoopInv, AbandonAttempt
  PROVE  LoopInv'
<1>1. worker.run \in Revisions
  BY DEF LoopInv, TypeOK, Worker, WorkerOK, AbandonAttempt, At
<1>2. QED BY <1>1, LeaseEnds DEF AbandonAttempt

LEMMA LeaseExpiresInv ==
  ASSUME LoopInv, NEW v \in Revisions, LeaseExpires(v)
  PROVE  LoopInv'
  BY LeaseEnds DEF LeaseExpires

\* A death between bump_revision and the link pays for the revision.
LEMMA CrashInv ==
  ASSUME LoopInv, Crash
  PROVE  LoopInv'
<1>1. worker' \in Worker /\ worker'.at = "idle"
  BY RestStep DEF Crash
<1>2. TypeOK'
  BY <1>1, LoopCrashesAssumption DEF LoopInv, TypeOK, Crash
<1>3. GoalOK' /\ RunsOK' /\ FailLoopIsCapped'
  BY QuietStep DEF Crash
<1>4. RevisionsCounted'
  <2>1. Cardinality(Answered) \in Nat /\ crashes \in Nat /\ goal.revision \in Nat
    BY AnsweredFact, GoalFact, LoopCrashesAssumption DEF LoopInv, TypeOK
  <2>2. Answered' = Answered /\ goal' = goal /\ crashes' = crashes + 1 /\ worker'.at \notin Linking
    BY <1>1 DEF Answered, goal, Crash, Linking
  <2>3. QED BY <2>1, <2>2 DEF LoopInv, RevisionsCounted
<1>5. WorkerOK'
  BY <1>1 DEF WorkerOK, At, Linking, Working
<1>6. QED BY <1>2, <1>3, <1>4, <1>5 DEF LoopInv

LEMMA NextLoopInv ==
  ASSUME LoopInv, [Next]_vars
  PROVE  LoopInv'
<1>1. CASE UNCHANGED vars
  <2>1. goal' = goal /\ Answered' = Answered
    BY <1>1 DEF vars, goal, Answered
  <2>2. TypeOK' /\ GoalOK' /\ RunsOK' /\ FailLoopIsCapped'
    BY <1>1, <2>1 DEF vars, LoopInv, TypeOK, GoalOK, RunsOK, FailLoopIsCapped
  <2>3. RevisionsCounted' /\ WorkerOK'
    BY <1>1, <2>1 DEF vars, LoopInv, RevisionsCounted, WorkerOK, At
  <2>4. QED BY <2>2, <2>3 DEF LoopInv
<1>2. CASE EmitStandingIntents
  BY <1>2, EmitStandingIntentsInv
<1>3. CASE Startup
  BY <1>3, StartupInv
<1>4. CASE ReduceOneTerminalRun
  BY <1>4, ReduceOneTerminalRunInv
<1>5. CASE AnnounceSuccessor
  BY <1>5, AnnounceSuccessorInv
<1>6. CASE CompleteGoal
  BY <1>6, CompleteGoalInv
<1>7. CASE NothingPending
  BY <1>7, NothingPendingInv
<1>8. CASE \E c \in Commands : BindCommand(c) \/ ProcessCandidate(c)
  BY <1>8, BindCommandInv, ProcessCandidateInv
<1>9. CASE RefuseAdmission
  BY <1>9, RefuseAdmissionInv
<1>10. CASE RefuseParkedRun
  BY <1>10, RefuseParkedRunInv
<1>11. CASE ReuseOpenRun
  BY <1>11, ReuseOpenRunInv
<1>12. CASE BumpForNewRun
  BY <1>12, BumpForNewRunInv
<1>13. CASE RefuseAtCap
  BY <1>13, RefuseAtCapInv
<1>14. CASE CreateRun
  BY <1>14, CreateRunInv
<1>15. CASE ActivateNewRun
  BY <1>15, ActivateNewRunInv
<1>16. CASE AnswerCommand
  BY <1>16, AnswerCommandInv
<1>17. CASE NothingEligible
  BY <1>17, NothingEligibleInv
<1>18. CASE \E v \in Revisions : DispatchRun(v)
  BY <1>18, DispatchRunInv
<1>19. CASE FinishRun
  BY <1>19, FinishRunInv
<1>20. CASE ReduceRunResult
  BY <1>20, ReduceRunResultInv
<1>21. CASE AbandonAttempt
  BY <1>21, AbandonAttemptInv
<1>22. CASE Crash
  BY <1>22, CrashInv
<1>23. CASE \E c \in Commands : SubmitCommand(c)
  BY <1>23, SubmitCommandInv
<1>24. CASE \E v \in Revisions : LeaseExpires(v)
  BY <1>24, LeaseExpiresInv
<1>25. QED
  BY <1>1, <1>2, <1>3, <1>4, <1>5, <1>6, <1>7, <1>8, <1>9, <1>10, <1>11, <1>12, <1>13, <1>14,
     <1>15, <1>16, <1>17, <1>18, <1>19, <1>20, <1>21, <1>22, <1>23, <1>24
     DEF Next, Tick

LEMMA LoopInvIsInvariant == Spec => []LoopInv
<1>1. LoopInv /\ [Next]_vars => LoopInv'
  BY NextLoopInv
<1>2. QED BY <1>1, InitLoopInv, PTL DEF Spec

-----------------------------------------------------------------------------
\* What a step does to the goal.

LEMMA AllowedFact ==
  /\ "completed" \in AllowedTransitions["active"] /\ "stopped" \in AllowedTransitions["active"]
  /\ "human_required" \in AllowedTransitions["active"]
  /\ "active" \in AllowedTransitions["candidate"]
  /\ "human_required" \in AllowedTransitions["candidate"]
  /\ \A st \in {"human_required", "stopped", "completed"} : "candidate" \in AllowedTransitions[st]
  BY DEF AllowedTransitions

\* The goal is created, moved as the table of transitions allows, linked to the
\* run of its revision, or given a new revision.
GoalIsCreated ==
    /\ goals[Goal].state = "absent" /\ goals'[Goal].state = "candidate"
    /\ goals'[Goal].run = goals[Goal].run

GoalIsMoved ==
    /\ goals[Goal].state # "absent"
    /\ goals'[Goal].state \in AllowedTransitions[goals[Goal].state]
    /\ goals'[Goal].state # "active"
    /\ goals'[Goal].state = "completed" => At("completing")
    /\ goals'[Goal].run = goals[Goal].run

GoalIsLinked ==
    /\ goals[Goal].state = "candidate" /\ goals'[Goal].state = "active"
    /\ goals'[Goal].run = goals[Goal].revision
    /\ run[goals[Goal].revision].state \notin Terminal

GoalIsKept ==
    goals'[Goal].state = goals[Goal].state /\ goals'[Goal].run = goals[Goal].run

GoalChange == GoalIsCreated \/ GoalIsMoved \/ GoalIsLinked \/ GoalIsKept

LEMMA MovedRow ==
  ASSUME LoopInv, goal.state # "absent",
         NEW st \in {"candidate", "human_required", "completed", "stopped"}, Move(st),
         st \in AllowedTransitions[goal.state], st = "completed" => At("completing")
  PROVE  GoalIsMoved /\ \A g \in Goals \ {Goal} : goals'[g] = goals[g]
<1> DEFINE row == [goal EXCEPT !.state = st]
<1>1. row \in GoalRow /\ row.state = st /\ row.run = goal.run /\ st \in GoalStates
  BY GoalFact DEF GoalRow, GoalStates
<1>2. goals' = [goals EXCEPT ![Goal] = row]
  BY <1>1, MoveRow
<1> HIDE DEF row
<1>3. goals'[Goal] = row /\ \A g \in Goals \ {Goal} : goals'[g] = goals[g]
  BY <1>1, <1>2, RowStep
<1>4. QED BY <1>1, <1>3 DEF GoalIsMoved, goal

LEMMA LinkedRow ==
  ASSUME LoopInv, goal.state = "candidate", run[goal.revision].state \notin Terminal,
         goals' = ActivateWithRun(goals, Goal, goal.revision)
  PROVE  GoalIsLinked /\ \A g \in Goals \ {Goal} : goals'[g] = goals[g]
<1> DEFINE row == [goal EXCEPT !.state = "active", !.run = goal.revision]
<1>1. row \in GoalRow /\ row.state = "active" /\ row.run = goal.revision
  BY GoalFact DEF GoalRow, GoalStates
<1>2. goals' = [goals EXCEPT ![Goal] = row]
  BY GoalAssumption DEF ActivateWithRun, goal, LoopInv, TypeOK
<1> HIDE DEF row
<1>3. goals'[Goal] = row /\ \A g \in Goals \ {Goal} : goals'[g] = goals[g]
  BY <1>1, <1>2, RowStep
<1>4. QED BY <1>1, <1>3 DEF GoalIsLinked, goal

LEMMA GoalChanges ==
  ASSUME LoopInv, [Next]_vars
  PROVE  GoalChange /\ \A g \in Goals \ {Goal} : goals'[g] = goals[g]
<1>1. CASE UNCHANGED goals
  BY <1>1 DEF GoalChange, GoalIsKept
<1>2. ASSUME NEW v, NEW then, Reduce(v, then)
      PROVE  GoalChange /\ \A g \in Goals \ {Goal} : goals'[g] = goals[g]
  <2>1. CASE /\ goal.state = "active"
             /\ Move("human_required") \/ Move("stopped")
    BY <2>1, MovedRow, AllowedFact DEF GoalChange
  <2>2. QED BY <1>1, <1>2, <2>1 DEF Reduce
<1>3. CASE ReduceOneTerminalRun
  BY <1>1, <1>2, <1>3 DEF ReduceOneTerminalRun
<1>4. CASE ReduceRunResult
  BY <1>2, <1>4 DEF ReduceRunResult
<1>5. CASE CompleteGoal
  <2>1. goal.state = "active" /\ At("completing")
    BY <1>5 DEF LoopInv, WorkerOK, CompleteGoal, At
  <2>2. QED BY <1>5, <2>1, MovedRow, AllowedFact DEF CompleteGoal, GoalChange
<1>6. ASSUME NEW c \in Commands, ProcessCandidate(c)
      PROVE  GoalChange /\ \A g \in Goals \ {Goal} : goals'[g] = goals[g]
  <2>1. CASE goal.state = "absent" /\ goals' = CreateCandidate(goals, Goal, NoGoal, {})
    <3> DEFINE row == [state |-> "candidate", revision |-> 1, run |-> 0,
                       parent |-> NoGoal, dependsOn |-> {}]
               stored == [goals EXCEPT ![Goal] = row]
    <3>1. row \in GoalRow /\ row.state = "candidate" /\ row.run = 0
      BY DEF GoalRow, GoalStates
    <3>2. stored[Goal] = row /\ row.parent = NoGoal /\ row.dependsOn = {}
      BY GoalAssumption DEF LoopInv, TypeOK
    <3>3. CreateCandidate(goals, Goal, NoGoal, {})
            = IF HierarchyViolated(stored, Goal) THEN SetState(stored, Goal, "human_required")
                                                 ELSE stored
      BY DEF CreateCandidate
    <3> HIDE DEF row
    <3>4. ~HierarchyViolated(stored, Goal)
      <4> HIDE DEF stored
      <4>1. QED BY <3>2 DEF HierarchyViolated
    <3>5. goals'[Goal] = row /\ \A g \in Goals \ {Goal} : goals'[g] = goals[g]
      BY <2>1, <3>1, <3>3, <3>4, RowStep
    <3>6. goal.run = 0
      BY <2>1, GoalFact DEF LoopInv, GoalOK
    <3>7. QED BY <2>1, <3>1, <3>5, <3>6 DEF GoalChange, GoalIsCreated, goal
  <2>2. CASE goal.state \in {"human_required", "stopped", "completed"} /\ Move("candidate")
    BY <2>2, MovedRow, AllowedFact DEF GoalChange
  <2>3. QED BY <1>1, <1>6, <2>1, <2>2 DEF ProcessCandidate
<1>7. CASE RefuseAdmission \/ RefuseParkedRun
  <2>1. UNCHANGED goals \/ (goal.state = "candidate" /\ Move("human_required"))
    BY <1>7 DEF RefuseAdmission, RefuseParkedRun, Admissible
  <2>2. QED BY <1>1, <2>1, MovedRow, AllowedFact DEF GoalChange
<1>8. CASE ReuseOpenRun
  <2>1. /\ goal.state = "candidate" /\ run[ExistingRun].state \in Runnable \cup {"running"}
        /\ goals' = ActivateWithRun(goals, Goal, ExistingRun)
    BY <1>8 DEF ReuseOpenRun, Admissible
  <2>2. run[ExistingRun].state \notin Terminal
    BY <2>1 DEF Runnable, Terminal
  <2>3. ExistingRun = goal.revision
    BY <2>2 DEF ExistingRun, LoopInv, RunsOK
  <2>4. QED BY <2>1, <2>2, <2>3, LinkedRow DEF GoalChange
<1>9. CASE ActivateNewRun
  <2>1. goal.state = "candidate" /\ run[goal.revision].state = "queued"
    BY <1>9 DEF ActivateNewRun, At, LoopInv, WorkerOK, Linking
  <2>2. run[goal.revision].state \notin Terminal
    BY <2>1 DEF Terminal
  <2>3. QED BY <1>9, <2>1, <2>2, LinkedRow DEF ActivateNewRun, GoalChange
<1>10. CASE BumpForNewRun
  <2>1. goals' = [goals EXCEPT ![Goal].revision = goals[Goal].revision + 1]
    BY <1>10 DEF BumpForNewRun, BumpRevision
  <2>2. goals[Goal] \in GoalRow /\ goals[Goal].revision \in Nat
    BY GoalFact DEF goal
  <2>3. QED BY <2>1, <2>2, GoalAssumption DEF GoalChange, GoalIsKept, LoopInv, TypeOK, GoalRow
<1>11. CASE /\ ~UNCHANGED goals /\ Next
            /\ ~(ReduceOneTerminalRun \/ ReduceRunResult \/ CompleteGoal \/ RefuseAdmission
                 \/ RefuseParkedRun \/ ReuseOpenRun \/ ActivateNewRun \/ BumpForNewRun)
            /\ ~\E c \in Commands : ProcessCandidate(c)
  BY <1>11 DEF Next, Tick, EmitStandingIntents, Startup, AnnounceSuccessor, NothingPending, BindCommand,
               RefuseAtCap, CreateRun, AnswerCommand, NothingEligible, DispatchRun, FinishRun,
               AbandonAttempt, Crash, SubmitCommand, LeaseExpires
<1>12. QED BY <1>1, <1>3, <1>4, <1>5, <1>6, <1>7, <1>8, <1>9, <1>10, <1>11 DEF vars

-----------------------------------------------------------------------------
\* The theorems of the loop.

\* The loop keeps its types: whatever is reduced, revived and re-issued, every
\* new revision is paid for by a command or a death (goal_loop_worker.tick).
THEOREM LoopTypeCorrect == Spec => []TypeOK
<1>1. LoopInv => TypeOK
  BY DEF LoopInv
<1>2. QED BY <1>1, LoopInvIsInvariant, PTL

\* An active goal is linked to the existing run of its newest revision,
\* wherever the process died (GoalAdmissionBridge.admit, activate_with_run).
THEOREM ActiveIsBackedHolds == Spec => []ActiveIsBacked
<1>1. LoopInv => ActiveIsBacked
  <2> SUFFICES ASSUME LoopInv, goal.state = "active"
               PROVE  goal.run = goal.revision /\ run[goal.run].state # "absent"
    BY DEF ActiveIsBacked
  <2>1. goal.run = goal.revision /\ goal.revision > 0
    BY DEF LoopInv, RunsOK, GoalOK
  <2>2. goal.run # 0
    BY <2>1, GoalFact
  <2>3. QED BY <2>1, <2>2 DEF LoopInv, RunsOK
<1>2. QED BY <1>1, LoopInvIsInvariant, PTL

\* A goal whose runs all failed never gets beyond the cap (bump_revision).
THEOREM FailLoopIsCappedHolds == Spec => []FailLoopIsCapped
<1>1. LoopInv => FailLoopIsCapped
  BY DEF LoopInv
<1>2. QED BY <1>1, LoopInvIsInvariant, PTL

\* A settled run is never linked to a goal that becomes active (admit).
THEOREM FreshRunPerCycleHolds == Spec => FreshRunPerCycle
<1>1. LoopInv /\ [Next]_vars => [Activates => run[goals'[Goal].run].state \notin Terminal]_vars
  BY GoalChanges
     DEF Activates, GoalChange, GoalIsCreated, GoalIsMoved, GoalIsLinked, GoalIsKept, goal
<1>2. QED BY <1>1, LoopInvIsInvariant, PTL DEF Spec, FreshRunPerCycle

\* The loop never asks the store for a transition it would refuse: what it read
\* several transactions ago still holds (transition_goal, activate_with_run).
THEOREM MovesAreAllowedHolds == Spec => MovesAreAllowed
<1> DEFINE Allowed ==
             \A g \in Goals :
                /\ goals'[g].state # goals[g].state =>
                      goals'[g].state \in IF Exists(goals, g) THEN AllowedTransitions[goals[g].state]
                                          ELSE {"candidate"}
                /\ goals'[g].run # goals[g].run => goals[g].state = "candidate"
<1>1. LoopInv /\ [Next]_vars => Allowed
  <2> SUFFICES ASSUME LoopInv, [Next]_vars, NEW g \in Goals
               PROVE  /\ goals'[g].state # goals[g].state =>
                            goals'[g].state \in IF Exists(goals, g)
                                                THEN AllowedTransitions[goals[g].state]
                                                ELSE {"candidate"}
                      /\ goals'[g].run # goals[g].run => goals[g].state = "candidate"
    OBVIOUS
  <2>1. CASE g # Goal
    BY <2>1, GoalChanges
  <2>2. CASE g = Goal
    BY <2>2, GoalChanges, AllowedFact
       DEF Exists, GoalChange, GoalIsCreated, GoalIsMoved, GoalIsLinked, GoalIsKept
  <2>3. QED BY <2>1, <2>2
<1>2. LoopInv /\ [Next]_vars => [Allowed]_vars
  BY <1>1
<1>3. QED BY <1>2, LoopInvIsInvariant, PTL DEF Spec, MovesAreAllowed

\* A goal is completed only by a verified run whose successor is recorded
\* (_reduce_run_result).
THEOREM CompletionIsAnnouncedHolds == Spec => CompletionIsAnnounced
<1>1. LoopInv /\ [Next]_vars =>
        [Completes => run[worker.run].state = "verified" /\ worker.run \in announced]_vars
  <2> SUFFICES ASSUME LoopInv, [Next]_vars, Completes
               PROVE  run[worker.run].state = "verified" /\ worker.run \in announced
    OBVIOUS
  <2>1. At("completing")
    BY GoalChanges
       DEF Completes, GoalChange, GoalIsCreated, GoalIsMoved, GoalIsLinked, GoalIsKept, goal
  <2>2. QED BY <2>1 DEF LoopInv, WorkerOK, At
<1>2. QED BY <1>1, LoopInvIsInvariant, PTL DEF Spec, CompletionIsAnnounced

-----------------------------------------------------------------------------
\* The hierarchy: one level of a rollup, and a whole climb.

Tables == [Goals -> GoalRow]
Climbs == [goals: Tables, at: Goals \cup {NoGoal}]

\* A level changes at most the state of the goal it is at, and goes on to that
\* goal's parent only if it did.
LEMMA RollupStep ==
  ASSUME NEW c \in Climbs
  PROVE  /\ Rollup(c) \in Climbs
         /\ Rollup(c).at # NoGoal \/ Rollup(c).goals # c.goals =>
               /\ c.at \in Goals
               /\ Children(c.goals, c.at) # {}
               /\ c.goals[c.at].state \in {"active", "human_required"}
               /\ Rollup(c).at = c.goals[c.at].parent
               /\ Rollup(c).goals[c.at] =
                     [c.goals[c.at] EXCEPT !.state = RollupTarget(ChildStates(c.goals, c.at))]
         /\ \A x \in Goals : x # c.at => Rollup(c).goals[x] = c.goals[x]
<1> DEFINE target == RollupTarget(ChildStates(c.goals, c.at))
           stays == \/ c.at = NoGoal
                    \/ c.goals[c.at].state \notin {"active", "human_required"}
                    \/ Children(c.goals, c.at) = {}
                    \/ c.goals[c.at].state = target
<1>1. target \in GoalStates
  BY DEF RollupTarget, GoalStates
<1>2. Rollup(c) = IF stays THEN [c EXCEPT !.at = NoGoal]
                  ELSE [goals |-> SetState(c.goals, c.at, target), at |-> c.goals[c.at].parent]
  BY DEF Rollup
<1> HIDE DEF target
<1>3. CASE stays
  <2>1. Rollup(c) \in Climbs /\ Rollup(c).at = NoGoal /\ Rollup(c).goals = c.goals
    BY <1>2, <1>3 DEF Climbs
  <2>2. QED BY <2>1
<1>4. CASE ~stays
  <2> DEFINE row == [c.goals[c.at] EXCEPT !.state = target]
             G == SetState(c.goals, c.at, target)
  <2>1. c.at \in Goals /\ c.goals \in Tables /\ c.goals[c.at] \in GoalRow
    BY <1>4 DEF Climbs, Tables
  <2>2. row \in GoalRow
    BY <1>1, <2>1 DEF GoalRow
  <2>3. G = [c.goals EXCEPT ![c.at] = row]
    BY DEF SetState
  <2> HIDE DEF row
  <2>4. G \in Tables /\ G[c.at] = row /\ \A x \in Goals : x # c.at => G[x] = c.goals[x]
    BY <2>1, <2>2, <2>3 DEF Tables
  <2> HIDE DEF G
  <2>5. Rollup(c) = [goals |-> G, at |-> c.goals[c.at].parent]
    BY <1>2, <1>4 DEF G
  <2>6. c.goals[c.at].parent \in Goals \cup {NoGoal}
    BY <2>1 DEF GoalRow
  <2>7. QED BY <1>4, <2>1, <2>4, <2>5, <2>6 DEF Climbs, row, target
<1>5. QED BY <1>3, <1>4

\* What every level of a rollup keeps, the whole rollup keeps.
LEMMA RollupKeeps ==
  ASSUME NEW G, NEW p, NEW Good, [goals |-> G, at |-> p] \in Good,
         \A c \in Good : Rollup(c) \in Good
  PROVE  \E c \in Good : RecomputeRollup(G, p) = c.goals
<1>1. PICK f : /\ f[0] = [goals |-> G, at |-> p]
               /\ \A n \in 1..Height : f[n] = Rollup(f[n - 1])
               /\ RecomputeRollup(G, p) = f[Height].goals
  BY RollupClimbs
<1> DEFINE T == {n \in 0..Height : f[n] \in Good}
<1>2. 0 \in T
  BY <1>1, HeightFact
<1>3. ASSUME NEW n \in 1..Height, n - 1 \in T PROVE n \in T
  BY <1>1, <1>3
<1>4. \A n \in 0..Height : n \in T
  <2> HIDE DEF T
  <2> QED BY <1>2, <1>3, EveryLevel, HeightFact
<1>5. f[Height] \in Good
  BY <1>4, HeightFact
<1>6. QED BY <1>1, <1>5

\* A rollup keeps the types and stops nothing.
LEMMA RollupType ==
  ASSUME NEW G \in Tables, NEW p \in Goals \cup {NoGoal}
  PROVE  /\ RecomputeRollup(G, p) \in Tables
         /\ \A x \in Goals : RecomputeRollup(G, p)[x].state = "stopped" => G[x].state = "stopped"
<1> DEFINE Good == {c \in Climbs : \A x \in Goals :
                       c.goals[x].state = "stopped" => G[x].state = "stopped"}
<1>1. [goals |-> G, at |-> p] \in Good
  BY DEF Climbs
<1>2. ASSUME NEW c \in Good PROVE Rollup(c) \in Good
  <2>1. c \in Climbs /\ c.goals \in Tables
    BY DEF Climbs
  <2>2. ASSUME NEW x \in Goals, Rollup(c).goals[x].state = "stopped" PROVE G[x].state = "stopped"
    <3>1. CASE Rollup(c).goals[x] = c.goals[x]
      BY <2>2, <3>1
    <3>2. CASE Rollup(c).goals[x] # c.goals[x]
      <4> DEFINE target == RollupTarget(ChildStates(c.goals, c.at))
      <4>1. target # "stopped"
        BY DEF RollupTarget
      <4>2. x = c.at /\ Rollup(c).goals[c.at] = [c.goals[c.at] EXCEPT !.state = target]
        BY <2>1, <3>2, RollupStep
      <4> HIDE DEF target
      <4>3. c.goals[c.at] \in GoalRow
        BY <2>1, <4>2 DEF Tables
      <4>4. Rollup(c).goals[x].state = target
        BY <4>2, <4>3 DEF GoalRow
      <4>5. QED BY <2>2, <4>1, <4>4
    <3>3. QED BY <3>1, <3>2
  <2>3. QED BY <2>1, <2>2, RollupStep
<1>3. PICK c \in Good : RecomputeRollup(G, p) = c.goals
  <2> HIDE DEF Good
  <2> QED BY <1>1, <1>2, RollupKeeps
<1>4. QED BY <1>3 DEF Climbs

\* Broken dependents stay broken: while one of them waits for a human, the
\* parent that the climb is at has a child that does.
LEMMA BrokenStayBroken ==
  ASSUME NEW G \in Tables, NEW p \in Goals \cup {NoGoal}, NEW D \in SUBSET Goals,
         \A x \in D : G[x].parent = p /\ G[x].state \notin {"candidate", "active"}
  PROVE  \A x \in D : RecomputeRollup(G, p)[x].state \notin {"candidate", "active"}
<1> DEFINE Told(c) == \E x \in Goals : x \in Children(c.goals, c.at) /\ c.goals[x].state = "human_required"
           Good == {c \in Climbs :
                       /\ \A x \in D : c.goals[x].state \notin {"candidate", "active"}
                       /\ \/ c.at = NoGoal
                          \/ \A x \in D : c.goals[x].state # "human_required"
                          \/ Told(c)}
<1>1. [goals |-> G, at |-> p] \in Good
  BY DEF Climbs, Children, Exists
<1>2. ASSUME NEW c \in Good PROVE Rollup(c) \in Good
  <2> DEFINE d == Rollup(c)
             target == RollupTarget(ChildStates(c.goals, c.at))
  <2>1. c \in Climbs /\ d \in Climbs /\ c.goals \in Tables
    BY RollupStep DEF Climbs
  <2>2. CASE d.goals = c.goals /\ d.at = NoGoal
    BY <2>1, <2>2
  <2>3. CASE ~(d.goals = c.goals /\ d.at = NoGoal)
    <3>1. /\ c.at \in Goals /\ c.goals[c.at].state \in {"active", "human_required"}
          /\ d.at = c.goals[c.at].parent /\ d.goals[c.at] = [c.goals[c.at] EXCEPT !.state = target]
          /\ \A x \in Goals : x # c.at => d.goals[x] = c.goals[x]
      BY <2>1, <2>3, RollupStep
    <3>2. d.goals[c.at].state = target /\ d.goals[c.at].parent = c.goals[c.at].parent
      BY <2>1, <3>1 DEF Tables, GoalRow
    <3> HIDE DEF d
    <3>3. c.at # NoGoal
      BY <3>1, GoalsAssumption
    <3>4. CASE \A x \in D : c.goals[x].state # "human_required"
      <4>1. c.at \notin D
        BY <3>1, <3>4
      <4>2. \A x \in D : d.goals[x] = c.goals[x]
        BY <3>1, <4>1
      <4>3. QED BY <2>1, <3>4, <4>2 DEF d
    <3>5. CASE Told(c)
      <4>1. target = "human_required"
        BY <3>5 DEF RollupTarget, ChildStates
      <4>2. \A x \in D : d.goals[x].state \notin {"candidate", "active"}
        BY <3>1, <3>2, <4>1
      <4>3. Told(d)
        BY <3>1, <3>2, <4>1 DEF Children, Exists
      <4>4. QED BY <2>1, <4>2, <4>3 DEF d
    <3>6. QED BY <3>3, <3>4, <3>5
  <2>4. QED BY <2>2, <2>3
<1>3. PICK c \in Good : RecomputeRollup(G, p) = c.goals
  <2> HIDE DEF Good
  <2> QED BY <1>1, <1>2, RollupKeeps
<1>4. QED BY <1>3

-----------------------------------------------------------------------------
\* The theorems of the hierarchy.

\* The table after transition_goal's own writes, before the rollup.
Written(g, new) == LET S == SetState(table, g, new)
                   IN  IF new = "stopped" THEN BreakDependents(S, g) ELSE S

\* These writes change states only: of the goal, and of the siblings that
\* depend on a stopped one.
LEMMA WrittenFact ==
  ASSUME HierarchyTypeOK, NEW g \in Goals, NEW new \in GoalStates
  PROVE  /\ Written(g, new) \in Tables
         /\ Written(g, new)[g].state = new
         /\ \A x \in Goals : /\ Written(g, new)[x].parent = table[x].parent
                             /\ Written(g, new)[x].dependsOn = table[x].dependsOn
                             /\ x # g => Written(g, new)[x].state \in {table[x].state, "human_required"}
         /\ \A x \in Goals \ {g} :
               Written(g, new)[x] # table[x] =>
                  /\ table[x].parent = table[g].parent
                  /\ table[x].state \in {"candidate", "active"}
         /\ new = "stopped" =>
               \A x \in Goals \ {g} :
                  table[x].parent = table[g].parent /\ g \in table[x].dependsOn =>
                     Written(g, new)[x].state \notin {"candidate", "active"}
         /\ TransitionGoal(table, g, new) = RecomputeRollup(Written(g, new), table[g].parent)
<1> DEFINE row == [table[g] EXCEPT !.state = new]
           S == SetState(table, g, new)
           B == BreakDependents(S, g)
           R(x) == [table[x] EXCEPT !.state = "human_required"]
<1>1. table \in Tables /\ \A x \in Goals : table[x] \in GoalRow
  BY DEF HierarchyTypeOK, Tables
<1>2. /\ row \in GoalRow /\ row.state = new
      /\ row.parent = table[g].parent /\ row.dependsOn = table[g].dependsOn
  BY <1>1 DEF GoalRow
<1>3. S = [table EXCEPT ![g] = row]
  BY DEF SetState
<1> HIDE DEF row
<1>4. S \in Tables /\ S[g] = row /\ \A x \in Goals : x # g => S[x] = table[x]
  BY <1>1, <1>2, <1>3 DEF Tables
<1> HIDE DEF S
<1>5. \A x \in Goals : /\ R(x) \in GoalRow /\ R(x).state = "human_required"
                       /\ R(x).parent = table[x].parent /\ R(x).dependsOn = table[x].dependsOn
  BY <1>1 DEF GoalRow, GoalStates
<1>6. B = [x \in Goals |-> IF /\ x # g /\ table[x].parent = table[g].parent
                              /\ table[x].state \in {"candidate", "active"}
                              /\ g \in table[x].dependsOn
                           THEN R(x) ELSE S[x]]
  BY <1>2, <1>4 DEF BreakDependents
<1> HIDE DEF R
<1>7. B \in Tables /\ B[g] = row
  BY <1>4, <1>5, <1>6 DEF Tables
<1>8. \A x \in Goals \ {g} :
         B[x] = IF /\ table[x].parent = table[g].parent
                   /\ table[x].state \in {"candidate", "active"}
                   /\ g \in table[x].dependsOn
                THEN R(x) ELSE table[x]
  BY <1>4, <1>6
<1> HIDE DEF B
<1>9. Written(g, new) = IF new = "stopped" THEN B ELSE S
  BY DEF Written, S, B
<1>10. TransitionGoal(table, g, new) = RecomputeRollup(Written(g, new), S[g].parent)
  BY <1>9 DEF TransitionGoal, AfterGoalTransition, S, B
<1>11. CASE new = "stopped"
  <2>1. Written(g, new) = B
    BY <1>9, <1>11
  <2>2. QED BY <1>2, <1>4, <1>5, <1>7, <1>8, <1>10, <2>1, <1>11
<1>12. CASE new # "stopped"
  <2>1. Written(g, new) = S
    BY <1>9, <1>12
  <2>2. QED BY <1>2, <1>4, <1>10, <2>1, <1>12
<1>13. QED BY <1>11, <1>12

LEMMA HierarchyStep ==
  ASSUME HierarchyTypeOK, [HierarchyNext]_hierarchyVars
  PROVE  HierarchyTypeOK'
<1>1. CASE UNCHANGED hierarchyVars
  BY <1>1 DEF hierarchyVars, HierarchyTypeOK
<1>2. ASSUME NEW g \in Goals, Create(g) PROVE HierarchyTypeOK'
  <2>1. PICK parent \in Goals \cup {NoGoal}, dependsOn \in SUBSET Goals :
           table' = CreateCandidate(table, g, parent, dependsOn)
    BY <1>2 DEF Create
  <2> DEFINE row == [state |-> "candidate", revision |-> 1, run |-> 0,
                     parent |-> parent, dependsOn |-> dependsOn]
             stored == [table EXCEPT ![g] = row]
             refused == SetState(stored, g, "human_required")
  <2>2. row \in GoalRow
    BY DEF GoalRow, GoalStates
  <2>3. table' \in {stored, refused}
    BY <2>1 DEF CreateCandidate
  <2> HIDE DEF row
  <2>4. stored \in Tables
    BY <2>2 DEF HierarchyTypeOK, Tables
  <2> HIDE DEF stored
  <2>5. refused \in Tables
    <3>1. [stored[g] EXCEPT !.state = "human_required"] \in GoalRow
      BY <2>4 DEF Tables, GoalRow, GoalStates
    <3>2. QED BY <2>4, <3>1 DEF SetState, Tables
  <2>6. QED BY <1>2, <2>3, <2>4, <2>5 DEF HierarchyTypeOK, Create, Tables
<1>3. ASSUME NEW g \in Goals, Activate(g) PROVE HierarchyTypeOK'
  <2>1. table[g] \in GoalRow
    BY DEF HierarchyTypeOK
  <2>2. [table[g] EXCEPT !.state = "active", !.run = 0] \in GoalRow
    BY <2>1 DEF GoalRow, GoalStates
  <2>3. QED BY <1>3, <2>2 DEF HierarchyTypeOK, Activate, ActivateWithRun
<1>4. ASSUME NEW g \in Goals, Transition(g) PROVE HierarchyTypeOK'
  <2>1. PICK new \in GoalStates : table' = TransitionGoal(table, g, new)
    BY <1>4 DEF Transition, Targets
  <2>2. table[g].parent \in Goals \cup {NoGoal}
    BY DEF HierarchyTypeOK, GoalRow
  <2>3. table' \in Tables
    BY <2>1, <2>2, WrittenFact, RollupType
  <2>4. QED BY <1>4, <2>3 DEF HierarchyTypeOK, Transition, Tables
<1>5. QED BY <1>1, <1>2, <1>3, <1>4 DEF HierarchyNext

\* Goals under goals that do not exist, cycles of links, rollups: every row
\* stays a goal (create_candidate, transition_goal).
THEOREM HierarchyTypeCorrect == HierarchySpec => []HierarchyTypeOK
<1>1. HierarchyInit => HierarchyTypeOK
  BY DEF HierarchyInit, HierarchyTypeOK, AbsentGoal, GoalRow
<1>2. HierarchyTypeOK /\ [HierarchyNext]_hierarchyVars => HierarchyTypeOK'
  BY HierarchyStep
<1>3. QED BY <1>1, <1>2, PTL DEF HierarchySpec

\* Only transition_goal stops a goal.
LEMMA OnlyTransitionStops ==
  ASSUME HierarchyTypeOK, [HierarchyNext]_hierarchyVars, NEW g \in Goals, Became(g, "stopped")
  PROVE  table' = TransitionGoal(table, g, "stopped")
<1>1. \A x \in Goals : table[x] \in GoalRow
  BY DEF HierarchyTypeOK
<1>2. ASSUME NEW h \in Goals, Create(h) PROVE FALSE
  <2>1. PICK parent, dependsOn : table' = CreateCandidate(table, h, parent, dependsOn)
    BY <1>2 DEF Create
  <2> DEFINE row == [state |-> "candidate", revision |-> 1, run |-> 0,
                     parent |-> parent, dependsOn |-> dependsOn]
             stored == [table EXCEPT ![h] = row]
  <2>2. table' \in {stored, SetState(stored, h, "human_required")}
    BY <2>1 DEF CreateCandidate
  <2>3. row.state = "candidate"
    OBVIOUS
  <2>4. [row EXCEPT !.state = "human_required"].state = "human_required"
    OBVIOUS
  <2> HIDE DEF row
  <2>5. stored[g] = IF g = h THEN row ELSE table[g]
    BY DEF HierarchyTypeOK
  <2>6. SetState(stored, h, "human_required")[g]
          = IF g = h THEN [row EXCEPT !.state = "human_required"] ELSE table[g]
    BY DEF HierarchyTypeOK, SetState
  <2> HIDE DEF stored
  <2>7. QED BY <2>2, <2>3, <2>4, <2>5, <2>6 DEF Became
<1>3. ASSUME NEW h \in Goals, Activate(h) PROVE FALSE
  <2>1. [table[h] EXCEPT !.state = "active", !.run = 0].state = "active"
    BY <1>1 DEF GoalRow
  <2>2. QED BY <1>3, <2>1 DEF Activate, ActivateWithRun, Became, HierarchyTypeOK
<1>4. ASSUME NEW h \in Goals, Transition(h) PROVE table' = TransitionGoal(table, g, "stopped")
  <2>1. PICK new \in GoalStates : table' = TransitionGoal(table, h, new)
    BY <1>4 DEF Transition, Targets
  <2>2. Written(h, new)[g].state = "stopped"
    <3>1. table[h].parent \in Goals \cup {NoGoal}
      BY <1>1 DEF GoalRow
    <3>2. QED BY <2>1, <3>1, WrittenFact, RollupType DEF Became
  <2>3. g = h /\ new = "stopped"
    BY <2>2, WrittenFact DEF Became
  <2>4. QED BY <2>1, <2>3
<1>5. CASE UNCHANGED hierarchyVars
  BY <1>5 DEF hierarchyVars, Became
<1>6. QED BY <1>2, <1>3, <1>4, <1>5 DEF HierarchyNext

\* When a goal stops, no sibling that depends on it is left waiting for it,
\* whatever the rollup does to them afterwards ("only completed releases a
\* dependency").
THEOREM StoppedBreaksDependentsHolds == HierarchySpec => StoppedBreaksDependents
<1> DEFINE Broken ==
             \A g \in Goals : Became(g, "stopped") =>
                \A h \in Goals \ {g} :
                   table[h].parent = table[g].parent /\ g \in table[h].dependsOn =>
                      table'[h].state \notin {"candidate", "active"}
<1>1. HierarchyTypeOK /\ [HierarchyNext]_hierarchyVars => Broken
  <2> SUFFICES ASSUME HierarchyTypeOK, [HierarchyNext]_hierarchyVars,
                      NEW g \in Goals, Became(g, "stopped")
               PROVE  \A h \in Goals \ {g} :
                         table[h].parent = table[g].parent /\ g \in table[h].dependsOn =>
                            table'[h].state \notin {"candidate", "active"}
    OBVIOUS
  <2> DEFINE W == Written(g, "stopped")
             D == {h \in Goals \ {g} : table[h].parent = table[g].parent /\ g \in table[h].dependsOn}
  <2>1. "stopped" \in GoalStates
    BY DEF GoalStates
  <2>2. table' = RecomputeRollup(W, table[g].parent)
    BY <2>1, OnlyTransitionStops, WrittenFact
  <2>3. table[g].parent \in Goals \cup {NoGoal}
    BY DEF HierarchyTypeOK, GoalRow
  <2>4. W \in Tables /\ \A h \in D : W[h].parent = table[g].parent
                                     /\ W[h].state \notin {"candidate", "active"}
    BY <2>1, WrittenFact
  <2> HIDE DEF W
  <2>5. \A h \in D : table'[h].state \notin {"candidate", "active"}
    BY <2>2, <2>3, <2>4, BrokenStayBroken
  <2>6. QED BY <2>5
<1>2. HierarchyTypeOK /\ [HierarchyNext]_hierarchyVars => [Broken]_hierarchyVars
  BY <1>1
<1>3. QED BY <1>2, HierarchyTypeCorrect, PTL DEF HierarchySpec, StoppedBreaksDependents

-----------------------------------------------------------------------------
\* The chain of ancestors, one parent link after the other.

Walk(f, G, g, n) == f = [k \in 0..n |-> IF k = 0 THEN g ELSE ParentOf(G, f[k - 1])]

LEMMA WalkExists ==
  ASSUME NEW G, NEW g, NEW K \in Nat
  PROVE  \A n \in 0..K : \E f : Walk(f, G, g, n)
<1> DEFINE T == {n \in 0..K : \E f : Walk(f, G, g, n)}
<1>1. 0 \in T
  <2>1. Walk([m \in 0..0 |-> g], G, g, 0)
    BY DEF Walk
  <2>2. QED BY <2>1
<1>2. ASSUME NEW n \in 1..K, n - 1 \in T PROVE n \in T
  <2>1. PICK f : Walk(f, G, g, n - 1)
    BY <1>2
  <2> DEFINE h == [m \in 0..n |-> IF m = n THEN ParentOf(G, f[n - 1]) ELSE f[m]]
  <2>2. ASSUME NEW m \in 0..n
        PROVE  h[m] = IF m = 0 THEN g ELSE ParentOf(G, h[m - 1])
    <3>1. \A i \in 0..n - 1 : f[i] = IF i = 0 THEN g ELSE ParentOf(G, f[i - 1])
      BY <2>1 DEF Walk
    <3>2. \A i \in 0..n - 1 : h[i] = f[i]
      OBVIOUS
    <3>3. CASE m = n
      <4>1. h[m] = ParentOf(G, f[n - 1]) /\ m # 0 /\ h[n - 1] = f[n - 1]
        BY <3>2, <3>3
      <4>2. QED BY <3>3, <4>1
    <3>4. CASE m # n /\ m = 0
      BY <3>1, <3>2, <3>4
    <3>5. CASE m # n /\ m # 0
      <4>1. m \in 0..n - 1 /\ m - 1 \in 0..n - 1
        BY <3>5
      <4>2. h[m] = f[m] /\ h[m - 1] = f[m - 1] /\ f[m] = ParentOf(G, f[m - 1])
        BY <3>1, <3>2, <3>5, <4>1
      <4>3. QED BY <3>5, <4>2
    <3>6. QED BY <3>3, <3>4, <3>5
  <2>3. Walk(h, G, g, n)
    <3>1. h = [m \in 0..n |-> h[m]]
      OBVIOUS
    <3> HIDE DEF h
    <3>2. QED BY <2>2, <3>1 DEF Walk
  <2>4. QED BY <2>3
<1>3. \A n \in 0..K : n \in T
  <2> HIDE DEF T
  <2> QED BY <1>1, <1>2, EveryLevel
<1>4. QED BY <1>3

\* AncestorAt follows the links.
LEMMA AncestorSteps ==
  ASSUME NEW G, NEW g
  PROVE  /\ AncestorAt(G, g, 0) = g
         /\ \A n \in Nat : AncestorAt(G, g, n + 1) = ParentOf(G, AncestorAt(G, g, n))
<1>1. ASSUME NEW n \in Nat
      PROVE  \E f : Walk(f, G, g, n) /\ AncestorAt(G, g, n) = f[n]
  <2> DEFINE f == CHOOSE h : Walk(h, G, g, n)
  <2>1. Walk(f, G, g, n)
    <3>1. n \in 0..n
      OBVIOUS
    <3>2. \A k \in 0..n : \E h : Walk(h, G, g, k)
      BY WalkExists
    <3>3. \E h : Walk(h, G, g, n)
      BY <3>1, <3>2
    <3>4. QED BY <3>3
  <2>2. AncestorAt(G, g, n) = f[n]
    BY DEF AncestorAt, Walk
  <2> HIDE DEF f
  <2>3. QED BY <2>1, <2>2
<1>2. AncestorAt(G, g, 0) = g
  <2>1. PICK f : Walk(f, G, g, 0) /\ AncestorAt(G, g, 0) = f[0]
    BY <1>1
  <2>2. QED BY <2>1 DEF Walk
<1>3. ASSUME NEW n \in Nat
      PROVE  AncestorAt(G, g, n + 1) = ParentOf(G, AncestorAt(G, g, n))
  <2>1. PICK f : Walk(f, G, g, n) /\ AncestorAt(G, g, n) = f[n]
    BY <1>1
  <2>2. PICK h : Walk(h, G, g, n + 1) /\ AncestorAt(G, g, n + 1) = h[n + 1]
    BY <1>1
  <2>3. /\ \A k \in 0..n : f[k] = IF k = 0 THEN g ELSE ParentOf(G, f[k - 1])
        /\ \A k \in 0..n + 1 : h[k] = IF k = 0 THEN g ELSE ParentOf(G, h[k - 1])
    BY <2>1, <2>2 DEF Walk
  <2> DEFINE T == {k \in 0..n : f[k] = h[k]}
  <2>4. 0 \in T
    BY <2>3
  <2>5. ASSUME NEW k \in 1..n, k - 1 \in T PROVE k \in T
    <3>1. k \in 0..n /\ k \in 0..n + 1 /\ k # 0 /\ f[k - 1] = h[k - 1]
      BY <2>5
    <3>2. QED BY <2>3, <3>1
  <2>6. \A k \in 0..n : k \in T
    <3> HIDE DEF T
    <3> QED BY <2>4, <2>5, EveryLevel
  <2>7. f[n] = h[n]
    BY <2>6
  <2>8. h[n + 1] = ParentOf(G, h[n])
    <3>1. n + 1 \in 0..n + 1 /\ n + 1 # 0 /\ (n + 1) - 1 = n
      OBVIOUS
    <3>2. QED BY <2>3, <3>1
  <2>9. QED BY <2>1, <2>2, <2>7, <2>8
<1>4. QED BY <1>2, <1>3

\* The ancestors of the parent are those of the goal, one level up.
LEMMA ParentsAncestors ==
  ASSUME NEW G, NEW g
  PROVE  \A n \in Nat : AncestorAt(G, ParentOf(G, g), n) = AncestorAt(G, g, n + 1)
<1> SUFFICES ASSUME NEW n \in Nat
             PROVE  AncestorAt(G, ParentOf(G, g), n) = AncestorAt(G, g, n + 1)
  OBVIOUS
<1> DEFINE p == ParentOf(G, g)
           T == {k \in 0..n : AncestorAt(G, p, k) = AncestorAt(G, g, k + 1)}
<1>0. /\ AncestorAt(G, g, 0) = g /\ AncestorAt(G, p, 0) = p
      /\ \A k \in Nat : AncestorAt(G, g, k + 1) = ParentOf(G, AncestorAt(G, g, k))
      /\ \A k \in Nat : AncestorAt(G, p, k + 1) = ParentOf(G, AncestorAt(G, p, k))
  <2>1. /\ AncestorAt(G, g, 0) = g
        /\ \A k \in Nat : AncestorAt(G, g, k + 1) = ParentOf(G, AncestorAt(G, g, k))
    BY AncestorSteps
  <2> HIDE DEF p
  <2>2. /\ AncestorAt(G, p, 0) = p
        /\ \A k \in Nat : AncestorAt(G, p, k + 1) = ParentOf(G, AncestorAt(G, p, k))
    BY AncestorSteps
  <2>3. QED BY <2>1, <2>2
<1>1. 0 \in T
  <2>1. AncestorAt(G, g, 0 + 1) = ParentOf(G, AncestorAt(G, g, 0))
    BY <1>0
  <2>2. QED BY <1>0, <2>1
<1>2. ASSUME NEW k \in 1..n, k - 1 \in T PROVE k \in T
  <2>1. k - 1 \in Nat /\ k \in Nat /\ (k - 1) + 1 = k
    OBVIOUS
  <2>2. /\ AncestorAt(G, p, k) = ParentOf(G, AncestorAt(G, p, k - 1))
        /\ AncestorAt(G, g, k + 1) = ParentOf(G, AncestorAt(G, g, k))
    BY <1>0, <2>1
  <2>3. QED BY <1>2, <2>1, <2>2
<1>3. \A k \in 0..n : k \in T
  <2> HIDE DEF T
  <2> QED BY <1>1, <1>2, EveryLevel
<1>4. QED BY <1>3

\* Where the chain of ancestors ends it meets no goal twice.
LEMMA ChainIsSimple ==
  ASSUME NEW G \in Tables, NEW g \in Goals, NEW M \in Nat, AncestorAt(G, g, M) = NoGoal
  PROVE  /\ \A n \in Nat : AncestorAt(G, g, n) \in Goals \cup {NoGoal}
         /\ \A n \in Nat : AncestorAt(G, g, n) \in Goals =>
               AncestorAt(G, g, n + 1) = G[AncestorAt(G, g, n)].parent
         /\ \A i, j \in Nat : AncestorAt(G, g, i) = AncestorAt(G, g, j) =>
               i = j \/ AncestorAt(G, g, i) = NoGoal
         /\ \A i, j \in Nat : i <= j /\ AncestorAt(G, g, i) = NoGoal => AncestorAt(G, g, j) = NoGoal
<1> DEFINE A(n) == AncestorAt(G, g, n)
<1>1. A(0) = g /\ \A n \in Nat : A(n + 1) = ParentOf(G, A(n))
  BY AncestorSteps
<1> HIDE DEF A
<1>2. \A x \in Goals : ParentOf(G, x) = G[x].parent /\ G[x].parent \in Goals \cup {NoGoal}
  BY GoalsAssumption DEF ParentOf, Tables, GoalRow
<1>3. ParentOf(G, NoGoal) = NoGoal
  BY DEF ParentOf
<1>4. ASSUME NEW n \in Nat PROVE A(n) \in Goals \cup {NoGoal}
  <2> DEFINE T == {k \in 0..n : A(k) \in Goals \cup {NoGoal}}
  <2>1. 0 \in T
    BY <1>1
  <2>2. ASSUME NEW k \in 1..n, k - 1 \in T PROVE k \in T
    <3>1. k - 1 \in Nat /\ (k - 1) + 1 = k
      OBVIOUS
    <3>2. A(k) = ParentOf(G, A(k - 1))
      BY <1>1, <3>1
    <3>3. QED BY <1>2, <1>3, <2>2, <3>2
  <2>3. \A k \in 0..n : k \in T
    <3> HIDE DEF T
    <3> QED BY <2>1, <2>2, EveryLevel
  <2>4. QED BY <2>3
\* Two equal ancestors have equal ancestors.
<1>5. ASSUME NEW i \in Nat, NEW j \in Nat, A(i) = A(j), NEW m \in Nat PROVE A(i + m) = A(j + m)
  <2> DEFINE T == {k \in 0..m : A(i + k) = A(j + k)}
  <2>1. 0 \in T
    BY <1>5
  <2>2. ASSUME NEW k \in 1..m, k - 1 \in T PROVE k \in T
    <3>1. /\ i + (k - 1) \in Nat /\ (i + (k - 1)) + 1 = i + k
          /\ j + (k - 1) \in Nat /\ (j + (k - 1)) + 1 = j + k
      OBVIOUS
    <3>2. A(i + k) = ParentOf(G, A(i + (k - 1))) /\ A(j + k) = ParentOf(G, A(j + (k - 1)))
      BY <1>1, <3>1
    <3>3. QED BY <2>2, <3>2
  <2>3. \A k \in 0..m : k \in T
    <3> HIDE DEF T
    <3> QED BY <2>1, <2>2, EveryLevel
  <2>4. QED BY <2>3
<1>6. PICK N \in {n \in Nat : A(n) = NoGoal} : \A n \in {k \in Nat : A(k) = NoGoal} : N <= n
  <2>1. {n \in Nat : A(n) = NoGoal} # {}
    BY DEF A
  <2>2. QED BY <2>1, Smallest
\* Once over, the chain stays over.
<1>7. ASSUME NEW n \in Nat, n >= N PROVE A(n) = NoGoal
  <2> DEFINE m == n - N
             T == {k \in 0..m : A(N + k) = NoGoal}
  <2>1. m \in Nat /\ N \in Nat /\ N + m = n
    BY <1>6, <1>7
  <2>2. 0 \in T
    BY <1>6, <2>1
  <2>3. ASSUME NEW k \in 1..m, k - 1 \in T PROVE k \in T
    <3>1. N + (k - 1) \in Nat /\ (N + (k - 1)) + 1 = N + k
      BY <2>1
    <3>2. A(N + k) = ParentOf(G, A(N + (k - 1)))
      BY <1>1, <3>1
    <3>3. QED BY <1>3, <2>3, <3>2
  <2>4. \A k \in 0..m : k \in T
    <3> HIDE DEF T, m
    <3> QED BY <2>1, <2>2, <2>3, EveryLevel
  <2>5. QED BY <2>1, <2>4
<1>8. ASSUME NEW i \in Nat, NEW j \in Nat, A(i) = A(j), A(i) # NoGoal, i < j PROVE FALSE
  <2>1. N \in Nat /\ j < N
    BY <1>6, <1>7, <1>8
  <2>2. N - j \in Nat /\ i + (N - j) \in Nat /\ i + (N - j) < N /\ j + (N - j) = N
    BY <1>8, <2>1
  <2>3. A(i + (N - j)) = A(j + (N - j))
    BY <1>5, <1>8, <2>2
  <2>4. QED BY <1>6, <2>1, <2>2, <2>3
<1>9. ASSUME NEW i \in Nat, NEW j \in Nat, A(i) = A(j), A(i) # NoGoal PROVE i = j
  <2>1. ~(i < j) /\ ~(j < i)
    BY <1>8, <1>9
  <2>2. QED BY <2>1
<1>10. ASSUME NEW i \in Nat, NEW j \in Nat, i <= j, A(i) = NoGoal PROVE A(j) = NoGoal
  <2>1. N \in Nat /\ N <= i
    BY <1>6, <1>10
  <2>2. QED BY <1>7, <1>10, <2>1
<1>11. QED BY <1>1, <1>2, <1>4, <1>9, <1>10 DEF A

\* The level that is at an admitted goal leaves it in agreement with its children.
LEMMA LevelRollsUp ==
  ASSUME NEW c \in Climbs, c.at \in Goals, c.goals[c.at].state \in {"active", "human_required"},
         c.goals[c.at].parent # c.at
  PROVE  RolledUp(Rollup(c).goals, c.at)
<1> DEFINE p == c.at
           d == Rollup(c)
           target == RollupTarget(ChildStates(c.goals, p))
<1>1. c.goals \in Tables /\ d \in Climbs /\ d.goals \in Tables
  BY RollupStep DEF Climbs
<1>2. CASE d.goals = c.goals /\ d.at = NoGoal
  <2>1. p # NoGoal
    BY GoalsAssumption
  <2>2. Children(c.goals, p) # {} => c.goals[p].state = target
    <3> SUFFICES ASSUME Children(c.goals, p) # {}, c.goals[p].state # target PROVE FALSE
      OBVIOUS
    <3>1. d = [goals |-> SetState(c.goals, p, target), at |-> c.goals[p].parent]
      BY <2>1 DEF Rollup
    <3>2. SetState(c.goals, p, target) = c.goals
      BY <1>2, <3>1
    <3>3. SetState(c.goals, p, target)[p].state = target
      BY <1>1 DEF SetState, Tables, GoalRow
    <3>4. QED BY <3>2, <3>3
  <2>3. QED BY <1>2, <2>2 DEF RolledUp
<1>3. CASE ~(d.goals = c.goals /\ d.at = NoGoal)
  <2>1. d.goals[p] = [c.goals[p] EXCEPT !.state = target] /\ Children(c.goals, p) # {}
        /\ \A x \in Goals : x # p => d.goals[x] = c.goals[x]
    BY <1>3, RollupStep
  <2>2. d.goals[p].state = target /\ d.goals[p].parent = c.goals[p].parent
    BY <1>1, <2>1 DEF Tables, GoalRow
  <2> HIDE DEF d
  <2>3. Children(d.goals, p) = Children(c.goals, p)
    BY <2>1, <2>2 DEF Children, Exists
  <2>4. p \notin Children(c.goals, p)
    BY DEF Children
  <2>5. ChildStates(d.goals, p) = ChildStates(c.goals, p)
    BY <2>1, <2>3, <2>4 DEF ChildStates, Children
  <2>6. RolledUp(d.goals, p)
    BY <2>2, <2>5 DEF RolledUp
  <2>7. QED BY <2>6 DEF d
<1>4. QED BY <1>2, <1>3

\* Tables that agree on a goal and its children agree on its rollup.
LEMMA SameRollup ==
  ASSUME NEW G, NEW H, NEW p, RolledUp(G, p), Children(G, p) = Children(H, p),
         G[p].state = H[p].state, \A x \in Children(H, p) : G[x].state = H[x].state
  PROVE  RolledUp(H, p)
<1>1. ChildStates(G, p) = ChildStates(H, p)
  BY DEF ChildStates
<1>2. QED BY <1>1 DEF RolledUp

\* What transition_goal does to an admitted ancestor of the goal it moves: if
\* the climb comes to the ancestor, that level settles it and the levels above
\* change neither it nor its children; if the climb ends before, no child of it
\* was changed.
LEMMA AncestorRollsUp ==
  ASSUME HierarchyTypeOK, NEW g \in Goals, NEW new \in GoalStates, Exists(table, g),
         NEW M \in Nat, AncestorAt(table, g, M) = NoGoal,
         NEW k \in 0..Cardinality(Goals), NEW p \in Goals, p = AncestorAt(table, g, k + 1),
         Admitted(table, p), RolledUp(table, p)
  PROVE  RolledUp(TransitionGoal(table, g, new), p)
<1> DEFINE A(n) == AncestorAt(table, g, n)
           W == Written(g, new)
           Same(G) == \A x \in Goals : G[x].parent = table[x].parent
                                       /\ (Exists(G, x) <=> Exists(table, x))
<1>1. table \in Tables
  BY DEF HierarchyTypeOK, Tables
<1>2. /\ A(0) = g
      /\ \A n \in Nat : A(n) \in Goals \cup {NoGoal}
      /\ \A n \in Nat : A(n) \in Goals => A(n + 1) = table[A(n)].parent
      /\ \A i, j \in Nat : A(i) = A(j) => i = j \/ A(i) = NoGoal
      /\ \A i, j \in Nat : i <= j /\ A(i) = NoGoal => A(j) = NoGoal
  BY <1>1, ChainIsSimple, AncestorSteps
<1>3. k \in Nat /\ k + 1 \in Nat /\ k + 1 \in 1..Height /\ p = A(k + 1) /\ p # NoGoal
  <2>1. Cardinality(Goals) # 0
    BY GoalsAssumption, FS_EmptySet
  <2>2. Height = 2 * Cardinality(Goals)
    BY DEF Height
  <2>3. QED BY <2>1, <2>2, HeightFact, GoalsAssumption
<1>4. A(1) = table[g].parent
  <2>1. A(0 + 1) = table[A(0)].parent
    BY <1>2
  <2>2. QED BY <1>2, <2>1
<1>5. W \in Tables /\ TransitionGoal(table, g, new) = RecomputeRollup(W, A(1)) /\ Same(W)
  <2>1. /\ W \in Tables /\ TransitionGoal(table, g, new) = RecomputeRollup(W, A(1))
        /\ W[g].state = new
        /\ \A x \in Goals : /\ W[x].parent = table[x].parent
                            /\ x # g => W[x].state \in {table[x].state, "human_required"}
        /\ \A x \in Goals \ {g} : W[x] # table[x] => table[x].state \in {"candidate", "active"}
    BY <1>4, WrittenFact
  <2> HIDE DEF W
  <2>2. new # "absent"
    BY DEF GoalStates
  <2>3. \A x \in Goals : Exists(W, x) <=> Exists(table, x)
    BY <2>1, <2>2 DEF Exists
  <2>4. QED BY <2>1, <2>3
<1>6. \A x \in Goals \ {g} : W[x] # table[x] => table[x].parent = A(1)
  BY <1>4, WrittenFact
<1> HIDE DEF A, W
<1>7. PICK f : /\ f[0] = [goals |-> W, at |-> A(1)]
               /\ \A n \in 1..Height : f[n] = Rollup(f[n - 1])
               /\ RecomputeRollup(W, A(1)) = f[Height].goals
  BY RollupClimbs
\* The climb follows the chain and leaves the links.
<1>8. \A n \in 0..Height : f[n] \in Climbs /\ Same(f[n].goals) /\ f[n].at \in {NoGoal, A(n + 1)}
  <2> DEFINE T == {n \in 0..Height :
                      f[n] \in Climbs /\ Same(f[n].goals) /\ f[n].at \in {NoGoal, A(n + 1)}}
  <2>1. 0 \in T
    <3>1. A(1) \in Goals \cup {NoGoal} /\ 0 + 1 = 1
      BY <1>2
    <3>2. QED BY <1>5, <1>7, <3>1, HeightFact DEF Climbs
  <2>2. ASSUME NEW n \in 1..Height, n - 1 \in T PROVE n \in T
    <3> DEFINE c == f[n - 1]
               d == Rollup(c)
    <3>1. c \in Climbs /\ Same(c.goals) /\ c.at \in {NoGoal, A(n)} /\ f[n] = d
      <4>1. (n - 1) + 1 = n
        BY HeightFact
      <4>2. c \in Climbs /\ Same(c.goals) /\ c.at \in {NoGoal, A((n - 1) + 1)}
        BY <2>2
      <4>3. f[n] = d
        BY <1>7
      <4>4. QED BY <4>1, <4>2, <4>3
    <3> HIDE DEF c
    <3>2. d \in Climbs
      BY <3>1, RollupStep
    <3>3. CASE d.goals = c.goals /\ d.at = NoGoal
      BY <3>1, <3>2, <3>3, HeightFact
    <3>4. CASE ~(d.goals = c.goals /\ d.at = NoGoal)
      <4> DEFINE target == RollupTarget(ChildStates(c.goals, c.at))
      <4>1. /\ c.at \in Goals /\ c.goals[c.at].state \in {"active", "human_required"}
            /\ d.at = c.goals[c.at].parent
            /\ d.goals[c.at] = [c.goals[c.at] EXCEPT !.state = target]
            /\ \A x \in Goals : x # c.at => d.goals[x] = c.goals[x]
        BY <3>1, <3>4, RollupStep
      <4>2. c.goals[c.at] \in GoalRow
        BY <3>1, <4>1 DEF Climbs, Tables
      <4>3. target # "absent"
        BY DEF RollupTarget
      <4> HIDE DEF target, d
      <4>4. d.goals[c.at].parent = c.goals[c.at].parent /\ d.goals[c.at].state = target
        BY <4>1, <4>2 DEF GoalRow
      <4>5. Same(d.goals)
        <5> SUFFICES ASSUME NEW x \in Goals
                     PROVE  d.goals[x].parent = table[x].parent /\ (Exists(d.goals, x) <=> Exists(table, x))
          OBVIOUS
        <5>1. c.goals[x].parent = table[x].parent /\ (Exists(c.goals, x) <=> Exists(table, x))
          BY <3>1
        <5>2. CASE x = c.at
          <6>1. Exists(c.goals, x) /\ Exists(d.goals, x)
            BY <4>1, <4>3, <4>4, <5>2 DEF Exists
          <6>2. QED BY <4>4, <5>1, <5>2, <6>1
        <5>3. CASE x # c.at
          <6>1. d.goals[x] = c.goals[x]
            BY <4>1, <5>3
          <6>2. QED BY <5>1, <6>1 DEF Exists
        <5>4. QED BY <5>2, <5>3
      <4>6. c.at = A(n) /\ n \in Nat
        BY <3>1, <4>1, GoalsAssumption, HeightFact
      <4>7. d.at = A(n + 1)
        BY <1>2, <3>1, <4>1, <4>6
      <4>8. QED BY <3>1, <3>2, <4>5, <4>7, HeightFact DEF d
    <3>5. QED BY <3>3, <3>4
  <2>3. \A n \in 0..Height : n \in T
    <3> HIDE DEF T
    <3> QED BY <2>1, <2>2, EveryLevel, HeightFact
  <2>4. QED BY <2>3
<1>9. ASSUME NEW n \in 1..Height
      PROVE  /\ f[n - 1] \in Climbs /\ f[n] = Rollup(f[n - 1]) /\ n \in Nat /\ n - 1 \in 0..Height
             /\ f[n - 1].at \in {NoGoal, A(n)}
             /\ \A x \in Goals : x # A(n) => f[n].goals[x] = f[n - 1].goals[x]
             /\ f[n - 1].at = NoGoal => f[n].at = NoGoal /\ f[n].goals = f[n - 1].goals
  <2> DEFINE c == f[n - 1]
             d == f[n]
  <2>1. n \in Nat /\ n - 1 \in 0..Height /\ (n - 1) + 1 = n
    BY HeightFact
  <2>2. c \in Climbs /\ c.at \in {NoGoal, A(n)} /\ d = Rollup(c)
    BY <1>7, <1>8, <2>1
  <2>3. /\ \A x \in Goals : x # c.at => d.goals[x] = c.goals[x]
        /\ c.at \notin Goals => d.at = NoGoal /\ d.goals = c.goals
    <3> HIDE DEF c, d
    <3>1. QED BY <2>2, RollupStep
  <2>4. \A x \in Goals : x # A(n) => d.goals[x] = c.goals[x]
    BY <2>2, <2>3, GoalsAssumption
  <2>5. c.at = NoGoal => d.at = NoGoal /\ d.goals = c.goals
    BY <2>3, GoalsAssumption
  <2>6. QED BY <2>1, <2>2, <2>4, <2>5
\* From level m to level n only the goals of the chain in between change.
<1>10. ASSUME NEW m \in 0..Height, NEW n \in m..Height, NEW x \in Goals,
              \A i \in m + 1..n : x # A(i)
       PROVE  f[n].goals[x] = f[m].goals[x]
  <2> DEFINE K == n - m
             T == {j \in 0..K : f[m + j].goals[x] = f[m].goals[x]}
  <2>1. K \in Nat /\ m \in Nat /\ m + K = n /\ n <= Height
    BY HeightFact
  <2>2. 0 \in T
    BY <2>1
  <2>3. ASSUME NEW j \in 1..K, j - 1 \in T PROVE j \in T
    <3>1. m + j \in m + 1..n /\ m + j \in 1..Height /\ (m + j) - 1 = m + (j - 1)
      BY <2>1, HeightFact
    <3>2. f[m + j].goals[x] = f[m + (j - 1)].goals[x]
      BY <1>9, <1>10, <3>1
    <3>3. QED BY <2>3, <3>2
  <2>4. \A j \in 0..K : j \in T
    <3> HIDE DEF T, K
    <3> QED BY <2>1, <2>2, <2>3, EveryLevel
  <2>5. QED BY <2>1, <2>4
\* Once over, the climb changes nothing.
<1>11. ASSUME NEW m \in 0..Height, f[m].at = NoGoal
       PROVE  f[Height].goals = f[m].goals
  <2> DEFINE K == Height - m
             T == {j \in 0..K : f[m + j].at = NoGoal /\ f[m + j].goals = f[m].goals}
  <2>1. K \in Nat /\ m \in Nat /\ m + K = Height
    BY HeightFact
  <2>2. 0 \in T
    BY <1>11, <2>1
  <2>3. ASSUME NEW j \in 1..K, j - 1 \in T PROVE j \in T
    <3>1. m + j \in 1..Height /\ (m + j) - 1 = m + (j - 1)
      BY <2>1, HeightFact
    <3>2. f[m + (j - 1)].at = NoGoal /\ f[m + (j - 1)].goals = f[m].goals
      BY <2>3
    <3>3. f[m + j].at = NoGoal /\ f[m + j].goals = f[m + (j - 1)].goals
      BY <1>9, <3>1, <3>2
    <3>4. QED BY <3>2, <3>3
  <2>4. \A j \in 0..K : j \in T
    <3> HIDE DEF T, K
    <3> QED BY <2>1, <2>2, <2>3, EveryLevel
  <2>5. QED BY <2>1, <2>4
\* The chain passes through the children of p only right below it.
<1>12. ASSUME NEW x \in Goals, x = p \/ table[x].parent = p, NEW i \in Nat, x = A(i)
       PROVE  i \in {k, k + 1} /\ (i = k => x # p) /\ (i = k + 1 => x = p)
  <2>1. x # NoGoal /\ k + 1 # k
    BY <1>3, GoalsAssumption
  <2>2. CASE x = p
    <3>1. i = k + 1
      BY <1>2, <1>3, <1>12, <2>1, <2>2
    <3>2. QED BY <1>3, <2>2, <3>1
  <2>3. CASE x # p
    <3>1. A(i + 1) = A(k + 1)
      BY <1>2, <1>3, <1>12, <2>3
    <3>2. i + 1 = k + 1
      BY <1>2, <1>3, <3>1
    <3>3. i = k
      BY <1>3, <3>2
    <3>4. QED BY <1>3, <2>3, <3>3
  <2>4. QED BY <2>2, <2>3
<1>13. W[p] = table[p]
  <2>1. p # g
    BY <1>2, <1>3
  <2>2. A(k + 2) = table[p].parent
    <3>1. (k + 1) + 1 = k + 2
      BY <1>3
    <3>2. QED BY <1>2, <1>3, <3>1
  <2>3. A(1) # A(k + 2)
    <3> SUFFICES ASSUME A(1) = A(k + 2) PROVE FALSE
      OBVIOUS
    <3>1. 1 \in Nat /\ k + 2 \in Nat /\ 1 # k + 2 /\ 1 <= k + 1
      BY <1>3
    <3>2. A(1) = NoGoal
      BY <1>2, <3>1
    <3>3. A(k + 1) = NoGoal
      BY <1>2, <1>3, <3>1, <3>2
    <3>4. QED BY <1>3, <3>3
  <2>4. QED BY <1>6, <2>1, <2>2, <2>3
<1>14. k # 0 => \A x \in Goals : table[x].parent = p => W[x] = table[x]
  <2> SUFFICES ASSUME k # 0, NEW x \in Goals, table[x].parent = p PROVE W[x] = table[x]
    OBVIOUS
  <2>1. x # g
    BY <1>2, <1>3, <1>12
  <2>2. p # A(1)
    BY <1>2, <1>3
  <2>3. QED BY <1>6, <2>1, <2>2
<1>15. ASSUME NEW n \in 0..Height
       PROVE  Children(f[n].goals, p) = Children(table, p)
  BY <1>8 DEF Children
<1>16. Height \in 0..Height /\ k \in 0..Height /\ k + 1 \in 0..Height
  BY <1>3, HeightFact
<1>17. CASE f[k].at = p
  <2> DEFINE c == f[k]
  <2>1. c \in Climbs /\ Same(c.goals)
    BY <1>8, <1>16
  <2>2. f[k + 1] = Rollup(c)
    <3>1. (k + 1) - 1 = k
      BY <1>3
    <3>2. QED BY <1>3, <1>9, <3>1
  <2>3. c.goals[p] = table[p]
    <3>1. \A i \in 0 + 1..k : p # A(i)
      BY <1>3, <1>12
    <3>2. k \in 0..Height /\ 0 \in 0..Height
      BY <1>16, HeightFact
    <3>3. f[k].goals[p] = f[0].goals[p]
      BY <1>10, <3>1, <3>2
    <3>4. QED BY <1>7, <1>13, <3>3
  <2>4. table[p].parent # p
    <3> SUFFICES ASSUME table[p].parent = p PROVE FALSE
      OBVIOUS
    <3>1. A((k + 1) + 1) = A(k + 1)
      BY <1>2, <1>3
    <3>2. (k + 1) + 1 \in Nat /\ (k + 1) + 1 # k + 1
      BY <1>3
    <3>3. QED BY <1>2, <1>3, <3>1, <3>2
  <2>5. RolledUp(f[k + 1].goals, p)
    BY <1>17, <2>1, <2>2, <2>3, <2>4, LevelRollsUp DEF Admitted
  <2>6. ASSUME NEW x \in Goals, x = p \/ table[x].parent = p
        PROVE  f[Height].goals[x] = f[k + 1].goals[x]
    <3>1. \A i \in (k + 1) + 1..Height : x # A(i)
      BY <1>3, <1>12, <2>6, HeightFact
    <3>2. Height \in k + 1..Height
      BY <1>16, HeightFact
    <3>3. QED BY <1>10, <1>16, <3>1, <3>2
  <2>7. RolledUp(f[Height].goals, p)
    <3>1. Children(f[k + 1].goals, p) = Children(f[Height].goals, p)
      BY <1>15, <1>16
    <3>2. \A x \in Children(f[Height].goals, p) : x \in Goals /\ table[x].parent = p
      BY <1>15, <1>16 DEF Children
    <3>3. QED BY <2>5, <2>6, <3>1, <3>2, SameRollup
  <2>8. QED BY <1>5, <1>7, <2>7
<1>18. CASE f[k].at # p
  <2>1. f[k].at = NoGoal
    BY <1>3, <1>8, <1>16, <1>18
  <2>2. k # 0 /\ k \in 1..Height /\ k - 1 \in 0..Height
    <3>1. k # 0
      BY <1>3, <1>7, <1>18
    <3>2. QED BY <1>3, <1>16, <3>1, HeightFact
  <2>3. f[k].goals = f[k - 1].goals
    <3> SUFFICES ASSUME f[k].goals # f[k - 1].goals PROVE FALSE
      OBVIOUS
    <3>1. /\ f[k - 1].at \in Goals /\ f[k].at = f[k - 1].goals[f[k - 1].at].parent
      BY <1>9, <2>2, RollupStep
    <3>2. f[k - 1].at = A(k)
      BY <1>9, <2>2, <3>1, GoalsAssumption
    <3>3. f[k].at = table[A(k)].parent
      BY <1>8, <2>2, <3>1, <3>2
    <3>4. QED BY <1>2, <1>3, <1>18, <3>1, <3>2, <3>3
  <2>4. ASSUME NEW x \in Goals, x = p \/ table[x].parent = p
        PROVE  f[Height].goals[x] = table[x]
    <3>1. \A i \in 0 + 1..k - 1 : x # A(i)
      BY <1>3, <1>12, <2>4
    <3>2. 0 \in 0..Height /\ k - 1 \in 0..Height
      BY <2>2, HeightFact
    <3>3. f[k - 1].goals[x] = f[0].goals[x]
      BY <1>10, <3>1, <3>2
    <3>4. f[0].goals[x] = table[x]
      BY <1>7, <1>13, <1>14, <2>2, <2>4
    <3>5. QED BY <1>11, <1>16, <2>1, <2>3, <3>3, <3>4
  <2>5. RolledUp(f[Height].goals, p)
    <3>1. \A x \in Children(f[Height].goals, p) : x \in Goals /\ table[x].parent = p
      BY <1>15, <1>16 DEF Children
    <3>2. QED BY <1>15, <1>16, <2>4, <3>1, SameRollup
  <2>6. QED BY <1>5, <1>7, <2>5
<1>19. QED BY <1>17, <1>18

\* The rollup climbs until nothing changes: an admitted ancestor of the goal
\* that moved agrees with its children after the step if it did before it
\* (_recompute_rollup, transition_goal).
THEOREM RollupReachesTheTopHolds == HierarchySpec => RollupReachesTheTop
<1> DEFINE Reaches ==
             subject' # NoGoal /\ NoGoal \in AncestorsOf(table, subject') =>
                \A p \in AncestorsOf(table, table[subject'].parent) \ {NoGoal, subject'} :
                   Admitted(table, p) /\ RolledUp(table, p) => RolledUp(table', p)
<1>1. HierarchyTypeOK /\ [HierarchyNext]_hierarchyVars => [Reaches]_hierarchyVars
  <2> SUFFICES ASSUME HierarchyTypeOK, HierarchyNext,
                      subject' # NoGoal, NoGoal \in AncestorsOf(table, subject'),
                      NEW p \in AncestorsOf(table, table[subject'].parent) \ {NoGoal, subject'},
                      Admitted(table, p), RolledUp(table, p)
               PROVE  RolledUp(table', p)
    OBVIOUS
  <2>1. PICK g \in Goals : Transition(g)
    BY DEF HierarchyNext, Create, Activate
  <2>2. subject' = g
    BY <2>1 DEF Transition
  <2>3. PICK new \in GoalStates : CanTransition(table, g, new) /\ table' = TransitionGoal(table, g, new)
    BY <2>1 DEF Transition, Targets
  <2>4. table \in Tables /\ ParentOf(table, g) = table[g].parent
    BY GoalsAssumption DEF HierarchyTypeOK, Tables, ParentOf
  <2>5. PICK M \in Nat : AncestorAt(table, g, M) = NoGoal
    BY <2>2, HeightFact DEF AncestorsOf
  <2>6. PICK k \in 0..Cardinality(Goals) : p = AncestorAt(table, table[g].parent, k)
    BY <2>2 DEF AncestorsOf
  <2>7. p = AncestorAt(table, g, k + 1)
    BY <2>4, <2>6, ParentsAncestors, HeightFact
  <2>8. p \in Goals
    BY <2>4, <2>5, <2>7, ChainIsSimple, HeightFact
  <2>9. QED BY <2>3, <2>5, <2>7, <2>8, AncestorRollsUp DEF CanTransition
<1>2. QED BY <1>1, HierarchyTypeCorrect, PTL DEF HierarchySpec, RollupReachesTheTop

\* create_candidate's validation returns for every parent whose chain of
\* ancestors ends: such a chain is no longer than there are goals, so the walk
\* meets its end (_validate_hierarchy).  EveryCreationReturns fails only on cycles.
THEOREM ValidationReturns ==
  ASSUME NEW G \in Tables, NEW g \in Goals, NEW p \in Goals,
         NEW M \in Nat, AncestorAt(G, p, M) = NoGoal
  PROVE  WalkEnds(G, g, p)
<1> DEFINE A(n) == AncestorAt(G, p, n)
           K == Cardinality(Goals)
           f == [n \in 0..K |-> A(n)]
<1>1. /\ \A n \in Nat : A(n) \in Goals \cup {NoGoal}
      /\ \A i, j \in Nat : A(i) = A(j) => i = j \/ A(i) = NoGoal
  BY ChainIsSimple
<1> HIDE DEF A
<1>2. K \in Nat /\ IsFiniteSet(Goals) /\ IsFiniteSet(0..K) /\ Cardinality(0..K) = K + 1
  BY HeightFact, GoalsAssumption, FS_Interval
<1>3. \E n \in 0..K : A(n) = NoGoal
  <2> SUFFICES ASSUME \A n \in 0..K : A(n) # NoGoal PROVE FALSE
    OBVIOUS
  <2>1. f \in [0..K -> Goals]
    BY <1>1, <1>2
  <2> HIDE DEF K
  <2>2. K < K + 1
    BY <1>2
  <2>3. PICK i \in 0..K, j \in 0..K : i # j /\ f[i] = f[j]
    <3> HIDE DEF f
    <3>1. Cardinality(Goals) < Cardinality(0..K)
      BY <1>2, <2>2 DEF K
    <3>2. QED BY <1>2, <2>1, <3>1, FS_PigeonHole
  <2>4. A(i) = A(j) /\ i \in Nat /\ j \in Nat /\ A(i) # NoGoal
    BY <1>2, <2>3
  <2>5. QED BY <1>1, <2>3, <2>4
<1>4. NoGoal \in AncestorsOf(G, p)
  BY <1>3 DEF AncestorsOf, A, K
<1>5. QED BY <1>4 DEF WalkEnds
=============================================================================
