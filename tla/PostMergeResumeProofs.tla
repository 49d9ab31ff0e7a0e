----------------------- MODULE PostMergeResumeProofs -----------------------
(***************************************************************************)
(* PostMergeResume keeps its safety properties for any number of           *)
(* schedulers, any number of polls and any number of faults.               *)
(***************************************************************************)
EXTENDS PostMergeResume, TLAPS

-----------------------------------------------------------------------------
\* The inductive invariant.

Progress == [at: Steps, alias: Aliases, ci: {"pending", "green", "red"}, lease: 0..granted,
             result: {None, "resumed", "duplicate", "waiting", "rejected", "completed"},
             counted: BOOLEAN]

Watch == [status: {"absent", "pending", "completed", "rejected", "expired"},
          polls: 0..MaxPolls, due: BOOLEAN, claim: Ticks \cup {None}, live: BOOLEAN,
          alias: Aliases, superseded: BOOLEAN]

Poller == [status: {"absent", "pending", "completed", "rejected"},
           alias: Aliases, merged: BOOLEAN]

\* What a process holds in memory is still true, whatever the others do.
Knows(l) ==
    /\ l.ci # "pending" => scm.ci = l.ci
    /\ l.at \in {"leasing", "applying"} =>
          transition.status = "absent" /\ scm.merge = "merged" /\ scm.ci = "green"
    /\ l.at = "applying" => l.lease \in 1..granted
    /\ l.at \in {"dispatching", "acking"} =>
          transition.status # "absent" /\ l.lease = transition.lease
    /\ l.at = "finishing" /\ l.result = "completed" => transition.status = "dispatched"

\* The lock of the controller has one holder.
OneHandler ==
    \A p, q \in Procs : proc[p].at \in Handling /\ proc[q].at \in Handling => p = q

\* A transition stands for a merge with a green CI and for every request.
TransitionOK ==
    /\ scm.ci # "pending" => scm.merge = "merged"
    /\ transition.status = "absent" => requests = {}
    /\ transition.status # "absent" => /\ scm.merge = "merged" /\ scm.ci = "green"
                                       /\ transition.lease \in 1..granted
                                       /\ requests \subseteq {transition.lease}

\* A watch that is not pending is claimed by nobody, unless it was retired; one
\* that is not settled, or is claimed, has a poll left.
WatchOK ==
    /\ watch.status # "pending" /\ ~watch.superseded => watch.claim = None
    /\ watch.status \in {"absent", "pending"} \/ watch.claim # None => watch.polls < MaxPolls

Inv ==
    /\ TypeOK
    /\ \A p \in Procs : Knows(proc[p])
    /\ OneHandler
    /\ TransitionOK
    /\ WatchOK
    /\ CompletedIsDispatched

-----------------------------------------------------------------------------
\* Lemmas.

LEMMA InitialInv == Init => Inv
<1> SUFFICES ASSUME Init PROVE Inv
  OBVIOUS
<1>1. \A p \in Procs : proc[p] = Idle
  BY DEF Init
<1>2. TypeOK
  BY BoundsAssumption DEF Init, TypeOK, Idle, Steps, Aliases, Events
<1>3. \A p \in Procs : Knows(proc[p])
  BY <1>1 DEF Knows, Idle
<1>4. OneHandler
  BY <1>1 DEF OneHandler, Idle, Handling
<1>5. TransitionOK /\ WatchOK /\ CompletedIsDispatched
  BY BoundsAssumption DEF Init, TransitionOK, WatchOK, CompletedIsDispatched
<1>6. QED BY <1>2, <1>3, <1>4, <1>5 DEF Inv

\* A step of one process that leaves the transition, the requests and the outside
\* alone, and enters the controller only while its lock is free.
LEMMA MoveStep ==
  ASSUME Inv, NEW p \in Procs, NEW l \in Progress,
         proc' = [proc EXCEPT ![p] = l],
         transition' = transition, rejected' \subseteq Events, ports' = ports,
         Knows(l),
         l.at \in Handling => proc[p].at \in Handling \/ ~ControllerBusy,
         watch' \in Watch, poller' \in Poller, faults' \in 0..MaxFaults,
         WatchOK', CompletedIsDispatched'
  PROVE  Inv'
<1>1. /\ proc'[p] = l
      /\ \A q \in Procs : q # p => proc'[q] = proc[q]
  BY DEF Inv, TypeOK
<1>2. scm' = scm /\ granted' = granted /\ requests' = requests
  BY DEF ports
<1>3. TypeOK'
  BY <1>2 DEF Inv, TypeOK, Progress, Watch, Poller
<1>4. ASSUME NEW q \in Procs PROVE Knows(proc[q])'
  <2>1. CASE q = p
    BY <1>1, <1>2, <2>1 DEF Knows
  <2>2. CASE q # p
    BY <1>1, <1>2, <2>2 DEF Inv, Knows
  <2>3. QED BY <2>1, <2>2
<1>5. OneHandler'
  BY <1>1 DEF Inv, OneHandler, ControllerBusy
<1>6. TransitionOK'
  BY <1>2 DEF Inv, TransitionOK
<1>7. QED BY <1>3, <1>4, <1>5, <1>6 DEF Inv

\* The common shape of the steps below: only one process and the two files of the
\* polls may change, and these keep what Inv says of them.
Local(p) ==
    /\ transition' = transition /\ rejected' \subseteq Events /\ ports' = ports
    /\ watch' \in Watch /\ poller' \in Poller /\ faults' \in 0..MaxFaults
    /\ WatchOK' /\ CompletedIsDispatched'

Results == {None, "resumed", "duplicate", "waiting", "rejected", "completed"}

\* What EXCEPT does to the record of a process.
LEMMA Updated ==
  ASSUME NEW x \in Progress, NEW step, NEW r
  PROVE  /\ [x EXCEPT !.at = step] =
               [at |-> step, alias |-> x.alias, ci |-> x.ci, lease |-> x.lease,
                result |-> x.result, counted |-> x.counted]
         /\ [x EXCEPT !.at = step, !.result = r] =
               [at |-> step, alias |-> x.alias, ci |-> x.ci, lease |-> x.lease,
                result |-> r, counted |-> x.counted]
<1>1. [x EXCEPT !.at = step] = [at |-> step, alias |-> x.alias, ci |-> x.ci,
                                lease |-> x.lease, result |-> x.result, counted |-> x.counted]
  BY DEF Progress
<1> DEFINE y == [x EXCEPT !.at = step]
<1>2. [y EXCEPT !.result = r] = [at |-> step, alias |-> x.alias, ci |-> x.ci,
                                 lease |-> x.lease, result |-> r, counted |-> x.counted]
  <2> HIDE DEF y
  <2>1. y = [at |-> step, alias |-> x.alias, ci |-> x.ci, lease |-> x.lease,
             result |-> x.result, counted |-> x.counted]
    BY <1>1 DEF y
  <2>2. QED BY <2>1
<1>3. QED BY <1>1, <1>2

\* What a process knows it still knows outside the controller, whatever result it
\* takes along.
LEMMA ResultStep ==
  ASSUME Inv, NEW p \in Procs, Local(p), NEW step \in Steps \ Handling, NEW r \in Results,
         NEW b \in BOOLEAN, NEW l,
         l = [at |-> step, alias |-> proc[p].alias, ci |-> proc[p].ci,
              lease |-> proc[p].lease, result |-> r, counted |-> b],
         proc' = [proc EXCEPT ![p] = l],
         step = "finishing" /\ r = "completed" => transition.status = "dispatched"
  PROVE  Inv'
<1>1. proc[p] \in Progress /\ Knows(proc[p])
  BY DEF Inv, TypeOK, Progress
<1>2. l \in Progress
  BY <1>1 DEF Progress, Results
<1>3. Knows(l)
  BY <1>1 DEF Knows, Handling
<1>4. l.at \notin Handling
  OBVIOUS
<1>5. QED BY <1>2, <1>3, <1>4, MoveStep DEF Local

LEMMA GotoStep ==
  ASSUME Inv, NEW p \in Procs, Local(p), NEW step \in Steps \ (Handling \cup {"finishing"}),
         Goto(p, step)
  PROVE  Inv'
<1>1. proc[p] \in Progress
  BY DEF Inv, TypeOK, Progress
<1>2. PICK r \in Results, b \in BOOLEAN : r = proc[p].result /\ b = proc[p].counted
  BY <1>1 DEF Progress, Results
<1> DEFINE l == [at |-> step, alias |-> proc[p].alias, ci |-> proc[p].ci,
                 lease |-> proc[p].lease, result |-> r, counted |-> b]
<1>3. proc' = [proc EXCEPT ![p] = l]
  BY <1>1, <1>2, Updated DEF Goto
<1>4. step \in Steps \ Handling /\ step # "finishing"
  OBVIOUS
<1> HIDE DEF l
<1>5. QED BY <1>3, <1>4, ResultStep DEF l

LEMMA LeaveStep ==
  ASSUME Inv, NEW p \in Procs, Local(p), NEW r \in Results, Leave(p, r),
         r = "completed" => transition.status = "dispatched"
  PROVE  Inv'
<1> DEFINE l == [at |-> "finishing", alias |-> proc[p].alias, ci |-> proc[p].ci,
                 lease |-> proc[p].lease, result |-> r, counted |-> TRUE]
<1>1. proc[p] \in Progress
  BY DEF Inv, TypeOK, Progress
<1>2. proc'[p] = l
  BY <1>1 DEF Leave, Inv, TypeOK, Progress
<1>3. proc' = [proc EXCEPT ![p] = l]
  BY <1>1, <1>2 DEF Leave, Inv, TypeOK, Progress
<1>4. "finishing" \in Steps \ Handling
  BY DEF Steps, Handling
<1> HIDE DEF l
<1>5. QED BY <1>3, <1>4, ResultStep DEF l

LEMMA IdleStep ==
  ASSUME Inv, NEW p \in Procs, Local(p), proc' = [proc EXCEPT ![p] = Idle]
  PROVE  Inv'
<1>1. granted \in Nat
  BY DEF Inv, TypeOK
<1>2. Idle \in Progress /\ Knows(Idle) /\ Idle.at \notin Handling
  BY <1>1 DEF Idle, Progress, Knows, Steps, Handling, Aliases
<1>3. QED BY <1>2, MoveStep DEF Local

LEMMA AnswerStep ==
  ASSUME Inv, NEW p \in Procs, Local(p), NEW r \in Results, Answer(p, r)
  PROVE  Inv'
<1> DEFINE l == [at |-> "recording", alias |-> proc[p].alias, ci |-> proc[p].ci,
                 lease |-> proc[p].lease, result |-> r, counted |-> proc[p].counted]
<1>1. proc[p] \in Progress
  BY DEF Inv, TypeOK, Progress
<1>2. CASE p = Hook
  BY <1>2, IdleStep DEF Answer
<1>3. CASE p # Hook
  <2>1. proc[p].counted \in BOOLEAN
    BY <1>1 DEF Progress
  <2>2. proc' = [proc EXCEPT ![p] = l]
    <3>1. proc'[p] = l
      BY <1>1, <1>3 DEF Answer, Inv, TypeOK, Progress
    <3>2. QED BY <1>1, <1>3, <3>1 DEF Answer, Inv, TypeOK, Progress
  <2>3. "recording" \in Steps \ Handling
    BY DEF Steps, Polling, Handling
  <2> HIDE DEF l
  <2>4. \A b \in BOOLEAN : b = proc[p].counted => Inv'
    BY <2>2, <2>3, ResultStep DEF l
  <2>5. QED BY <2>1, <2>4
<1>4. QED BY <1>2, <1>3

-----------------------------------------------------------------------------
\* The watch.

\* A step on the watch alone.
LEMMA WatchStep ==
  ASSUME Inv, UNCHANGED <<poller, controller, ports, proc>>,
         watch' \in Watch, faults' \in 0..MaxFaults, WatchOK', CompletedIsDispatched'
  PROVE  Inv'
<1>1. /\ poller' = poller /\ transition' = transition /\ rejected' = rejected /\ proc' = proc
      /\ scm' = scm /\ granted' = granted /\ requests' = requests
  BY DEF controller, ports
<1>2. TypeOK'
  BY <1>1 DEF Inv, TypeOK, Watch
<1>3. (\A p \in Procs : Knows(proc[p]))' /\ OneHandler' /\ TransitionOK'
  BY <1>1 DEF Inv, Knows, OneHandler, TransitionOK
<1>4. QED BY <1>2, <1>3 DEF Inv

LEMMA ArmStep == Inv /\ Arm => Inv'
<1> SUFFICES ASSUME Inv, Arm PROVE Inv'
  OBVIOUS
<1>1. watch' = [watch EXCEPT !.status = "pending"] /\ watch \in Watch /\ faults' \in 0..MaxFaults
  BY DEF Arm, Inv, TypeOK, Watch
<1>2. watch' \in Watch
  BY <1>1 DEF Watch
<1>3. WatchOK' /\ CompletedIsDispatched'
  BY <1>1 DEF Watch, Arm, Inv, WatchOK, CompletedIsDispatched, controller
<1>4. QED BY <1>1, <1>2, <1>3, WatchStep DEF Arm

LEMMA SupersedeStep == Inv /\ Supersede => Inv'
<1> SUFFICES ASSUME Inv, Supersede PROVE Inv'
  OBVIOUS
<1>1. /\ watch' = [watch EXCEPT !.status = "rejected", !.superseded = TRUE]
      /\ watch \in Watch /\ faults' \in 0..MaxFaults
  BY DEF Supersede, Inv, TypeOK, Watch
<1>2. watch' \in Watch
  BY <1>1 DEF Watch
<1>3. WatchOK' /\ CompletedIsDispatched'
  BY <1>1 DEF Watch, Supersede, Inv, WatchOK, CompletedIsDispatched, controller
<1>4. QED BY <1>1, <1>2, <1>3, WatchStep DEF Supersede

LEMMA RepairStep == Inv /\ Repair => Inv'
<1> SUFFICES ASSUME Inv, Repair PROVE Inv'
  OBVIOUS
<1>1. /\ watch' = [watch EXCEPT !.alias = "repaired", !.due = TRUE]
      /\ watch \in Watch /\ faults' \in 0..MaxFaults
  BY DEF Repair, Inv, TypeOK, Watch
<1>2. watch' \in Watch
  BY <1>1 DEF Watch, Aliases
<1>3. WatchOK' /\ CompletedIsDispatched'
  BY <1>1 DEF Watch, Repair, Inv, WatchOK, CompletedIsDispatched, controller
<1>4. QED BY <1>1, <1>2, <1>3, WatchStep DEF Repair

LEMMA BackoffStep == Inv /\ BackoffElapses => Inv'
<1> SUFFICES ASSUME Inv, BackoffElapses PROVE Inv'
  OBVIOUS
<1>1. watch' = [watch EXCEPT !.due = TRUE] /\ watch \in Watch /\ faults' \in 0..MaxFaults
  BY DEF BackoffElapses, Inv, TypeOK, Watch
<1>2. watch' \in Watch
  BY <1>1 DEF Watch
<1>3. WatchOK' /\ CompletedIsDispatched'
  BY <1>1 DEF Watch, BackoffElapses, Inv, WatchOK, CompletedIsDispatched, controller
<1>4. QED BY <1>1, <1>2, <1>3, WatchStep DEF BackoffElapses

LEMMA ClaimExpiresStep == Inv /\ ClaimExpires => Inv'
<1> SUFFICES ASSUME Inv, ClaimExpires PROVE Inv'
  OBVIOUS
<1>1. watch' = [watch EXCEPT !.live = FALSE] /\ watch \in Watch
  BY DEF ClaimExpires, Inv, TypeOK, Watch
<1>2. faults' \in 0..MaxFaults
  <2>1. faults' = faults \/ (faults < MaxFaults /\ faults' = faults + 1)
    BY DEF ClaimExpires
  <2>2. QED BY <2>1, BoundsAssumption DEF Inv, TypeOK
<1>3. watch' \in Watch
  BY <1>1 DEF Watch
<1>4. WatchOK' /\ CompletedIsDispatched'
  BY <1>1 DEF Watch, ClaimExpires, Inv, WatchOK, CompletedIsDispatched, controller
<1>5. QED BY <1>2, <1>3, <1>4, WatchStep DEF ClaimExpires

-----------------------------------------------------------------------------
\* A tick, outside the controller.

\* A step that leaves all files alone.
LEMMA Unmoved ==
  ASSUME Inv, NEW p \in Procs, UNCHANGED <<watch, poller, controller, ports>>,
         faults' = faults \/ (faults < MaxFaults /\ faults' = faults + 1)
  PROVE  Local(p)
<1>1. /\ watch' = watch /\ poller' = poller /\ transition' = transition /\ rejected' = rejected
      /\ ports' = ports
  BY DEF controller
<1>2. watch \in Watch /\ poller \in Poller /\ faults' \in 0..MaxFaults /\ rejected \subseteq Events
  BY BoundsAssumption DEF Inv, TypeOK, Watch, Poller
<1>3. WatchOK' /\ CompletedIsDispatched'
  BY <1>1 DEF Inv, WatchOK, CompletedIsDispatched
<1>4. QED BY <1>1, <1>2, <1>3 DEF Local

\* A step that leaves all but the poller's record alone.
LEMMA PollerMoved ==
  ASSUME Inv, NEW p \in Procs, UNCHANGED <<watch, controller, ports, faults>>,
         poller' \in Poller,
         poller'.status = "completed" => transition.status = "dispatched"
  PROVE  Local(p)
<1>1. /\ watch' = watch /\ transition' = transition /\ rejected' = rejected
      /\ ports' = ports /\ faults' = faults
  BY DEF controller
<1>2. watch \in Watch /\ faults \in 0..MaxFaults /\ rejected \subseteq Events
  BY DEF Inv, TypeOK, Watch
<1>3. WatchOK' /\ CompletedIsDispatched'
  BY <1>1 DEF Inv, WatchOK, CompletedIsDispatched
<1>4. QED BY <1>1, <1>2, <1>3 DEF Local

LEMMA TicksAreProcs == Ticks \subseteq Procs /\ Hook \in Procs /\ Hook \notin Ticks
  BY ProcsAssumption DEF Procs

LEMMA ClaimStep ==
  ASSUME Inv, NEW p \in Ticks, Claim(p)
  PROVE  Inv'
<1>1. watch' = [watch EXCEPT !.claim = p, !.live = TRUE] /\ watch \in Watch
  BY DEF Claim, Inv, TypeOK, Watch
<1>2. watch' \in Watch
  BY <1>1 DEF Watch
<1>3. WatchOK' /\ CompletedIsDispatched'
  BY <1>1 DEF Watch, Claim, Claimable, Inv, WatchOK, CompletedIsDispatched, controller
<1>4. Local(p)
  BY <1>2, <1>3 DEF Local, Claim, controller, Inv, TypeOK, Poller
<1> DEFINE l == [at |-> "admitting", alias |-> watch.alias, ci |-> proc[p].ci,
                 lease |-> proc[p].lease, result |-> proc[p].result, counted |-> proc[p].counted]
<1>5. proc[p] \in Progress /\ Knows(proc[p]) /\ p \in Procs
  BY TicksAreProcs DEF Inv, TypeOK, Progress
<1>6. proc' = [proc EXCEPT ![p] = l]
  <2>1. proc'[p] = l
    BY <1>5 DEF Claim, Inv, TypeOK, Progress
  <2>2. QED BY <1>5, <2>1 DEF Claim, Inv, TypeOK, Progress
<1>7. l \in Progress
  BY <1>1, <1>5 DEF Progress, Steps, Watch
<1>8. Knows(l) /\ l.at \notin Handling
  BY <1>5 DEF Knows, Handling
<1> HIDE DEF l
<1>9. QED BY <1>4, <1>5, <1>6, <1>7, <1>8, MoveStep DEF Local

LEMMA AdmitStep ==
  ASSUME Inv, NEW p \in Ticks, Admit(p)
  PROVE  Inv'
<1>1. p \in Procs /\ Local(p)
  BY Unmoved, TicksAreProcs DEF Admit
<1>2. CASE Goto(p, "entering")
  <2>1. "entering" \in Steps \ (Handling \cup {"finishing"})
    BY DEF Steps, Handling
  <2>2. QED BY <1>1, <1>2, <2>1, GotoStep
<1>3. ASSUME NEW r \in {"rejected", "waiting"},
             proc' = [proc EXCEPT ![p].at = "finishing", ![p].result = r]
      PROVE  Inv'
  <2>1. proc[p] \in Progress
    BY <1>1 DEF Inv, TypeOK, Progress
  <2> DEFINE l == [at |-> "finishing", alias |-> proc[p].alias, ci |-> proc[p].ci,
                   lease |-> proc[p].lease, result |-> r, counted |-> proc[p].counted]
  <2>2. proc'[p] = l
    BY <1>1, <1>3, <2>1 DEF Inv, TypeOK, Progress
  <2>3. proc' = [proc EXCEPT ![p] = l]
    BY <1>1, <1>3, <2>1, <2>2 DEF Inv, TypeOK, Progress
  <2>4. "finishing" \in Steps \ Handling /\ r \in Results /\ r # "completed"
    BY DEF Steps, Handling, Results
  <2>5. proc[p].counted \in BOOLEAN
    BY <2>1 DEF Progress
  <2> HIDE DEF l
  <2>6. \A b \in BOOLEAN : b = proc[p].counted => Inv'
    BY <1>1, <2>3, <2>4, ResultStep DEF l
  <2>7. QED BY <2>5, <2>6
<1>4. QED BY <1>2, <1>3 DEF Admit

\* A finish that holds the claim gives it up, and leaves a poll to a watch that
\* stays pending.
LEMMA FinishStep ==
  ASSUME Inv, NEW p \in Ticks, Finish(p)
  PROVE  Inv'
<1> DEFINE polls == IF proc[p].counted THEN watch.polls + 1 ELSE watch.polls
           status == IF proc[p].result \in {"completed", "rejected"} THEN proc[p].result
                     ELSE IF proc[p].counted /\ polls >= MaxPolls THEN "expired" ELSE "pending"
           w == [watch EXCEPT !.status = status, !.polls = polls, !.claim = None,
                              !.live = FALSE, !.due = status # "pending"]
<1>1. /\ p \in Procs /\ p # None /\ proc[p] \in Progress /\ Knows(proc[p])
      /\ proc[p].at = "finishing"
      /\ watch \in Watch
      /\ MaxPolls \in Nat
  BY TicksAreProcs, NoneAssumption, BoundsAssumption DEF Finish, At, Inv, TypeOK, Progress, Watch
<1>2. /\ watch' = IF Holds(p) THEN w ELSE watch
      /\ proc' = [proc EXCEPT ![p] = Idle]
      /\ UNCHANGED <<poller, controller, ports, faults>>
  BY DEF Finish
<1>3. /\ polls \in Nat
      /\ status \in {"pending", "completed", "rejected", "expired"}
      /\ status = "completed" => transition.status = "dispatched"
      /\ status = "expired" => polls >= MaxPolls
      /\ status = "pending" /\ proc[p].counted => polls < MaxPolls
  <2>1. polls \in Nat
    BY <1>1 DEF Watch
  <2> HIDE DEF polls
  <2>2. /\ proc[p].result \in {"completed", "rejected"} => status = proc[p].result
        /\ proc[p].result \notin {"completed", "rejected"} =>
             status = IF proc[p].counted /\ polls >= MaxPolls THEN "expired" ELSE "pending"
    OBVIOUS
  <2> HIDE DEF status
  <2>3. QED BY <1>1, <2>1, <2>2 DEF Knows
<1>4. Holds(p) => watch.polls < MaxPolls
  BY <1>1 DEF Holds, Inv, WatchOK
<1>5. Holds(p) => polls \in 0..MaxPolls /\ (status = "pending" => polls < MaxPolls)
  BY <1>1, <1>3, <1>4 DEF Watch
<1> HIDE DEF polls, status
<1>6. Holds(p) => w \in Watch /\ w.status = status /\ w.polls = polls /\ w.claim = None
  BY <1>1, <1>3, <1>5 DEF Watch
<1> HIDE DEF w
<1>7. watch' \in Watch
  BY <1>1, <1>2, <1>6
<1>8. WatchOK'
  <2>1. CASE Holds(p)
    BY <1>2, <1>3, <1>5, <1>6, <2>1 DEF WatchOK
  <2>2. CASE ~Holds(p)
    BY <1>2, <2>2 DEF Inv, WatchOK
  <2>3. QED BY <2>1, <2>2
<1>9. CompletedIsDispatched'
  BY <1>2, <1>3, <1>6 DEF Inv, CompletedIsDispatched, controller
<1>10. Local(p)
  BY <1>2, <1>7, <1>8, <1>9 DEF Local, Inv, TypeOK, Poller, controller
<1>11. QED BY <1>1, <1>2, <1>10, IdleStep

LEMMA EnterPollStep ==
  ASSUME Inv, NEW p \in Ticks, EnterPoll(p)
  PROVE  Inv'
<1>1. p \in Procs /\ poller \in Poller /\ proc[p].alias \in Aliases
  BY TicksAreProcs DEF Inv, TypeOK, Poller
<1>2. UNCHANGED <<watch, controller, ports, faults>>
  BY DEF EnterPoll
<1>3. poller.status = "completed" => transition.status = "dispatched"
  BY DEF Inv, CompletedIsDispatched
<1>4. CASE UNCHANGED poller
  <2>1. Local(p)
    BY <1>1, <1>2, <1>3, <1>4, PollerMoved
  <2>2. \/ Leave(p, "waiting")
        \/ poller.status \in {"completed", "rejected"} /\ Leave(p, poller.status)
        \/ transition.status = "dispatched" /\ Leave(p, "completed")
        \/ \E step \in {"handing", "checking", "merging"} : Goto(p, step)
    BY DEF EnterPoll
  <2>3. {"handing", "checking", "merging"} \subseteq Steps \ (Handling \cup {"finishing"})
    BY DEF Steps, Handling, Polling
  <2>4. {"waiting", "completed", "rejected"} \subseteq Results
    BY DEF Results
  <2>5. CASE Leave(p, "waiting")
    BY <1>1, <2>1, <2>4, <2>5, LeaveStep
  <2>6. CASE poller.status \in {"completed", "rejected"} /\ Leave(p, poller.status)
    BY <1>1, <1>3, <2>1, <2>4, <2>6, LeaveStep
  <2>7. CASE transition.status = "dispatched" /\ Leave(p, "completed")
    BY <1>1, <2>1, <2>4, <2>7, LeaveStep
  <2>8. CASE \E step \in {"handing", "checking", "merging"} : Goto(p, step)
    BY <1>1, <2>1, <2>3, <2>8, GotoStep
  <2>9. QED BY <2>2, <2>5, <2>6, <2>7, <2>8
<1>5. CASE /\ transition.status = "dispatched" /\ Leave(p, "completed")
           /\ poller' = [poller EXCEPT !.status = "completed"]
  <2>1. poller' \in Poller
    BY <1>1, <1>5 DEF Poller
  <2>2. Local(p)
    BY <1>1, <1>2, <1>5, <2>1, PollerMoved
  <2>3. "completed" \in Results
    BY DEF Results
  <2>4. QED BY <1>1, <1>5, <2>2, <2>3, LeaveStep
<1>6. CASE /\ Goto(p, "merging")
           /\ poller' = [poller EXCEPT !.status = "pending", !.alias = proc[p].alias]
  <2>1. poller' \in Poller /\ poller'.status = "pending"
    BY <1>1, <1>6 DEF Poller
  <2>2. Local(p)
    BY <1>1, <1>2, <2>1, PollerMoved
  <2>3. "merging" \in Steps \ (Handling \cup {"finishing"})
    BY DEF Steps, Handling, Polling
  <2>4. QED BY <1>1, <1>6, <2>2, <2>3, GotoStep
<1>7. QED BY <1>4, <1>5, <1>6 DEF EnterPoll

LEMMA ReadMergeStep ==
  ASSUME Inv, NEW p \in Ticks, ReadMerge(p)
  PROVE  Inv'
<1>1. p \in Procs /\ poller \in Poller /\ {"waiting", "rejected"} \subseteq Results
  BY TicksAreProcs DEF Inv, TypeOK, Poller, Results
<1>2. UNCHANGED <<watch, controller, ports, faults>>
  BY DEF ReadMerge
<1>3. poller.status = "completed" => transition.status = "dispatched"
  BY DEF Inv, CompletedIsDispatched
<1>4. CASE Leave(p, "waiting") /\ UNCHANGED poller
  BY <1>1, <1>2, <1>3, <1>4, PollerMoved, LeaveStep
<1>5. CASE poller' = [poller EXCEPT !.merged = TRUE] /\ Goto(p, "checking")
  <2>1. poller' \in Poller /\ poller'.status = poller.status
    BY <1>1, <1>5 DEF Poller
  <2>2. Local(p)
    BY <1>1, <1>2, <1>3, <2>1, PollerMoved
  <2>3. "checking" \in Steps \ (Handling \cup {"finishing"})
    BY DEF Steps, Handling, Polling
  <2>4. QED BY <1>1, <1>5, <2>2, <2>3, GotoStep
<1>6. CASE poller' = [poller EXCEPT !.status = "rejected"] /\ Leave(p, "rejected")
  <2>1. poller' \in Poller /\ poller'.status = "rejected"
    BY <1>1, <1>6 DEF Poller
  <2>2. Local(p)
    BY <1>1, <1>2, <2>1, PollerMoved
  <2>3. QED BY <1>1, <1>6, <2>2, LeaveStep
<1>7. QED BY <1>4, <1>5, <1>6 DEF ReadMerge

LEMMA ReadCIStep ==
  ASSUME Inv, NEW p \in Ticks, ReadCI(p)
  PROVE  Inv'
<1>1. p \in Procs /\ "waiting" \in Results /\ proc[p] \in Progress /\ Knows(proc[p])
  BY TicksAreProcs DEF Results, Inv, TypeOK, Progress
<1>2. Local(p)
  BY <1>1, Unmoved DEF ReadCI
<1>3. CASE Leave(p, "waiting")
  BY <1>1, <1>2, <1>3, LeaveStep
<1>4. CASE proc' = [proc EXCEPT ![p].at = "handing", ![p].ci = scm.ci]
  <2> DEFINE l == [at |-> "handing", alias |-> proc[p].alias, ci |-> scm.ci,
                   lease |-> proc[p].lease, result |-> proc[p].result, counted |-> proc[p].counted]
  <2>1. proc'[p] = l
    BY <1>1, <1>4 DEF Inv, TypeOK, Progress
  <2>2. proc' = [proc EXCEPT ![p] = l]
    BY <1>1, <1>4, <2>1 DEF Inv, TypeOK, Progress
  <2>3. l \in Progress
    BY <1>1 DEF Progress, Steps, Polling, Inv, TypeOK
  <2>4. Knows(l) /\ l.at \notin Handling
    BY DEF Knows, Handling
  <2> HIDE DEF l
  <2>5. QED BY <1>1, <1>2, <2>2, <2>3, <2>4, MoveStep DEF Local
<1>5. QED BY <1>3, <1>4 DEF ReadCI

LEMMA RecordStep ==
  ASSUME Inv, NEW p \in Ticks, Record(p)
  PROVE  Inv'
<1> DEFINE status == Recorded(proc[p].result)
<1>1. p \in Procs /\ poller \in Poller /\ transition.status \in {"absent", "pending", "dispatched"}
  BY TicksAreProcs DEF Inv, TypeOK, Poller
<1>2. /\ status \in {"completed", "rejected", "pending"}
      /\ status = "completed" => transition.status = "dispatched"
  BY <1>1 DEF Recorded
<1>3. /\ poller' = [poller EXCEPT !.status = status]
      /\ Leave(p, IF status = "pending" THEN "waiting" ELSE status)
      /\ UNCHANGED <<watch, controller, ports, faults>>
  BY DEF Record
<1> HIDE DEF status
<1>4. poller' \in Poller /\ poller'.status = status
  BY <1>1, <1>2, <1>3 DEF Poller
<1>5. Local(p)
  BY <1>1, <1>2, <1>3, <1>4, PollerMoved
<1>6. (IF status = "pending" THEN "waiting" ELSE status) \in Results
  BY <1>2 DEF Results
<1>7. QED BY <1>1, <1>2, <1>3, <1>5, <1>6, LeaveStep

LEMMA LockBusyStep ==
  ASSUME Inv, NEW p \in Ticks, LockBusy(p)
  PROVE  Inv'
<1>1. p \in Procs /\ "waiting" \in Results /\ Local(p)
  BY TicksAreProcs, Unmoved DEF Results, LockBusy
<1>2. QED BY <1>1, LeaveStep DEF LockBusy

-----------------------------------------------------------------------------
\* The controller.

\* A step that leaves all but the rejected events alone.
LEMMA ControllerKept ==
  ASSUME Inv, NEW p \in Procs, UNCHANGED <<watch, poller, transition, ports, faults>>,
         rejected' \subseteq Events
  PROVE  Local(p)
<1>1. /\ watch' = watch /\ poller' = poller /\ transition' = transition /\ ports' = ports
      /\ faults' = faults
  OBVIOUS
<1>2. watch \in Watch /\ poller \in Poller /\ faults \in 0..MaxFaults
  BY DEF Inv, TypeOK, Watch, Poller
<1>3. WatchOK' /\ CompletedIsDispatched'
  BY <1>1 DEF Inv, WatchOK, CompletedIsDispatched
<1>4. QED BY <1>1, <1>2, <1>3 DEF Local

LEMMA RejectStep ==
  ASSUME Inv, NEW p \in Procs, Reject(p), UNCHANGED <<watch, poller, ports, faults>>
  PROVE  Inv'
<1>1. rejected' \subseteq Events /\ "rejected" \in Results
  BY DEF Reject, EventOf, Events, Inv, TypeOK, Results
<1>2. Local(p)
  BY <1>1, ControllerKept DEF Reject
<1>3. QED BY <1>1, <1>2, AnswerStep DEF Reject

\* Only a process that sees no transition, a merge and a green CI goes on to apply.
LEMMA HandleEventStep ==
  ASSUME Inv, NEW p \in Procs, HandleEvent(p)
  PROVE  Inv'
<1>1. /\ proc[p] \in Progress /\ Knows(proc[p]) /\ ~ControllerBusy
      /\ UNCHANGED <<watch, poller, ports, faults>>
      /\ {"duplicate", "waiting", "rejected"} \subseteq Results
  BY DEF HandleEvent, Inv, TypeOK, Progress, Results
<1>2. CASE UNCHANGED controller
  <2>1. transition' = transition /\ rejected' = rejected
    BY <1>2 DEF controller
  <2>2. Local(p)
    BY <1>1, <2>1, ControllerKept DEF Inv, TypeOK
  <2>3. CASE Answer(p, "duplicate") \/ Answer(p, "waiting")
    BY <1>1, <2>2, <2>3, AnswerStep
  <2>4. CASE /\ transition.status = "pending"
             /\ proc' = [proc EXCEPT ![p].at = "dispatching", ![p].lease = transition.lease]
    <3> DEFINE l == [at |-> "dispatching", alias |-> proc[p].alias, ci |-> proc[p].ci,
                     lease |-> transition.lease, result |-> proc[p].result, counted |-> proc[p].counted]
    <3>1. proc'[p] = l
      BY <1>1, <2>4 DEF Inv, TypeOK, Progress
    <3>2. proc' = [proc EXCEPT ![p] = l]
      BY <1>1, <2>4, <3>1 DEF Inv, TypeOK, Progress
    <3>3. transition.lease \in 0..granted
      BY <2>4 DEF Inv, TypeOK, TransitionOK
    <3>4. l \in Progress
      BY <1>1, <3>3 DEF Progress, Steps, Handling
    <3>5. Knows(l)
      BY <1>1, <2>4 DEF Knows
    <3> HIDE DEF l
    <3>6. QED BY <1>1, <2>2, <3>2, <3>4, <3>5, MoveStep DEF Local
  <2>5. CASE /\ ~Applied /\ MergeSeen(p) /\ CISeen(p) \notin {"red", "pending"}
             /\ Goto(p, "leasing")
    <3> DEFINE l == [at |-> "leasing", alias |-> proc[p].alias, ci |-> proc[p].ci,
                     lease |-> proc[p].lease, result |-> proc[p].result, counted |-> proc[p].counted]
    <3>1. proc' = [proc EXCEPT ![p] = l]
      BY <1>1, <2>5, Updated DEF Goto
    <3>2. l \in Progress
      BY <1>1 DEF Progress, Steps, Handling
    <3>3. scm.ci = "green"
      BY <1>1, <2>5 DEF CISeen, Knows, Progress, Inv, TypeOK
    <3>4. Knows(l)
      BY <1>1, <2>5, <3>3 DEF Knows, Applied, Inv, TransitionOK
    <3> HIDE DEF l
    <3>5. QED BY <1>1, <2>2, <3>1, <3>2, <3>4, MoveStep DEF Local
  <2>6. \/ Answer(p, "duplicate") \/ Answer(p, "waiting")
        \/ /\ transition.status = "pending"
           /\ proc' = [proc EXCEPT ![p].at = "dispatching", ![p].lease = transition.lease]
        \/ /\ ~Applied /\ MergeSeen(p) /\ CISeen(p) \notin {"red", "pending"}
           /\ Goto(p, "leasing")
        \/ Reject(p)
    BY DEF HandleEvent
  <2>7. CASE Reject(p)
    BY <1>1, <2>7, RejectStep
  <2>8. QED BY <2>3, <2>4, <2>5, <2>6, <2>7
<1>3. CASE Reject(p)
  BY <1>1, <1>3, RejectStep
<1>4. QED BY <1>2, <1>3 DEF HandleEvent

\* A step under the lock of the controller: what the other processes know does not
\* speak of a transition, unless it is dispatched.
LEMMA HandlerStep ==
  ASSUME Inv, NEW p \in Procs, proc[p].at \in Handling, NEW l,
         proc' = [proc EXCEPT ![p] = l],
         UNCHANGED <<watch, poller, rejected, scm, faults>>,
         granted' \in Nat, granted' >= granted, requests' \subseteq 1..granted',
         transition' \in [status: {"absent", "pending", "dispatched"}, lease: Nat],
         transition.status = "dispatched" => transition'.status = "dispatched",
         l \in Progress', proc'[p] = l => Knows(proc[p])', TransitionOK'
  PROVE  Inv'
<1>1. /\ proc'[p] = l
      /\ \A q \in Procs : q # p => proc'[q] = proc[q]
      /\ \A q \in Procs : q # p => proc[q].at \notin Handling
  BY DEF Inv, TypeOK, OneHandler
<1>2. 0..granted \subseteq 0..granted'
  BY DEF Inv, TypeOK
<1>3. \A q \in Procs : proc'[q] \in Progress'
  <2>1. \A q \in Procs : proc[q] \in Progress
    BY DEF Inv, TypeOK, Progress
  <2>2. Progress \subseteq Progress'
    BY <1>2 DEF Progress
  <2>3. QED BY <1>1, <2>1, <2>2
<1>4. TypeOK'
  <2>1. DOMAIN proc' = Procs /\ proc' = [q \in Procs |-> proc'[q]]
    BY DEF Inv, TypeOK
  <2>2. proc' \in [Procs -> Progress']
    BY <1>3, <2>1
  <2>3. QED BY <2>2 DEF Inv, TypeOK, Progress
<1>5. ASSUME NEW q \in Procs PROVE Knows(proc[q])'
  <2>1. CASE q = p
    BY <1>1, <2>1
  <2>2. CASE q # p
    BY <1>1, <2>2 DEF Inv, Knows, Handling
  <2>3. QED BY <2>1, <2>2
<1>6. OneHandler'
  BY <1>1 DEF OneHandler
<1>7. WatchOK' /\ CompletedIsDispatched'
  BY DEF Inv, WatchOK, CompletedIsDispatched
<1>8. QED BY <1>4, <1>5, <1>6, <1>7 DEF Inv

LEMMA AcquireStep ==
  ASSUME Inv, NEW p \in Procs, Acquire(p)
  PROVE  Inv'
<1>1. /\ proc[p] \in Progress /\ Knows(proc[p]) /\ proc[p].at = "leasing" /\ granted \in Nat
      /\ UNCHANGED <<watch, poller, scm, requests, faults>>
  BY DEF Acquire, At, Inv, TypeOK, Progress
<1>2. CASE Reject(p) /\ UNCHANGED granted
  BY <1>1, <1>2, RejectStep DEF ports
<1>3. CASE /\ granted' = granted + 1
           /\ proc' = [proc EXCEPT ![p].at = "applying", ![p].lease = granted + 1]
           /\ UNCHANGED controller
  <2> DEFINE l == [at |-> "applying", alias |-> proc[p].alias, ci |-> proc[p].ci,
                   lease |-> granted + 1, result |-> proc[p].result, counted |-> proc[p].counted]
  <2>1. proc'[p] = l
    BY <1>1, <1>3 DEF Inv, TypeOK, Progress
  <2>2. proc' = [proc EXCEPT ![p] = l]
    BY <1>1, <1>3, <2>1 DEF Inv, TypeOK, Progress
  <2>3. /\ transition' = transition /\ rejected' = rejected /\ scm' = scm /\ requests' = requests
        /\ granted' \in Nat /\ granted' >= granted
        /\ 1..granted \subseteq 1..granted'
    BY <1>1, <1>3 DEF controller
  <2>4. l \in Progress'
    BY <1>1, <1>3 DEF Progress, Steps, Handling
  <2>5. proc'[p] = l => Knows(proc[p])'
    BY <1>1, <1>3, <2>3 DEF Knows
  <2>6. requests' \subseteq 1..granted' /\ TransitionOK'
    BY <2>3 DEF Inv, TypeOK, TransitionOK
  <2> HIDE DEF l
  <2>7. proc[p].at \in Handling
    BY <1>1 DEF Handling
  <2>8. transition' \in [status: {"absent", "pending", "dispatched"}, lease: Nat]
    BY <2>3 DEF Inv, TypeOK
  <2>9. QED BY <1>1, <2>2, <2>3, <2>4, <2>5, <2>6, <2>7, <2>8, HandlerStep
<1>4. QED BY <1>2, <1>3 DEF Acquire

LEMMA ApplyStep ==
  ASSUME Inv, NEW p \in Procs, Apply(p)
  PROVE  Inv'
<1>1. /\ proc[p] \in Progress /\ Knows(proc[p]) /\ proc[p].at = "applying" /\ granted \in Nat
      /\ watch' = watch /\ poller' = poller /\ faults' = faults
      /\ scm' = scm /\ granted' = granted /\ requests' = requests
  BY DEF Apply, At, Inv, TypeOK, Progress, ports
<1>2. CASE Reject(p)
  BY <1>1, <1>2, RejectStep DEF ports
<1>3. CASE /\ transition' = [status |-> "pending", lease |-> proc[p].lease]
           /\ Goto(p, "dispatching")
           /\ UNCHANGED rejected
  <2> DEFINE l == [at |-> "dispatching", alias |-> proc[p].alias, ci |-> proc[p].ci,
                   lease |-> proc[p].lease, result |-> proc[p].result, counted |-> proc[p].counted]
  <2>1. proc' = [proc EXCEPT ![p] = l]
    BY <1>1, <1>3, Updated DEF Goto
  <2>2. l \in Progress'
    BY <1>1 DEF Progress, Steps, Handling
  <2>3. /\ transition.status = "absent" /\ scm.merge = "merged" /\ scm.ci = "green"
        /\ proc[p].lease \in 1..granted /\ requests = {}
    BY <1>1 DEF Knows, Inv, TransitionOK
  <2>4. /\ transition'.status = "pending" /\ transition'.lease = proc[p].lease
        /\ transition' \in [status: {"absent", "pending", "dispatched"}, lease: Nat]
    BY <1>1, <1>3, <2>3
  <2>5. proc'[p] = l => Knows(proc[p])'
    BY <1>1, <2>4 DEF Knows
  <2>6. requests' \subseteq 1..granted' /\ TransitionOK'
    BY <1>1, <2>3, <2>4 DEF TransitionOK
  <2> HIDE DEF l
  <2>7. proc[p].at \in Handling
    BY <1>1 DEF Handling
  <2>8. granted' \in Nat /\ granted' >= granted
    BY <1>1
  <2>9. QED BY <1>1, <1>3, <2>1, <2>2, <2>3, <2>4, <2>5, <2>6, <2>7, <2>8, HandlerStep
<1>4. QED BY <1>2, <1>3 DEF Apply

\* A call carries the generation of the transition.
LEMMA DispatchStep ==
  ASSUME Inv, NEW p \in Procs, Dispatch(p)
  PROVE  Inv'
<1>1. /\ proc[p] \in Progress /\ Knows(proc[p]) /\ proc[p].at = "dispatching"
      /\ granted \in Nat /\ granted' = granted
      /\ watch' = watch /\ poller' = poller /\ faults' = faults /\ scm' = scm
      /\ transition' = transition /\ rejected' = rejected
      /\ requests' = requests \cup {proc[p].lease}
  BY DEF Dispatch, At, Inv, TypeOK, Progress, controller
<1> DEFINE l == [at |-> "acking", alias |-> proc[p].alias, ci |-> proc[p].ci,
                 lease |-> proc[p].lease, result |-> proc[p].result, counted |-> proc[p].counted]
<1>2. proc' = [proc EXCEPT ![p] = l]
  BY <1>1, Updated DEF Dispatch, Goto
<1>3. l \in Progress'
  BY <1>1 DEF Progress, Steps, Handling
<1>4. transition.status # "absent" /\ proc[p].lease = transition.lease
  BY <1>1 DEF Knows
<1>5. proc'[p] = l => Knows(proc[p])'
  BY <1>1, <1>4 DEF Knows
<1>6. requests' \subseteq 1..granted' /\ TransitionOK'
  BY <1>1, <1>4 DEF Inv, TypeOK, TransitionOK
<1> HIDE DEF l
<1>7. proc[p].at \in Handling
  BY <1>1 DEF Handling
<1>8. transition' \in [status: {"absent", "pending", "dispatched"}, lease: Nat]
  BY <1>1 DEF Inv, TypeOK
<1>9. granted' \in Nat /\ granted' >= granted
  BY <1>1
<1>10. QED BY <1>1, <1>2, <1>3, <1>5, <1>6, <1>7, <1>8, <1>9, HandlerStep

LEMMA AcknowledgeStep ==
  ASSUME Inv, NEW p \in Procs, Acknowledge(p)
  PROVE  Inv'
<1>1. /\ proc[p] \in Progress /\ Knows(proc[p]) /\ proc[p].at = "acking" /\ granted \in Nat
      /\ watch' = watch /\ poller' = poller /\ faults' = faults /\ rejected' = rejected
      /\ scm' = scm /\ granted' = granted /\ requests' = requests
      /\ {"resumed", "waiting"} \subseteq Results
  BY DEF Acknowledge, At, Inv, TypeOK, Progress, ports, Results
<1>2. CASE Answer(p, "waiting") /\ UNCHANGED transition
  <2>1. Local(p)
    BY <1>1, <1>2, ControllerKept DEF ports, Inv, TypeOK
  <2>2. QED BY <1>1, <1>2, <2>1, AnswerStep
<1>3. CASE transition' = [transition EXCEPT !.status = "dispatched"] /\ Answer(p, "resumed")
  <2>1. transition.status # "absent"
    BY <1>1 DEF Knows
  <2>2. /\ transition'.status = "dispatched" /\ transition'.lease = transition.lease
        /\ transition' \in [status: {"absent", "pending", "dispatched"}, lease: Nat]
    BY <1>3 DEF Inv, TypeOK
  <2>3. TransitionOK' /\ requests' \subseteq 1..granted'
    BY <1>1, <2>1, <2>2 DEF Inv, TypeOK, TransitionOK
  <2> DEFINE l == [at |-> "recording", alias |-> proc[p].alias, ci |-> proc[p].ci,
                   lease |-> proc[p].lease, result |-> "resumed", counted |-> proc[p].counted]
  <2>4. PICK m \in {Idle, l} : proc' = [proc EXCEPT ![p] = m]
    <3>1. CASE p = Hook
      BY <1>3, <3>1 DEF Answer
    <3>2. CASE p # Hook
      <4>1. proc'[p] = l
        BY <1>1, <1>3, <3>2 DEF Answer, Inv, TypeOK, Progress
      <4>2. proc' = [proc EXCEPT ![p] = l]
        BY <1>1, <1>3, <3>2, <4>1 DEF Answer, Inv, TypeOK, Progress
      <4>3. QED BY <4>2
    <3>3. QED BY <3>1, <3>2
  <2>5. l \in Progress' /\ Idle \in Progress'
    BY <1>1 DEF Progress, Idle, Steps, Polling, Results, Aliases
  <2>6. proc'[p] = m => Knows(proc[p])'
    <3>1. /\ m.at \in {"idle", "recording"}
          /\ m.ci # "pending" => m.ci = proc[p].ci
      BY <2>4 DEF Idle
    <3>2. QED BY <1>1, <3>1 DEF Knows
  <2>7. proc[p].at \in Handling
    BY <1>1 DEF Handling
  <2> HIDE DEF l
  <2>8. m \in Progress'
    BY <2>4, <2>5
  <2>9. granted' \in Nat /\ granted' >= granted
    BY <1>1
  <2>10. QED BY <1>1, <2>2, <2>3, <2>4, <2>6, <2>7, <2>8, <2>9, HandlerStep
<1>4. QED BY <1>2, <1>3 DEF Acknowledge

-----------------------------------------------------------------------------
\* The outside.

\* A merge that is read, and a CI that has concluded, stay what they are.
LEMMA OutsideStep ==
  ASSUME Inv, MergeHappens \/ CIConcludes
  PROVE  Inv'
<1>1. /\ watch' = watch /\ poller' = poller /\ transition' = transition /\ rejected' = rejected
      /\ granted' = granted /\ requests' = requests /\ proc' = proc /\ faults' = faults
  BY DEF MergeHappens, CIConcludes, controller
<1>2. /\ scm' \in [alias: Aliases, merge: {"open", "merged", "foreign"},
                    ci: {"pending", "green", "red"}]
      /\ scm.ci # "pending" => scm'.ci = scm.ci /\ scm'.merge = scm.merge
      /\ scm'.ci # "pending" => scm'.merge = "merged"
  <2>1. CASE MergeHappens
    <3>1. PICK merge \in {"merged", "foreign"} : scm' = [scm EXCEPT !.merge = merge]
      BY <2>1 DEF MergeHappens
    <3>2. QED BY <2>1, <3>1 DEF MergeHappens, Inv, TypeOK, TransitionOK
  <2>2. CASE CIConcludes
    <3>1. PICK ci \in {"green", "red"} : scm' = [scm EXCEPT !.ci = ci]
      BY <2>2 DEF CIConcludes
    <3>2. QED BY <2>2, <3>1 DEF CIConcludes, Inv, TypeOK, TransitionOK
  <2>3. QED BY <2>1, <2>2
<1>3. TypeOK'
  BY <1>1, <1>2 DEF Inv, TypeOK
<1>4. TransitionOK'
  BY <1>1, <1>2 DEF Inv, TransitionOK
<1>5. ASSUME NEW p \in Procs PROVE Knows(proc[p])'
  BY <1>1, <1>2 DEF Inv, Knows
<1>6. OneHandler' /\ WatchOK' /\ CompletedIsDispatched'
  BY <1>1 DEF Inv, OneHandler, WatchOK, CompletedIsDispatched
<1>7. QED BY <1>3, <1>4, <1>5, <1>6 DEF Inv

LEMMA CrashStep ==
  ASSUME Inv, NEW p \in Procs, Crash(p)
  PROVE  Inv'
<1>1. Local(p)
  BY Unmoved DEF Crash
<1>2. QED BY <1>1, IdleStep DEF Crash

LEMMA NextStep == Inv /\ [Next]_vars => Inv'
<1> SUFFICES ASSUME Inv, [Next]_vars PROVE Inv'
  OBVIOUS
<1>1. CASE Arm \/ Supersede \/ Repair \/ BackoffElapses \/ ClaimExpires
  BY <1>1, ArmStep, SupersedeStep, RepairStep, BackoffStep, ClaimExpiresStep
<1>2. ASSUME NEW p \in Procs, Handle(p) PROVE Inv'
  BY <1>2, HandleEventStep, AcquireStep, ApplyStep, DispatchStep, AcknowledgeStep DEF Handle
<1>3. ASSUME NEW p \in Ticks, Tick(p) PROVE Inv'
  <2>1. CASE Claim(p) \/ Admit(p) \/ Finish(p)
    BY <2>1, ClaimStep, AdmitStep, FinishStep
  <2>2. CASE EnterPoll(p) \/ ReadMerge(p) \/ ReadCI(p) \/ Record(p) \/ LockBusy(p)
    BY <2>2, EnterPollStep, ReadMergeStep, ReadCIStep, RecordStep, LockBusyStep
  <2>3. CASE Handle(p)
    BY <1>2, <2>3, TicksAreProcs
  <2>4. QED BY <1>3, <2>1, <2>2, <2>3 DEF Tick, Poll
<1>4. CASE MergeHappens \/ CIConcludes
  BY <1>4, OutsideStep
<1>5. ASSUME NEW p \in Procs, Crash(p) PROVE Inv'
  BY <1>5, CrashStep
<1>6. CASE UNCHANGED vars
  BY <1>6 DEF vars, controller, ports, Inv, TypeOK, Knows, OneHandler, TransitionOK, WatchOK,
              CompletedIsDispatched
<1>7. QED BY <1>1, <1>2, <1>3, <1>4, <1>5, <1>6, TicksAreProcs DEF Next

LEMMA InvIsInvariant == Spec => []Inv
<1>1. QED BY InitialInv, NextStep, PTL DEF Spec

-----------------------------------------------------------------------------
\* Theorems.

\* The variables keep their types; polls stay within the budget of the watch.
THEOREM ResumeTypeCorrect == Spec => []TypeOK
<1>1. Inv => TypeOK
  BY DEF Inv
<1>2. QED BY <1>1, InvIsInvariant, PTL

\* All calls of dispatch_successor carry one generation, that of the transition on
\* disk, after a merge with a green CI (handle_event, _pending_dispatch).
THEOREM SuccessorIsAskedForOnce == Spec => []DispatchedAlike
<1>1. Inv => DispatchedAlike
  BY DEF Inv, TransitionOK, DispatchedAlike
<1>2. QED BY <1>1, InvIsInvariant, PTL

\* A watch or a poller's record that says completed tells the truth
\* (_record_controller_result, finish).
THEOREM CompletionIsHonest == Spec => []CompletedIsDispatched
<1>1. Inv => CompletedIsDispatched
  BY DEF Inv
<1>2. QED BY <1>1, InvIsInvariant, PTL

\* No tick that lost its claim changes a settled watch, nor does an operation on
\* the watch (claim, finish).
THEOREM SettledOnce == Spec => SettledByOneTick
<1> DEFINE Kept == watch.status \in {"completed", "rejected", "expired"} /\ ~watch.superseded
                     => watch'.status = watch.status
<1>1. ASSUME Inv, [Next]_vars PROVE [Kept]_vars
  <2> SUFFICES ASSUME watch.status \in {"completed", "rejected", "expired"}, ~watch.superseded
               PROVE  watch'.status = watch.status
    OBVIOUS
  <2>1. watch.claim = None /\ watch.status \notin {"absent", "pending"}
    BY <1>1 DEF Inv, WatchOK
  <2>2. ~Arm /\ ~Supersede /\ ~Repair /\ ~BackoffElapses /\ \A p \in Ticks : ~Claim(p)
    BY <2>1 DEF Arm, Supersede, Repair, BackoffElapses, Claim, Claimable
  <2>3. ASSUME ClaimExpires PROVE watch'.status = watch.status
    BY <1>1, <2>3 DEF ClaimExpires, Inv, TypeOK
  <2>4. ASSUME NEW p \in Ticks, Finish(p) PROVE watch' = watch
    <3>1. ~Holds(p)
      BY <2>1, TicksAreProcs, NoneAssumption DEF Holds
    <3>2. QED BY <2>4, <3>1 DEF Finish
  <2>5. ASSUME NEW p \in Procs, \/ Admit(p) \/ EnterPoll(p) \/ ReadMerge(p) \/ ReadCI(p)
                                \/ Record(p) \/ LockBusy(p) \/ Crash(p) \/ Handle(p)
        PROVE  watch' = watch
    BY <2>5 DEF Admit, EnterPoll, ReadMerge, ReadCI, Record, LockBusy, Crash, Handle,
                HandleEvent, Acquire, Apply, Dispatch, Acknowledge
  <2>6. ASSUME MergeHappens \/ CIConcludes \/ UNCHANGED vars PROVE watch' = watch
    BY <2>6 DEF MergeHappens, CIConcludes, vars
  <2>7. ASSUME NEW p \in Ticks, Tick(p) PROVE watch' = watch
    BY <2>2, <2>4, <2>5, <2>7, TicksAreProcs DEF Tick, Poll
  <2>8. QED BY <1>1, <2>2, <2>3, <2>5, <2>6, <2>7, TicksAreProcs DEF Next
<1>2. Inv /\ [Next]_vars => [Kept]_vars
  BY <1>1
<1>3. QED BY <1>2, InvIsInvariant, PTL DEF Spec, SettledByOneTick
=============================================================================
