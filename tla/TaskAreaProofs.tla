--------------------------- MODULE TaskAreaProofs ---------------------------
(***************************************************************************)
(* The rows, the executor's files and the effects of a task area, for any  *)
(* units, dependencies, delivery order, conflicts, number of workers and   *)
(* launches, repair budget, length of the tick and number of faults.       *)
(*                                                                         *)
(* Every clause of the invariant is about one unit: StoreOK about its rows *)
(* alone, Evidence about what its rows and the world outside the store say *)
(* of each other, ThreadOK about what its thread has read.                 *)
(***************************************************************************)
EXTENDS TaskArea, SequenceTheorems, TLAPS

\* The budget of a unit counts every attempt but one that may still launch, and
\* no phase is recorded of an attempt that has not been accepted.
StoreOK(s) ==
    /\ RowsAgree(s)
    /\ s.state # "pending" => s.attempts > 0
    /\ s.launches = s.attempts - (IF s.executor = "ready" THEN 1 ELSE 0)
    /\ \A b \in Ordinals, p \in Phases :
          b > s.attempts \/ (b = s.attempts /\ s.executor = "ready") => s.phase[b][p] = "none"

\* Each attempt's files, processes and effects are those its rows account for.
AttemptOK(u, b) ==
    /\ \A p \in Phases : performed[u][b][p] = IF unit[u].phase[b][p] = "none" THEN 0 ELSE 1
    /\ started[u][b] <= 1
    /\ started[u][b] = 1 => "invocation" \in file[u][b]
    /\ file[u][b] # {} => "invocation" \in file[u][b] /\ b <= Attempt(u)
    /\ "task" \in file[u][b] => started[u][b] = 1

Evidence(u) ==
    /\ \A b \in Ordinals : AttemptOK(u, b)
    /\ unit[u].executor = "accepted" => {"task", "receipt"} \subseteq FilesOf(u)
    /\ unit[u].state = "integrated" => /\ unit[u].bound
                                       /\ unit[u].verdict = Attempt(u)
                                       /\ Attempt(u) \notin refused[u]
                                       /\ \A p \in Phases : PhaseOf(unit[u], p) = "green"

\* Where the attempt of the unit has not been settled with the executor.
Launching == {"bind", "dispatch", "spawn", "process", "seal", "accept", "retry", "reconcile"}
Completing == {"accepted", "advance", "perform"}

\* What a thread has read of its unit stays true until it acts on it.
ThreadOK(u) ==
    LET pc == thread[u].pc
    IN  /\ pc \in Launching => unit[u].executor = "ready"
        /\ pc \in Completing => unit[u].executor = "accepted"
        /\ pc = "spawn" => started[u][Attempt(u)] = 0 /\ "invocation" \in FilesOf(u)
        /\ pc = "process" => started[u][Attempt(u)] = 1
        /\ pc = "seal" => "task" \in FilesOf(u)
        /\ pc = "accept" => {"task", "receipt"} \subseteq FilesOf(u)
        /\ pc = "retry" => "failure" \in FilesOf(u)
        /\ pc = "perform" => \E p \in Phases : /\ NextPhase(u, unit[u]) = p
                                               /\ PhaseOf(unit[u], p) = "claimed"
        /\ pc = "consume" /\ unit[u].executor = "none" =>
              \A d \in DependsOn[u] : unit[d].state = "integrated"

Inv ==
    /\ TypeOK
    /\ area.cycle < MaxCycles
    /\ \A u \in Units : StoreOK(unit[u]) /\ Evidence(u) /\ ThreadOK(u)

-----------------------------------------------------------------------------
\* The completion phases.

LEMMA OrdinalsFact == Ordinals \subseteq Nat /\ MaxLaunches \in Nat /\ 1 \in Ordinals
  BY MaxLaunchesAssumption DEF Ordinals

\* Both orders run through the eight phases.
LEMMA PhaseOrderFacts ==
  ASSUME NEW u
  PROVE  /\ \A i \in 1..8 : PhaseOrder(u)[i] \in Phases
         /\ \A p \in Phases : \E i \in 1..8 : PhaseOrder(u)[i] = p
<1> DEFINE early == IF u \in Reviewed THEN <<"candidate", "verifier", "checks">>
                                      ELSE <<"candidate", "checks", "verifier">>
           late == <<"integration", "integration_checks", "integration_verifier",
                     "delivery_verifier", "machine_complete">>
<1>1. early \in Seq(Phases) /\ Len(early) = 3
  <2>1. CASE u \in Reviewed
    BY <2>1 DEF Phases
  <2>2. CASE u \notin Reviewed
    BY <2>2 DEF Phases
  <2>3. QED BY <2>1, <2>2
<1>0. late \in Seq(Phases) /\ Len(late) = 5
  BY DEF Phases
<1>2. /\ {early[1], early[2], early[3]} = {"candidate", "checks", "verifier"}
      /\ late[1] = "integration" /\ late[2] = "integration_checks"
      /\ late[3] = "integration_verifier" /\ late[4] = "delivery_verifier"
      /\ late[5] = "machine_complete"
  OBVIOUS
<1>3. PhaseOrder(u) = early \o late
  BY DEF PhaseOrder
<1> HIDE DEF early, late
<1>4. \A i \in 1..8 : PhaseOrder(u)[i] = IF i <= 3 THEN early[i] ELSE late[i - 3]
  <2>1. \A i \in 1..Len(early) + Len(late) :
           (early \o late)[i] = IF i <= Len(early) THEN early[i] ELSE late[i - Len(early)]
    BY <1>0, <1>1, ConcatProperties, Zenon
  <2>2. Len(early) + Len(late) = 8
    BY <1>0, <1>1
  <2>3. \A i \in 1..8 :
           PhaseOrder(u)[i] = IF i <= Len(early) THEN early[i] ELSE late[i - Len(early)]
    BY <1>3, <2>1, <2>2, Zenon
  <2>4. QED BY <1>1, <2>3, Zenon
<1>5. /\ PhaseOrder(u)[1] = early[1] /\ PhaseOrder(u)[2] = early[2] /\ PhaseOrder(u)[3] = early[3]
      /\ PhaseOrder(u)[4] = late[1] /\ PhaseOrder(u)[5] = late[2] /\ PhaseOrder(u)[6] = late[3]
      /\ PhaseOrder(u)[7] = late[4] /\ PhaseOrder(u)[8] = late[5]
  BY <1>4
<1>6. \A i \in 1..8 : i \in {1, 2, 3, 4, 5, 6, 7, 8}
  OBVIOUS
<1>7. \A i \in 1..8 : PhaseOrder(u)[i] \in Phases
  BY <1>2, <1>5, <1>6 DEF Phases
<1>8. \A p \in Phases : \E i \in 1..8 : PhaseOrder(u)[i] = p
  BY <1>2, <1>5 DEF Phases
<1>9. QED BY <1>7, <1>8

\* advance enters a phase that is not GREEN, or nothing when all are.
LEMMA NextPhaseFacts ==
  ASSUME NEW u, NEW s
  PROVE  \/ NextPhase(u, s) = "complete" /\ \A p \in Phases : PhaseOf(s, p) = "green"
         \/ NextPhase(u, s) \in Phases /\ PhaseOf(s, NextPhase(u, s)) # "green"
<1> DEFINE open == {i \in 1..8 : PhaseOf(s, PhaseOrder(u)[i]) # "green"}
<1>1. CASE open = {}
  <2>1. NextPhase(u, s) = "complete"
    BY <1>1 DEF NextPhase
  <2>2. \A p \in Phases : PhaseOf(s, p) = "green"
    BY <1>1, PhaseOrderFacts
  <2>3. QED BY <2>1, <2>2
<1>2. CASE open # {}
  <2>1. \E i \in open : \A j \in open : i <= j
    <3>1. open \subseteq 1..8 /\ open # {}
      BY <1>2
    <3> HIDE DEF open
    <3>2. PICK k \in open : TRUE
      BY <3>1
    <3>3. CASE 1 \in open
      BY <3>1, <3>3
    <3>4. CASE 1 \notin open /\ 2 \in open
      BY <3>1, <3>4
    <3>5. CASE open \cap 1..2 = {} /\ 3 \in open
      BY <3>1, <3>5
    <3>6. CASE open \cap 1..3 = {} /\ 4 \in open
      BY <3>1, <3>6
    <3>7. CASE open \cap 1..4 = {} /\ 5 \in open
      BY <3>1, <3>7
    <3>8. CASE open \cap 1..5 = {} /\ 6 \in open
      BY <3>1, <3>8
    <3>9. CASE open \cap 1..6 = {}
      BY <3>1, <3>2, <3>9
    <3>10. QED BY <3>3, <3>4, <3>5, <3>6, <3>7, <3>8, <3>9
  <2> DEFINE first == CHOOSE i \in open : \A j \in open : i <= j
  <2>2. first \in open
    BY <2>1
  <2>3. NextPhase(u, s) = PhaseOrder(u)[first]
    BY <1>2 DEF NextPhase
  <2>4. QED BY <2>2, <2>3, PhaseOrderFacts
<1>3. QED BY <1>1, <1>2


-----------------------------------------------------------------------------
\* Every transaction of the store maps typed, agreeing rows to such rows.

\* The rows by what the executor is known to have done.
LEMMA StoreFacts ==
  ASSUME NEW s \in Unit, StoreOK(s)
  PROVE  /\ s.executor = "none" <=> s.state = "pending"
         /\ s.executor \in {"ready", "unknown"} <=> s.state = "ready"
         /\ s.executor = "exhausted" <=> s.state = "stopped"
         /\ s.executor = "accepted" <=> s.state \in {"running", "verified", "integrated"}
         /\ s.state = "pending" => s.attempts = 0 /\ s.launches = 0
         /\ s.state # "pending" => s.attempts \in Ordinals
         /\ s.executor = "accepted" => s.run = s.state
<1>1. s.state \in UnitStates /\ s.executor \in ExecutorStates /\ s.attempts \in 0..MaxLaunches
  BY DEF Unit
<1>2. s.state # "pending" => s.attempts \in Ordinals
  BY <1>1, OrdinalsFact DEF StoreOK, Ordinals
<1>3. QED BY <1>1, <1>2 DEF StoreOK, RowsAgree, UnitStates, ExecutorStates

LEMMA ConsumeDispatchOK ==
  ASSUME NEW s \in Unit, StoreOK(s), s.executor = "none"
  PROVE  LET t == ConsumeDispatch(s)
         IN  /\ t \in Unit /\ StoreOK(t)
             /\ t.state = "ready" /\ t.executor = "ready" /\ t.attempts = 1
             /\ t.phase = s.phase
<1> DEFINE t == ConsumeDispatch(s)
<1>1. /\ t.state = "ready" /\ t.run = "queued" /\ t.attempts = 1 /\ t.executor = "ready"
      /\ t.row = [s.row EXCEPT ![1] = "ready"] /\ t.lease = s.lease
      /\ t.launches = s.launches /\ t.phase = s.phase
  BY DEF ConsumeDispatch, Unit
<1>2. t \in Unit
  <2>1. [s.row EXCEPT ![1] = "ready"] \in [Ordinals -> AttemptStates]
    BY OrdinalsFact DEF Unit, AttemptStates
  <2>2. 1 \in 0..MaxLaunches
    BY OrdinalsFact DEF Ordinals
  <2>3. QED BY <2>1, <2>2 DEF ConsumeDispatch, Unit, UnitStates, RunStates, ExecutorStates
<1>3. s.attempts = 0 /\ s.launches = 0 /\ s.state = "pending"
  BY StoreFacts
<1>4. RowsAgree(t)
  <2>1. \A b \in Ordinals : b > 1 => t.row[b] = "absent"
    <3>1. \A b \in Ordinals : b > 1 => t.row[b] = s.row[b] /\ b > s.attempts
      BY <1>1, <1>3, OrdinalsFact DEF Unit
    <3> HIDE DEF t
    <3>2. QED BY <3>1 DEF StoreOK, RowsAgree
  <2>2. t.row[1] = "ready"
    BY <1>1, OrdinalsFact DEF Unit
  <2>3. t.lease = 0
    BY <1>1, <1>3 DEF StoreOK, RowsAgree
  <2>4. \A b \in Ordinals : ~(b < 1)
    BY OrdinalsFact DEF Ordinals
  <2>5. QED BY <1>1, <2>1, <2>2, <2>3, <2>4 DEF RowsAgree, Current
<1>5. \A b \in Ordinals, p \in Phases : t.phase[b][p] = "none"
  BY <1>1, <1>3, OrdinalsFact DEF StoreOK, Ordinals
<1>6. StoreOK(t)
  <2> HIDE DEF t
  <2>1. t.attempts > 0 /\ t.launches = t.attempts - 1 /\ t.executor = "ready"
    BY <1>1, <1>3
  <2>2. QED BY <1>4, <1>5, <2>1 DEF StoreOK
<1>7. QED BY <1>1, <1>2, <1>6

LEMMA BindDeliveryContractOK ==
  ASSUME NEW s \in Unit, StoreOK(s)
  PROVE  LET t == BindDeliveryContract(s)
         IN  /\ t \in Unit /\ StoreOK(t)
             /\ t.state = s.state /\ t.executor = s.executor /\ t.attempts = s.attempts
             /\ t.phase = s.phase
<1> DEFINE t == BindDeliveryContract(s)
<1>1. /\ t.state = s.state /\ t.run = s.run /\ t.attempts = s.attempts /\ t.row = s.row
      /\ t.lease = s.lease /\ t.executor = s.executor /\ t.launches = s.launches
      /\ t.phase = s.phase /\ t \in Unit
  BY DEF BindDeliveryContract, Unit
<1>2. StoreOK(t)
  BY <1>1 DEF StoreOK, RowsAgree, Current
<1>3. QED BY <1>1, <1>2

LEMMA AcceptOK ==
  ASSUME NEW s \in Unit, StoreOK(s), s.executor = "ready"
  PROVE  LET t == AcceptExecutorDispatch(s)
         IN  /\ t \in Unit /\ StoreOK(t)
             /\ t.state = "running" /\ t.executor = "accepted" /\ t.attempts = s.attempts
             /\ t.phase = s.phase
<1> DEFINE t == AcceptExecutorDispatch(s)
           a == s.attempts
<1>1. /\ t.state = "running" /\ t.run = "running" /\ t.attempts = a /\ t.lease = a
      /\ t.row = [s.row EXCEPT ![a] = "running"] /\ t.executor = "accepted"
      /\ t.launches = s.launches + 1 /\ t.phase = s.phase
  BY DEF AcceptExecutorDispatch, Unit
<1>2. a \in Ordinals /\ a \in Nat /\ s.state = "ready"
  BY StoreFacts, OrdinalsFact
<1>3. s.launches + 1 = a
  BY <1>2 DEF StoreOK, Unit
<1>4. t \in Unit
  <2>1. [s.row EXCEPT ![a] = "running"] \in [Ordinals -> AttemptStates]
    BY <1>2 DEF Unit, AttemptStates
  <2>2. QED BY <1>3, <2>1 DEF AcceptExecutorDispatch, Unit, UnitStates, RunStates, ExecutorStates
<1>5. RowsAgree(t)
  <2>1. t.row[a] = "running" /\ \A b \in Ordinals : b # a => t.row[b] = s.row[b]
    BY <1>1, <1>2 DEF Unit
  <2>2. QED BY <1>1, <1>2, <2>1, OrdinalsFact DEF StoreOK, RowsAgree, Current
<1>6. StoreOK(t)
  BY <1>1, <1>2, <1>3, <1>5 DEF StoreOK
<1>7. QED BY <1>1, <1>4, <1>6

LEMMA CountedOK ==
  ASSUME NEW s \in Unit, NEW n \in 0..MaxLaunches
  PROVE  LET c == [s EXCEPT !.launches = n]
         IN  c \in Unit /\ c.row = s.row /\ c.attempts = s.attempts
BY DEF Unit

Reopened(c, n, r) ==
    [c EXCEPT !.state = "ready", !.run = "queued", !.attempts = n, !.row = r,
              !.lease = 0, !.executor = "ready"]

LEMMA ReopenedOK ==
  ASSUME NEW c \in Unit, NEW n \in 0..MaxLaunches, NEW r \in [Ordinals -> AttemptStates]
  PROVE  Reopened(c, n, r) \in Unit
<1>1. "ready" \in UnitStates /\ "queued" \in RunStates /\ "ready" \in ExecutorStates
      /\ 0 \in 0..MaxLaunches
  BY OrdinalsFact DEF UnitStates, RunStates, ExecutorStates
<1>2. QED BY <1>1 DEF Reopened, Unit

\* A new attempt opens rows no attempt has used, within the launch budget.
LEMMA NewAttemptOK ==
  ASSUME NEW s \in Unit, StoreOK(s), s.executor \in {"ready", "accepted"},
         s.attempts < MaxLaunches,
         NEW n \in 0..MaxLaunches, n = s.attempts, NEW old \in {"interrupted", "stopped"}
  PROVE  LET t == NewAttempt([s EXCEPT !.launches = n], old)
         IN  /\ t \in Unit /\ StoreOK(t)
             /\ t.state = "ready" /\ t.executor = "ready" /\ t.attempts = s.attempts + 1
             /\ t.phase = s.phase
<1> DEFINE t == NewAttempt([s EXCEPT !.launches = n], old)
           a == s.attempts
<1>1. /\ t.state = "ready" /\ t.run = "queued" /\ t.attempts = a + 1 /\ t.lease = 0
      /\ t.row = [[s.row EXCEPT ![a] = old] EXCEPT ![a + 1] = "ready"] /\ t.executor = "ready"
      /\ t.launches = n /\ t.phase = s.phase
  BY DEF NewAttempt, Unit
<1>2. a \in Ordinals /\ a + 1 \in Ordinals /\ a \in Nat
  BY StoreFacts, OrdinalsFact DEF Ordinals
<1>3. t \in Unit
  <2>1. t.row \in [Ordinals -> AttemptStates]
    <3>1. [s.row EXCEPT ![a] = old] \in [Ordinals -> AttemptStates]
      BY <1>2 DEF Unit, AttemptStates
    <3>2. QED BY <1>1, <1>2, <3>1 DEF AttemptStates
  <2>2. a + 1 \in 0..MaxLaunches /\ 0 \in 0..MaxLaunches
    BY <1>2, OrdinalsFact DEF Ordinals
  <2>3. PICK c : c = [s EXCEPT !.launches = n]
    OBVIOUS
  <2>4. c \in Unit /\ c.row = s.row /\ c.attempts = a
    BY <2>3, CountedOK
  <2>5. PICK r \in [Ordinals -> AttemptStates] :
           r = [[s.row EXCEPT ![a] = old] EXCEPT ![a + 1] = "ready"]
    BY <1>1, <2>1
  <2>6. t = NewAttempt(c, old)
    BY <2>3
  <2>7. NewAttempt(c, old) = Reopened(c, a + 1, r)
    BY <2>4, <2>5 DEF NewAttempt, Reopened, Unit
  <2> HIDE DEF t
  <2>8. QED BY <2>2, <2>4, <2>6, <2>7, ReopenedOK
<1>4. RowsAgree(t)
  <2>1. /\ t.row[a + 1] = "ready" /\ t.row[a] = old
        /\ \A b \in Ordinals : b # a /\ b # a + 1 => t.row[b] = s.row[b]
    BY <1>1, <1>2 DEF Unit
  <2> HIDE DEF t
  <2>2. \A b \in Ordinals : b > a + 1 => t.row[b] = "absent"
    BY <1>2, <2>1, OrdinalsFact DEF StoreOK, RowsAgree
  <2>3. \A b \in Ordinals : b < a + 1 => t.row[b] \in {"interrupted", "stopped"}
    BY <1>2, <2>1, OrdinalsFact DEF StoreOK, RowsAgree
  <2>4. QED BY <1>1, <2>1, <2>2, <2>3 DEF RowsAgree, Current
<1>5. \A b \in Ordinals, p \in Phases : b > a => t.phase[b][p] = "none"
  BY <1>1 DEF StoreOK
<1>6. StoreOK(t)
  BY <1>1, <1>2, <1>4, <1>5, OrdinalsFact DEF StoreOK
<1>7. QED BY <1>1, <1>3, <1>6

LEMMA StopOK ==
  ASSUME NEW s \in Unit, StoreOK(s), s.executor \in {"ready", "accepted"},
         NEW n \in 0..MaxLaunches, n = s.attempts
  PROVE  LET t == Stop([s EXCEPT !.launches = n])
         IN  /\ t \in Unit /\ StoreOK(t)
             /\ t.state = "stopped" /\ t.executor = "exhausted" /\ t.attempts = s.attempts
             /\ t.phase = s.phase
<1> DEFINE t == Stop([s EXCEPT !.launches = n])
           a == s.attempts
<1>1. /\ t.state = "stopped" /\ t.run = "stopped" /\ t.attempts = a /\ t.lease = 0
      /\ t.row = [s.row EXCEPT ![a] = "stopped"] /\ t.executor = "exhausted"
      /\ t.launches = n /\ t.phase = s.phase
  BY DEF Stop, Unit
<1>2. a \in Ordinals /\ a \in Nat
  BY StoreFacts, OrdinalsFact DEF Ordinals
<1>3. t \in Unit
  <2>1. s.row \in [Ordinals -> AttemptStates]
    BY DEF Unit
  <2>2. [s.row EXCEPT ![a] = "stopped"] \in [Ordinals -> AttemptStates]
    BY <1>2, <2>1 DEF AttemptStates
  <2>3. PICK c : c = [s EXCEPT !.launches = n]
    OBVIOUS
  <2>4. c \in Unit /\ c.row = s.row /\ c.attempts = a
    BY <2>3, CountedOK
  <2>5. t = Stop(c) /\ 0 \in 0..MaxLaunches
    BY <2>3, OrdinalsFact
  <2> HIDE DEF t
  <2>6. QED BY <2>2, <2>4, <2>5 DEF Stop, Unit, UnitStates, RunStates, ExecutorStates
<1>4. RowsAgree(t)
  <2>1. t.row[a] = "stopped" /\ \A b \in Ordinals : b # a => t.row[b] = s.row[b]
    BY <1>1, <1>2 DEF Unit
  <2>2. QED BY <1>1, <1>2, <2>1, OrdinalsFact DEF StoreOK, RowsAgree, Current
<1>5. StoreOK(t)
  <2> HIDE DEF t
  <2>1. t.attempts > 0 /\ t.launches = t.attempts /\ t.executor = "exhausted" /\ a - 0 = a
    BY <1>1, <1>2, OrdinalsFact DEF Ordinals
  <2>2. \A b \in Ordinals, p \in Phases : b > a => t.phase[b][p] = "none"
    BY <1>1 DEF StoreOK
  <2>3. QED BY <1>1, <1>2, <1>4, <2>1, <2>2 DEF StoreOK
<1>6. QED BY <1>1, <1>3, <1>5

\* retry_executor_dispatch counts the launch, then opens an attempt or stops.
LEMMA RetryExecutorDispatchOK ==
  ASSUME NEW s \in Unit, StoreOK(s), s.executor = "ready"
  PROVE  LET t == RetryExecutorDispatch(s)
         IN  /\ t \in Unit /\ StoreOK(t)
             /\ t.phase = s.phase
             /\ \/ t.state = "ready" /\ t.executor = "ready" /\ t.attempts = s.attempts + 1
                \/ t.state = "stopped" /\ t.executor = "exhausted" /\ t.attempts = s.attempts
<1> DEFINE t == RetryExecutorDispatch(s)
<1>1. PICK n \in 0..MaxLaunches : n = s.attempts
  BY DEF Unit
<1>2. s.launches + 1 = n
  BY <1>1 DEF StoreOK, Unit
<1>3. PICK counted : counted = [s EXCEPT !.launches = n]
  OBVIOUS
<1>4. counted = [s EXCEPT !.launches = @ + 1] /\ counted.launches = n
  BY <1>2, <1>3 DEF Unit
<1>5. CASE n >= MaxLaunches
  <2>1. t = Stop(counted)
    BY <1>4, <1>5 DEF RetryExecutorDispatch
  <2>2. QED BY <1>1, <1>3, <2>1, StopOK
<1>6. CASE ~(n >= MaxLaunches)
  <2>1. t = NewAttempt(counted, "interrupted")
    BY <1>4, <1>6 DEF RetryExecutorDispatch
  <2>2. s.attempts < MaxLaunches
    BY <1>1, <1>6, OrdinalsFact
  <2>3. QED BY <1>1, <1>3, <2>1, <2>2, NewAttemptOK
<1>7. QED BY <1>5, <1>6

\* retry_completion has nothing to count: the launch was counted when accepted.
LEMMA RetryCompletionOK ==
  ASSUME NEW s \in Unit, StoreOK(s), s.executor = "accepted"
  PROVE  LET t == RetryCompletion(s)
         IN  /\ t \in Unit /\ StoreOK(t)
             /\ t.phase = s.phase
             /\ \/ t.state = "ready" /\ t.executor = "ready" /\ t.attempts = s.attempts + 1
                \/ t.state = "stopped" /\ t.executor = "exhausted" /\ t.attempts = s.attempts
<1> DEFINE t == RetryCompletion(s)
<1>1. PICK n \in 0..MaxLaunches : n = s.attempts
  BY DEF Unit
<1>2. s.launches = n
  BY <1>1 DEF StoreOK, Unit
<1>3. s = [s EXCEPT !.launches = n]
  BY <1>2 DEF Unit
<1>4. CASE RepairExhausted(s)
  <2>1. t = Stop(s)
    BY <1>4 DEF RetryCompletion
  <2>2. QED BY <1>1, <1>3, <2>1, StopOK
<1>5. CASE ~RepairExhausted(s)
  <2>1. t = NewAttempt(s, "stopped")
    BY <1>5 DEF RetryCompletion
  <2>2. s.attempts < MaxLaunches
    BY <1>1, <1>5, OrdinalsFact, RepairBudgetAssumption DEF RepairExhausted, EffectiveBudget
  <2>3. QED BY <1>1, <1>3, <2>1, <2>2, NewAttemptOK
<1>6. QED BY <1>4, <1>5

LEMMA ReconcileExecutorUnknownOK ==
  ASSUME NEW s \in Unit, StoreOK(s), s.executor = "ready"
  PROVE  LET t == ReconcileExecutorUnknown(s)
         IN  /\ t \in Unit /\ StoreOK(t)
             /\ t.state = "ready" /\ t.executor = "unknown" /\ t.attempts = s.attempts
             /\ t.phase = s.phase
<1> DEFINE t == ReconcileExecutorUnknown(s)
<1>1. /\ t.state = s.state /\ t.run = s.run /\ t.attempts = s.attempts /\ t.row = s.row
      /\ t.lease = s.lease /\ t.executor = "unknown" /\ t.launches = s.launches + 1
      /\ t.phase = s.phase
  BY DEF ReconcileExecutorUnknown, Unit
<1>2. s.state = "ready" /\ s.attempts \in Ordinals
  BY StoreFacts
<1>3. s.launches + 1 = s.attempts /\ s.attempts \in 0..MaxLaunches
  BY DEF StoreOK, Unit
<1>4. t \in Unit
  BY <1>3 DEF ReconcileExecutorUnknown, Unit, ExecutorStates
<1>5. RowsAgree(t)
  BY <1>1, <1>2 DEF StoreOK, RowsAgree, Current
<1>6. StoreOK(t)
  <2> HIDE DEF t
  <2>1. t.attempts > 0 /\ t.launches = t.attempts /\ t.executor = "unknown"
    BY <1>1, <1>2, <1>3, OrdinalsFact DEF Ordinals
  <2>2. \A b \in Ordinals, p \in Phases : b > t.attempts => t.phase[b][p] = "none"
    BY <1>1 DEF StoreOK
  <2>3. t.attempts - 0 = t.attempts
    BY <1>1, <1>3
  <2>4. QED BY <1>5, <2>1, <2>2, <2>3 DEF StoreOK
<1>7. QED BY <1>1, <1>2, <1>4, <1>6

\* Claiming and settling a phase writes that phase of the current attempt only.
LEMMA SetPhaseOK ==
  ASSUME NEW s \in Unit, StoreOK(s), s.executor = "accepted",
         NEW p \in Phases, NEW v \in PhaseStates
  PROVE  LET t == SetPhase(s, p, v)
         IN  /\ t \in Unit /\ StoreOK(t)
             /\ t.state = s.state /\ t.executor = s.executor /\ t.attempts = s.attempts
             /\ PhaseOf(t, p) = v
             /\ \A b \in Ordinals, q \in Phases :
                   b # s.attempts \/ q # p => t.phase[b][q] = s.phase[b][q]
<1> DEFINE t == SetPhase(s, p, v)
           a == s.attempts
<1>1. /\ t.state = s.state /\ t.run = s.run /\ t.attempts = s.attempts /\ t.row = s.row
      /\ t.lease = s.lease /\ t.executor = s.executor /\ t.launches = s.launches
      /\ t.phase = [s.phase EXCEPT ![a] = [s.phase[a] EXCEPT ![p] = v]]
  BY DEF SetPhase, Unit
<1>2. a \in Ordinals /\ a \in Nat
  BY StoreFacts, OrdinalsFact
<1>3. s.phase \in [Ordinals -> [Phases -> PhaseStates]]
  BY DEF Unit
<1>4. t.phase \in [Ordinals -> [Phases -> PhaseStates]]
  BY <1>1, <1>2, <1>3
<1>5. t \in Unit
  BY <1>1, <1>4 DEF SetPhase, Unit
<1>6. /\ t.phase[a][p] = v
      /\ \A b \in Ordinals, q \in Phases : b # a \/ q # p => t.phase[b][q] = s.phase[b][q]
  BY <1>1, <1>2, <1>3
<1>7. RowsAgree(t)
  BY <1>1 DEF StoreOK, RowsAgree, Current
<1>8. StoreOK(t)
  <2> HIDE DEF t
  <2>1. \A b \in Ordinals, q \in Phases : b > a => t.phase[b][q] = "none"
    BY <1>2, <1>6, OrdinalsFact DEF StoreOK
  <2>2. QED BY <1>1, <1>7, <2>1 DEF StoreOK
<1>9. QED BY <1>1, <1>5, <1>6, <1>8 DEF PhaseOf

LEMMA RecordDeliveryVerdictOK ==
  ASSUME NEW s \in Unit, StoreOK(s)
  PROVE  LET t == RecordDeliveryVerdict(s)
         IN  /\ t \in Unit /\ StoreOK(t)
             /\ t.state = s.state /\ t.executor = s.executor /\ t.attempts = s.attempts
             /\ t.phase = s.phase
<1> DEFINE t == RecordDeliveryVerdict(s)
<1>1. /\ t.state = s.state /\ t.run = s.run /\ t.attempts = s.attempts /\ t.row = s.row
      /\ t.lease = s.lease /\ t.executor = s.executor /\ t.launches = s.launches
      /\ t.phase = s.phase /\ t \in Unit
  BY DEF RecordDeliveryVerdict, Unit
<1>2. StoreOK(t)
  BY <1>1 DEF StoreOK, RowsAgree, Current
<1>3. QED BY <1>1, <1>2

\* finish_attempt and mark_integrated move the unit, its Run and its attempt
\* together and release the lease.
Closed(s, st) ==
    [s EXCEPT !.state = st, !.run = st, !.row[s.attempts] = st, !.lease = 0]

LEMMA FinishOK ==
  ASSUME NEW s \in Unit, StoreOK(s), s.executor = "accepted",
         NEW st \in {"verified", "integrated"}
  PROVE  LET t == Closed(s, st)
         IN  /\ t \in Unit /\ StoreOK(t)
             /\ t.state = st /\ t.executor = "accepted" /\ t.attempts = s.attempts
             /\ t.phase = s.phase /\ t.bound = s.bound /\ t.verdict = s.verdict
<1> DEFINE t == Closed(s, st)
           a == s.attempts
<1>1. /\ t.state = st /\ t.run = st /\ t.attempts = a /\ t.lease = 0
      /\ t.row = [s.row EXCEPT ![a] = st] /\ t.executor = "accepted"
      /\ t.launches = s.launches /\ t.phase = s.phase
      /\ t.bound = s.bound /\ t.verdict = s.verdict
  BY DEF Unit, Closed
<1>2. a \in Ordinals /\ a \in Nat
  BY StoreFacts, OrdinalsFact
<1>3. t \in Unit
  <2>1. [s.row EXCEPT ![a] = st] \in [Ordinals -> AttemptStates]
    BY <1>2 DEF Unit, AttemptStates
  <2>2. 0 \in 0..MaxLaunches
    BY OrdinalsFact
  <2>3. QED BY <2>1, <2>2 DEF Unit, UnitStates, RunStates, Closed
<1>4. RowsAgree(t)
  <2>1. t.row[a] = st /\ \A b \in Ordinals : b # a => t.row[b] = s.row[b]
    BY <1>1, <1>2 DEF Unit
  <2> HIDE DEF t
  <2>2. QED BY <1>1, <1>2, <2>1, OrdinalsFact DEF StoreOK, RowsAgree, Current
<1>5. StoreOK(t)
  <2> HIDE DEF t
  <2>1. t.attempts > 0
    BY <1>1, <1>2, OrdinalsFact DEF Ordinals
  <2>2. QED BY <1>1, <1>4, <2>1 DEF StoreOK
<1>6. QED BY <1>1, <1>3, <1>5

LEMMA MarkIntegratedOK ==
  ASSUME NEW s \in Unit, StoreOK(s), s.executor = "accepted"
  PROVE  LET t == MarkIntegrated(s)
         IN  /\ t \in Unit /\ StoreOK(t)
             /\ t.state = "integrated" /\ t.executor = "accepted" /\ t.attempts = s.attempts
             /\ t.phase = s.phase /\ t.bound = s.bound /\ t.verdict = s.verdict
<1>1. MarkIntegrated(s) = Closed(s, "integrated")
  BY DEF MarkIntegrated, Closed
<1>2. QED BY <1>1, FinishOK

LEMMA FinishAttemptOK ==
  ASSUME NEW s \in Unit, StoreOK(s), s.executor = "accepted"
  PROVE  LET t == FinishAttempt(s)
         IN  /\ t \in Unit /\ StoreOK(t)
             /\ t.state = "verified" /\ t.executor = "accepted" /\ t.attempts = s.attempts
             /\ t.phase = s.phase
<1>1. FinishAttempt(s) = Closed(s, "verified")
  BY DEF FinishAttempt, Closed
<1>2. QED BY <1>1, FinishOK

-----------------------------------------------------------------------------
\* One step of one unit.

\* What the invariant keeps of the tick and the fault count, and their types.
TickOK == area \in Area /\ area.cycle < MaxCycles /\ faults \in 0..MaxFaults

UnitsTyped ==
    /\ unit \in [Units -> Unit]
    /\ file \in [Units -> [Ordinals -> SUBSET Files]]
    /\ refused \in [Units -> SUBSET Ordinals]
    /\ thread \in [Units -> Thread]
    /\ started \in [Units -> [Ordinals -> Nat]]
    /\ performed \in [Units -> [Ordinals -> [Phases -> Nat]]]

\* What a step has to show about the one unit it moves.
LEMMA StepOfUnit ==
  ASSUME Inv, NEW u \in Units, UnitsTyped', TickOK',
         \A v \in Units \ {u} :
            /\ unit'[v] = unit[v] /\ file'[v] = file[v] /\ refused'[v] = refused[v]
            /\ thread'[v] = thread[v] /\ started'[v] = started[v]
            /\ performed'[v] = performed[v],
         StoreOK(unit'[u]), Evidence(u)', ThreadOK(u)',
         unit[u].state = "integrated" => unit'[u].state = "integrated"
  PROVE  Inv'
<1>1. TypeOK' /\ area'.cycle < MaxCycles
  BY DEF UnitsTyped, TickOK, TypeOK
<1>2. ASSUME NEW v \in Units, v # u
      PROVE  StoreOK(unit'[v]) /\ Evidence(v)' /\ ThreadOK(v)'
  <2>1. /\ unit'[v] = unit[v] /\ file'[v] = file[v] /\ refused'[v] = refused[v]
        /\ thread'[v] = thread[v] /\ started'[v] = started[v]
        /\ performed'[v] = performed[v]
    BY <1>2
  <2>2. StoreOK(unit[v]) /\ Evidence(v) /\ ThreadOK(v)
    BY <1>2 DEF Inv
  <2>3. StoreOK(unit'[v])
    BY <2>1, <2>2
  <2>4. Evidence(v)'
    BY <2>1, <2>2 DEF Evidence, AttemptOK, Attempt, FilesOf
  <2>5. \A d \in DependsOn[v] : unit[d].state = "integrated" => unit'[d].state = "integrated"
    BY <1>2, DependsOnAssumption
  <2>6. ThreadOK(v)'
    BY <2>1, <2>2, <2>5 DEF ThreadOK, Attempt, FilesOf
  <2>7. QED BY <2>3, <2>4, <2>6
<1>3. \A v \in Units : StoreOK(unit'[v]) /\ Evidence(v)' /\ ThreadOK(v)'
  BY <1>2
<1>4. QED BY <1>1, <1>3 DEF Inv

LEMMA InvFacts ==
  ASSUME Inv, NEW u \in Units
  PROVE  /\ UnitsTyped /\ TickOK
         /\ unit[u] \in Unit /\ StoreOK(unit[u]) /\ Evidence(u) /\ ThreadOK(u)
         /\ thread[u] \in Thread
         /\ Attempt(u) \in 0..MaxLaunches
  BY DEF Inv, TypeOK, UnitsTyped, TickOK, Unit, Attempt

LEMMA FaultOK ==
  ASSUME Inv, Fault
  PROVE  faults' \in 0..MaxFaults
  BY MaxFaultsAssumption DEF Inv, TypeOK, Fault

\* The thread of a unit goes on to pc, or its result has been settled.
LEMMA GotoOK ==
  ASSUME Inv, NEW u \in Units, NEW pc \in ThreadStates, Goto(u, pc)
  PROVE  /\ thread' \in [Units -> Thread]
         /\ thread'[u].pc = pc /\ thread'[u].visit = thread[u].visit
         /\ \A v \in Units : v # u => thread'[v] = thread[v]
<1> DEFINE t == [pc |-> pc, visit |-> thread[u].visit]
<1>1. thread \in [Units -> Thread] /\ thread[u] \in Thread /\ t \in Thread
  BY DEF Inv, TypeOK, Thread
<1>2. thread'[u] = t /\ \A v \in Units : v # u => thread'[v] = thread[v]
  BY <1>1 DEF Goto, Thread
<1>3. thread' = [v \in Units |-> thread'[v]]
  BY <1>1 DEF Goto
<1>4. thread' \in [Units -> Thread]
  <2> HIDE DEF t
  <2>1. QED BY <1>1, <1>2, <1>3
<1>5. QED BY <1>2, <1>4

LEMMA NoThreadOK == NoThread \in Thread /\ NoThread.pc = "idle"
  BY OrdinalsFact DEF NoThread, Thread, ThreadStates

LEMMA StoreStep ==
  ASSUME Inv, NEW u \in Units, NEW s \in Unit, Store(u, s)
  PROVE  /\ unit' \in [Units -> Unit] /\ unit'[u] = s
         /\ \A v \in Units : v # u => unit'[v] = unit[v]
  BY DEF Inv, TypeOK, Store

LEMMA WriteStep ==
  ASSUME Inv, NEW u \in Units, NEW kind \in Files, Attempt(u) \in Ordinals, Write(u, kind)
  PROVE  /\ file' \in [Units -> [Ordinals -> SUBSET Files]]
         /\ file'[u][Attempt(u)] = FilesOf(u) \cup {kind}
         /\ \A b \in Ordinals : b # Attempt(u) => file'[u][b] = file[u][b]
         /\ \A v \in Units : v # u => file'[v] = file[v]
<1> DEFINE f == [file[u] EXCEPT ![Attempt(u)] = FilesOf(u) \cup {kind}]
<1>1. file \in [Units -> [Ordinals -> SUBSET Files]]
  BY DEF Inv, TypeOK
<1>2. f \in [Ordinals -> SUBSET Files]
  BY <1>1 DEF FilesOf
<1>3. file' = [file EXCEPT ![u] = f]
  BY <1>1 DEF Write, FilesOf
<1>4. /\ f[Attempt(u)] = FilesOf(u) \cup {kind}
      /\ \A b \in Ordinals : b # Attempt(u) => f[b] = file[u][b]
  BY <1>1
<1>5. QED
  <2> HIDE DEF f
  <2>1. QED BY <1>1, <1>2, <1>3, <1>4

\* The caller of the pool takes the next result, or begins the next cycle.
LEMMA SettledOK ==
  ASSUME Inv, NEW u \in Units, NEW visited \in SUBSET (Units \X (0..MaxLaunches)),
         NEW waits \in [Units -> 0..MaxLaunches]
  PROVE  Settled(u, visited, waits) \in Area /\ Settled(u, visited, waits).cycle < MaxCycles
<1>1. area \in Area /\ area.cycle < MaxCycles /\ MaxCycles \in Nat /\ MaxCycles > 0
  BY MaxCyclesAssumption DEF Inv, TypeOK
<1> DEFINE rest == area.wave \ {u}
<1>2. CASE rest # {}
  <2> DEFINE n == [area EXCEPT !.wave = rest, !.visited = visited, !.waits = waits]
  <2>1. n \in Area /\ n.cycle = area.cycle
    BY <1>1 DEF Area
  <2>2. Settled(u, visited, waits) = n
    BY <1>2 DEF Settled
  <2>3. QED BY <1>1, <2>1, <2>2
<1>3. CASE rest = {} /\ area.cycle + 1 = MaxCycles
  <2>1. Unlocked \in Area /\ Unlocked.cycle = 0
    BY <1>1, OrdinalsFact DEF Unlocked, Area
  <2>2. Settled(u, visited, waits) = Unlocked
    BY <1>3 DEF Settled
  <2>3. QED BY <1>1, <2>1, <2>2
<1>4. CASE rest = {} /\ area.cycle + 1 # MaxCycles
  <2> DEFINE n == [pc |-> "select", cycle |-> area.cycle + 1, wave |-> {},
                   visited |-> visited, waits |-> waits]
  <2>1. area.cycle + 1 \in 0..MaxCycles /\ area.cycle + 1 < MaxCycles
    BY <1>1, <1>4 DEF Area
  <2>2. n \in Area /\ n.cycle = area.cycle + 1
    BY <2>1 DEF Area
  <2>3. Settled(u, visited, waits) = n
    BY <1>4 DEF Settled
  <2>4. QED BY <2>1, <2>2, <2>3
<1>5. QED BY <1>2, <1>3, <1>4

LEMMA ReturnOK ==
  ASSUME Inv, NEW u \in Units, NEW waits \in [Units -> 0..MaxLaunches], Return(u, waits)
  PROVE  /\ area' \in Area /\ area'.cycle < MaxCycles
         /\ thread' \in [Units -> Thread] /\ thread'[u].pc = "idle"
         /\ \A v \in Units : v # u => thread'[v] = thread[v]
<1>1. area.visited \in SUBSET (Units \X (0..MaxLaunches)) /\ thread \in [Units -> Thread]
  BY DEF Inv, TypeOK, Area
<1>2. QED BY <1>1, SettledOK, NoThreadOK DEF Return

LEMMA WaitsOK ==
  ASSUME Inv, NEW u \in Units
  PROVE  /\ NotWaiting(u) \in [Units -> 0..MaxLaunches]
         /\ [area.waits EXCEPT ![u] = Attempt(u)] \in [Units -> 0..MaxLaunches]
<1>1. area.waits \in [Units -> 0..MaxLaunches] /\ Attempt(u) \in 0..MaxLaunches
  BY InvFacts DEF Inv, TypeOK, Area
<1>2. 0 \in 0..MaxLaunches
  BY OrdinalsFact
<1>3. QED BY <1>1, <1>2 DEF NotWaiting

\* A step that only moves the thread of a unit.
LEMMA MoveStep ==
  ASSUME Inv, NEW u \in Units, UNCHANGED <<durable, history>>,
         thread' \in [Units -> Thread], \A v \in Units : v # u => thread'[v] = thread[v],
         TickOK', ThreadOK(u)'
  PROVE  Inv'
<1>1. UnitsTyped'
  BY InvFacts DEF durable, history, UnitsTyped
<1>2. Evidence(u)' /\ StoreOK(unit'[u])
  <2>1. Evidence(u) /\ StoreOK(unit[u])
    BY InvFacts
  <2>2. QED BY <2>1 DEF durable, history, Evidence, AttemptOK, Attempt, FilesOf
<1>3. QED BY <1>1, <1>2, StepOfUnit DEF durable, history

\* Where a thread may go without having read anything of its unit.
Anywhere == {"idle", "pending", "rescheduled", "blocked"}

LEMMA RestStep ==
  ASSUME Inv, NEW u \in Units, UNCHANGED <<durable, history>>,
         thread' \in [Units -> Thread], \A v \in Units : v # u => thread'[v] = thread[v],
         thread'[u].pc \in Anywhere, TickOK'
  PROVE  Inv'
<1>1. ThreadOK(u)'
  BY DEF ThreadOK, Anywhere, Launching, Completing
<1>2. QED BY <1>1, MoveStep

\* A step that only writes the store, of the same phases, and moves the thread.
LEMMA TransactionStep ==
  ASSUME Inv, NEW u \in Units, UNCHANGED <<file, refused, history>>,
         NEW s \in Unit, Store(u, s), StoreOK(s), s.phase = unit[u].phase,
         s.attempts >= Attempt(u), unit[u].state # "integrated",
         s.executor = "accepted" => /\ s.attempts = Attempt(u)
                                    /\ {"task", "receipt"} \subseteq FilesOf(u),
         s.state = "integrated" => /\ s.bound /\ s.verdict = s.attempts
                                   /\ s.attempts \notin refused[u]
                                   /\ \A p \in Phases : PhaseOf(s, p) = "green",
         thread' \in [Units -> Thread], \A v \in Units : v # u => thread'[v] = thread[v],
         TickOK', ThreadOK(u)'
  PROVE  Inv'
<1>1. /\ unit' \in [Units -> Unit] /\ unit'[u] = s
      /\ \A v \in Units : v # u => unit'[v] = unit[v]
  BY StoreStep
<1>2. UnitsTyped'
  BY <1>1, InvFacts DEF history, UnitsTyped
<1>3. Evidence(u)'
  <2>1. \A b \in Ordinals : AttemptOK(u, b)
    BY InvFacts DEF Evidence
  <2>2. Attempt(u) \in Nat /\ s.attempts \in Nat
    BY InvFacts, OrdinalsFact DEF Unit
  <2>3. \A b \in Ordinals : AttemptOK(u, b)'
    BY <1>1, <2>1, <2>2, OrdinalsFact DEF AttemptOK, Attempt, history
  <2>4. QED BY <1>1, <2>3 DEF Evidence, Attempt, FilesOf
<1>4. QED BY <1>1, <1>2, <1>3, StepOfUnit DEF history

-----------------------------------------------------------------------------
\* The pool threads.

LEMMA ConsumeStep ==
  ASSUME Inv, NEW u \in Units, Consume(u)
  PROVE  Inv'
<1>1. TickOK'
  BY InvFacts DEF Consume, TickOK
<1>2. CASE Admits(unit, u)
  <2> DEFINE s == ConsumeDispatch(unit[u])
  <2>1. /\ s \in Unit /\ StoreOK(s) /\ s.state = "ready" /\ s.executor = "ready"
        /\ s.attempts = 1 /\ s.phase = unit[u].phase
    BY InvFacts, ConsumeDispatchOK DEF Consume
  <2>2. unit[u].state = "pending" /\ Attempt(u) = 0
    BY InvFacts, StoreFacts DEF Consume, Attempt
  <2>3. Store(u, s) /\ Goto(u, "bind") /\ UNCHANGED <<file, refused, history>>
    BY <1>2 DEF Consume
  <2> HIDE DEF s
  <2>4. /\ thread' \in [Units -> Thread] /\ thread'[u].pc = "bind"
        /\ \A v \in Units : v # u => thread'[v] = thread[v]
    BY <2>3, GotoOK DEF ThreadStates
  <2>5. unit'[u] = s
    BY <2>1, <2>3, StoreStep
  <2>6. ThreadOK(u)'
    BY <2>1, <2>4, <2>5 DEF ThreadOK, Launching, Completing
  <2>7. QED BY <1>1, <2>1, <2>2, <2>3, <2>4, <2>6, TransactionStep
<1>3. CASE ~Admits(unit, u)
  <2>1. UNCHANGED <<durable, history>> /\ Goto(u, "blocked")
    BY <1>3 DEF Consume, durable
  <2>2. QED BY <1>1, <2>1, GotoOK, RestStep DEF ThreadStates, Results, Anywhere
<1>4. QED BY <1>2, <1>3

LEMMA ReplayStep ==
  ASSUME Inv, NEW u \in Units, Replay(u)
  PROVE  Inv'
<1>1. TickOK' /\ UNCHANGED <<durable, history>>
  BY InvFacts DEF Replay, TickOK
<1>2. PICK pc \in {"dispatch", "accepted", "pending"} :
         /\ Goto(u, pc)
         /\ pc = "dispatch" => unit[u].executor = "ready"
         /\ pc = "accepted" => unit[u].executor = "accepted"
  BY DEF Replay
<1>3. /\ thread' \in [Units -> Thread] /\ thread'[u].pc = pc
      /\ \A v \in Units : v # u => thread'[v] = thread[v]
  BY <1>2, GotoOK DEF ThreadStates, Results
<1>4. ThreadOK(u)'
  BY <1>1, <1>2, <1>3 DEF ThreadOK, Launching, Completing, durable
<1>5. QED BY <1>1, <1>3, <1>4, MoveStep

LEMMA BindStep ==
  ASSUME Inv, NEW u \in Units, Bind(u)
  PROVE  Inv'
<1> DEFINE s == BindDeliveryContract(unit[u])
<1>1. TickOK'
  BY InvFacts DEF Bind, TickOK
<1>2. unit[u].executor = "ready" /\ unit[u].state = "ready"
  BY InvFacts, StoreFacts DEF Bind, At, ThreadOK, Launching
<1>3. /\ s \in Unit /\ StoreOK(s) /\ s.state = "ready" /\ s.executor = "ready"
      /\ s.attempts = Attempt(u) /\ s.phase = unit[u].phase
  BY <1>2, InvFacts, BindDeliveryContractOK DEF Attempt
<1>4. Store(u, s) /\ Goto(u, "dispatch") /\ UNCHANGED <<file, refused, history>>
  BY DEF Bind
<1> HIDE DEF s
<1>5. /\ thread' \in [Units -> Thread] /\ thread'[u].pc = "dispatch"
      /\ \A v \in Units : v # u => thread'[v] = thread[v]
  BY <1>4, GotoOK DEF ThreadStates
<1>6. unit'[u] = s
  BY <1>3, <1>4, StoreStep
<1>7. ThreadOK(u)'
  BY <1>3, <1>5, <1>6 DEF ThreadOK, Launching, Completing
<1>8. s.attempts >= Attempt(u)
  BY <1>3, InvFacts, OrdinalsFact
<1>9. QED BY <1>1, <1>2, <1>3, <1>4, <1>5, <1>7, <1>8, TransactionStep

\* A launching unit holds an attempt, has not ended, and has performed nothing.
LEMMA LaunchingFacts ==
  ASSUME Inv, NEW u \in Units, thread[u].pc \in Launching
  PROVE  /\ unit[u].executor = "ready" /\ unit[u].state = "ready"
         /\ Attempt(u) \in Ordinals /\ Attempt(u) \in Nat
         /\ \A b \in Ordinals : AttemptOK(u, b)
<1>1. unit[u].executor = "ready" /\ unit[u].state = "ready"
  BY InvFacts, StoreFacts DEF ThreadOK
<1>2. Attempt(u) \in Ordinals
  BY <1>1, InvFacts, StoreFacts DEF Attempt
<1>3. QED BY <1>1, <1>2, InvFacts, OrdinalsFact DEF Evidence

\* A step that adds a file to the attempt being launched and moves the thread.
LEMMA FileStep ==
  ASSUME Inv, NEW u \in Units, thread[u].pc \in Launching, unit' = unit,
         NEW kind \in Files, Write(u, kind),
         kind = "invocation" \/ "invocation" \in FilesOf(u),
         kind = "task" => started[u][Attempt(u)] = 1,
         refused' \in [Units -> SUBSET Ordinals],
         \A v \in Units : v # u => refused'[v] = refused[v],
         UNCHANGED history,
         thread' \in [Units -> Thread], \A v \in Units : v # u => thread'[v] = thread[v],
         TickOK', ThreadOK(u)'
  PROVE  Inv'
<1>1. /\ unit[u].executor = "ready" /\ unit[u].state = "ready"
      /\ Attempt(u) \in Ordinals /\ \A b \in Ordinals : AttemptOK(u, b)
      /\ Attempt(u) <= Attempt(u)
  BY LaunchingFacts
<1>2. /\ file' \in [Units -> [Ordinals -> SUBSET Files]]
      /\ file'[u][Attempt(u)] = FilesOf(u) \cup {kind}
      /\ \A b \in Ordinals : b # Attempt(u) => file'[u][b] = file[u][b]
      /\ \A v \in Units : v # u => file'[v] = file[v]
  BY <1>1, WriteStep
<1>3. UnitsTyped'
  BY <1>2, InvFacts DEF history, UnitsTyped
<1>4. ASSUME NEW b \in Ordinals
      PROVE  AttemptOK(u, b)'
  <2>1. AttemptOK(u, b)
    BY <1>1
  <2>2. CASE b = Attempt(u)
    BY <1>1, <1>2, <2>1, <2>2 DEF AttemptOK, Attempt, FilesOf, history
  <2>3. CASE b # Attempt(u)
    BY <1>2, <2>1, <2>3 DEF AttemptOK, Attempt, history
  <2>4. QED BY <2>2, <2>3
<1>5. Evidence(u)'
  BY <1>1, <1>4 DEF Evidence
<1>6. StoreOK(unit'[u])
  BY InvFacts
<1>7. QED BY <1>1, <1>2, <1>3, <1>5, <1>6, StepOfUnit DEF history

LEMMA ReadBackStep ==
  ASSUME Inv, NEW u \in Units, ReadBack(u)
  PROVE  Inv'
<1>1. TickOK' /\ thread[u].pc \in Launching /\ UNCHANGED <<unit, refused, history>>
  BY InvFacts DEF ReadBack, TickOK, At, Launching
<1>2. /\ unit[u].executor = "ready" /\ Attempt(u) \in Ordinals
      /\ AttemptOK(u, Attempt(u))
  BY <1>1, LaunchingFacts
<1>3. PICK pc \in {"accept", "blocked", "retry", "reconcile"} :
         /\ Goto(u, pc)
         /\ pc = "accept" => {"task", "receipt"} \subseteq FilesOf(u)
         /\ pc = "retry" => "failure" \in FilesOf(u)
  <2> DEFINE next == IF {"task", "receipt"} \subseteq FilesOf(u) THEN "accept"
                     ELSE IF "task" \in FilesOf(u) THEN "blocked"
                     ELSE IF "failure" \in FilesOf(u) THEN "retry" ELSE "reconcile"
  <2>1. Goto(u, next)
    BY DEF ReadBack
  <2>2. /\ next \in {"accept", "blocked", "retry", "reconcile"}
        /\ next = "accept" => {"task", "receipt"} \subseteq FilesOf(u)
        /\ next = "retry" => "failure" \in FilesOf(u)
    OBVIOUS
  <2> HIDE DEF next
  <2>3. QED BY <2>1, <2>2
<1>4. /\ thread' \in [Units -> Thread] /\ thread'[u].pc = pc
      /\ \A v \in Units : v # u => thread'[v] = thread[v]
  BY <1>3, GotoOK DEF ThreadStates, Results
<1>5. CASE FilesOf(u) = {"invocation"}
  <2>1. Write(u, "recovery") /\ "invocation" \in FilesOf(u)
    BY <1>5 DEF ReadBack
  <2>2. pc \in {"blocked", "reconcile"}
    BY <1>3, <1>5
  <2>3. ThreadOK(u)'
    BY <1>1, <1>2, <1>4, <2>2 DEF ThreadOK, Launching, Completing
  <2>4. QED BY <1>1, <1>4, <2>1, <2>3, FileStep, InvFacts DEF Files, UnitsTyped
<1>6. CASE FilesOf(u) # {"invocation"}
  <2>1. file' = file
    BY <1>6 DEF ReadBack
  <2>2. ThreadOK(u)'
    BY <1>1, <1>2, <1>3, <1>4, <2>1 DEF ThreadOK, Launching, Completing, FilesOf, Attempt
  <2>3. QED BY <1>1, <1>4, <2>1, <2>2, MoveStep DEF durable
<1>7. QED BY <1>5, <1>6

\* An attempt without files has started no process.
LEMMA ReserveStep ==
  ASSUME Inv, NEW u \in Units, Reserve(u)
  PROVE  Inv'
<1>1. TickOK' /\ thread[u].pc \in Launching /\ UNCHANGED <<unit, refused, history>>
  BY InvFacts DEF Reserve, TickOK, At, Launching
<1>2. /\ unit[u].executor = "ready" /\ Attempt(u) \in Ordinals
      /\ AttemptOK(u, Attempt(u)) /\ started[u][Attempt(u)] \in Nat
  BY <1>1, LaunchingFacts, InvFacts DEF UnitsTyped
<1>3. started[u][Attempt(u)] = 0
  BY <1>2 DEF Reserve, AttemptOK, FilesOf
<1>4. /\ thread' \in [Units -> Thread] /\ thread'[u].pc = "spawn"
      /\ \A v \in Units : v # u => thread'[v] = thread[v]
  BY GotoOK DEF Reserve, ThreadStates
<1>5. file'[u][Attempt(u)] = FilesOf(u) \cup {"invocation"}
  BY <1>2, WriteStep DEF Reserve, Files
<1>6. ThreadOK(u)'
  BY <1>1, <1>2, <1>3, <1>4, <1>5
  DEF ThreadOK, Launching, Completing, FilesOf, Attempt, history
<1>7. QED
  BY <1>1, <1>4, <1>6, FileStep, InvFacts DEF Reserve, Files, UnitsTyped

\* The one process of an attempt: its invocation is on disk before it starts.
LEMMA LaunchStep ==
  ASSUME Inv, NEW u \in Units, Launch(u)
  PROVE  Inv'
<1>1. TickOK' /\ thread[u].pc = "spawn" /\ UNCHANGED <<durable, performed>>
  BY InvFacts DEF Launch, TickOK, At
<1>2. /\ unit[u].executor = "ready" /\ unit[u].state = "ready"
      /\ Attempt(u) \in Ordinals /\ \A b \in Ordinals : AttemptOK(u, b)
  BY <1>1, LaunchingFacts DEF Launching
<1>3. started[u][Attempt(u)] = 0 /\ "invocation" \in FilesOf(u)
  BY <1>1, InvFacts DEF ThreadOK
<1>4. /\ thread' \in [Units -> Thread] /\ thread'[u].pc = "process"
      /\ \A v \in Units : v # u => thread'[v] = thread[v]
  BY GotoOK DEF Launch, ThreadStates
<1>5. /\ started' \in [Units -> [Ordinals -> Nat]]
      /\ started'[u][Attempt(u)] = 1
      /\ \A b \in Ordinals : b # Attempt(u) => started'[u][b] = started[u][b]
      /\ \A v \in Units : v # u => started'[v] = started[v]
  <2> DEFINE n == [started[u] EXCEPT ![Attempt(u)] = 1]
  <2>1. started \in [Units -> [Ordinals -> Nat]]
    BY InvFacts DEF UnitsTyped
  <2>2. n \in [Ordinals -> Nat] /\ n[Attempt(u)] = 1
        /\ \A b \in Ordinals : b # Attempt(u) => n[b] = started[u][b]
    BY <1>2, <2>1
  <2>3. started' = [started EXCEPT ![u] = n]
    BY <1>3, <2>1 DEF Launch
  <2> HIDE DEF n
  <2>4. QED BY <2>1, <2>2, <2>3
<1>6. UnitsTyped'
  BY <1>1, <1>4, <1>5, InvFacts DEF UnitsTyped, durable
<1>7. \A b \in Ordinals : AttemptOK(u, b)'
  BY <1>1, <1>2, <1>3, <1>5 DEF AttemptOK, durable, Attempt, FilesOf
<1>8. Evidence(u)' /\ StoreOK(unit'[u])
  BY <1>1, <1>2, <1>7, InvFacts DEF Evidence, durable
<1>9. ThreadOK(u)'
  BY <1>1, <1>2, <1>4, <1>5 DEF ThreadOK, Launching, Completing, durable, Attempt
<1>10. QED BY <1>1, <1>2, <1>4, <1>5, <1>6, <1>8, <1>9, StepOfUnit DEF durable

LEMMA ExitZeroStep ==
  ASSUME Inv, NEW u \in Units, ExitZero(u)
  PROVE  Inv'
<1>1. thread[u].pc = "process" /\ thread[u].pc \in Launching /\ UNCHANGED <<unit, area, history>>
  BY DEF ExitZero, At, Launching
<1>2. /\ unit[u].executor = "ready" /\ Attempt(u) \in Ordinals
      /\ AttemptOK(u, Attempt(u))
  BY <1>1, LaunchingFacts
<1>3. started[u][Attempt(u)] = 1 /\ "invocation" \in FilesOf(u)
  BY <1>1, <1>2, InvFacts DEF ThreadOK, AttemptOK, FilesOf
<1>4. TickOK' /\ refused' \in [Units -> SUBSET Ordinals]
      /\ \A v \in Units : v # u => refused'[v] = refused[v]
  <2>1. refused \in [Units -> SUBSET Ordinals] /\ faults \in 0..MaxFaults
    BY InvFacts DEF UnitsTyped, TickOK
  <2>2. faults' \in 0..MaxFaults
    BY <2>1, FaultOK DEF ExitZero
  <2>3. refused' = refused \/ refused' = [refused EXCEPT ![u] = refused[u] \cup {Attempt(u)}]
    BY DEF ExitZero
  <2>4. refused[u] \cup {Attempt(u)} \in SUBSET Ordinals
    BY <1>2, <2>1
  <2>5. QED BY <1>1, <2>1, <2>2, <2>3, <2>4, InvFacts DEF TickOK
<1>5. /\ thread' \in [Units -> Thread] /\ thread'[u].pc = "seal"
      /\ \A v \in Units : v # u => thread'[v] = thread[v]
  BY GotoOK DEF ExitZero, ThreadStates
<1>6. file'[u][Attempt(u)] = FilesOf(u) \cup {"task"}
  BY <1>2, WriteStep DEF ExitZero, Files
<1>7. ThreadOK(u)'
  BY <1>1, <1>2, <1>5, <1>6 DEF ThreadOK, Launching, Completing, FilesOf, Attempt
<1>8. QED BY <1>1, <1>3, <1>4, <1>5, <1>7, FileStep DEF ExitZero, Files

LEMMA KnownFailureStep ==
  ASSUME Inv, NEW u \in Units, KnownFailure(u)
  PROVE  Inv'
<1>1. thread[u].pc \in {"spawn", "process"} /\ thread[u].pc \in Launching
      /\ UNCHANGED <<unit, refused, area, history>>
  BY DEF KnownFailure, Launching
<1>2. /\ unit[u].executor = "ready" /\ Attempt(u) \in Ordinals
      /\ AttemptOK(u, Attempt(u))
  BY <1>1, LaunchingFacts
<1>3. "invocation" \in FilesOf(u)
  BY <1>1, <1>2, InvFacts DEF ThreadOK, AttemptOK, FilesOf
<1>4. TickOK'
  BY <1>1, InvFacts, FaultOK DEF KnownFailure, TickOK
<1>5. /\ thread' \in [Units -> Thread] /\ thread'[u].pc = "retry"
      /\ \A v \in Units : v # u => thread'[v] = thread[v]
  BY GotoOK DEF KnownFailure, ThreadStates
<1>6. file'[u][Attempt(u)] = FilesOf(u) \cup {"failure"}
  BY <1>2, WriteStep DEF KnownFailure, Files
<1>7. ThreadOK(u)'
  BY <1>1, <1>2, <1>5, <1>6 DEF ThreadOK, Launching, Completing, FilesOf, Attempt
<1>8. QED
  BY <1>1, <1>3, <1>4, <1>5, <1>7, FileStep, InvFacts DEF KnownFailure, Files, UnitsTyped

LEMMA OutcomeLostStep ==
  ASSUME Inv, NEW u \in Units, OutcomeLost(u)
  PROVE  Inv'
<1>1. TickOK' /\ UNCHANGED <<durable, history>>
  BY InvFacts, FaultOK DEF OutcomeLost, TickOK
<1>2. QED BY <1>1, GotoOK, RestStep DEF OutcomeLost, ThreadStates, Results, Anywhere

LEMMA SealStep ==
  ASSUME Inv, NEW u \in Units, Seal(u)
  PROVE  Inv'
<1>1. TickOK' /\ thread[u].pc = "seal" /\ thread[u].pc \in Launching
      /\ UNCHANGED <<unit, refused, history>>
  BY InvFacts DEF Seal, TickOK, At, Launching
<1>2. /\ unit[u].executor = "ready" /\ Attempt(u) \in Ordinals
      /\ AttemptOK(u, Attempt(u))
  BY <1>1, LaunchingFacts
<1>3. "task" \in FilesOf(u) /\ "invocation" \in FilesOf(u)
  BY <1>1, <1>2, InvFacts DEF ThreadOK, AttemptOK, FilesOf
<1>4. /\ thread' \in [Units -> Thread] /\ thread'[u].pc = "accept"
      /\ \A v \in Units : v # u => thread'[v] = thread[v]
  BY GotoOK DEF Seal, ThreadStates
<1>5. file'[u][Attempt(u)] = FilesOf(u) \cup {"receipt"}
  BY <1>2, WriteStep DEF Seal, Files
<1>6. ThreadOK(u)'
  BY <1>1, <1>2, <1>3, <1>4, <1>5 DEF ThreadOK, Launching, Completing, FilesOf, Attempt
<1>7. QED BY <1>1, <1>3, <1>4, <1>6, FileStep, InvFacts DEF Seal, Files, UnitsTyped

LEMMA AcceptStep ==
  ASSUME Inv, NEW u \in Units, Accept(u)
  PROVE  Inv'
<1> DEFINE s == AcceptExecutorDispatch(unit[u])
<1>1. TickOK' /\ thread[u].pc = "accept" /\ thread[u].pc \in Launching
  BY InvFacts DEF Accept, TickOK, At, Launching
<1>2. unit[u].executor = "ready" /\ unit[u].state = "ready" /\ Attempt(u) >= Attempt(u)
  BY <1>1, LaunchingFacts
<1>3. {"task", "receipt"} \subseteq FilesOf(u)
  BY <1>1, InvFacts DEF ThreadOK
<1>4. /\ s \in Unit /\ StoreOK(s) /\ s.state = "running" /\ s.executor = "accepted"
      /\ s.attempts = Attempt(u) /\ s.phase = unit[u].phase
  BY <1>2, InvFacts, AcceptOK DEF Attempt
<1>5. Store(u, s) /\ Goto(u, "accepted") /\ UNCHANGED <<file, refused, history>>
  BY DEF Accept
<1> HIDE DEF s
<1>6. /\ thread' \in [Units -> Thread] /\ thread'[u].pc = "accepted"
      /\ \A v \in Units : v # u => thread'[v] = thread[v]
  BY <1>5, GotoOK DEF ThreadStates, Results
<1>7. unit'[u] = s
  BY <1>4, <1>5, StoreStep
<1>8. ThreadOK(u)'
  BY <1>4, <1>6, <1>7 DEF ThreadOK, Launching, Completing
<1>9. QED BY <1>1, <1>2, <1>3, <1>4, <1>5, <1>6, <1>8, TransactionStep

LEMMA RetryStep ==
  ASSUME Inv, NEW u \in Units, Retry(u)
  PROVE  Inv'
<1> DEFINE s == RetryExecutorDispatch(unit[u])
<1>1. TickOK' /\ thread[u].pc = "retry" /\ thread[u].pc \in Launching
  BY InvFacts DEF Retry, TickOK, At, Launching
<1>2. unit[u].executor = "ready" /\ unit[u].state = "ready" /\ Attempt(u) \in Nat
  BY <1>1, LaunchingFacts
<1>3. /\ s \in Unit /\ StoreOK(s) /\ s.phase = unit[u].phase
      /\ \/ s.state = "ready" /\ s.executor = "ready" /\ s.attempts = Attempt(u) + 1
         \/ s.state = "stopped" /\ s.executor = "exhausted" /\ s.attempts = Attempt(u)
  BY <1>2, InvFacts, RetryExecutorDispatchOK DEF Attempt
<1>4. Store(u, s) /\ UNCHANGED <<file, refused, history>>
  BY DEF Retry
<1> HIDE DEF s
<1>5. PICK pc \in {"rescheduled", "pending"} : Goto(u, pc)
  BY DEF Retry
<1>6. /\ thread' \in [Units -> Thread] /\ thread'[u].pc = pc
      /\ \A v \in Units : v # u => thread'[v] = thread[v]
  BY <1>5, GotoOK DEF ThreadStates, Results
<1>7. ThreadOK(u)'
  BY <1>6 DEF ThreadOK, Launching, Completing
<1>8. s.attempts >= Attempt(u)
  BY <1>2, <1>3
<1>9. QED BY <1>1, <1>2, <1>3, <1>4, <1>6, <1>7, <1>8, TransactionStep

LEMMA ReconcileStep ==
  ASSUME Inv, NEW u \in Units, Reconcile(u)
  PROVE  Inv'
<1> DEFINE s == ReconcileExecutorUnknown(unit[u])
<1>1. TickOK' /\ thread[u].pc = "reconcile" /\ thread[u].pc \in Launching
  BY InvFacts DEF Reconcile, TickOK, At, Launching
<1>2. unit[u].executor = "ready" /\ unit[u].state = "ready" /\ Attempt(u) >= Attempt(u)
  BY <1>1, LaunchingFacts
<1>3. /\ s \in Unit /\ StoreOK(s) /\ s.state = "ready" /\ s.executor = "unknown"
      /\ s.attempts = Attempt(u) /\ s.phase = unit[u].phase
  BY <1>2, InvFacts, ReconcileExecutorUnknownOK DEF Attempt
<1>4. Store(u, s) /\ Goto(u, "pending") /\ UNCHANGED <<file, refused, history>>
  BY DEF Reconcile
<1> HIDE DEF s
<1>5. /\ thread' \in [Units -> Thread] /\ thread'[u].pc = "pending"
      /\ \A v \in Units : v # u => thread'[v] = thread[v]
  BY <1>4, GotoOK DEF ThreadStates, Results
<1>6. ThreadOK(u)'
  BY <1>5 DEF ThreadOK, Launching, Completing
<1>7. QED BY <1>1, <1>2, <1>3, <1>4, <1>5, <1>6, TransactionStep

-----------------------------------------------------------------------------
\* The caller of the pool.

LEMMA VisitedOK ==
  ASSUME Inv, NEW u \in Units
  PROVE  Visited(u) \in SUBSET (Units \X (0..MaxLaunches))
<1>1. area.visited \in SUBSET (Units \X (0..MaxLaunches))
  BY DEF Inv, TypeOK, Area
<1>2. thread[u].visit \in 0..MaxLaunches /\ Attempt(u) \in 0..MaxLaunches
  BY InvFacts DEF Thread
<1>3. QED BY <1>1, <1>2 DEF Visited

LEMMA CollectIncompleteStep ==
  ASSUME Inv, NEW u \in Units, CollectIncomplete(u)
  PROVE  Inv'
<1>1. TickOK'
  BY InvFacts, VisitedOK, WaitsOK, SettledOK DEF CollectIncomplete, TickOK
<1>2. /\ thread' \in [Units -> Thread] /\ thread'[u].pc = "idle"
      /\ \A v \in Units : v # u => thread'[v] = thread[v]
  BY InvFacts, NoThreadOK DEF CollectIncomplete, UnitsTyped
<1>3. QED BY <1>1, <1>2, RestStep DEF CollectIncomplete, Anywhere

LEMMA CollectAcceptedStep ==
  ASSUME Inv, NEW u \in Units, CollectAccepted(u)
  PROVE  Inv'
<1>1. TickOK'
  <2>1. area \in Area /\ Visited(u) \in SUBSET (Units \X (0..MaxLaunches))
    BY InvFacts, VisitedOK DEF TickOK
  <2>2. area' \in Area /\ area'.cycle = area.cycle
    BY <2>1 DEF CollectAccepted, Area
  <2>3. QED BY <2>2, InvFacts DEF CollectAccepted, TickOK
<1>2. /\ thread' \in [Units -> Thread] /\ thread'[u].pc = "advance"
      /\ \A v \in Units : v # u => thread'[v] = thread[v]
  BY GotoOK DEF CollectAccepted, ThreadStates
<1>3. unit[u].executor = "accepted"
  BY InvFacts DEF ThreadOK, CollectAccepted, At, Completing
<1>4. ThreadOK(u)'
  BY <1>2, <1>3 DEF CollectAccepted, ThreadOK, Launching, Completing, durable
<1>5. QED BY <1>1, <1>2, <1>4, MoveStep DEF CollectAccepted

\* advance returns without having written anything.
LEMMA ReturnStep ==
  ASSUME Inv, NEW u \in Units, NEW waits \in [Units -> 0..MaxLaunches], Return(u, waits),
         UNCHANGED <<durable, history>>, faults' \in 0..MaxFaults
  PROVE  Inv'
BY ReturnOK, RestStep DEF TickOK, Anywhere

\* The phase advance has entered, if it is one, is not GREEN.
LEMMA EnteringFacts ==
  ASSUME Inv, NEW u \in Units, Advancing(u) \/ At(u, "perform")
  PROVE  /\ unit[u].executor = "accepted" /\ unit[u].state \in {"running", "verified", "integrated"}
         /\ unit[u].run = unit[u].state
         /\ Attempt(u) \in Ordinals /\ Attempt(u) \in Nat
         /\ {"task", "receipt"} \subseteq FilesOf(u)
         /\ unit[u].state = "integrated" => NextPhase(u, unit[u]) \notin Phases
<1>1. unit[u].executor = "accepted"
  BY InvFacts DEF ThreadOK, Advancing, At, Completing
<1>2. /\ unit[u].state \in {"running", "verified", "integrated"}
      /\ unit[u].run = unit[u].state /\ Attempt(u) \in Ordinals
  BY <1>1, InvFacts, StoreFacts DEF Attempt
<1>3. unit[u].state = "integrated" => NextPhase(u, unit[u]) \notin Phases
  <2>1. \/ NextPhase(u, unit[u]) = "complete"
        \/ PhaseOf(unit[u], NextPhase(u, unit[u])) # "green"
    BY NextPhaseFacts
  <2>2. QED BY <2>1, InvFacts DEF Evidence, Phases
<1>4. QED BY <1>1, <1>2, <1>3, InvFacts, OrdinalsFact DEF Evidence

\* Claiming a phase that was not settled leaves it the next one.
LEMMA ClaimKeepsNext ==
  ASSUME NEW u, NEW s, NEW t,
         \A p \in Phases : (PhaseOf(t, p) = "green") <=> (PhaseOf(s, p) = "green")
  PROVE  NextPhase(u, t) = NextPhase(u, s)
<1> DEFINE open(x) == {i \in 1..8 : PhaseOf(x, PhaseOrder(u)[i]) # "green"}
           entered(S) == IF S = {} THEN "complete"
                         ELSE PhaseOrder(u)[CHOOSE i \in S : \A j \in S : i <= j]
<1>1. \A i \in 1..8 : PhaseOrder(u)[i] \in Phases
  BY PhaseOrderFacts
<1>2. open(t) = open(s)
  BY <1>1
<1>3. NextPhase(u, t) = entered(open(t)) /\ NextPhase(u, s) = entered(open(s))
  BY DEF NextPhase
<1> HIDE DEF entered, open
<1>4. QED BY <1>2, <1>3


\* A phase of the current attempt is claimed or settled; its effect has now been
\* performed once.
LEMMA PhaseStep ==
  ASSUME Inv, NEW u \in Units, NEW p \in Phases, NEW v \in PhaseStates \ {"none"},
         Store(u, SetPhase(unit[u], p, v)),
         unit[u].executor = "accepted", unit[u].state # "integrated",
         UNCHANGED <<file, refused, started>>,
         performed' \in [Units -> [Ordinals -> [Phases -> Nat]]],
         \A w \in Units : w # u => performed'[w] = performed[w],
         performed'[u][Attempt(u)][p] = 1,
         \A b \in Ordinals, q \in Phases :
            b # Attempt(u) \/ q # p => performed'[u][b][q] = performed[u][b][q],
         thread' \in [Units -> Thread], \A w \in Units : w # u => thread'[w] = thread[w],
         TickOK', ThreadOK(u)'
  PROVE  Inv'
<1> DEFINE s == SetPhase(unit[u], p, v)
<1>1. /\ s \in Unit /\ StoreOK(s) /\ s.state = unit[u].state /\ s.executor = unit[u].executor
      /\ s.attempts = Attempt(u) /\ s.phase[Attempt(u)][p] = v
      /\ \A b \in Ordinals, q \in Phases :
            b # Attempt(u) \/ q # p => s.phase[b][q] = unit[u].phase[b][q]
  BY InvFacts, SetPhaseOK DEF Attempt, PhaseOf
<1>2. Store(u, s)
  OBVIOUS
<1> HIDE DEF s
<1>3. /\ unit' \in [Units -> Unit] /\ unit'[u] = s
      /\ \A w \in Units : w # u => unit'[w] = unit[w]
  BY <1>1, <1>2, StoreStep
<1>4. UnitsTyped'
  BY <1>3, InvFacts DEF UnitsTyped
<1>5. \A b \in Ordinals : AttemptOK(u, b)
  BY InvFacts DEF Evidence
<1>6. \A b \in Ordinals, q \in Phases :
         performed'[u][b][q] = IF unit'[u].phase[b][q] = "none" THEN 0 ELSE 1
  <2> SUFFICES ASSUME NEW b \in Ordinals, NEW q \in Phases
               PROVE  performed'[u][b][q] = IF unit'[u].phase[b][q] = "none" THEN 0 ELSE 1
    OBVIOUS
  <2>1. CASE b = Attempt(u) /\ q = p
    <3>1. unit'[u].phase[b][q] = v /\ v # "none" /\ performed'[u][b][q] = 1
      BY <1>1, <1>3, <2>1
    <3>2. QED BY <3>1
  <2>2. CASE b # Attempt(u) \/ q # p
    <3>1. /\ unit'[u].phase[b][q] = unit[u].phase[b][q]
          /\ performed'[u][b][q] = performed[u][b][q]
      BY <1>1, <1>3, <2>2
    <3>2. QED BY <1>5, <3>1 DEF AttemptOK
  <2>3. QED BY <2>1, <2>2
<1>7. Attempt(u)' = Attempt(u)
  BY <1>1, <1>3 DEF Attempt
<1>8. \A b \in Ordinals : AttemptOK(u, b)'
  BY <1>5, <1>6, <1>7 DEF AttemptOK
<1>9. Evidence(u)'
  BY <1>1, <1>3, <1>7, <1>8, InvFacts DEF Evidence, FilesOf
<1>10. QED BY <1>1, <1>3, <1>4, <1>9, StepOfUnit

\* A phase is performed only under a claim that did not exist before.
LEMMA ClaimPhaseStep ==
  ASSUME Inv, NEW u \in Units, NEW p \in Phases, ClaimPhase(u, p)
  PROVE  Inv'
<1> DEFINE a == Attempt(u)
           s == SetPhase(unit[u], p, "claimed")
<1>1. /\ TickOK' /\ Advancing(u) /\ NextPhase(u, unit[u]) = p
      /\ PhaseOf(unit[u], p) = "none" /\ Store(u, s) /\ Goto(u, "perform")
      /\ performed' = [performed EXCEPT ![u][a][p] = @ + 1]
      /\ UNCHANGED <<file, refused, started>>
  BY InvFacts DEF ClaimPhase, TickOK, Entering
<1>2. /\ unit[u].executor = "accepted" /\ unit[u].state # "integrated" /\ a \in Ordinals
  BY <1>1, EnteringFacts
<1>3. performed[u][a][p] = 0
  BY <1>1, <1>2, InvFacts DEF Evidence, AttemptOK, PhaseOf, Attempt
<1>4. /\ performed' \in [Units -> [Ordinals -> [Phases -> Nat]]]
      /\ performed'[u][a][p] = 1
      /\ \A b \in Ordinals, q \in Phases :
            b # a \/ q # p => performed'[u][b][q] = performed[u][b][q]
      /\ \A w \in Units : w # u => performed'[w] = performed[w]
  <2> DEFINE row == [performed[u][a] EXCEPT ![p] = 1]
             n == [performed[u] EXCEPT ![a] = row]
  <2>1. performed \in [Units -> [Ordinals -> [Phases -> Nat]]]
    BY InvFacts DEF UnitsTyped
  <2>2. row \in [Phases -> Nat] /\ row[p] = 1 /\ \A q \in Phases : q # p => row[q] = performed[u][a][q]
    BY <1>2, <2>1
  <2>3. performed' = [performed EXCEPT ![u] = n]
    BY <1>1, <1>3, <2>1
  <2> HIDE DEF row
  <2>4. n \in [Ordinals -> [Phases -> Nat]] /\ n[a] = row
        /\ \A b \in Ordinals : b # a => n[b] = performed[u][b]
    BY <1>2, <2>1, <2>2
  <2> HIDE DEF n
  <2>5. performed'[u] = n /\ performed' \in [Units -> [Ordinals -> [Phases -> Nat]]]
        /\ \A w \in Units : w # u => performed'[w] = performed[w]
    BY <2>1, <2>3, <2>4
  <2>6. QED BY <2>2, <2>4, <2>5
<1>5. /\ thread' \in [Units -> Thread] /\ thread'[u].pc = "perform"
      /\ \A v \in Units : v # u => thread'[v] = thread[v]
  BY <1>1, GotoOK DEF ThreadStates
<1>6. /\ s \in Unit /\ s.executor = "accepted" /\ s.attempts = a /\ PhaseOf(s, p) = "claimed"
      /\ \A q \in Phases : q # p => PhaseOf(s, q) = PhaseOf(unit[u], q)
  <2>1. /\ s \in Unit /\ s.executor = unit[u].executor /\ s.attempts = unit[u].attempts
        /\ PhaseOf(s, p) = "claimed"
        /\ \A b \in Ordinals, q \in Phases :
              b # unit[u].attempts \/ q # p => s.phase[b][q] = unit[u].phase[b][q]
    BY <1>2, InvFacts, SetPhaseOK DEF PhaseStates
  <2> HIDE DEF s
  <2>2. QED BY <1>2, <2>1 DEF Attempt, PhaseOf
<1>7. ThreadOK(u)'
  <2>1. \A q \in Phases : PhaseOf(s, q) = "green" <=> PhaseOf(unit[u], q) = "green"
    BY <1>1, <1>6
  <2> HIDE DEF s
  <2>2. NextPhase(u, s) = p
    BY <1>1, <2>1, ClaimKeepsNext
  <2>3. unit'[u] = s
    BY <1>1, <1>6, StoreStep
  <2>4. QED BY <1>5, <1>6, <2>2, <2>3 DEF ThreadOK, Launching, Completing
<1>8. "claimed" \in PhaseStates \ {"none"}
  BY DEF PhaseStates
<1> HIDE DEF a
<1>9. QED BY <1>1, <1>2, <1>4, <1>5, <1>7, <1>8, PhaseStep DEF a

\* A phase is settled by the thread that has performed it under its claim.
LEMMA SettlePhaseStep ==
  ASSUME Inv, NEW u \in Units, NEW p \in Phases, SettlePhase(u, p)
  PROVE  Inv'
<1>1. PICK v \in PhaseStates \ {"none"} : Store(u, SetPhase(unit[u], p, v))
  BY DEF SettlePhase, PhaseStates
<1>2. /\ faults' \in 0..MaxFaults /\ NextPhase(u, unit[u]) = p /\ At(u, "perform")
      /\ Goto(u, "advance") /\ UNCHANGED <<file, refused, area, history>>
  BY InvFacts, FaultOK DEF SettlePhase, TickOK
<1>3. TickOK'
  BY <1>2, InvFacts DEF TickOK
<1>4. /\ unit[u].executor = "accepted" /\ unit[u].state # "integrated" /\ Attempt(u) \in Ordinals
  BY <1>2, EnteringFacts
<1>5. PhaseOf(unit[u], p) = "claimed"
  BY <1>2, InvFacts DEF ThreadOK, At
<1>6. performed[u][Attempt(u)][p] = 1 /\ performed' = performed /\ started' = started
  BY <1>2, <1>4, <1>5, InvFacts DEF Evidence, AttemptOK, PhaseOf, Attempt, history
<1>7. /\ thread' \in [Units -> Thread] /\ thread'[u].pc = "advance"
      /\ \A w \in Units : w # u => thread'[w] = thread[w]
  BY <1>2, GotoOK DEF ThreadStates
<1>8. unit'[u].executor = "accepted"
  <2>1. SetPhase(unit[u], p, v) \in Unit /\ SetPhase(unit[u], p, v).executor = "accepted"
    BY <1>4, InvFacts, SetPhaseOK
  <2>2. QED BY <1>1, <2>1, StoreStep
<1>9. ThreadOK(u)'
  BY <1>7, <1>8 DEF ThreadOK, Launching, Completing
<1>10. performed \in [Units -> [Ordinals -> [Phases -> Nat]]]
  BY InvFacts DEF UnitsTyped
<1>11. QED
  BY <1>1, <1>2, <1>3, <1>4, <1>6, <1>7, <1>9, <1>10, PhaseStep

\* A RED phase of an attempt whose executor was accepted.
LEMMA RepairOrStopStep ==
  ASSUME Inv, NEW u \in Units, NEW p \in Phases, RepairOrStop(u, p)
  PROVE  Inv'
<1> DEFINE s == RetryCompletion(unit[u])
<1>1. Advancing(u) /\ NextPhase(u, unit[u]) = p /\ Store(u, s) /\ Return(u, NotWaiting(u))
      /\ UNCHANGED <<file, refused, faults, history>>
  BY DEF RepairOrStop, Entering
<1>2. unit[u].executor = "accepted" /\ unit[u].state # "integrated" /\ Attempt(u) \in Nat
  BY <1>1, EnteringFacts
<1>3. /\ s \in Unit /\ StoreOK(s) /\ s.phase = unit[u].phase
      /\ \/ s.state = "ready" /\ s.executor = "ready" /\ s.attempts = Attempt(u) + 1
         \/ s.state = "stopped" /\ s.executor = "exhausted" /\ s.attempts = Attempt(u)
  BY <1>2, InvFacts, RetryCompletionOK DEF Attempt
<1> HIDE DEF s
<1>4. /\ area' \in Area /\ area'.cycle < MaxCycles
      /\ thread' \in [Units -> Thread] /\ thread'[u].pc = "idle"
      /\ \A v \in Units : v # u => thread'[v] = thread[v]
  BY <1>1, ReturnOK, WaitsOK
<1>5. TickOK' /\ ThreadOK(u)' /\ s.attempts >= Attempt(u)
  BY <1>1, <1>2, <1>3, <1>4, InvFacts DEF TickOK, ThreadOK, Launching, Completing
<1>6. QED BY <1>1, <1>2, <1>3, <1>4, <1>5, TransactionStep

LEMMA RecordVerdictStep ==
  ASSUME Inv, NEW u \in Units, RecordVerdict(u)
  PROVE  Inv'
<1> DEFINE s == RecordDeliveryVerdict(unit[u])
<1>1. /\ Advancing(u) /\ NextPhase(u, unit[u]) = "machine_complete"
      /\ UNCHANGED <<file, refused, faults, history>>
  BY DEF RecordVerdict, Entering
<1>2. /\ unit[u].executor = "accepted" /\ unit[u].state # "integrated"
      /\ Attempt(u) >= Attempt(u) /\ {"task", "receipt"} \subseteq FilesOf(u)
  BY <1>1, EnteringFacts DEF Phases
<1>3. CASE unit[u].bound
  <2>1. Store(u, s) /\ UNCHANGED <<thread, area>>
    BY <1>3 DEF RecordVerdict
  <2>2. /\ s \in Unit /\ StoreOK(s) /\ s.phase = unit[u].phase /\ s.executor = "accepted"
        /\ s.attempts = Attempt(u) /\ s.state # "integrated"
    BY <1>2, InvFacts, RecordDeliveryVerdictOK DEF Attempt
  <2> HIDE DEF s
  <2>3. TickOK' /\ thread' \in [Units -> Thread]
    BY <1>1, <2>1, InvFacts DEF TickOK, UnitsTyped
  <2>4. unit'[u] = s /\ thread'[u].pc = "advance"
    BY <1>1, <2>1, <2>2, StoreStep DEF Advancing, At
  <2>5. ThreadOK(u)'
    BY <2>2, <2>4 DEF ThreadOK, Launching, Completing
  <2>6. QED BY <1>1, <1>2, <2>1, <2>2, <2>3, <2>5, TransactionStep
<1>4. CASE ~unit[u].bound
  <2>1. Return(u, NotWaiting(u)) /\ UNCHANGED <<durable, history>>
    BY <1>1, <1>4 DEF RecordVerdict, durable
  <2>2. QED BY <1>1, <2>1, ReturnStep, WaitsOK, InvFacts DEF TickOK
<1>5. QED BY <1>3, <1>4

LEMMA FinishStep ==
  ASSUME Inv, NEW u \in Units, Finish(u)
  PROVE  Inv'
<1> DEFINE s == FinishAttempt(unit[u])
<1>1. /\ Advancing(u) /\ unit[u].run = "running" /\ Store(u, s)
      /\ UNCHANGED <<file, refused, thread, area, faults, history>>
  BY DEF Finish, Entering
<1>2. /\ unit[u].executor = "accepted" /\ unit[u].state # "integrated"
      /\ Attempt(u) >= Attempt(u) /\ {"task", "receipt"} \subseteq FilesOf(u)
  BY <1>1, EnteringFacts
<1>3. /\ s \in Unit /\ StoreOK(s) /\ s.phase = unit[u].phase /\ s.executor = "accepted"
      /\ s.attempts = Attempt(u) /\ s.state = "verified"
  BY <1>2, InvFacts, FinishAttemptOK DEF Attempt
<1> HIDE DEF s
<1>4. TickOK' /\ thread' \in [Units -> Thread]
  BY <1>1, InvFacts DEF TickOK, UnitsTyped
<1>5. unit'[u] = s /\ thread'[u].pc = "advance"
  BY <1>1, <1>3, StoreStep DEF Advancing, At
<1>6. ThreadOK(u)'
  BY <1>3, <1>5 DEF ThreadOK, Launching, Completing
<1>7. QED BY <1>1, <1>2, <1>3, <1>4, <1>6, TransactionStep

\* A unit is integrated with the evidence of its current attempt in hand.
LEMMA IntegrateStep ==
  ASSUME Inv, NEW u \in Units, Integrate(u)
  PROVE  Inv'
<1> DEFINE s == MarkIntegrated(unit[u])
<1>1. /\ Advancing(u) /\ unit[u].run = "verified" /\ Store(u, s) /\ Return(u, NotWaiting(u))
      /\ Attempt(u) \notin refused[u] /\ NextPhase(u, unit[u]) = "complete"
      /\ VerdictAllowsTerminal(unit[u]) /\ UNCHANGED <<file, refused, faults, history>>
  BY DEF Integrate, Entering, CanIntegrate
<1>2. /\ unit[u].executor = "accepted" /\ unit[u].state # "integrated"
      /\ Attempt(u) >= Attempt(u) /\ {"task", "receipt"} \subseteq FilesOf(u)
  BY <1>1, EnteringFacts
<1>3. \A p \in Phases : PhaseOf(unit[u], p) = "green"
  BY <1>1, NextPhaseFacts DEF Phases
<1>4. /\ s \in Unit /\ StoreOK(s) /\ s.phase = unit[u].phase /\ s.executor = "accepted"
      /\ s.attempts = Attempt(u) /\ s.state = "integrated"
      /\ s.bound = unit[u].bound /\ s.verdict = unit[u].verdict
  BY <1>2, InvFacts, MarkIntegratedOK DEF Attempt
<1> HIDE DEF s
<1>5. /\ s.bound /\ s.verdict = s.attempts /\ s.attempts \notin refused[u]
      /\ \A p \in Phases : PhaseOf(s, p) = "green"
  BY <1>1, <1>3, <1>4 DEF VerdictAllowsTerminal, PhaseOf, Attempt
<1>6. /\ area' \in Area /\ area'.cycle < MaxCycles
      /\ thread' \in [Units -> Thread] /\ thread'[u].pc = "idle"
      /\ \A v \in Units : v # u => thread'[v] = thread[v]
  BY <1>1, ReturnOK, WaitsOK
<1>7. TickOK' /\ ThreadOK(u)'
  BY <1>1, <1>6, InvFacts DEF TickOK, ThreadOK, Launching, Completing
<1>8. QED BY <1>1, <1>2, <1>4, <1>5, <1>6, <1>7, TransactionStep

-----------------------------------------------------------------------------
\* The controller, and the invariant.

\* A step of the controller writes no row and no file.
LEMMA ControllerStep ==
  ASSUME Inv, UNCHANGED <<durable, history>>, thread' \in [Units -> Thread], TickOK',
         \A u \in Units : ThreadOK(u)'
  PROVE  Inv'
<1>1. UnitsTyped /\ UnitsTyped'
  BY DEF Inv, TypeOK, UnitsTyped, durable, history
<1>2. \A u \in Units : StoreOK(unit'[u]) /\ Evidence(u)'
  BY DEF Inv, Evidence, AttemptOK, FilesOf, Attempt, durable, history
<1>3. QED BY <1>1, <1>2 DEF Inv, UnitsTyped, TickOK, TypeOK

LEMMA UnlockedOK == Unlocked \in Area /\ Unlocked.cycle < MaxCycles
  BY MaxCyclesAssumption, OrdinalsFact DEF Unlocked, Area

\* Only a unit whose dependencies are integrated is selected.
LEMMA DrainingFacts ==
  ASSUME NEW u \in Draining
  PROVE  u \in Units /\ \A d \in DependsOn[u] : unit[d].state = "integrated"
<1>1. u \in Eligible
  BY DEF Draining, Selected, Largest, Groups
<1>2. QED BY <1>1 DEF Eligible, Candidates

LEMMA TickStep ==
  ASSUME Inv, Tick
  PROVE  Inv'
<1>1. UNCHANGED <<durable, faults, history>>
  BY DEF Tick, StartTick, SelectWave, EndTick
<1>2. area \in Area /\ area.cycle < MaxCycles /\ thread \in [Units -> Thread]
  BY DEF Inv, TypeOK
<1>3. CASE SelectWave
  <2>1. Draining \in SUBSET Units
    BY DrainingFacts
  <2>2. area' \in Area /\ area'.cycle < MaxCycles
    BY <1>2, <1>3, <2>1 DEF SelectWave, Area
  <2>3. ASSUME NEW u \in Units
        PROVE  thread'[u] \in Thread /\ ThreadOK(u)'
    <3>1. CASE u \in Draining
      <4>1. thread'[u] = [pc |-> "consume", visit |-> unit[u].attempts]
        BY <1>3, <3>1 DEF SelectWave
      <4>2. \A d \in DependsOn[u] : unit'[d].state = "integrated"
        BY <1>1, <3>1, DrainingFacts DEF durable
      <4>3. thread'[u] \in Thread /\ thread'[u].pc = "consume"
        BY <4>1, InvFacts DEF Thread, ThreadStates, Attempt
      <4>4. QED BY <4>2, <4>3 DEF ThreadOK, Launching, Completing
    <3>2. CASE u \notin Draining
      <4>1. thread'[u] = NoThread
        BY <1>3, <3>2 DEF SelectWave
      <4>2. QED BY <4>1, NoThreadOK DEF ThreadOK, Launching, Completing
    <3>3. QED BY <3>1, <3>2
  <2>4. thread' = [u \in Units |-> thread'[u]]
    BY <1>3 DEF SelectWave
  <2>5. thread' \in [Units -> Thread]
    BY <2>3, <2>4
  <2>6. TickOK'
    BY <1>1, <2>2 DEF TickOK, Inv, TypeOK
  <2>7. QED BY <1>1, <2>3, <2>5, <2>6, ControllerStep
<1>4. CASE StartTick \/ EndTick
  <2>1. area' \in Area /\ area'.cycle < MaxCycles /\ thread' = thread
    BY <1>2, <1>4, UnlockedOK DEF StartTick, EndTick, Area
  <2>2. TickOK'
    BY <1>1, <2>1 DEF TickOK, Inv, TypeOK
  <2>3. \A u \in Units : ThreadOK(u)'
    BY <1>1, <2>1 DEF Inv, ThreadOK, FilesOf, Attempt, durable, history
  <2>4. QED BY <1>1, <1>2, <2>1, <2>2, <2>3, ControllerStep
<1>5. QED BY <1>3, <1>4 DEF Tick

\* The death of the controller leaves nothing a later tick could misread.
LEMMA CrashStep ==
  ASSUME Inv, Crash
  PROVE  Inv'
<1>1. UNCHANGED <<durable, history>> /\ faults' \in 0..MaxFaults
  BY FaultOK DEF Crash
<1>2. TickOK'
  BY <1>1, UnlockedOK DEF Crash, TickOK
<1>3. thread' \in [Units -> Thread] /\ \A u \in Units : thread'[u].pc = "idle"
  BY NoThreadOK DEF Crash
<1>4. \A u \in Units : ThreadOK(u)'
  BY <1>3 DEF ThreadOK, Launching, Completing
<1>5. QED BY <1>1, <1>2, <1>3, <1>4, ControllerStep

LEMMA ThreadStepOK ==
  ASSUME Inv, NEW u \in Units, ThreadStep(u)
  PROVE  Inv'
BY ConsumeStep, ReplayStep, BindStep, ReadBackStep, ReserveStep, LaunchStep, ExitZeroStep,
   KnownFailureStep, OutcomeLostStep, SealStep, AcceptStep, RetryStep, ReconcileStep
DEF ThreadStep

LEMMA CompletionOK ==
  ASSUME Inv, NEW u \in Units, Completion(u)
  PROVE  Inv'
<1>1. CASE CollectIncomplete(u)
  BY <1>1, CollectIncompleteStep
<1>2. CASE CollectAccepted(u)
  BY <1>2, CollectAcceptedStep
<1>3. CASE CandidateRefused(u)
  BY <1>3, ReturnStep, WaitsOK, InvFacts DEF CandidateRefused, TickOK
<1>4. CASE EffectRaises(u)
  BY <1>4, ReturnStep, WaitsOK, FaultOK DEF EffectRaises
<1>5. CASE WaitForDelivery(u)
  BY <1>5, ReturnStep, WaitsOK, InvFacts DEF WaitForDelivery, TickOK
<1>6. ASSUME NEW p \in Phases, LeaveClaimed(u, p)
      PROVE  Inv'
  BY <1>6, ReturnStep, WaitsOK, InvFacts DEF LeaveClaimed, TickOK
<1>7. CASE RecordVerdict(u) \/ Finish(u) \/ Integrate(u)
  BY <1>7, RecordVerdictStep, FinishStep, IntegrateStep
<1>8. CASE \E p \in Phases : \/ ClaimPhase(u, p) \/ SettlePhase(u, p)
                             \/ LeaveClaimed(u, p) \/ RepairOrStop(u, p)
  BY <1>6, <1>8, ClaimPhaseStep, SettlePhaseStep, RepairOrStopStep
<1>9. QED BY <1>1, <1>2, <1>3, <1>4, <1>5, <1>7, <1>8 DEF Completion

LEMMA InitInv == Init => Inv
<1> SUFFICES ASSUME Init
             PROVE  Inv
  OBVIOUS
<1>1. 0 \in 0..MaxLaunches /\ 0 \in 0..MaxFaults
  BY OrdinalsFact, MaxFaultsAssumption
<1>2. Registered \in Unit
  BY <1>1 DEF Registered, Unit, UnitStates, RunStates, AttemptStates, ExecutorStates, PhaseStates
<1>3. TypeOK
  BY <1>1, <1>2, UnlockedOK, NoThreadOK DEF Init, TypeOK
<1>4. StoreOK(Registered)
  <2>1. RowsAgree(Registered)
    <3>1. \A a \in Ordinals : a > 0 /\ ~(a < 0)
      BY OrdinalsFact DEF Ordinals
    <3>2. QED BY <3>1 DEF Registered, RowsAgree
  <2>2. QED BY <2>1 DEF StoreOK, Registered
<1>5. ASSUME NEW u \in Units
      PROVE  StoreOK(unit[u]) /\ Evidence(u) /\ ThreadOK(u)
  <2>1. unit[u] = Registered /\ thread[u].pc = "idle"
    BY NoThreadOK DEF Init
  <2>2. \A b \in Ordinals : AttemptOK(u, b)
    BY <2>1 DEF Init, AttemptOK, Registered
  <2>3. Evidence(u)
    BY <2>1, <2>2 DEF Evidence, Registered
  <2>4. QED BY <1>4, <2>1, <2>3 DEF ThreadOK, Launching, Completing
<1>6. QED BY <1>3, <1>5, UnlockedOK DEF Init, Inv

LEMMA NextInv ==
  ASSUME Inv, [Next]_vars
  PROVE  Inv'
<1>1. CASE Next
  BY <1>1, TickStep, CrashStep, ThreadStepOK, CompletionOK DEF Next
<1>2. CASE UNCHANGED vars
  BY <1>2, InvFacts, ControllerStep
  DEF vars, durable, history, TickOK, Inv, TypeOK, ThreadOK, FilesOf, Attempt
<1>3. QED BY <1>1, <1>2

\* Every reachable state satisfies the invariant.
LEMMA Invariance == Spec => []Inv
<1>1. Inv /\ [Next]_vars => Inv'
  BY NextInv
<1>2. QED BY <1>1, InitInv, PTL DEF Spec

-----------------------------------------------------------------------------
\* Safety.

\* The rows, the files, the threads and the tick always have their types.
THEOREM TypeCorrect == Spec => []TypeOK
<1>1. Inv => TypeOK
  BY DEF Inv
<1>2. QED BY <1>1, Invariance, PTL

\* The rows written by different transactions of work_unit_store.py never
\* disagree about where a unit is, between any two transactions and after any
\* crash.
THEOREM RowsNeverDisagree == Spec => []StoreAgrees
<1>1. Inv => StoreAgrees
  BY DEF Inv, StoreOK, StoreAgrees
<1>2. QED BY <1>1, Invariance, PTL

\* The launch budget counts what really happened, and no attempt starts a
\* second process (CommandExecutorAdapter.dispatch, retry_executor_dispatch).
THEOREM LaunchesAreCounted == Spec => []LaunchesCounted
<1>1. ASSUME Inv, NEW u \in Units
      PROVE  /\ unit[u].launches = unit[u].attempts - (IF unit[u].executor = "ready" THEN 1 ELSE 0)
             /\ \A a \in Ordinals : /\ started[u][a] <= 1
                                    /\ started[u][a] = 1 => /\ a <= unit[u].attempts
                                                            /\ "invocation" \in file[u][a]
  <2>1. StoreOK(unit[u]) /\ \A a \in Ordinals : AttemptOK(u, a)
    BY <1>1, InvFacts DEF Evidence
  <2>2. unit[u].launches = unit[u].attempts - (IF unit[u].executor = "ready" THEN 1 ELSE 0)
    BY <2>1 DEF StoreOK
  <2>3. \A a \in Ordinals : started[u][a] = 1 => /\ a <= unit[u].attempts
                                                 /\ "invocation" \in file[u][a]
    BY <2>1 DEF AttemptOK, Attempt
  <2>4. QED BY <2>1, <2>2, <2>3 DEF AttemptOK
<1>2. Inv => LaunchesCounted
  BY <1>1 DEF LaunchesCounted
<1>3. QED BY <1>2, Invariance, PTL

\* No phase effect of an attempt is performed twice, however often the tick is
\* repeated (_effect claims before it performs).
THEOREM EffectsPerformedOnce == Spec => []EffectsOnce
<1>1. Inv => EffectsOnce
  BY DEF Inv, Evidence, AttemptOK, EffectsOnce
<1>2. QED BY <1>1, Invariance, PTL

\* A unit is integrated on the evidence of its own last attempt alone
\* (mark_integrated, _delivery_verdict_allows_terminal).
THEOREM OwnEvidence == Spec => []IntegratedOnOwnEvidence
<1>1. ASSUME Inv, NEW u \in Units, unit[u].state = "integrated"
      PROVE  LET a == unit[u].attempts
             IN  /\ started[u][a] = 1
                 /\ {"task", "receipt"} \subseteq file[u][a]
                 /\ a \notin refused[u]
                 /\ \A p \in Phases : unit[u].phase[a][p] = "green" /\ performed[u][a][p] = 1
                 /\ unit[u].bound /\ unit[u].verdict = a
  <2>1. unit[u].executor = "accepted" /\ Attempt(u) \in Ordinals
    BY <1>1, InvFacts, StoreFacts DEF Attempt
  <2>2. AttemptOK(u, Attempt(u)) /\ {"task", "receipt"} \subseteq FilesOf(u)
    BY <1>1, <2>1, InvFacts DEF Evidence
  <2>3. /\ unit[u].bound /\ unit[u].verdict = Attempt(u) /\ Attempt(u) \notin refused[u]
        /\ \A p \in Phases : PhaseOf(unit[u], p) = "green"
    BY <1>1, InvFacts DEF Evidence
  <2>4. QED BY <2>2, <2>3 DEF AttemptOK, FilesOf, Attempt, PhaseOf
<1>2. Inv => IntegratedOnOwnEvidence
  BY <1>1 DEF IntegratedOnOwnEvidence
<1>3. QED BY <1>2, Invariance, PTL

-----------------------------------------------------------------------------
\* What one step does to the rows of the unit it moves.

Active == {"ready", "running", "verified"}
Open == {"ready", "accepted"}       \* the executor statuses a step may follow

Admitted(u) ==
    /\ unit[u].state = "pending" /\ unit'[u].state = "ready"
    /\ unit[u].executor = "none" /\ unit[u].attempts = 0
    /\ Admits(unit, u) /\ \A d \in DependsOn[u] : unit[d].state = "integrated"

Worked(u) ==
    /\ unit[u].state \in Active /\ unit'[u].state \in Active
    /\ unit[u].executor \in Open /\ unit'[u].attempts = unit[u].attempts

\* The attempt is over with a known outcome, and another one or none follows.
Replaced(u) ==
    /\ unit[u].state \in Active /\ unit'[u].state \in {"ready", "stopped"}
    /\ unit[u].executor \in Open
    /\ "failure" \in FilesOf(u) \/ \E p \in Phases : PhaseOf(unit[u], p) = "red"
    /\ \A p \in Phases : PhaseOf(unit[u], p) # "claimed"

Delivered(u) ==
    /\ unit[u].state = "verified" /\ unit'[u].state = "integrated"
    /\ unit[u].executor = "accepted" /\ unit'[u].attempts = unit[u].attempts
    /\ \A d \in DeliveryAfter[u] : unit[d].state = "integrated"

Moved(u) == Admitted(u) \/ Worked(u) \/ Replaced(u) \/ Delivered(u)

\* Only the unit of the step is moved, and no process is started beside a move.
Moves(u) ==
    /\ \A v \in Units \ {u} : unit'[v] = unit[v]
    /\ started' = started
    /\ Moved(u)

\* Rows that stay, with a process started only for an attempt not yet settled.
Stays(u) ==
    /\ unit' = unit
    /\ \A v \in Units \ {u} : started'[v] = started[v]
    /\ unit[u].executor = "ready" \/ started'[u] = started[u]

LEMMA ThreadMoves ==
  ASSUME Inv, NEW u \in Units, ThreadStep(u)
  PROVE  Moves(u) \/ Stays(u)
<1>1. CASE Consume(u) /\ Admits(unit, u)
  <2>1. /\ ConsumeDispatch(unit[u]) \in Unit /\ ConsumeDispatch(unit[u]).state = "ready"
        /\ unit[u].state = "pending" /\ unit[u].attempts = 0
    BY <1>1, InvFacts, ConsumeDispatchOK, StoreFacts DEF Consume
  <2>2. \A d \in DependsOn[u] : unit[d].state = "integrated"
    BY <1>1, InvFacts DEF Consume, At, ThreadOK
  <2>3. Store(u, ConsumeDispatch(unit[u])) /\ unit[u].executor = "none" /\ started' = started
    BY <1>1 DEF Consume, history
  <2>4. unit'[u].state = "ready" /\ \A v \in Units \ {u} : unit'[v] = unit[v]
    BY <2>1, <2>3, StoreStep
  <2>5. QED BY <1>1, <2>1, <2>2, <2>3, <2>4 DEF Moves, Moved, Admitted
<1>2. CASE Bind(u)
  <2>1. /\ unit[u].executor = "ready" /\ unit[u].state = "ready"
    BY <1>2, LaunchingFacts DEF Bind, At, Launching
  <2>2. /\ BindDeliveryContract(unit[u]) \in Unit
        /\ BindDeliveryContract(unit[u]).state = "ready"
        /\ BindDeliveryContract(unit[u]).attempts = unit[u].attempts
    BY <2>1, InvFacts, BindDeliveryContractOK
  <2>3. Store(u, BindDeliveryContract(unit[u])) /\ started' = started
    BY <1>2 DEF Bind, history
  <2>4. unit'[u] = BindDeliveryContract(unit[u]) /\ \A v \in Units \ {u} : unit'[v] = unit[v]
    BY <2>2, <2>3, StoreStep
  <2>5. QED BY <2>1, <2>2, <2>3, <2>4 DEF Moves, Moved, Worked, Active, Open
<1>3. CASE Accept(u)
  <2>1. /\ unit[u].executor = "ready" /\ unit[u].state = "ready"
    BY <1>3, LaunchingFacts DEF Accept, At, Launching
  <2>2. /\ AcceptExecutorDispatch(unit[u]) \in Unit
        /\ AcceptExecutorDispatch(unit[u]).state = "running"
        /\ AcceptExecutorDispatch(unit[u]).attempts = unit[u].attempts
    BY <2>1, InvFacts, AcceptOK
  <2>3. Store(u, AcceptExecutorDispatch(unit[u])) /\ started' = started
    BY <1>3 DEF Accept, history
  <2>4. unit'[u] = AcceptExecutorDispatch(unit[u]) /\ \A v \in Units \ {u} : unit'[v] = unit[v]
    BY <2>2, <2>3, StoreStep
  <2>5. QED BY <2>1, <2>2, <2>3, <2>4 DEF Moves, Moved, Worked, Active, Open
<1>4. CASE Retry(u)
  <2>1. /\ unit[u].executor = "ready" /\ unit[u].state = "ready" /\ Attempt(u) \in Ordinals
    BY <1>4, LaunchingFacts DEF Retry, At, Launching
  <2>2. /\ RetryExecutorDispatch(unit[u]) \in Unit
        /\ RetryExecutorDispatch(unit[u]).state \in {"ready", "stopped"}
    BY <2>1, InvFacts, RetryExecutorDispatchOK
  <2>3. Store(u, RetryExecutorDispatch(unit[u])) /\ started' = started
    BY <1>4 DEF Retry, history
  <2>4. /\ unit'[u].state \in {"ready", "stopped"}
        /\ \A v \in Units \ {u} : unit'[v] = unit[v]
    BY <2>2, <2>3, StoreStep
  <2>5. "failure" \in FilesOf(u)
    BY <1>4, InvFacts DEF Retry, At, ThreadOK
  <2>6. \A p \in Phases : PhaseOf(unit[u], p) # "claimed"
    BY <2>1, InvFacts DEF StoreOK, PhaseOf, Attempt
  <2>7. QED BY <2>1, <2>3, <2>4, <2>5, <2>6 DEF Moves, Moved, Replaced, Active, Open
<1>5. CASE Reconcile(u)
  <2>1. /\ unit[u].executor = "ready" /\ unit[u].state = "ready"
    BY <1>5, LaunchingFacts DEF Reconcile, At, Launching
  <2>2. /\ ReconcileExecutorUnknown(unit[u]) \in Unit
        /\ ReconcileExecutorUnknown(unit[u]).state = "ready"
        /\ ReconcileExecutorUnknown(unit[u]).attempts = unit[u].attempts
    BY <2>1, InvFacts, ReconcileExecutorUnknownOK
  <2>3. Store(u, ReconcileExecutorUnknown(unit[u])) /\ started' = started
    BY <1>5 DEF Reconcile, history
  <2>4. unit'[u] = ReconcileExecutorUnknown(unit[u]) /\ \A v \in Units \ {u} : unit'[v] = unit[v]
    BY <2>2, <2>3, StoreStep
  <2>5. QED BY <2>1, <2>2, <2>3, <2>4 DEF Moves, Moved, Worked, Active, Open
<1>6. CASE Launch(u)
  <2>1. unit[u].executor = "ready" /\ unit' = unit
    BY <1>6, LaunchingFacts DEF Launch, At, Launching, durable
  <2>2. \A v \in Units \ {u} : started'[v] = started[v]
    BY <1>6, InvFacts DEF Launch, UnitsTyped
  <2>3. QED BY <2>1, <2>2 DEF Stays
<1>7. CASE \/ Consume(u) /\ ~Admits(unit, u)
           \/ Replay(u) \/ ReadBack(u) \/ Reserve(u) \/ ExitZero(u)
           \/ KnownFailure(u) \/ OutcomeLost(u) \/ Seal(u)
  <2>1. unit' = unit /\ started' = started
    BY <1>7 DEF Consume, Replay, ReadBack, Reserve, ExitZero, KnownFailure, OutcomeLost, Seal,
                durable, history
  <2>2. QED BY <2>1 DEF Stays
<1>8. QED BY <1>1, <1>2, <1>3, <1>4, <1>5, <1>6, <1>7 DEF ThreadStep

LEMMA CompletionMoves ==
  ASSUME Inv, NEW u \in Units, Completion(u)
  PROVE  Moves(u) \/ Stays(u)
<1>1. ASSUME NEW p \in Phases, NEW v \in PhaseStates, Store(u, SetPhase(unit[u], p, v)),
             NextPhase(u, unit[u]) = p, Advancing(u) \/ At(u, "perform"), started' = started
      PROVE  Moves(u)
  <2>1. unit[u].executor = "accepted" /\ unit[u].state \in Active
    BY <1>1, EnteringFacts DEF Active
  <2>2. /\ SetPhase(unit[u], p, v) \in Unit
        /\ SetPhase(unit[u], p, v).state = unit[u].state
        /\ SetPhase(unit[u], p, v).attempts = unit[u].attempts
    BY <2>1, InvFacts, SetPhaseOK
  <2>3. unit'[u] = SetPhase(unit[u], p, v) /\ \A w \in Units \ {u} : unit'[w] = unit[w]
    BY <1>1, <2>2, StoreStep
  <2>4. QED BY <1>1, <2>1, <2>2, <2>3 DEF Moves, Moved, Worked, Open
<1>2. ASSUME NEW p \in Phases, ClaimPhase(u, p) \/ SettlePhase(u, p)
      PROVE  Moves(u)
  <2>1. PICK v \in PhaseStates : Store(u, SetPhase(unit[u], p, v))
    BY <1>2 DEF ClaimPhase, SettlePhase, PhaseStates
  <2>2. (Advancing(u) \/ At(u, "perform")) /\ started' = started
    BY <1>2 DEF ClaimPhase, SettlePhase, Entering, history
  <2>3. NextPhase(u, unit[u]) = p
    BY <1>2 DEF ClaimPhase, SettlePhase, Entering
  <2>4. QED BY <1>1, <2>1, <2>2, <2>3
<1>3. ASSUME NEW p \in Phases, RepairOrStop(u, p)
      PROVE  Moves(u)
  <2>1. /\ Advancing(u) /\ NextPhase(u, unit[u]) = p /\ PhaseOf(unit[u], p) = "red"
        /\ CanRetryCompletion(unit[u]) /\ Store(u, RetryCompletion(unit[u])) /\ started' = started
    BY <1>3 DEF RepairOrStop, Entering, history
  <2>2. unit[u].executor = "accepted" /\ unit[u].state \in Active
    BY <2>1, EnteringFacts DEF Active
  <2>3. /\ RetryCompletion(unit[u]) \in Unit
        /\ RetryCompletion(unit[u]).state \in {"ready", "stopped"}
    BY <2>2, InvFacts, RetryCompletionOK
  <2>4. /\ unit'[u].state \in {"ready", "stopped"}
        /\ \A v \in Units \ {u} : unit'[v] = unit[v]
    BY <2>1, <2>3, StoreStep
  <2>5. QED BY <2>1, <2>2, <2>4 DEF Moves, Moved, Replaced, Open, CanRetryCompletion
<1>4. CASE RecordVerdict(u) /\ unit[u].bound
  <2>1. /\ Advancing(u) /\ NextPhase(u, unit[u]) \in Phases
        /\ Store(u, RecordDeliveryVerdict(unit[u])) /\ started' = started
    BY <1>4 DEF RecordVerdict, Entering, history, Phases
  <2>2. unit[u].executor = "accepted" /\ unit[u].state \in Active
    BY <2>1, EnteringFacts DEF Active
  <2>3. /\ RecordDeliveryVerdict(unit[u]) \in Unit
        /\ RecordDeliveryVerdict(unit[u]).state = unit[u].state
        /\ RecordDeliveryVerdict(unit[u]).attempts = unit[u].attempts
    BY InvFacts, RecordDeliveryVerdictOK
  <2>4. unit'[u] = RecordDeliveryVerdict(unit[u]) /\ \A v \in Units \ {u} : unit'[v] = unit[v]
    BY <2>1, <2>3, StoreStep
  <2>5. QED BY <2>1, <2>2, <2>3, <2>4 DEF Moves, Moved, Worked, Open
<1>5. CASE Finish(u)
  <2>1. /\ Advancing(u) /\ unit[u].run = "running"
        /\ Store(u, FinishAttempt(unit[u])) /\ started' = started
    BY <1>5 DEF Finish, Entering, history
  <2>2. unit[u].executor = "accepted" /\ unit[u].state \in Active
    BY <2>1, EnteringFacts DEF Active
  <2>3. /\ FinishAttempt(unit[u]) \in Unit
        /\ FinishAttempt(unit[u]).state = "verified"
        /\ FinishAttempt(unit[u]).attempts = unit[u].attempts
    BY <2>2, InvFacts, FinishAttemptOK
  <2>4. unit'[u] = FinishAttempt(unit[u]) /\ \A v \in Units \ {u} : unit'[v] = unit[v]
    BY <2>1, <2>3, StoreStep
  <2>5. QED BY <2>1, <2>2, <2>3, <2>4 DEF Moves, Moved, Worked, Open, Active
<1>6. CASE Integrate(u)
  <2>1. /\ Advancing(u) /\ unit[u].run = "verified" /\ DeliveryPending(unit, u) = {}
        /\ Store(u, MarkIntegrated(unit[u])) /\ started' = started
    BY <1>6 DEF Integrate, Entering, CanIntegrate, history
  <2>2. unit[u].executor = "accepted" /\ unit[u].state = "verified"
    BY <2>1, EnteringFacts
  <2>3. /\ MarkIntegrated(unit[u]) \in Unit
        /\ MarkIntegrated(unit[u]).state = "integrated"
        /\ MarkIntegrated(unit[u]).attempts = unit[u].attempts
    BY <2>2, InvFacts, MarkIntegratedOK
  <2>4. unit'[u] = MarkIntegrated(unit[u]) /\ \A v \in Units \ {u} : unit'[v] = unit[v]
    BY <2>1, <2>3, StoreStep
  <2>5. \A d \in DeliveryAfter[u] : unit[d].state = "integrated"
    BY <2>1 DEF DeliveryPending, IsIntegrated
  <2>6. QED BY <2>1, <2>2, <2>3, <2>4, <2>5 DEF Moves, Moved, Delivered
<1>7. CASE \/ CollectIncomplete(u) \/ CollectAccepted(u) \/ CandidateRefused(u)
           \/ EffectRaises(u) \/ WaitForDelivery(u) \/ (RecordVerdict(u) /\ ~unit[u].bound)
  <2>1. unit' = unit /\ started' = started
    BY <1>7 DEF CollectIncomplete, CollectAccepted, CandidateRefused, EffectRaises,
                WaitForDelivery, RecordVerdict, durable, history
  <2>2. QED BY <2>1 DEF Stays
<1>8. ASSUME NEW p \in Phases, LeaveClaimed(u, p)
      PROVE  Stays(u)
  BY <1>8 DEF LeaveClaimed, Stays, durable, history
<1>9. CASE \E p \in Phases : \/ ClaimPhase(u, p) \/ SettlePhase(u, p)
                             \/ LeaveClaimed(u, p) \/ RepairOrStop(u, p)
  BY <1>2, <1>3, <1>8, <1>9
<1>10. QED
  <2>1. \/ CollectIncomplete(u) \/ CollectAccepted(u) \/ CandidateRefused(u)
        \/ EffectRaises(u) \/ WaitForDelivery(u) \/ RecordVerdict(u)
        \/ Finish(u) \/ Integrate(u)
        \/ \E p \in Phases : \/ ClaimPhase(u, p) \/ SettlePhase(u, p)
                             \/ LeaveClaimed(u, p) \/ RepairOrStop(u, p)
    BY DEF Completion
  <2>2. QED BY <1>4, <1>5, <1>6, <1>7, <1>9, <2>1

LEMMA StepMoves ==
  ASSUME Inv, [Next]_vars
  PROVE  \/ unit' = unit /\ started' = started
         \/ \E u \in Units : Moves(u) \/ Stays(u)
<1>1. CASE Tick \/ Crash \/ UNCHANGED vars
  BY <1>1 DEF Tick, StartTick, SelectWave, EndTick, Crash, durable, history, vars
<1>2. CASE \E u \in Units : ThreadStep(u) \/ Completion(u)
  BY <1>2, ThreadMoves, CompletionMoves
<1>3. QED BY <1>1, <1>2 DEF Next

\* A new attempt replaces only one whose outcome is known, and a unit whose
\* executor outcome is unknown is never touched again (retry_executor_dispatch,
\* retry_completion, reconcile_executor_unknown).
THEOREM OutcomeKnownBeforeRetry == Spec => KnownOutcomeBeforeRetry
<1> DEFINE Kept(u) ==
              LET a == unit[u].attempts
              IN  /\ unit[u].executor = "unknown" => UNCHANGED <<unit[u], started[u]>>
                  /\ a > 0 /\ unit'[u].attempts > a =>
                        /\ \/ "failure" \in file[u][a]
                           \/ \E p \in Phases : unit[u].phase[a][p] = "red"
                        /\ \A p \in Phases : unit[u].phase[a][p] # "claimed"
<1>1. ASSUME Inv, NEW u \in Units, unit'[u] = unit[u],
             started'[u] = started[u] \/ unit[u].executor = "ready"
      PROVE  Kept(u)
  <2>1. unit[u].attempts \in Nat
    BY <1>1, InvFacts, OrdinalsFact DEF Unit
  <2>2. ~(unit'[u].attempts > unit[u].attempts)
    BY <1>1, <2>1
  <2>3. QED BY <1>1, <2>2
<1>2. ASSUME Inv, NEW u \in Units, Moved(u)
      PROVE  Kept(u)
  <2>1. unit[u].attempts \in Nat /\ unit[u].executor # "unknown"
    BY <1>2, InvFacts, OrdinalsFact DEF Unit, Moved, Admitted, Worked, Replaced, Delivered, Open
  <2>2. CASE Admitted(u)
    BY <2>1, <2>2 DEF Admitted
  <2>3. CASE Worked(u) \/ Delivered(u)
    <3>1. ~(unit'[u].attempts > unit[u].attempts)
      BY <2>1, <2>3 DEF Worked, Delivered
    <3>2. QED BY <2>1, <3>1
  <2>4. CASE Replaced(u)
    BY <2>1, <2>4 DEF Replaced, FilesOf, Attempt, PhaseOf
  <2>5. QED BY <1>2, <2>2, <2>3, <2>4 DEF Moved
<1>3. ASSUME Inv, [Next]_vars, NEW u \in Units
      PROVE  Kept(u)
  <2>1. CASE unit' = unit /\ started' = started
    BY <1>1, <1>3, <2>1
  <2>2. ASSUME NEW v \in Units, Moves(v)
        PROVE  Kept(u)
    <3>1. CASE u = v
      BY <1>2, <1>3, <2>2, <3>1 DEF Moves
    <3>2. CASE u # v
      BY <1>1, <1>3, <2>2, <3>2 DEF Moves
    <3>3. QED BY <3>1, <3>2
  <2>3. ASSUME NEW v \in Units, Stays(v)
        PROVE  Kept(u)
    BY <1>1, <1>3, <2>3 DEF Stays
  <2>4. QED BY <1>3, <2>1, <2>2, <2>3, StepMoves
<1>4. Inv /\ [Next]_vars => [\A u \in Units : Kept(u)]_vars
  BY <1>3
<1>5. QED BY <1>4, Invariance, PTL DEF Spec, KnownOutcomeBeforeRetry

-----------------------------------------------------------------------------
\* The refinement of DeliveryWave.

StageOf == [u \in Units |-> Stage(unit[u])]

LEMMA StageFacts ==
  ASSUME Inv, NEW u \in Units
  PROVE  /\ Stage(unit[u]) = "active" <=> unit[u].state \in Active
         /\ Stage(unit[u]) = "active" <=> Occupies(unit[u])
         /\ Stage(unit[u]) = "waiting" <=> unit[u].state = "pending"
         /\ Stage(unit[u]) = "delivered" <=> unit[u].state = "integrated"
<1>1. unit[u].state \in UnitStates
  BY InvFacts DEF Unit
<1>2. QED BY <1>1 DEF Stage, UnitStates, Active, Occupies

\* The instance brings its own copy of FiniteSets.
LEMMA WaveCardinality ==
  ASSUME NEW S
  PROVE  Wave!Cardinality(S) = Cardinality(S)
BY DEF Wave!Cardinality, Cardinality

LEMMA StageStep ==
  ASSUME Inv, Inv', NEW u \in Units, \A v \in Units \ {u} : unit'[v] = unit[v],
         NEW stage, Stage(unit'[u]) = stage
  PROVE  StageOf' = [StageOf EXCEPT ![u] = stage]
BY DEF StageOf

LEMMA WaveStep ==
  ASSUME Inv, Inv', NEW u \in Units, \A v \in Units \ {u} : unit'[v] = unit[v], Moved(u)
  PROVE  Wave!Next \/ StageOf' = StageOf
<1>1. CASE Admitted(u)
  <2>1. StageOf[u] = "waiting" /\ \A d \in DependsOn[u] : StageOf[d] = "delivered"
    BY <1>1, StageFacts, DependsOnAssumption DEF Admitted, StageOf
  <2>2. Wave!Active = {v \in Units \ {u} : Occupies(unit[v])}
    <3>1. \A v \in Units : StageOf[v] = "active" <=> (v # u /\ Occupies(unit[v]))
      BY <1>1, StageFacts DEF StageOf, Admitted, Occupies
    <3>2. QED BY <3>1 DEF Wave!Active, StageOf
  <2>3. Stage(unit'[u]) = "active"
    BY <1>1 DEF Admitted, Stage
  <2>4. StageOf' = [StageOf EXCEPT ![u] = "active"]
    BY <2>3, StageStep
  <2>5. Cardinality(Wave!Active) < MaxWorkers /\ \A v \in Wave!Active : <<u, v>> \notin Overlaps
    <3>1. LET others == {v \in Units \ {u} : Occupies(unit[v])}
          IN  /\ Cardinality(others) < MaxWorkers
              /\ \A v \in others : <<u, v>> \notin Overlaps
      BY <1>1 DEF Admitted, Admits
    <3>2. QED BY <2>2, <3>1
  <2>7. Wave!Admit(u)
    BY <2>1, <2>4, <2>5, WaveCardinality DEF Wave!Admit, StageOf
  <2>8. QED BY <2>7 DEF Wave!Next
<1>2. CASE Worked(u)
  <2>1. Stage(unit'[u]) = "active" /\ Stage(unit[u]) = "active"
    BY <1>2 DEF Worked, Stage, Active
  <2>2. \A v \in Units : Stage(unit'[v]) = Stage(unit[v])
    BY <2>1
  <2>3. QED BY <2>2 DEF StageOf
<1>3. CASE Replaced(u)
  <2>1. Stage(unit[u]) = "active"
    BY <1>3, StageFacts DEF Replaced
  <2>2. CASE unit'[u].state = "ready"
    <3>1. Stage(unit'[u]) = "active"
      BY <2>2 DEF Stage
    <3>2. QED BY <2>1, <3>1 DEF StageOf
  <2>3. CASE unit'[u].state = "stopped"
    <3>1. Stage(unit'[u]) = "stopped"
      BY <2>3 DEF Stage
    <3>2. StageOf' = [StageOf EXCEPT ![u] = "stopped"]
      BY <3>1, StageStep
    <3>3. Wave!Stop(u)
      BY <2>1, <3>2 DEF Wave!Stop, StageOf
    <3>4. QED BY <3>3 DEF Wave!Next
  <2>4. QED BY <1>3, <2>2, <2>3 DEF Replaced
<1>4. CASE Delivered(u)
  <2>1. Stage(unit[u]) = "active" /\ Stage(unit'[u]) = "delivered"
    BY <1>4 DEF Delivered, Stage
  <2>2. \A d \in DeliveryAfter[u] : StageOf[d] = "delivered"
    BY <1>4, StageFacts, DeliveryAfterAssumption DEF Delivered, StageOf
  <2>3. StageOf' = [StageOf EXCEPT ![u] = "delivered"]
    BY <2>1, StageStep
  <2>4. Wave!Deliver(u)
    BY <2>1, <2>2, <2>3 DEF Wave!Deliver, StageOf
  <2>5. QED BY <2>4 DEF Wave!Next
<1>5. QED BY <1>1, <1>2, <1>3, <1>4 DEF Moved

\* Whatever the executors, phases, ticks and crashes do, each unit is admitted
\* to a slot, delivered or stopped as DeliveryWave allows (consume_dispatch,
\* mark_integrated, retry_completion, retry_executor_dispatch).
THEOREM TaskAreaImplementsWave == Spec => ImplementsWave
<1>1. Init => Wave!Init
  <2> SUFFICES ASSUME Init
               PROVE  Wave!Init
    OBVIOUS
  <2>1. \A u \in Units : Stage(unit[u]) = "waiting"
    BY DEF Init, Registered, Stage
  <2>2. QED BY <2>1 DEF Wave!Init
<1>2. Inv /\ Inv' /\ [Next]_vars => [Wave!Next]_StageOf
  <2> SUFFICES ASSUME Inv, Inv', [Next]_vars
               PROVE  Wave!Next \/ StageOf' = StageOf
    OBVIOUS
  <2>1. CASE unit' = unit
    BY <2>1 DEF StageOf
  <2>2. ASSUME NEW u \in Units, Moves(u)
        PROVE  Wave!Next \/ StageOf' = StageOf
    BY <2>2, WaveStep DEF Moves
  <2>3. QED BY <2>1, <2>2, StepMoves DEF Stays
<1>3. QED
  BY <1>1, <1>2, Invariance, PTL DEF Spec, ImplementsWave, Wave!Spec, StageOf
=============================================================================
