------------------------ MODULE ExternalVerdictProofs ------------------------
(***************************************************************************)
(* The theorems of ExternalVerdict: the tables of the run, what a parked   *)
(* and a verified run stand for, and that RunContract is implemented, for  *)
(* any processes, operation keys, conclusions and crashes.                 *)
(***************************************************************************)
EXTENDS ExternalVerdict, RunStoreProofs, FiniteSetTheorems

-----------------------------------------------------------------------------
(***************************************************************************)
(* The inductive invariant.                                                *)
(***************************************************************************)

InAttempt == {"working", "executed", "performed", "offered", "failed", "receipted"}
Finisher == {"closing", "committing"}

\* Some action of this run has succeeded outside.
SomeSuccess == \E d \in performed : answer[d] = "success"

\* The row of the run names the operation and the attempt that parked it.
VerdictOK ==
    /\ verdict.state # "absent" => verdict.op \in performed /\ verdict.by \in Ordinals
    /\ verdict.state = "verified" => SomeSuccess

\* What a process inside an attempt has done so far; two never share one.
AttemptOK(p) ==
    /\ p.at \in InAttempt => p.ordinal \in 1..db.attempts
    /\ p.at \in {"executed", "performed", "offered"} =>
          p.op \in Diffs /\ p.outcome = "awaiting_external_verdict"
    /\ p.at \in {"performed", "offered"} => p.op \in performed
    /\ p.at = "offered" => verdict.state # "absent"
    /\ p.at = "failed" => p.outcome # "awaiting_external_verdict"
    /\ p.at = "receipted" /\ p.outcome = "awaiting_external_verdict" =>
          /\ asked[p.ordinal] = p.op
          /\ p.op \in performed
          /\ verdict.state # "absent"

\* What a process that finishes the run has read and written.
FinishOK(p) ==
    /\ p.at \in {"polled", "landed"} => verdict.state # "absent"
    /\ p.at = "polled" => p.op \in Diffs /\ answer[p.op] = p.conclusion
    /\ p.at = "landed" /\ p.conclusion = "success" => SomeSuccess
    /\ p.at \in Finisher => ready # {} /\ SomeSuccess

Distinct ==
    \A v, w \in Workers :
        v # w /\ worker[v].at \in InAttempt /\ worker[w].at \in InAttempt =>
            worker[v].ordinal # worker[w].ordinal

\* A parked run belongs to no process any more.
ParkedOK ==
    IsParked(db) =>
        /\ asked[db.attempts] \in performed
        /\ verdict.state # "absent"
        /\ \A w \in Workers : worker[w].at \in InAttempt => worker[w].ordinal # db.attempts

VerifiedOK == db.state = "verified" => ready # {} /\ SomeSuccess

OwnRecord == \E b \in ready : b.attempt = db.attempts

\* A process that works alone knows more: the row of the run is always the one
\* its own last attempt parked.
AloneOK(p) ==
    /\ verdict.state = "verified" => answer[verdict.op] = "success"
    /\ IsParked(db) => verdict.op = asked[db.attempts]
    /\ p.at \in InAttempt => db.state = "running" /\ p.ordinal = db.attempts
    /\ p.at = "offered" => verdict.op = p.op
    /\ p.at = "receipted" /\ p.outcome = "awaiting_external_verdict" =>
          verdict.op = p.op
    /\ p.at = "polled" => verdict.state = "awaiting" /\ verdict.op = p.op
    /\ p.at = "landed" /\ p.conclusion = "success" => verdict.state = "verified"
    /\ p.at \in Finisher =>
          /\ db.state \in {"awaiting_external_verdict", "verified"}
          /\ verdict.state = "verified"
          /\ OwnRecord
    /\ db.state = "verified" =>
          /\ asked[db.attempts] # NoOp
          /\ answer[asked[db.attempts]] = "success"
          /\ OwnRecord

Inv ==
    /\ TypeOK
    /\ StoreOK(db)
    /\ db.binding = "green"
    /\ \A d \in Diffs : answer[d] # "none" => d \in performed
    /\ VerdictOK
    /\ \A w \in Workers : AttemptOK(worker[w]) /\ FinishOK(worker[w])
    /\ Distinct
    /\ ParkedOK
    /\ VerifiedOK
    /\ \A w \in Workers : crew \cup Pollers = {w} => AloneOK(worker[w])

-----------------------------------------------------------------------------
\* Facts about who acts.

LEMMA ActorsWork ==
  ASSUME TypeOK, NEW w \in crew \cup Pollers
  PROVE  /\ w \in Workers
         /\ \A v \in Workers : crew \cup Pollers = {v} => v = w
BY DEF TypeOK, Workers

LEMMA AttemptStepsFact ==
  /\ InAttempt \subseteq Steps /\ Finisher \subseteq Steps
  /\ InAttempt \cap Finisher = {}
  /\ \A i \in {"idle", "recovered", "leased", "ready", "releasing", "polled", "landed", "rejecting"} :
        i \notin InAttempt /\ i \notin Finisher
BY DEF InAttempt, Finisher, Steps

LEMMA AtRestFact == AtRest \in Local /\ AtRest.at = "idle"
BY MaxAttemptsAssumption DEF AtRest, Local, Steps, Ops, Conclusions, Outcomes

-----------------------------------------------------------------------------
\* The initial states.

LEMMA InitialInv == Init => Inv
<1> SUFFICES ASSUME Init PROVE Inv
  OBVIOUS
<1>1. db = CreateRun("green") /\ "green" \in Bindings
  BY DEF Init, Bindings
<1>2. db \in Run /\ StoreOK(db) /\ db.binding = "green" /\ db.state = "queued" /\ db.attempts = 0
  BY <1>1, CreateRunOK DEF CreateRun
<1>3. \A w \in Workers : worker[w] = AtRest
  BY DEF Init
<1>4. TypeOK
  <2>1. lease \in [holder: Workers \cup {Nobody, Gone}, live: BOOLEAN]
    BY DEF Init
  <2>2. files \in [Ordinals -> Receipts] /\ asked \in [Ordinals -> Ops]
    BY DEF Init, Receipts, Ops
  <2>3. performed \subseteq Diffs /\ answer \in [Diffs -> Conclusions \cup {"none"}]
    BY DEF Init
  <2>4. verdict \in Verdict /\ ready \subseteq [attempt: Ordinals, op: Diffs, by: Ordinals]
    BY MaxAttemptsAssumption DEF Init, Verdict, Ops
  <2>5. worker \in [Workers -> Local]
    BY AtRestFact DEF Init
  <2>6. crew \in Crews /\ crashes \in 0..MaxCrashes
    BY MaxCrashesAssumption DEF Init
  <2>7. QED BY <1>2, <2>1, <2>2, <2>3, <2>4, <2>5, <2>6 DEF TypeOK
<1>5. (\A d \in Diffs : answer[d] # "none" => d \in performed) /\ VerdictOK /\ verdict.state = "absent"
  BY DEF Init, VerdictOK
<1>6. \A w \in Workers : AttemptOK(worker[w]) /\ FinishOK(worker[w]) /\ AloneOK(worker[w])
  BY <1>2, <1>3, <1>5, AtRestFact DEF AttemptOK, FinishOK, AloneOK, InAttempt, Finisher, IsParked
<1>7. Distinct /\ ParkedOK /\ VerifiedOK
  BY <1>2, <1>3, AtRestFact DEF Distinct, ParkedOK, VerifiedOK, IsParked, InAttempt
<1>8. QED BY <1>2, <1>4, <1>5, <1>6, <1>7 DEF Inv

-----------------------------------------------------------------------------
\* Steps that change the progress of one process and no shared fact.

LEMMA WorkerStep ==
  ASSUME Inv, TypeOK', NEW w \in crew \cup Pollers, NEW new \in Local,
         worker' = [worker EXCEPT ![w] = new],
         UNCHANGED <<db, asked, performed, answer, verdict, ready, crew>>,
         new.at \in InAttempt => worker[w].at \in InAttempt /\ new.ordinal = worker[w].ordinal,
         AttemptOK(new), FinishOK(new), crew \cup Pollers = {w} => AloneOK(new)
  PROVE  Inv'
<1>1. w \in Workers /\ \A v \in Workers : crew \cup Pollers = {v} => v = w
  BY ActorsWork DEF Inv
<1>2. worker'[w] = new /\ \A v \in Workers : v # w => worker'[v] = worker[v]
  BY <1>1 DEF Inv, TypeOK
<1>3. StoreOK(db)' /\ (db.binding = "green")' /\ (\A d \in Diffs : answer[d] # "none" => d \in performed)'
  BY DEF Inv
<1>4. VerdictOK' /\ VerifiedOK'
  BY DEF Inv, VerdictOK, VerifiedOK, SomeSuccess
<1>5. (\A v \in Workers : AttemptOK(worker[v]) /\ FinishOK(worker[v]))'
  <2>1. \A v \in Workers : AttemptOK(worker'[v]) /\ FinishOK(worker'[v])
    BY <1>2 DEF Inv
  <2>2. QED BY <2>1 DEF AttemptOK, FinishOK, SomeSuccess
<1>6. Distinct'
  BY <1>1, <1>2 DEF Inv, Distinct
<1>7. ParkedOK'
  BY <1>1, <1>2 DEF Inv, ParkedOK, IsParked
<1>8. (\A v \in Workers : crew \cup Pollers = {v} => AloneOK(worker[v]))'
  <2>1. ASSUME NEW v \in Workers, crew \cup Pollers = {v} PROVE AloneOK(worker'[v])
    BY <1>1, <1>2, <2>1
  <2>2. QED BY <2>1 DEF AloneOK, OwnRecord, IsParked
<1>9. QED BY <1>3, <1>4, <1>5, <1>6, <1>7, <1>8 DEF Inv

\* A process that is in no attempt and finishes nothing has nothing to answer for.
Quiet == {"idle", "recovered", "leased", "ready", "releasing", "rejecting"}

LEMMA QuietOK ==
  ASSUME Inv, NEW w \in crew \cup Pollers, NEW new \in Local, new.at \in Quiet
  PROVE  /\ AttemptOK(new) /\ FinishOK(new)
         /\ new.at \notin InAttempt
         /\ crew \cup Pollers = {w} => AloneOK(new)
<1>1. new.at \notin InAttempt /\ new.at \notin Finisher /\ new.at # "polled" /\ new.at # "landed"
  BY DEF Quiet, InAttempt, Finisher
<1>2. AttemptOK(new) /\ FinishOK(new)
  BY <1>1 DEF AttemptOK, FinishOK, InAttempt
<1>3. ASSUME crew \cup Pollers = {w} PROVE AloneOK(new)
  <2>1. AloneOK(worker[w])
    BY <1>3, ActorsWork DEF Inv
  <2>2. QED BY <1>1, <2>1 DEF AloneOK, InAttempt
<1>4. QED BY <1>1, <1>2, <1>3

\* Such a step changes nothing but the process itself and perhaps its lease.
LEMMA QuietStep ==
  ASSUME Inv, NEW w \in crew \cup Pollers, NEW new \in Local, new.at \in Quiet,
         worker' = [worker EXCEPT ![w] = new],
         lease' \in [holder: Workers \cup {Nobody, Gone}, live: BOOLEAN],
         crashes' \in 0..MaxCrashes,
         UNCHANGED <<db, files, asked, performed, answer, verdict, ready, crew>>
  PROVE  Inv'
<1>1. w \in Workers
  BY ActorsWork DEF Inv
<1>2. TypeOK'
  BY <1>1 DEF Inv, TypeOK
<1>3. QED BY <1>2, QuietOK, WorkerStep

\* A step that leaves the run neither parked nor verified, by a process that
\* then has nothing left to do for the attempt.
LEMMA ClosedStep ==
  ASSUME Inv, NEW w \in crew \cup Pollers, NEW new \in Local, new.at \in Quiet,
         worker' = [worker EXCEPT ![w] = new],
         lease' \in [holder: Workers \cup {Nobody, Gone}, live: BOOLEAN],
         UNCHANGED <<files, asked, performed, answer, verdict, ready, crew, crashes>>,
         db' \in Run, StoreOK(db'), db'.attempts = db.attempts, db'.binding = db.binding,
         db'.state \notin {"awaiting_external_verdict", "verified"}
  PROVE  Inv'
<1>1. w \in Workers /\ \A v \in Workers : crew \cup Pollers = {v} => v = w
  BY ActorsWork DEF Inv
<1>2. worker'[w] = new /\ \A v \in Workers : v # w => worker'[v] = worker[v]
  BY <1>1 DEF Inv, TypeOK
<1>3. /\ AttemptOK(new) /\ FinishOK(new) /\ new.at \notin InAttempt /\ new.at \notin Finisher
      /\ new.at # "polled" /\ new.at # "landed"
      /\ crew \cup Pollers = {w} => AloneOK(new)
  BY QuietOK DEF Quiet, Finisher
<1>4. TypeOK'
  BY <1>1 DEF Inv, TypeOK
<1>5. (\A d \in Diffs : answer[d] # "none" => d \in performed)' /\ (db.binding = "green")' /\ VerdictOK'
  BY DEF Inv, VerdictOK, SomeSuccess
<1>6. (\A v \in Workers : AttemptOK(worker[v]) /\ FinishOK(worker[v]))'
  <2>1. \A v \in Workers : AttemptOK(worker'[v]) /\ FinishOK(worker'[v])
    BY <1>2, <1>3 DEF Inv
  <2>2. QED BY <2>1 DEF AttemptOK, FinishOK, SomeSuccess
<1>7. Distinct'
  BY <1>1, <1>2, <1>3 DEF Inv, Distinct
<1>8. ParkedOK' /\ VerifiedOK'
  BY DEF ParkedOK, VerifiedOK, IsParked
<1>9. ASSUME NEW v \in Workers, crew' \cup Pollers = {v} PROVE AloneOK(worker[v])'
  <2>1. v = w /\ AloneOK(new)
    BY <1>1, <1>3, <1>9
  <2>2. QED BY <1>2, <1>3, <2>1 DEF AloneOK, IsParked, InAttempt
<1>10. QED BY <1>4, <1>5, <1>6, <1>7, <1>8, <1>9 DEF Inv

\* What Goto and Rest leave the process with.
LEMMA GotoFact ==
  ASSUME Inv, NEW w \in crew \cup Pollers, NEW step \in Steps, Goto(w, step)
  PROVE  \E new \in Local : /\ new = [worker[w] EXCEPT !.at = step]
                            /\ new.at = step /\ new.op = worker[w].op
                            /\ new.ordinal = worker[w].ordinal /\ new.fence = worker[w].fence
                            /\ new.conclusion = worker[w].conclusion
                            /\ new.outcome = worker[w].outcome
                            /\ worker' = [worker EXCEPT ![w] = new]
<1> DEFINE new == [worker[w] EXCEPT !.at = step]
<1>1. worker[w] \in Local
  BY ActorsWork DEF Inv, TypeOK
<1>2. /\ new \in Local
      /\ new.at = step /\ new.op = worker[w].op
      /\ new.ordinal = worker[w].ordinal /\ new.fence = worker[w].fence
      /\ new.conclusion = worker[w].conclusion
      /\ new.outcome = worker[w].outcome
  BY <1>1 DEF Local
<1>3. worker' = [worker EXCEPT ![w] = new]
  BY DEF Goto
<1> HIDE DEF new
<1>4. new = [worker[w] EXCEPT !.at = step]
  BY DEF new
<1>5. QED BY <1>2, <1>3, <1>4

LEMMA QuietFact == Quiet \subseteq Steps /\ AtRest \in Local /\ AtRest.at \in Quiet
BY AtRestFact DEF Quiet, Steps

\* A process that rests or goes to a quiet step, and changes at most the lease.
LEMMA QuietMove ==
  ASSUME Inv, NEW w \in crew \cup Pollers,
         Rest(w) \/ \E step \in Quiet : Goto(w, step),
         lease' \in [holder: Workers \cup {Nobody, Gone}, live: BOOLEAN],
         crashes' \in 0..MaxCrashes,
         UNCHANGED <<db, files, asked, performed, answer, verdict, ready, crew>>
  PROVE  Inv'
<1>1. CASE Rest(w)
  BY <1>1, QuietFact, QuietStep DEF Rest
<1>2. ASSUME NEW step \in Quiet, Goto(w, step) PROVE Inv'
  <2>1. PICK new \in Local : new.at = step /\ worker' = [worker EXCEPT ![w] = new]
    BY <1>2, GotoFact, QuietFact
  <2>2. QED BY <1>2, <2>1, QuietStep
<1>3. QED BY <1>1, <1>2

\* The same for a step that closes the open attempt.
LEMMA ClosedMove ==
  ASSUME Inv, NEW w \in crew \cup Pollers,
         Rest(w) \/ \E step \in Quiet : Goto(w, step),
         lease' \in [holder: Workers \cup {Nobody, Gone}, live: BOOLEAN],
         UNCHANGED <<files, asked, performed, answer, verdict, ready, crew, crashes>>,
         db' \in Run, StoreOK(db'), db'.attempts = db.attempts, db'.binding = db.binding,
         db'.state \notin {"awaiting_external_verdict", "verified"}
  PROVE  Inv'
<1>1. CASE Rest(w)
  BY <1>1, QuietFact, ClosedStep DEF Rest
<1>2. ASSUME NEW step \in Quiet, Goto(w, step) PROVE Inv'
  <2>1. PICK new \in Local : new.at = step /\ worker' = [worker EXCEPT ![w] = new]
    BY <1>2, GotoFact, QuietFact
  <2>2. QED BY <1>2, <2>1, ClosedStep
<1>3. QED BY <1>1, <1>2

-----------------------------------------------------------------------------
\* tick_async.

LEMMA RecoverStaleRunInv ==
  ASSUME Inv, NEW w \in crew \cup Pollers, RecoverStaleRun(w) PROVE Inv'
<1>1. Goto(w, "recovered") /\ "recovered" \in Quiet
  BY DEF RecoverStaleRun, Quiet
<1>2. UNCHANGED <<files, asked, performed, answer, verdict, ready, crew, crashes>>
  BY DEF RecoverStaleRun, outside
<1>3. CASE CanReconcile(db) /\ ~lease.live
  <2>1. db' = Reconcile(db, files) /\ lease' = [holder |-> Nobody, live |-> FALSE]
    BY <1>3 DEF RecoverStaleRun
  <2>2. db \in Run /\ StoreOK(db) /\ files \in [Ordinals -> Receipts]
    BY DEF Inv, TypeOK
  <2>3. db' \in Run /\ StoreOK(db')
    BY <1>3, <2>1, <2>2, ReconcileOK
  <2>4. /\ db'.attempts = db.attempts /\ db'.binding = db.binding
        /\ db'.state \in {"human_required", "stopped", "retry_pending"}
    BY <2>1, <2>2 DEF Reconcile, UpdateRow, AfterFailure, Run
  <2>5. QED BY <1>1, <1>2, <2>1, <2>3, <2>4, ClosedMove
<1>4. CASE ~(CanReconcile(db) /\ ~lease.live)
  <2>1. UNCHANGED <<db, lease>>
    BY <1>4 DEF RecoverStaleRun
  <2>2. QED BY <1>1, <1>2, <2>1, QuietMove DEF Inv, TypeOK
<1>5. QED BY <1>3, <1>4

LEMMA AcquireLeaseInv ==
  ASSUME Inv, NEW w \in crew \cup Pollers, AcquireLease(w) PROVE Inv'
<1>1. Rest(w) \/ \E step \in Quiet : Goto(w, step)
  BY DEF AcquireLease, Quiet
<1>2. lease' \in [holder: Workers \cup {Nobody, Gone}, live: BOOLEAN]
  <2>1. w \in Workers
    BY ActorsWork DEF Inv
  <2>2. lease \in [holder: Workers \cup {Nobody, Gone}, live: BOOLEAN]
    BY DEF Inv, TypeOK
  <2>3. lease' = lease \/ lease' = [holder |-> w, live |-> TRUE]
    BY DEF AcquireLease
  <2>4. [holder |-> w, live |-> TRUE] \in [holder: Workers \cup {Nobody, Gone}, live: BOOLEAN]
    BY <2>1
  <2>5. CASE lease' = lease
    BY <2>2, <2>5
  <2>6. CASE lease' = [holder |-> w, live |-> TRUE]
    BY <2>4, <2>6
  <2>7. QED BY <2>3, <2>5, <2>6
<1>3. UNCHANGED <<db, files, asked, performed, answer, verdict, ready, crew, crashes>>
  BY DEF AcquireLease, outside
<1>4. QED BY <1>1, <1>2, <1>3, QuietMove DEF Inv, TypeOK

LEMMA ReadRunInv ==
  ASSUME Inv, NEW w \in crew \cup Pollers, ReadRun(w) PROVE Inv'
<1>1. \E step \in Quiet : Goto(w, step)
  BY DEF ReadRun, Quiet
<1>2. UNCHANGED <<db, lease, files, asked, performed, answer, verdict, ready, crew, crashes>>
  BY DEF ReadRun, outside
<1>3. QED BY <1>1, <1>2, QuietMove DEF Inv, TypeOK

LEMMA ReleaseLeaseInv ==
  ASSUME Inv, NEW w \in crew \cup Pollers, ReleaseLease(w) PROVE Inv'
<1>1. Rest(w) /\ UNCHANGED <<db, files, asked, performed, answer, verdict, ready, crew, crashes>>
  BY DEF ReleaseLease, outside
<1>2. lease' \in [holder: Workers \cup {Nobody, Gone}, live: BOOLEAN]
  BY DEF ReleaseLease, Inv, TypeOK
<1>3. QED BY <1>1, <1>2, QuietMove DEF Inv, TypeOK

LEMMA AbandonAttemptInv ==
  ASSUME Inv, NEW w \in crew \cup Pollers, AbandonAttempt(w) PROVE Inv'
<1>1. \E step \in Quiet : Goto(w, step)
  BY DEF AbandonAttempt, Quiet
<1>2. UNCHANGED <<db, lease, files, asked, performed, answer, verdict, ready, crew, crashes>>
  BY DEF AbandonAttempt, outside
<1>3. QED BY <1>1, <1>2, QuietMove DEF Inv, TypeOK

LEMMA CrashInv ==
  ASSUME Inv, NEW w \in crew \cup Pollers, Crash(w) PROVE Inv'
<1>1. Rest(w) /\ UNCHANGED <<db, files, asked, performed, answer, verdict, ready, crew>>
  BY DEF Crash, outside
<1>2. lease' \in [holder: Workers \cup {Nobody, Gone}, live: BOOLEAN] /\ crashes' \in 0..MaxCrashes
  BY MaxCrashesAssumption DEF Crash, Inv, TypeOK
<1>3. QED BY <1>1, <1>2, QuietMove

\* begin_attempt gives the process an ordinal no other process has.
LEMMA BeginAttemptInv ==
  ASSUME Inv, NEW w \in crew \cup Pollers, Begin(w), db.state \in Executable, BudgetLeft(db)
  PROVE  Inv'
<1> DEFINE n == db.attempts + 1
           new == [worker[w] EXCEPT !.at = "working", !.ordinal = n, !.fence = db.fence + 1]
<1>1. db \in Run /\ StoreOK(db) /\ worker[w] \in Local /\ w \in Workers
      /\ \A v \in Workers : crew \cup Pollers = {v} => v = w
  BY ActorsWork DEF Inv, TypeOK
<1>2. db' = BeginAttempt(db) /\ worker' = [worker EXCEPT ![w] = new]
      /\ UNCHANGED <<lease, files, asked, performed, answer, verdict, ready, crew, crashes>>
  BY DEF Begin, NextOrdinal, outside
<1>3. db.attempts \in Nat /\ n \in Ordinals /\ n \in 0..MaxAttempts /\ db.fence + 1 \in Nat
  BY <1>1, OrdinalsFact DEF BudgetLeft, NextOrdinal, EffectiveMaxAttempts, Run, Ordinals
<1>4. db' \in Run /\ StoreOK(db') /\ db'.state = "running" /\ db'.attempts = n /\ db'.binding = "green"
  BY <1>1, <1>2, BeginAttemptOK DEF BeginAttempt, Run, Inv
<1>5. new \in Local /\ new.at = "working" /\ new.ordinal = n
  BY <1>1, <1>3 DEF Local, Steps
<1> HIDE DEF new
<1>6. worker'[w] = new /\ \A v \in Workers : v # w => worker'[v] = worker[v]
  BY <1>1, <1>2 DEF Inv, TypeOK
<1>7. TypeOK'
  BY <1>1, <1>2, <1>4, <1>5 DEF Inv, TypeOK
<1>8. (\A d \in Diffs : answer[d] # "none" => d \in performed)' /\ VerdictOK'
  BY <1>2 DEF Inv, VerdictOK, SomeSuccess
<1>9. ASSUME NEW v \in Workers PROVE AttemptOK(worker[v])' /\ FinishOK(worker[v])'
  <2>1. CASE v = w
    <3>1. AttemptOK(worker[v])'
      BY <1>3, <1>4, <1>5, <1>6, <2>1 DEF AttemptOK
    <3>2. FinishOK(worker[v])'
      BY <1>5, <1>6, <2>1 DEF FinishOK, Finisher
    <3>3. QED BY <3>1, <3>2
  <2>2. CASE v # w
    <3>1. AttemptOK(worker[v]) /\ FinishOK(worker[v]) /\ worker'[v] = worker[v]
      BY <1>6, <2>2 DEF Inv
    <3>2. worker[v].ordinal \in 1..db.attempts => worker[v].ordinal \in 1..db'.attempts
      BY <1>3, <1>4
    <3>3. AttemptOK(worker[v])'
      BY <1>2, <3>1, <3>2 DEF AttemptOK
    <3>4. FinishOK(worker[v])'
      BY <1>2, <3>1 DEF FinishOK, SomeSuccess
    <3>5. QED BY <3>3, <3>4
  <2>3. QED BY <2>1, <2>2
<1>10. Distinct'
  <2>1. \A v \in Workers : worker[v].at \in InAttempt => worker[v].ordinal # n
    BY <1>3 DEF Inv, AttemptOK
  <2>2. QED BY <1>5, <1>6, <2>1 DEF Inv, Distinct
<1>11. ParkedOK' /\ VerifiedOK'
  BY <1>4 DEF ParkedOK, VerifiedOK, IsParked
<1>12. ASSUME NEW v \in Workers, crew' \cup Pollers = {v} PROVE AloneOK(worker[v])'
  <2>1. v = w /\ AloneOK(worker[w])
    BY <1>1, <1>2, <1>12 DEF Inv
  <2>2. QED BY <1>2, <1>4, <1>5, <1>6, <2>1 DEF AloneOK, IsParked, Finisher
<1>13. QED BY <1>4, <1>7, <1>8, <1>9, <1>10, <1>11, <1>12 DEF Inv

LEMMA BeginInv ==
  ASSUME Inv, NEW w \in crew \cup Pollers, Begin(w) PROVE Inv'
<1>1. CASE db.state \in Executable /\ BudgetLeft(db)
  BY <1>1, BeginAttemptInv
<1>2. CASE db.state \in Executable /\ ~BudgetLeft(db)
  <2>1. db' = ExhaustBudget(db) /\ Goto(w, "releasing") /\ "releasing" \in Quiet
        /\ UNCHANGED <<lease, files, asked, performed, answer, verdict, ready, crew, crashes>>
    BY <1>2 DEF Begin, Quiet, outside
  <2>2. db \in Run /\ StoreOK(db)
    BY DEF Inv, TypeOK
  <2>3. db' \in Run /\ StoreOK(db')
    BY <1>2, <2>1, <2>2, ExhaustBudgetOK
  <2>4. db'.attempts = db.attempts /\ db'.binding = db.binding /\ db'.state = "human_required"
    BY <2>1, <2>2 DEF ExhaustBudget, Run
  <2>5. lease' \in [holder: Workers \cup {Nobody, Gone}, live: BOOLEAN]
    BY <2>1 DEF Inv, TypeOK
  <2>6. QED BY <2>1, <2>3, <2>4, <2>5, ClosedMove
<1>3. CASE db.state \notin Executable
  <2>1. Goto(w, "releasing") /\ "releasing" \in Quiet
        /\ UNCHANGED <<db, lease, files, asked, performed, answer, verdict, ready, crew, crashes>>
    BY <1>3 DEF Begin, Quiet, outside
  <2>2. QED BY <2>1, QuietMove DEF Inv, TypeOK
<1>4. QED BY <1>1, <1>2, <1>3

LEMMA ExecuteInv ==
  ASSUME Inv, NEW w \in crew \cup Pollers, Execute(w) PROVE Inv'
<1>1. worker[w] \in Local /\ w \in Workers /\ worker[w].at = "working"
      /\ AttemptOK(worker[w]) /\ (crew \cup Pollers = {w} => AloneOK(worker[w]))
  BY ActorsWork DEF Inv, TypeOK, Execute, At
<1>2. UNCHANGED <<db, lease, files, asked, performed, answer, verdict, ready, crew, crashes>>
  BY DEF Execute, outside
<1>3. ASSUME NEW new \in Local, worker' = [worker EXCEPT ![w] = new],
             new.ordinal = worker[w].ordinal,
             \/ /\ new.at = "executed" /\ new.op \in Diffs
                /\ new.outcome = "awaiting_external_verdict"
             \/ new.at = "failed" /\ new.outcome # "awaiting_external_verdict"
      PROVE  Inv'
  <2>1. TypeOK'
    BY <1>1, <1>2, <1>3 DEF Inv, TypeOK
  <2>2. new.at \in InAttempt /\ worker[w].at \in InAttempt /\ new.at \notin Finisher
    BY <1>1, <1>3 DEF InAttempt, Finisher
  <2>3. AttemptOK(new) /\ FinishOK(new)
    BY <1>1, <1>3, <2>2 DEF AttemptOK, FinishOK
  <2>4. crew \cup Pollers = {w} => AloneOK(new)
    BY <1>1, <1>3, <2>2 DEF AloneOK
  <2>5. QED BY <1>2, <1>3, <2>1, <2>2, <2>3, <2>4, WorkerStep
<1>4. ASSUME NEW d \in Diffs,
             worker' = [worker EXCEPT
                          ![w] = [@ EXCEPT !.at = "executed", !.op = d,
                                           !.outcome = "awaiting_external_verdict"]]
      PROVE  Inv'
  <2> DEFINE new == [worker[w] EXCEPT !.at = "executed", !.op = d,
                                      !.outcome = "awaiting_external_verdict"]
  <2>1. /\ new \in Local /\ new.at = "executed" /\ new.op \in Diffs
        /\ new.outcome = "awaiting_external_verdict" /\ new.ordinal = worker[w].ordinal
    BY <1>1 DEF Local, Steps, Ops, Outcomes
  <2>2. worker' = [worker EXCEPT ![w] = new]
    BY <1>4
  <2> HIDE DEF new
  <2>3. QED BY <1>3, <2>1, <2>2
<1>5. ASSUME NEW o \in {AfterFailure(db, worker[w].ordinal),
                        AfterRedDelivery(db, worker[w].ordinal), "human_required"},
             worker' = [worker EXCEPT ![w] = [@ EXCEPT !.at = "failed", !.outcome = o]]
      PROVE  Inv'
  <2> DEFINE new == [worker[w] EXCEPT !.at = "failed", !.outcome = o]
  <2>1. o \in Outcomes \ {"awaiting_external_verdict"}
    BY <1>5 DEF AfterFailure, AfterRedDelivery, Outcomes
  <2>2. /\ new \in Local /\ new.at = "failed" /\ new.outcome # "awaiting_external_verdict"
        /\ new.ordinal = worker[w].ordinal
    BY <1>1, <2>1 DEF Local, Steps
  <2>3. worker' = [worker EXCEPT ![w] = new]
    BY <1>5
  <2> HIDE DEF new
  <2>4. QED BY <1>3, <2>2, <2>3
<1>6. QED BY <1>4, <1>5 DEF Execute

LEMMA PerformActionInv ==
  ASSUME Inv, NEW w \in crew \cup Pollers, PerformAction(w) PROVE Inv'
<1>1. worker[w] \in Local /\ w \in Workers /\ worker[w].at = "executed"
      /\ AttemptOK(worker[w]) /\ (crew \cup Pollers = {w} => AloneOK(worker[w]))
      /\ \A v \in Workers : crew \cup Pollers = {v} => v = w
  BY ActorsWork DEF Inv, TypeOK, PerformAction, At
<1>2. UNCHANGED <<db, lease, files, asked, answer, verdict, ready, crew, crashes>>
  BY DEF PerformAction
<1>3. worker[w].op \in Diffs /\ worker[w].outcome = "awaiting_external_verdict"
      /\ worker[w].at \in InAttempt
  BY <1>1 DEF AttemptOK, InAttempt
<1>4. CASE performed' = performed \cup {worker[w].op} /\ Goto(w, "performed")
  <2>1. PICK new \in Local : /\ new.at = "performed" /\ new.op = worker[w].op
                             /\ new.ordinal = worker[w].ordinal
                             /\ new.outcome = worker[w].outcome
                             /\ worker' = [worker EXCEPT ![w] = new]
    BY <1>4, GotoFact DEF Steps
  <2>2. worker'[w] = new /\ \A v \in Workers : v # w => worker'[v] = worker[v]
    BY <1>1, <2>1 DEF Inv, TypeOK
  <2>3. new.at \in InAttempt /\ new.at \notin Finisher
    BY <2>1 DEF InAttempt, Finisher
  <2>4. performed \subseteq performed' /\ worker[w].op \in performed' /\ performed' \subseteq Diffs
    BY <1>3, <1>4 DEF Inv, TypeOK
  <2>5. TypeOK'
    BY <1>1, <1>2, <2>1, <2>4 DEF Inv, TypeOK
  <2>6. StoreOK(db)' /\ (db.binding = "green")'
        /\ (\A d \in Diffs : answer[d] # "none" => d \in performed)' /\ (SomeSuccess => SomeSuccess')
    BY <1>2, <2>4 DEF Inv, SomeSuccess
  <2>7. VerdictOK' /\ VerifiedOK'
    BY <1>2, <2>4, <2>6 DEF Inv, VerdictOK, VerifiedOK
  <2>8. ASSUME NEW v \in Workers PROVE AttemptOK(worker[v])' /\ FinishOK(worker[v])'
    <3>1. CASE v = w
      BY <1>1, <1>2, <1>3, <2>1, <2>2, <2>3, <2>4, <3>1 DEF AttemptOK, FinishOK
    <3>2. CASE v # w
      <4>1. AttemptOK(worker[v]) /\ FinishOK(worker[v]) /\ worker'[v] = worker[v]
        BY <2>2, <3>2 DEF Inv
      <4>2. QED BY <1>2, <2>4, <2>6, <4>1 DEF AttemptOK, FinishOK
    <3>3. QED BY <3>1, <3>2
  <2>9. Distinct'
    BY <1>3, <2>1, <2>2 DEF Inv, Distinct
  <2>10. ParkedOK'
    BY <1>2, <1>3, <2>1, <2>2, <2>4 DEF Inv, ParkedOK, IsParked
  <2>11. ASSUME NEW v \in Workers, crew' \cup Pollers = {v} PROVE AloneOK(worker[v])'
    <3>1. v = w /\ AloneOK(worker[w])
      BY <1>1, <1>2, <2>11
    <3>2. QED BY <1>2, <1>3, <2>1, <2>2, <2>3, <3>1 DEF AloneOK, IsParked, OwnRecord
  <2>12. QED BY <2>5, <2>6, <2>7, <2>8, <2>9, <2>10, <2>11 DEF Inv
<1>5. CASE /\ worker' = [worker EXCEPT
                           ![w] = [@ EXCEPT !.at = "failed", !.op = NoOp,
                                            !.outcome = AfterFailure(db, worker[w].ordinal)]]
           /\ UNCHANGED performed
  <2> DEFINE new == [worker[w] EXCEPT !.at = "failed", !.op = NoOp,
                                      !.outcome = AfterFailure(db, worker[w].ordinal)]
  <2>1. AfterFailure(db, worker[w].ordinal) \in Outcomes \ {"awaiting_external_verdict"}
    BY DEF AfterFailure, Outcomes
  <2>2. /\ new \in Local /\ new.at = "failed" /\ new.outcome # "awaiting_external_verdict"
        /\ new.ordinal = worker[w].ordinal
    BY <1>1, <2>1 DEF Local, Steps, Ops
  <2>3. worker' = [worker EXCEPT ![w] = new]
    BY <1>5
  <2> HIDE DEF new
  <2>4. TypeOK'
    BY <1>1, <1>2, <1>5, <2>2, <2>3 DEF Inv, TypeOK
  <2>5. new.at \in InAttempt /\ new.at \notin Finisher
    BY <2>2 DEF InAttempt, Finisher
  <2>6. AttemptOK(new) /\ FinishOK(new)
    BY <1>1, <1>3, <2>2, <2>5 DEF AttemptOK, FinishOK
  <2>7. crew \cup Pollers = {w} => AloneOK(new)
    BY <1>1, <1>3, <2>2, <2>5 DEF AloneOK
  <2>8. QED BY <1>2, <1>3, <1>5, <2>2, <2>3, <2>4, <2>5, <2>6, <2>7, WorkerStep
<1>6. QED BY <1>4, <1>5 DEF PerformAction

\* The row of the run now names this operation and this attempt.
LEMMA ParkVerdictInv ==
  ASSUME Inv, NEW w \in crew \cup Pollers, ParkVerdict(w) PROVE Inv'
<1>1. worker[w] \in Local /\ w \in Workers /\ worker[w].at = "performed"
      /\ AttemptOK(worker[w]) /\ (crew \cup Pollers = {w} => AloneOK(worker[w]))
      /\ \A v \in Workers : crew \cup Pollers = {v} => v = w
  BY ActorsWork DEF Inv, TypeOK, ParkVerdict, At
<1>2. UNCHANGED <<db, lease, files, asked, performed, answer, ready, crew, crashes>>
      /\ verdict' = [state |-> "awaiting", op |-> worker[w].op, by |-> worker[w].ordinal]
      /\ Goto(w, "offered")
  BY DEF ParkVerdict, outside
<1>3. worker[w].op \in Diffs /\ worker[w].outcome = "awaiting_external_verdict"
      /\ worker[w].at \in InAttempt /\ worker[w].op \in performed
      /\ worker[w].ordinal \in 1..db.attempts
  BY <1>1 DEF AttemptOK, InAttempt
<1>4. PICK new \in Local : /\ new.at = "offered" /\ new.op = worker[w].op
                           /\ new.ordinal = worker[w].ordinal
                           /\ new.outcome = worker[w].outcome
                           /\ worker' = [worker EXCEPT ![w] = new]
  BY <1>2, GotoFact DEF Steps
<1>5. worker'[w] = new /\ \A v \in Workers : v # w => worker'[v] = worker[v]
  BY <1>1, <1>4 DEF Inv, TypeOK
<1>6. new.at \in InAttempt /\ new.at \notin Finisher
  BY <1>4 DEF InAttempt, Finisher
<1>7. worker[w].ordinal \in Ordinals /\ worker[w].ordinal \in 0..MaxAttempts
  BY <1>1, <1>3, OrdinalsFact DEF Inv, TypeOK, Run, Ordinals
<1>8. /\ verdict' \in Verdict /\ verdict'.state = "awaiting" /\ verdict'.op = worker[w].op
      /\ verdict'.by = worker[w].ordinal
  BY <1>2, <1>3, <1>7 DEF Verdict, Ops
<1>9. TypeOK'
  BY <1>1, <1>2, <1>4, <1>8 DEF Inv, TypeOK
<1>10. StoreOK(db)' /\ (db.binding = "green")'
       /\ (\A d \in Diffs : answer[d] # "none" => d \in performed)' /\ VerifiedOK'
  BY <1>2 DEF Inv, VerifiedOK, SomeSuccess
<1>11. VerdictOK'
  BY <1>2, <1>3, <1>7, <1>8 DEF VerdictOK
<1>12. ASSUME NEW v \in Workers PROVE AttemptOK(worker[v])' /\ FinishOK(worker[v])'
  <2>1. CASE v = w
    BY <1>1, <1>2, <1>3, <1>4, <1>5, <1>6, <1>8, <2>1 DEF AttemptOK, FinishOK
  <2>2. CASE v # w
    <3>1. AttemptOK(worker[v]) /\ FinishOK(worker[v]) /\ worker'[v] = worker[v]
      BY <1>5, <2>2 DEF Inv
    <3>2. AttemptOK(worker[v])'
      BY <1>2, <1>8, <3>1 DEF AttemptOK
    <3>3. FinishOK(worker[v])'
      BY <1>2, <1>8, <3>1 DEF FinishOK, SomeSuccess
    <3>4. QED BY <3>2, <3>3
  <2>3. QED BY <2>1, <2>2
<1>13. Distinct'
  BY <1>3, <1>4, <1>5 DEF Inv, Distinct
<1>14. ParkedOK'
  BY <1>2, <1>3, <1>4, <1>5, <1>8 DEF Inv, ParkedOK, IsParked
<1>15. ASSUME NEW v \in Workers, crew' \cup Pollers = {v} PROVE AloneOK(worker[v])'
  <2>1. v = w /\ AloneOK(worker[w])
    BY <1>1, <1>2, <1>15
  <2>2. db.state = "running" /\ worker[w].ordinal = db.attempts
    BY <1>3, <2>1 DEF AloneOK
  <2>3. QED BY <1>2, <1>3, <1>4, <1>5, <1>6, <1>8, <2>1, <2>2 DEF AloneOK, IsParked
<1>16. QED BY <1>9, <1>10, <1>11, <1>12, <1>13, <1>14, <1>15 DEF Inv

\* receipt.json of the attempt is written by its own process, under no fence.
LEMMA WriteReceiptInv ==
  ASSUME Inv, NEW w \in crew \cup Pollers, WriteReceipt(w) PROVE Inv'
<1> DEFINE n == worker[w].ordinal
<1>1. worker[w] \in Local /\ w \in Workers /\ worker[w].at \in {"offered", "failed"}
      /\ AttemptOK(worker[w]) /\ (crew \cup Pollers = {w} => AloneOK(worker[w]))
      /\ \A v \in Workers : crew \cup Pollers = {v} => v = w
  BY ActorsWork DEF Inv, TypeOK, WriteReceipt
<1>2. UNCHANGED <<db, lease, performed, answer, verdict, ready, crew, crashes>>
      /\ asked' = [asked EXCEPT ![n] = worker[w].op]
      /\ files' = [files EXCEPT ![n] = ReceiptOf(w)]
      /\ Goto(w, "receipted")
  BY DEF WriteReceipt, outside
<1>3. worker[w].at \in InAttempt /\ n \in 1..db.attempts /\ n \in Ordinals
  BY <1>1, OrdinalsFact DEF AttemptOK, InAttempt, Inv, TypeOK, Run, Ordinals
<1>4. PICK new \in Local : /\ new.at = "receipted" /\ new.op = worker[w].op
                           /\ new.ordinal = worker[w].ordinal
                           /\ new.outcome = worker[w].outcome
                           /\ worker' = [worker EXCEPT ![w] = new]
  BY <1>2, GotoFact DEF Steps
<1>5. worker'[w] = new /\ \A v \in Workers : v # w => worker'[v] = worker[v]
  BY <1>1, <1>4 DEF Inv, TypeOK
<1>6. new.at \in InAttempt /\ new.at \notin Finisher
  BY <1>4 DEF InAttempt, Finisher
<1>7. asked'[n] = worker[w].op /\ \A m \in Ordinals : m # n => asked'[m] = asked[m]
  BY <1>2, <1>3 DEF Inv, TypeOK
<1>8. TypeOK'
  <2>1. ReceiptOf(w) \in Receipts
    BY <1>1 DEF ReceiptOf, Receipts, Receipt, ExitCodes, Routes, Local
  <2>2. files' \in [Ordinals -> Receipts] /\ asked' \in [Ordinals -> Ops]
    BY <1>1, <1>2, <2>1 DEF Inv, TypeOK, Local
  <2>3. QED BY <1>1, <1>2, <1>4, <2>2 DEF Inv, TypeOK
<1>9. StoreOK(db)' /\ (db.binding = "green")'
      /\ (\A d \in Diffs : answer[d] # "none" => d \in performed)' /\ VerifiedOK' /\ VerdictOK'
  BY <1>2 DEF Inv, VerifiedOK, VerdictOK, SomeSuccess
<1>10. ASSUME NEW v \in Workers PROVE AttemptOK(worker[v])' /\ FinishOK(worker[v])'
  <2>1. CASE v = w
    <3>1. new.outcome = "awaiting_external_verdict" =>
             worker[w].op \in performed /\ verdict.state # "absent"
      BY <1>1, <1>4 DEF AttemptOK
    <3>2. AttemptOK(worker[v])'
      BY <1>2, <1>3, <1>4, <1>5, <1>7, <2>1, <3>1 DEF AttemptOK
    <3>3. FinishOK(worker[v])'
      BY <1>4, <1>5, <1>6, <2>1 DEF FinishOK
    <3>4. QED BY <3>2, <3>3
  <2>2. CASE v # w
    <3>1. AttemptOK(worker[v]) /\ FinishOK(worker[v]) /\ worker'[v] = worker[v]
      BY <1>5, <2>2 DEF Inv
    <3>2. ASSUME worker[v].at = "receipted"
          PROVE  worker[v].ordinal \in Ordinals /\ worker[v].ordinal # n
      <4>1. worker[v].at \in InAttempt
        BY <3>2 DEF InAttempt
      <4>2. worker[v].ordinal # n
        BY <1>1, <1>3, <2>2, <4>1 DEF Inv, Distinct
      <4>3. worker[v].ordinal \in 1..db.attempts
        BY <3>1, <4>1 DEF AttemptOK
      <4>4. QED BY <4>2, <4>3, OrdinalsFact DEF Inv, TypeOK, Run, Ordinals
    <3>3. AttemptOK(worker[v])'
      BY <1>2, <1>7, <3>1, <3>2 DEF AttemptOK
    <3>4. FinishOK(worker[v])'
      BY <1>2, <3>1 DEF FinishOK, SomeSuccess
    <3>5. QED BY <3>3, <3>4
  <2>3. QED BY <2>1, <2>2
<1>11. Distinct'
  BY <1>3, <1>4, <1>5 DEF Inv, Distinct
<1>12. ParkedOK'
  <2>1. SUFFICES ASSUME IsParked(db) PROVE ParkedOK'
    BY <1>2 DEF ParkedOK, IsParked
  <2>2. db.attempts \in Ordinals
    BY <2>1, ParkedRowIsLast DEF Inv, TypeOK
  <2>3. n # db.attempts
    BY <1>1, <1>3, <2>1 DEF Inv, ParkedOK
  <2>4. asked'[db.attempts] = asked[db.attempts]
    BY <1>7, <2>2, <2>3
  <2>5. QED BY <1>2, <1>3, <1>4, <1>5, <2>1, <2>4 DEF Inv, ParkedOK
<1>13. ASSUME NEW v \in Workers, crew' \cup Pollers = {v} PROVE AloneOK(worker[v])'
  <2>1. v = w /\ AloneOK(worker[w])
    BY <1>1, <1>2, <1>13
  <2>2. db.state = "running" /\ n = db.attempts
    BY <1>3, <2>1 DEF AloneOK
  <2>3. new.outcome = "awaiting_external_verdict" => verdict.op = new.op
    BY <1>1, <1>4, <2>1 DEF AloneOK, AttemptOK
  <2>4. QED BY <1>2, <1>4, <1>5, <1>6, <2>1, <2>2, <2>3 DEF AloneOK, IsParked
<1>14. QED BY <1>8, <1>9, <1>10, <1>11, <1>12, <1>13 DEF Inv

\* park_external_verdict: the process that holds the fence hands the run over to
\* whoever hears the answer.
LEMMA ParkInv ==
  ASSUME Inv, NEW w \in crew \cup Pollers, CloseAttempt(w),
         HoldsFence(db, worker[w].ordinal, worker[w].fence),
         worker[w].outcome = "awaiting_external_verdict"
  PROVE  Inv'
<1> DEFINE n == worker[w].ordinal
<1>1. worker[w] \in Local /\ w \in Workers /\ worker[w].at = "receipted"
      /\ AttemptOK(worker[w]) /\ (crew \cup Pollers = {w} => AloneOK(worker[w]))
      /\ \A v \in Workers : crew \cup Pollers = {v} => v = w
  BY ActorsWork DEF Inv, TypeOK, CloseAttempt, At
<1>2. UNCHANGED <<lease, files, asked, performed, answer, verdict, ready, crew, crashes>>
      /\ db' = ParkExternalVerdict(db, n, ReceiptOf(w)) /\ Goto(w, "releasing")
  BY DEF CloseAttempt, outside
<1>3. worker[w].at \in InAttempt /\ n \in Ordinals
      /\ asked[n] \in performed /\ asked[n] = worker[w].op /\ verdict.state # "absent"
  BY <1>1, OrdinalsFact DEF AttemptOK, InAttempt, Inv, TypeOK, Run, Ordinals
<1>4. db \in Run /\ StoreOK(db) /\ db.row[n].state = "running"
  BY DEF Inv, TypeOK, HoldsFence
<1>5. n = db.attempts /\ db.attempts > 0
  BY <1>3, <1>4, RunningRowIsLast
<1>6. db' \in Run /\ StoreOK(db')
  <2>1. ReceiptOf(w) \in Receipt /\ worker[w].fence \in Nat
    BY <1>1 DEF ReceiptOf, Receipt, ExitCodes, Routes, Local
  <2>2. QED BY <1>2, <1>3, <1>4, <2>1, ParkExternalVerdictOK
<1>7. db'.state = "awaiting_external_verdict" /\ db'.attempts = db.attempts /\ db'.binding = db.binding
  BY <1>2, <1>4 DEF ParkExternalVerdict, FinishAttempt, UpdateRow, Run
<1>8. PICK new \in Local : new.at = "releasing" /\ worker' = [worker EXCEPT ![w] = new]
  BY <1>2, GotoFact DEF Steps
<1>9. worker'[w] = new /\ \A v \in Workers : v # w => worker'[v] = worker[v]
  BY <1>1, <1>8 DEF Inv, TypeOK
<1>10. /\ AttemptOK(new) /\ FinishOK(new) /\ new.at \notin InAttempt
       /\ crew \cup Pollers = {w} => AloneOK(new)
  BY <1>8, QuietOK DEF Quiet
<1>11. TypeOK'
  BY <1>1, <1>2, <1>6, <1>8 DEF Inv, TypeOK
<1>12. (\A d \in Diffs : answer[d] # "none" => d \in performed)' /\ (db.binding = "green")'
       /\ VerdictOK' /\ VerifiedOK'
  BY <1>2, <1>7 DEF Inv, VerdictOK, VerifiedOK, SomeSuccess
<1>13. (\A v \in Workers : AttemptOK(worker[v]) /\ FinishOK(worker[v]))'
  <2>1. \A v \in Workers : AttemptOK(worker'[v]) /\ FinishOK(worker'[v])
    BY <1>9, <1>10 DEF Inv
  <2>2. QED BY <1>2, <1>7, <2>1 DEF AttemptOK, FinishOK, SomeSuccess
<1>14. Distinct'
  BY <1>9, <1>10 DEF Inv, Distinct
<1>15. ParkedOK'
  <2>1. \A v \in Workers : worker'[v].at \in InAttempt => worker'[v].ordinal # n
    BY <1>1, <1>3, <1>9, <1>10 DEF Inv, Distinct
  <2>2. QED BY <1>2, <1>3, <1>5, <1>7, <2>1 DEF ParkedOK
<1>16. ASSUME NEW v \in Workers, crew' \cup Pollers = {v} PROVE AloneOK(worker[v])'
  <2>1. v = w /\ AloneOK(new) /\ AloneOK(worker[w])
    BY <1>1, <1>2, <1>10, <1>16
  <2>2. verdict.op = asked[db.attempts]
    BY <1>1, <1>3, <1>5, <2>1 DEF AloneOK
  <2>3. QED BY <1>2, <1>7, <1>8, <1>9, <1>10, <2>1, <2>2 DEF AloneOK, IsParked, Finisher
<1>17. QED BY <1>6, <1>11, <1>12, <1>13, <1>14, <1>15, <1>16 DEF Inv

LEMMA CloseAttemptInv ==
  ASSUME Inv, NEW w \in crew \cup Pollers, CloseAttempt(w) PROVE Inv'
<1>1. Goto(w, "releasing") /\ "releasing" \in Quiet
      /\ UNCHANGED <<lease, files, asked, performed, answer, verdict, ready, crew, crashes>>
  BY DEF CloseAttempt, Quiet, outside
<1>2. CASE ~HoldsFence(db, worker[w].ordinal, worker[w].fence)
  <2>1. db' = db
    BY <1>2 DEF CloseAttempt
  <2>2. QED BY <1>1, <2>1, QuietMove DEF Inv, TypeOK
<1>3. CASE /\ HoldsFence(db, worker[w].ordinal, worker[w].fence)
           /\ worker[w].outcome = "awaiting_external_verdict"
  BY <1>3, ParkInv
<1>4. CASE /\ HoldsFence(db, worker[w].ordinal, worker[w].fence)
           /\ worker[w].outcome # "awaiting_external_verdict"
  <2>1. db' = FinishAttempt(db, worker[w].ordinal, worker[w].outcome, ReceiptOf(w))
    BY <1>4 DEF CloseAttempt
  <2>2. worker[w] \in Local /\ w \in Workers /\ worker[w].at = "receipted" /\ AttemptOK(worker[w])
    BY ActorsWork DEF Inv, TypeOK, CloseAttempt, At
  <2>3. db \in Run /\ StoreOK(db)
    BY DEF Inv, TypeOK
  <2>4. worker[w].ordinal \in Ordinals
    BY <2>2, <2>3, OrdinalsFact DEF AttemptOK, InAttempt, Run, Ordinals
  <2>5. /\ worker[w].outcome \in {"retry_pending", "stopped", "human_required"}
        /\ worker[w].fence \in Nat /\ ReceiptOf(w) \in Receipt
    BY <1>4, <2>2 DEF Local, Outcomes, ReceiptOf, Receipt, ExitCodes, Routes
  <2>6. db' \in Run /\ StoreOK(db')
    BY <1>4, <2>1, <2>3, <2>4, <2>5, FinishAttemptOK
  <2>7. db'.attempts = db.attempts /\ db'.binding = db.binding /\ db'.state = worker[w].outcome
    BY <2>1, <2>3 DEF FinishAttempt, UpdateRow, Run
  <2>8. lease' \in [holder: Workers \cup {Nobody, Gone}, live: BOOLEAN]
    BY <1>1 DEF Inv, TypeOK
  <2>9. db'.state \notin {"awaiting_external_verdict", "verified"}
    BY <2>5, <2>7
  <2>10. QED BY <1>1, <2>6, <2>7, <2>8, <2>9, ClosedMove
<1>5. QED BY <1>2, <1>3, <1>4

-----------------------------------------------------------------------------
\* resume_external.

LEMMA PollReadInv ==
  ASSUME Inv, NEW w \in crew \cup Pollers, PollRead(w) PROVE Inv'
<1> DEFINE new == [worker[w] EXCEPT !.at = "polled", !.op = verdict.op,
                                    !.conclusion = answer[verdict.op]]
<1>1. worker[w] \in Local /\ w \in Workers /\ (crew \cup Pollers = {w} => AloneOK(worker[w]))
  BY ActorsWork DEF Inv, TypeOK
<1>2. UNCHANGED <<db, lease, files, asked, performed, answer, verdict, ready, crew, crashes>>
      /\ worker' = [worker EXCEPT ![w] = new]
      /\ verdict.state = "awaiting" /\ answer[verdict.op] # "none"
  BY DEF PollRead, outside
<1>3. verdict.op \in Diffs /\ answer[verdict.op] \in Conclusions
  BY <1>2 DEF Inv, TypeOK, VerdictOK
<1>4. new \in Local /\ new.at = "polled" /\ new.op = verdict.op /\ new.conclusion = answer[verdict.op]
  BY <1>1, <1>3 DEF Local, Steps, Ops
<1> HIDE DEF new
<1>5. TypeOK'
  BY <1>1, <1>2, <1>4 DEF Inv, TypeOK
<1>6. new.at \notin InAttempt /\ new.at \notin Finisher
  BY <1>4 DEF InAttempt, Finisher
<1>7. AttemptOK(new) /\ FinishOK(new)
  BY <1>2, <1>3, <1>4, <1>6 DEF AttemptOK, FinishOK
<1>8. crew \cup Pollers = {w} => AloneOK(new)
  BY <1>1, <1>2, <1>4, <1>6 DEF AloneOK
<1>9. QED BY <1>2, <1>4, <1>5, <1>6, <1>7, <1>8, WorkerStep

LEMMA RecoverVerdictInv ==
  ASSUME Inv, NEW w \in crew \cup Pollers, RecoverVerdict(w) PROVE Inv'
<1> DEFINE new == [worker[w] EXCEPT !.at = "landed", !.op = verdict.op, !.conclusion = "success"]
<1>1. worker[w] \in Local /\ w \in Workers /\ (crew \cup Pollers = {w} => AloneOK(worker[w]))
  BY ActorsWork DEF Inv, TypeOK
<1>2. UNCHANGED <<db, lease, files, asked, performed, answer, verdict, ready, crew, crashes>>
      /\ worker' = [worker EXCEPT ![w] = new]
      /\ verdict.state = "verified"
  BY DEF RecoverVerdict, outside
<1>3. verdict.op \in Ops /\ SomeSuccess
  BY <1>2 DEF Inv, TypeOK, Verdict, VerdictOK
<1>4. new \in Local /\ new.at = "landed" /\ new.op = verdict.op /\ new.conclusion = "success"
  BY <1>1, <1>3 DEF Local, Steps, Conclusions
<1> HIDE DEF new
<1>5. TypeOK'
  BY <1>1, <1>2, <1>4 DEF Inv, TypeOK
<1>6. new.at \notin InAttempt /\ new.at \notin Finisher
  BY <1>4 DEF InAttempt, Finisher
<1>7. AttemptOK(new) /\ FinishOK(new)
  BY <1>2, <1>3, <1>4, <1>6 DEF AttemptOK, FinishOK
<1>8. crew \cup Pollers = {w} => AloneOK(new)
  BY <1>1, <1>2, <1>4, <1>6 DEF AloneOK
<1>9. QED BY <1>2, <1>4, <1>5, <1>6, <1>7, <1>8, WorkerStep

\* Whichever operation the poll asked about, its conclusion settles the row.
LEMMA ResolveVerdictInv ==
  ASSUME Inv, NEW w \in crew \cup Pollers, ResolveVerdict(w) PROVE Inv'
<1>1. worker[w] \in Local /\ w \in Workers /\ worker[w].at = "polled"
      /\ FinishOK(worker[w]) /\ (crew \cup Pollers = {w} => AloneOK(worker[w]))
      /\ \A v \in Workers : crew \cup Pollers = {v} => v = w
  BY ActorsWork DEF Inv, TypeOK, ResolveVerdict, At
<1>2. UNCHANGED <<db, lease, files, asked, performed, answer, ready, crew, crashes>>
      /\ Goto(w, "landed")
      /\ verdict' = IF verdict.state = "awaiting"
                    THEN [verdict EXCEPT !.state = IF worker[w].conclusion = "success"
                                                   THEN "verified" ELSE "retry_pending"]
                    ELSE verdict
  BY DEF ResolveVerdict, outside
<1>3. worker[w].op \in Diffs /\ answer[worker[w].op] = worker[w].conclusion
  BY <1>1 DEF FinishOK
<1>4. worker[w].conclusion = "success" => SomeSuccess
  <2>1. worker[w].conclusion = "success" => answer[worker[w].op] # "none"
    BY <1>3
  <2>2. QED BY <1>3, <2>1 DEF SomeSuccess, Inv
<1>5. PICK new \in Local : /\ new.at = "landed" /\ new.op = worker[w].op
                           /\ new.conclusion = worker[w].conclusion
                           /\ worker' = [worker EXCEPT ![w] = new]
  BY <1>2, GotoFact DEF Steps
<1>6. worker'[w] = new /\ \A v \in Workers : v # w => worker'[v] = worker[v]
  BY <1>1, <1>5 DEF Inv, TypeOK
<1>7. new.at \notin InAttempt /\ new.at \notin Finisher
  BY <1>5 DEF InAttempt, Finisher
<1>8. verdict \in Verdict
  BY DEF Inv, TypeOK
<1>9. /\ verdict' \in Verdict /\ verdict'.op = verdict.op /\ verdict'.by = verdict.by
      /\ verdict'.state = "absent" <=> verdict.state = "absent"
      /\ verdict.state # "awaiting" => verdict' = verdict
      /\ verdict.state = "awaiting" /\ worker[w].conclusion = "success" => verdict'.state = "verified"
      /\ verdict.state = "awaiting" /\ worker[w].conclusion # "success" =>
            verdict'.state = "retry_pending"
  BY <1>2, <1>8 DEF Verdict
<1>10. TypeOK'
  BY <1>1, <1>2, <1>5, <1>9 DEF Inv, TypeOK
<1>11. StoreOK(db)' /\ (db.binding = "green")'
       /\ (\A d \in Diffs : answer[d] # "none" => d \in performed)' /\ VerifiedOK'
       /\ SomeSuccess' = SomeSuccess
  BY <1>2 DEF Inv, VerifiedOK, SomeSuccess
<1>12. VerdictOK'
  BY <1>2, <1>4, <1>9, <1>11 DEF Inv, VerdictOK
<1>13. ASSUME NEW v \in Workers PROVE AttemptOK(worker[v])' /\ FinishOK(worker[v])'
  <2>1. CASE v = w
    BY <1>1, <1>4, <1>5, <1>6, <1>7, <1>9, <1>11, <2>1 DEF AttemptOK, FinishOK, InAttempt
  <2>2. CASE v # w
    <3>1. AttemptOK(worker[v]) /\ FinishOK(worker[v]) /\ worker'[v] = worker[v]
      BY <1>6, <2>2 DEF Inv
    <3>2. QED BY <1>2, <1>9, <1>11, <3>1 DEF AttemptOK, FinishOK
  <2>3. QED BY <2>1, <2>2
<1>14. Distinct'
  BY <1>6, <1>7 DEF Inv, Distinct
<1>15. ParkedOK'
  BY <1>2, <1>6, <1>7, <1>9 DEF Inv, ParkedOK, IsParked
<1>16. ASSUME NEW v \in Workers, crew' \cup Pollers = {v} PROVE AloneOK(worker[v])'
  <2>1. v = w /\ AloneOK(worker[w])
    BY <1>1, <1>2, <1>16
  <2>2. verdict.state = "awaiting" /\ verdict.op = worker[w].op
    BY <1>1, <2>1 DEF AloneOK
  <2>3. QED BY <1>2, <1>3, <1>5, <1>6, <1>7, <1>9, <2>1, <2>2
              DEF AloneOK, IsParked, OwnRecord, InAttempt
<1>17. QED BY <1>10, <1>11, <1>12, <1>13, <1>14, <1>15, <1>16 DEF Inv

\* resolve_external_verdict leaves the run neither parked nor verified.
LEMMA ResolveMove ==
  ASSUME Inv, NEW w \in crew \cup Pollers, NEW st \in {"retry_pending", "human_required"},
         Rest(w), db' = IF IsParked(db) THEN ResolveExternalVerdict(db, st) ELSE db,
         UNCHANGED <<lease, files, asked, performed, answer, verdict, ready, crew, crashes>>
  PROVE  Inv'
<1>1. CASE IsParked(db)
  <2>1. db \in Run /\ StoreOK(db) /\ db' = ResolveExternalVerdict(db, st)
    BY <1>1 DEF Inv, TypeOK
  <2>2. db' \in Run /\ StoreOK(db')
    BY <1>1, <2>1, ResolveExternalVerdictOK
  <2>3. db'.attempts = db.attempts /\ db'.binding = db.binding /\ db'.state = st
    BY <2>1 DEF ResolveExternalVerdict, Run
  <2>4. lease' \in [holder: Workers \cup {Nobody, Gone}, live: BOOLEAN]
    BY DEF Inv, TypeOK
  <2>5. QED BY <2>2, <2>3, <2>4, ClosedMove
<1>2. CASE ~IsParked(db)
  BY <1>2, QuietMove DEF Inv, TypeOK
<1>3. QED BY <1>1, <1>2

LEMMA ResumeFailedInv ==
  ASSUME Inv, NEW w \in crew \cup Pollers, ResumeFailed(w) PROVE Inv'
BY ResolveMove DEF ResumeFailed, outside

LEMMA RejectFinalInv ==
  ASSUME Inv, NEW w \in crew \cup Pollers, RejectFinal(w) PROVE Inv'
BY ResolveMove DEF RejectFinal, outside

\* The normalized record is bound to the attempt that is parked, or was verified.
LEMMA NormalizeInv ==
  ASSUME Inv, NEW w \in crew \cup Pollers, Normalize(w) PROVE Inv'
<1>1. worker[w] \in Local /\ w \in Workers /\ worker[w].at = "landed"
      /\ worker[w].conclusion = "success"
      /\ FinishOK(worker[w]) /\ (crew \cup Pollers = {w} => AloneOK(worker[w]))
      /\ \A v \in Workers : crew \cup Pollers = {v} => v = w
  BY ActorsWork DEF Inv, TypeOK, Normalize, At
<1>2. UNCHANGED <<db, lease, files, asked, performed, answer, verdict, crew, crashes>>
  BY DEF Normalize, outside
<1>3. CASE ~EvidenceIsCurrent(w)
  <2>1. UNCHANGED ready /\ Rest(w)
    BY <1>3 DEF Normalize
  <2>2. QED BY <1>2, <2>1, QuietMove DEF Inv, TypeOK
<1>4. CASE EvidenceIsCurrent(w)
  <2>1. ready' = ready \cup {Binding} /\ Goto(w, "closing")
    BY <1>4 DEF Normalize
  <2>2. db.state \in {"awaiting_external_verdict", "verified"}
    BY <1>4 DEF EvidenceIsCurrent
  <2>3. db \in Run /\ StoreOK(db)
    BY DEF Inv, TypeOK
  <2>4. db.attempts \in Ordinals
    BY <2>2, <2>3, OrdinalsFact DEF StoreOK, RowsFollowRun, Run, Ordinals
  <2>5. verdict.op \in Diffs /\ verdict.by \in Ordinals
    BY <1>1 DEF FinishOK, Inv, TypeOK, VerdictOK
  <2>6. /\ Binding \in [attempt: Ordinals, op: Diffs, by: Ordinals]
        /\ Binding.attempt = db.attempts /\ Binding \in ready'
    BY <2>1, <2>4, <2>5 DEF Binding
  <2>7. PICK new \in Local : new.at = "closing" /\ worker' = [worker EXCEPT ![w] = new]
    BY <2>1, GotoFact DEF Steps
  <2>8. worker'[w] = new /\ \A v \in Workers : v # w => worker'[v] = worker[v]
    BY <1>1, <2>7 DEF Inv, TypeOK
  <2>9. new.at \notin InAttempt /\ new.at \in Finisher
    BY <2>7 DEF InAttempt, Finisher
  <2>10. SomeSuccess
    BY <1>1 DEF FinishOK
  <2>11. TypeOK'
    BY <1>1, <1>2, <2>1, <2>6, <2>7 DEF Inv, TypeOK
  <2>12. StoreOK(db)' /\ (db.binding = "green")'
         /\ (\A d \in Diffs : answer[d] # "none" => d \in performed)' /\ VerdictOK'
         /\ SomeSuccess' /\ ready \subseteq ready' /\ ready' # {}
    BY <1>2, <2>1, <2>10 DEF Inv, VerdictOK, SomeSuccess
  <2>13. ASSUME NEW v \in Workers PROVE AttemptOK(worker[v])' /\ FinishOK(worker[v])'
    <3>1. CASE v = w
      BY <2>7, <2>8, <2>9, <2>12, <3>1 DEF AttemptOK, FinishOK, InAttempt
    <3>2. CASE v # w
      <4>1. AttemptOK(worker[v]) /\ FinishOK(worker[v]) /\ worker'[v] = worker[v]
        BY <2>8, <3>2 DEF Inv
      <4>2. QED BY <1>2, <2>12, <4>1 DEF AttemptOK, FinishOK
    <3>3. QED BY <3>1, <3>2
  <2>14. Distinct'
    BY <2>8, <2>9 DEF Inv, Distinct
  <2>15. ParkedOK' /\ VerifiedOK'
    BY <1>2, <2>8, <2>9, <2>12 DEF Inv, ParkedOK, VerifiedOK, IsParked
  <2>16. ASSUME NEW v \in Workers, crew' \cup Pollers = {v} PROVE AloneOK(worker[v])'
    <3>1. v = w /\ AloneOK(worker[w])
      BY <1>1, <1>2, <2>16
    <3>2. verdict.state = "verified"
      BY <1>1, <3>1 DEF AloneOK
    <3>3. OwnRecord'
      BY <1>2, <2>6 DEF OwnRecord
    <3>4. QED BY <1>2, <2>2, <2>7, <2>8, <2>9, <3>1, <3>2, <3>3 DEF AloneOK, IsParked, InAttempt
  <2>17. QED BY <2>11, <2>12, <2>13, <2>14, <2>15, <2>16 DEF Inv
<1>5. QED BY <1>3, <1>4

LEMMA AssembleFinalInv ==
  ASSUME Inv, NEW w \in crew \cup Pollers, AssembleFinal(w) PROVE Inv'
<1>1. worker[w] \in Local /\ w \in Workers /\ worker[w].at = "closing"
      /\ FinishOK(worker[w]) /\ (crew \cup Pollers = {w} => AloneOK(worker[w]))
  BY ActorsWork DEF Inv, TypeOK, AssembleFinal, At
<1>2. UNCHANGED <<db, lease, files, asked, performed, answer, verdict, ready, crew, crashes>>
  BY DEF AssembleFinal, outside
<1>3. CASE Goto(w, "rejecting")
  <2>1. "rejecting" \in Quiet
    BY DEF Quiet
  <2>2. QED BY <1>2, <1>3, <2>1, QuietMove DEF Inv, TypeOK
<1>4. CASE worker' = [worker EXCEPT
                        ![w] = [@ EXCEPT !.at = "committing", !.ordinal = db.attempts,
                                         !.fence = db.fence]]
  <2> DEFINE new == [worker[w] EXCEPT !.at = "committing", !.ordinal = db.attempts,
                                      !.fence = db.fence]
  <2>1. new \in Local /\ new.at = "committing"
    BY <1>1 DEF Local, Steps, Inv, TypeOK, Run
  <2>2. worker' = [worker EXCEPT ![w] = new]
    BY <1>4
  <2> HIDE DEF new
  <2>3. TypeOK'
    BY <1>1, <1>2, <2>1, <2>2 DEF Inv, TypeOK
  <2>4. new.at \notin InAttempt /\ new.at \in Finisher /\ worker[w].at \in Finisher
    BY <1>1, <2>1 DEF InAttempt, Finisher
  <2>5. AttemptOK(new) /\ FinishOK(new)
    BY <1>1, <2>1, <2>4 DEF AttemptOK, FinishOK, InAttempt
  <2>6. crew \cup Pollers = {w} => AloneOK(new)
    BY <1>1, <2>1, <2>4 DEF AloneOK, InAttempt
  <2>7. QED BY <1>2, <2>1, <2>2, <2>3, <2>4, <2>5, <2>6, WorkerStep
<1>5. QED BY <1>3, <1>4 DEF AssembleFinal

\* resolve_external_verdict_with_delivery stores the evidence with the state.
LEMMA CommitFinalInv ==
  ASSUME Inv, NEW w \in crew \cup Pollers, CommitFinal(w) PROVE Inv'
<1>1. worker[w] \in Local /\ w \in Workers /\ worker[w].at = "committing"
      /\ FinishOK(worker[w]) /\ (crew \cup Pollers = {w} => AloneOK(worker[w]))
      /\ \A v \in Workers : crew \cup Pollers = {v} => v = w
  BY ActorsWork DEF Inv, TypeOK, CommitFinal, At
<1>2. UNCHANGED <<lease, files, asked, performed, answer, verdict, ready, crew, crashes>>
  BY DEF CommitFinal, outside
<1>3. CASE ~(CanResolveWithDelivery(db) /\ db.fence = worker[w].fence)
  <2>1. UNCHANGED db /\ Goto(w, "rejecting") /\ "rejecting" \in Quiet
    BY <1>3 DEF CommitFinal, Quiet
  <2>2. QED BY <1>2, <2>1, QuietMove DEF Inv, TypeOK
<1>4. CASE CanResolveWithDelivery(db) /\ db.fence = worker[w].fence
  <2>1. db' = ResolveExternalVerdictWithDelivery(db) /\ Rest(w)
    BY <1>4 DEF CommitFinal
  <2>2. db \in Run /\ StoreOK(db) /\ IsParked(db)
    BY <1>4 DEF Inv, TypeOK, CanResolveWithDelivery
  <2>3. db' \in Run /\ StoreOK(db')
    BY <1>4, <2>1, <2>2, ResolveWithDeliveryOK
  <2>4. db'.attempts = db.attempts /\ db'.binding = db.binding /\ db'.state = "verified"
    BY <2>1, <2>2 DEF ResolveExternalVerdictWithDelivery, FinishAttemptWithDelivery, UpdateRow, Run
  <2>5. worker' = [worker EXCEPT ![w] = AtRest]
    BY <2>1 DEF Rest
  <2>6. worker'[w] = AtRest /\ \A v \in Workers : v # w => worker'[v] = worker[v]
    BY <1>1, <2>5 DEF Inv, TypeOK
  <2>7. /\ AttemptOK(AtRest) /\ FinishOK(AtRest) /\ AtRest.at \notin InAttempt
        /\ AtRest.at = "idle" /\ AtRest \in Local
    BY QuietFact, QuietOK, AtRestFact
  <2>8. ready # {} /\ SomeSuccess
    BY <1>1 DEF FinishOK, Finisher
  <2>9. TypeOK'
    BY <1>1, <1>2, <2>3, <2>5, <2>7 DEF Inv, TypeOK
  <2>10. (\A d \in Diffs : answer[d] # "none" => d \in performed)' /\ (db.binding = "green")'
         /\ VerdictOK' /\ VerifiedOK'
    BY <1>2, <2>4, <2>8 DEF Inv, VerdictOK, VerifiedOK, SomeSuccess
  <2>11. (\A v \in Workers : AttemptOK(worker[v]) /\ FinishOK(worker[v]))'
    <3>1. \A v \in Workers : AttemptOK(worker'[v]) /\ FinishOK(worker'[v])
      BY <2>6, <2>7 DEF Inv
    <3>2. QED BY <1>2, <2>4, <3>1 DEF AttemptOK, FinishOK, SomeSuccess
  <2>12. Distinct'
    BY <2>6, <2>7 DEF Inv, Distinct
  <2>13. ParkedOK'
    BY <2>4 DEF ParkedOK, IsParked
  <2>14. ASSUME NEW v \in Workers, crew' \cup Pollers = {v} PROVE AloneOK(worker[v])'
    <3>1. v = w /\ AloneOK(worker[w])
      BY <1>1, <1>2, <2>14
    <3>2. verdict.state = "verified" /\ OwnRecord
      BY <1>1, <3>1 DEF AloneOK, Finisher
    <3>3. answer[verdict.op] = "success" /\ verdict.op = asked[db.attempts]
      BY <2>2, <3>1, <3>2 DEF AloneOK
    <3>4. asked[db.attempts] # NoOp
      BY <2>2, NamesAssumption DEF Inv, TypeOK, ParkedOK
    <3>5. QED BY <1>2, <2>4, <2>6, <2>7, <3>1, <3>2, <3>3, <3>4
                DEF AloneOK, IsParked, OwnRecord, Finisher
  <2>15. QED BY <2>3, <2>9, <2>10, <2>11, <2>12, <2>13, <2>14 DEF Inv
<1>5. QED BY <1>3, <1>4

-----------------------------------------------------------------------------
\* The environment.

LEMMA ConclusionLandsInv ==
  ASSUME Inv, NEW d \in Diffs, ConclusionLands(d) PROVE Inv'
<1>1. d \in performed /\ answer[d] = "none"
      /\ UNCHANGED <<db, lease, files, asked, performed, crew, verdict, ready, worker, crashes>>
  BY DEF ConclusionLands
<1>2. PICK c \in Conclusions : answer' = [answer EXCEPT ![d] = c]
  BY DEF ConclusionLands
<1>3. answer' \in [Diffs -> Conclusions \cup {"none"}]
  BY <1>2 DEF Inv, TypeOK
<1>4. \A e \in Diffs : answer[e] # "none" => answer'[e] = answer[e]
  BY <1>1, <1>2 DEF Inv, TypeOK
<1>5. (\A e \in Diffs : answer[e] # "none" => e \in performed)'
  BY <1>1, <1>2 DEF Inv, TypeOK
<1>6. SomeSuccess => SomeSuccess'
  BY <1>1, <1>4 DEF SomeSuccess, Inv, TypeOK
<1>7. TypeOK'
  BY <1>1, <1>3 DEF Inv, TypeOK
<1>8. StoreOK(db)' /\ (db.binding = "green")' /\ Distinct' /\ ParkedOK'
  BY <1>1 DEF Inv, Distinct, ParkedOK, IsParked
<1>9. VerdictOK' /\ VerifiedOK'
  BY <1>1, <1>6 DEF Inv, VerdictOK, VerifiedOK
<1>10. ASSUME NEW v \in Workers PROVE AttemptOK(worker[v])' /\ FinishOK(worker[v])'
  <2>1. AttemptOK(worker[v]) /\ FinishOK(worker[v]) /\ worker[v] \in Local
    BY DEF Inv, TypeOK
  <2>2. worker[v].conclusion # "none"
    BY <2>1 DEF Local, Conclusions
  <2>3. QED BY <1>1, <1>4, <1>6, <2>1, <2>2 DEF AttemptOK, FinishOK
<1>11. ASSUME NEW v \in Workers, crew' \cup Pollers = {v} PROVE AloneOK(worker[v])'
  <2>1. AloneOK(worker[v])
    BY <1>1, <1>11 DEF Inv
  <2>2. ASSUME NEW e, e \in Ops, e # NoOp, answer[e] = "success" PROVE answer'[e] = "success"
    BY <1>4, <2>2 DEF Ops
  <2>3. verdict.state = "verified" => verdict.op \in Ops /\ verdict.op # NoOp
    BY NamesAssumption DEF Inv, TypeOK, VerdictOK, Ops
  <2>4. db.state = "verified" => asked[db.attempts] \in Ops
    <3>1. db.state = "verified" => db.attempts \in Ordinals
      BY OrdinalsFact DEF Inv, TypeOK, StoreOK, RowsFollowRun, Run, Ordinals
    <3>2. QED BY <3>1 DEF Inv, TypeOK
  <2>5. QED BY <1>1, <2>1, <2>2, <2>3, <2>4 DEF AloneOK, IsParked, OwnRecord
<1>12. QED BY <1>5, <1>7, <1>8, <1>9, <1>10, <1>11 DEF Inv

LEMMA LeaseExpiresInv ==
  ASSUME Inv, LeaseExpires PROVE Inv'
<1>1. UNCHANGED <<db, files, asked, performed, answer, crew, verdict, ready, worker, crashes>>
      /\ lease' = [lease EXCEPT !.live = FALSE]
  BY DEF LeaseExpires, outside
<1>2. TypeOK'
  BY <1>1 DEF Inv, TypeOK
<1>3. QED BY <1>1, <1>2 DEF Inv, VerdictOK, AttemptOK, FinishOK, AloneOK, Distinct, ParkedOK,
                            VerifiedOK, SomeSuccess, OwnRecord, IsParked

-----------------------------------------------------------------------------
LEMMA NextInv == Inv /\ [Next]_vars => Inv'
<1> SUFFICES ASSUME Inv, [Next]_vars PROVE Inv'
  OBVIOUS
<1>1. ASSUME NEW w \in crew, TickAsync(w) \/ AbandonAttempt(w) PROVE Inv'
  BY <1>1, RecoverStaleRunInv, AcquireLeaseInv, ReadRunInv, BeginInv, ExecuteInv,
     PerformActionInv, ParkVerdictInv, WriteReceiptInv, CloseAttemptInv, ReleaseLeaseInv,
     AbandonAttemptInv DEF TickAsync
<1>2. ASSUME NEW w \in crew \cup Pollers, ResumeExternal(w) \/ Crash(w) PROVE Inv'
  BY <1>2, PollReadInv, RecoverVerdictInv, ResolveVerdictInv, ResumeFailedInv, NormalizeInv,
     AssembleFinalInv, CommitFinalInv, RejectFinalInv, CrashInv DEF ResumeExternal, Finishing
<1>3. ASSUME NEW d \in Diffs, ConclusionLands(d) PROVE Inv'
  BY <1>3, ConclusionLandsInv
<1>4. CASE LeaseExpires
  BY <1>4, LeaseExpiresInv
<1>5. CASE UNCHANGED vars
  BY <1>5 DEF vars, outside, Inv, TypeOK, VerdictOK, AttemptOK, FinishOK, AloneOK, Distinct,
              ParkedOK, VerifiedOK, SomeSuccess, OwnRecord, IsParked
<1>6. QED BY <1>1, <1>2, <1>3, <1>4, <1>5 DEF Next

LEMMA InvIsInvariant == Spec => []Inv
BY InitialInv, NextInv, PTL DEF Spec

-----------------------------------------------------------------------------
\* The invariants.

\* Every state the processes reach is typed: no answer is recorded for an
\* operation nobody performed, no record is bound to an attempt never begun.
THEOREM VerdictTypeCorrect == Spec => []TypeOK
<1>1. Inv => TypeOK
  BY DEF Inv
<1>2. QED BY <1>1, InvIsInvariant, PTL

\* The run row and the attempts rows never disagree, although resuming names
\* neither the attempt nor its fence (resolve_external_verdict).
THEOREM ParkedStoreAgrees == Spec => []StoreAgrees
<1>1. Inv => StoreAgrees
  BY DEF Inv, StoreAgrees
<1>2. QED BY <1>1, InvIsInvariant, PTL

\* A run never waits for an answer to a question nobody asked (tick_async parks
\* only what dispatch_external has performed).
THEOREM WaitsForItsQuestion == Spec => []ParkedIsAsked
<1>1. Inv => ParkedIsAsked
  BY DEF Inv, ParkedIsAsked, ParkedOK
<1>2. QED BY <1>1, InvIsInvariant, PTL

\* Where one process is at work, it is some worker.
LEMMA OneProcess ==
  ASSUME TypeOK, Cardinality(crew \cup Pollers) = 1
  PROVE  \E w \in Workers : crew \cup Pollers = {w}
<1>1. crew \cup Pollers \subseteq Workers
  BY DEF TypeOK, Workers
<1>2. IsFiniteSet(crew \cup Pollers)
  BY <1>1, WorkersAssumption, FS_Subset
<1>3. PICK w : crew \cup Pollers = {w}
  BY <1>2, FS_Singleton
<1>4. w \in Workers
  BY <1>1, <1>3
<1>5. QED BY <1>3, <1>4

\* A run is verified only after a record of it is durable and one of its actions
\* has succeeded; a process that works alone uses the record of the last attempt
\* (resume_external, record_normalized_verifier_result).
THEOREM RecordComesFirst == Spec => []ReadyPrecedesVerified
<1>1. ASSUME Inv, db.state = "verified"
      PROVE  /\ \E d \in performed : answer[d] = "success"
             /\ \E b \in ready : Cardinality(crew \cup Pollers) = 1 => b.attempt = db.attempts
  <2>1. ready # {} /\ SomeSuccess
    BY <1>1 DEF Inv, VerifiedOK
  <2>2. CASE Cardinality(crew \cup Pollers) = 1
    <3>1. PICK w \in Workers : crew \cup Pollers = {w}
      BY <1>1, <2>2, OneProcess DEF Inv
    <3>2. OwnRecord
      BY <1>1, <3>1 DEF Inv, AloneOK
    <3>3. QED BY <2>1, <3>2 DEF SomeSuccess, OwnRecord
  <2>3. CASE Cardinality(crew \cup Pollers) # 1
    BY <2>1, <2>3 DEF SomeSuccess
  <2>4. QED BY <2>2, <2>3
<1>2. Inv => ReadyPrecedesVerified
  BY <1>1 DEF ReadyPrecedesVerified
<1>3. QED BY <1>2, InvIsInvariant, PTL

\* A process that works alone verifies a run by the action its last attempt
\* opened, whatever was parked, abandoned and answered before.
THEOREM VerifiedByOwnAction == Spec => []VerifiedByItsOwnAction
<1>1. ASSUME Inv, Cardinality(crew \cup Pollers) = 1 PROVE OwnActionSucceeded
  <2>1. PICK w \in Workers : crew \cup Pollers = {w}
    BY <1>1, OneProcess DEF Inv
  <2>2. QED BY <1>1, <2>1 DEF Inv, AloneOK, OwnActionSucceeded
<1>2. Inv => VerifiedByItsOwnAction
  BY <1>1 DEF VerifiedByItsOwnAction
<1>3. QED BY <1>2, InvIsInvariant, PTL

-----------------------------------------------------------------------------
\* Refinement of RunContract.

\* A run moves as one of these, or not at all.
Dispatched == /\ db.state \in Executable /\ db.attempts < MaxAttempts
              /\ db'.state = "running" /\ db'.attempts = db.attempts + 1
GivenUp == /\ db.state \in Executable /\ db.attempts > 0
           /\ db'.state = "human_required" /\ db'.attempts = db.attempts
Parked == /\ db.state = "running" /\ db'.attempts = db.attempts
          /\ db'.state = "awaiting_external_verdict"
Failed == /\ db.state \in OpenStates /\ db'.attempts = db.attempts
          /\ db'.state \in {"retry_pending", "stopped", "human_required"}
Verified == /\ db.state \in OpenStates /\ db'.attempts = db.attempts
            /\ db'.state = "verified"
Moves == Dispatched \/ GivenUp \/ Parked \/ Failed \/ Verified

\* Each of them is a step RunContract takes.
LEMMA ContractStep ==
  ASSUME Inv, Inv', Moves \/ db' = db
  PROVE  Contract!Next \/ UNCHANGED Contract!vars
<1>1. db \in Run /\ StoreOK(db) /\ db' \in Run /\ StoreOK(db')
  BY DEF Inv, TypeOK
<1>2. Proof(db) <=> db.state = "verified"
  BY <1>1, ProofFact
<1>3. Proof(db') <=> db'.state = "verified"
  BY <1>1, ProofFact
<1>4. CASE db' = db
  BY <1>4 DEF Contract!vars
<1>5. CASE Dispatched
  BY <1>2, <1>3, <1>5 DEF Contract!Next, Contract!Dispatch, Contract!Pending, Proof, Executable, Dispatched
<1>6. CASE GivenUp
  BY <1>2, <1>3, <1>6 DEF Contract!Next, Contract!GiveUp, Contract!Pending, Proof, Executable, GivenUp
<1>7. CASE Parked
  BY <1>2, <1>3, <1>7 DEF Contract!Next, Contract!Park, Proof, Parked
<1>8. CASE Failed
  BY <1>2, <1>3, <1>8 DEF Contract!Next, Contract!Fail, Contract!Open, Proof, OpenStates, Failed
<1>9. CASE Verified
  BY <1>2, <1>3, <1>9 DEF Contract!Next, Contract!Verify, Contract!Open, Proof, OpenStates, Verified
<1>10. QED BY <1>4, <1>5, <1>6, <1>7, <1>8, <1>9 DEF Moves

\* The tick: reconciliation fails an attempt, begin_attempt dispatches or gives
\* up, and the close of an attempt parks or fails it.
LEMMA TickMoves ==
  ASSUME Inv, NEW w \in crew, TickAsync(w) \/ AbandonAttempt(w)
  PROVE  Moves \/ db' = db
<1>0. db \in Run /\ StoreOK(db)
  BY DEF Inv, TypeOK
<1>1. CASE RecoverStaleRun(w)
  <2>1. CASE CanReconcile(db) /\ ~lease.live
    <3>1. db' = Reconcile(db, files) /\ db.state = "running"
      BY <1>1, <2>1 DEF RecoverStaleRun, CanReconcile
    <3>2. QED BY <1>0, <3>1 DEF Reconcile, UpdateRow, AfterFailure, Run, Moves, Failed, OpenStates
  <2>2. CASE ~(CanReconcile(db) /\ ~lease.live)
    BY <1>1, <2>2 DEF RecoverStaleRun
  <2>3. QED BY <2>1, <2>2
<1>2. CASE Begin(w)
  <2>1. CASE db.state \in Executable /\ BudgetLeft(db)
    <3>1. db.attempts + 1 \in Ordinals /\ db.attempts \in Nat
      BY <1>0, <2>1, OrdinalsFact DEF BudgetLeft, NextOrdinal, EffectiveMaxAttempts, Run, Ordinals
    <3>2. db' = BeginAttempt(db)
      BY <1>2, <2>1 DEF Begin
    <3>3. Dispatched
      BY <1>0, <2>1, <3>1, <3>2, OrdinalsFact DEF BeginAttempt, Run, Ordinals, Dispatched
    <3>4. QED BY <3>3 DEF Moves
  <2>2. CASE db.state \in Executable /\ ~BudgetLeft(db)
    <3>1. db.ceiling \in Nat /\ db.ceiling >= 1 /\ db.attempts \in Nat /\ ~(db.attempts + 1 <= db.ceiling)
      BY <1>0, <2>2, OrdinalsFact DEF BudgetLeft, NextOrdinal, EffectiveMaxAttempts, Run, Ordinals
    <3>2. db' = ExhaustBudget(db)
      BY <1>2, <2>2 DEF Begin
    <3>3. GivenUp
      BY <1>0, <2>2, <3>1, <3>2 DEF ExhaustBudget, Run, GivenUp
    <3>4. QED BY <3>3 DEF Moves
  <2>3. CASE db.state \notin Executable
    BY <1>2, <2>3 DEF Begin
  <2>4. QED BY <2>1, <2>2, <2>3
<1>3. CASE CloseAttempt(w)
  <2>1. worker[w] \in Local /\ w \in Workers
    BY ActorsWork DEF Inv, TypeOK
  <2>2. CASE ~HoldsFence(db, worker[w].ordinal, worker[w].fence)
    BY <1>3, <2>2 DEF CloseAttempt
  <2>3. CASE /\ HoldsFence(db, worker[w].ordinal, worker[w].fence)
             /\ worker[w].outcome = "awaiting_external_verdict"
    <3>1. db' = ParkExternalVerdict(db, worker[w].ordinal, ReceiptOf(w)) /\ db.state = "running"
      BY <1>3, <2>3 DEF CloseAttempt, HoldsFence
    <3>2. Parked
      BY <1>0, <3>1 DEF ParkExternalVerdict, FinishAttempt, UpdateRow, Run, Parked
    <3>3. QED BY <3>2 DEF Moves
  <2>4. CASE /\ HoldsFence(db, worker[w].ordinal, worker[w].fence)
             /\ worker[w].outcome # "awaiting_external_verdict"
    <3>1. /\ db' = FinishAttempt(db, worker[w].ordinal, worker[w].outcome, ReceiptOf(w))
          /\ db.state = "running"
      BY <1>3, <2>4 DEF CloseAttempt, HoldsFence
    <3>2. worker[w].outcome \in {"retry_pending", "stopped", "human_required"}
      BY <2>1, <2>4 DEF Local, Outcomes
    <3>3. Failed
      BY <1>0, <3>1, <3>2 DEF FinishAttempt, UpdateRow, Run, Failed, OpenStates
    <3>4. QED BY <3>3 DEF Moves
  <2>5. QED BY <2>2, <2>3, <2>4
<1>4. CASE \/ AcquireLease(w) \/ ReadRun(w) \/ Execute(w) \/ PerformAction(w) \/ ParkVerdict(w)
           \/ WriteReceipt(w) \/ ReleaseLease(w) \/ AbandonAttempt(w)
  BY <1>4 DEF AcquireLease, ReadRun, Execute, PerformAction, ParkVerdict, WriteReceipt,
              ReleaseLease, AbandonAttempt
<1>5. QED BY <1>1, <1>2, <1>3, <1>4 DEF TickAsync

\* The answer: a parked run is verified, retried or handed to a human.
LEMMA ResumeMoves ==
  ASSUME Inv, NEW w \in crew \cup Pollers, ResumeExternal(w) \/ Crash(w)
  PROVE  Moves \/ db' = db
<1>0. db \in Run /\ StoreOK(db)
  BY DEF Inv, TypeOK
<1>1. ASSUME NEW st \in {"retry_pending", "human_required"}, IsParked(db),
             db' = ResolveExternalVerdict(db, st)
      PROVE  Failed
  BY <1>0, <1>1 DEF ResolveExternalVerdict, IsParked, Run, Failed, OpenStates
<1>2. CASE ResumeFailed(w)
  <2>1. db' = IF IsParked(db) THEN ResolveExternalVerdict(db, "retry_pending") ELSE db
    BY <1>2 DEF ResumeFailed
  <2>2. QED BY <1>1, <2>1 DEF Moves
<1>3. CASE RejectFinal(w)
  <2>1. db' = IF IsParked(db) THEN ResolveExternalVerdict(db, "human_required") ELSE db
    BY <1>3 DEF RejectFinal
  <2>2. QED BY <1>1, <2>1 DEF Moves
<1>4. CASE CommitFinal(w)
  <2>1. CASE CanResolveWithDelivery(db) /\ db.fence = worker[w].fence
    <3>1. db' = ResolveExternalVerdictWithDelivery(db)
      BY <1>4, <2>1 DEF CommitFinal
    <3>2. Verified
      BY <1>0, <2>1, <3>1 DEF ResolveExternalVerdictWithDelivery, FinishAttemptWithDelivery,
         UpdateRow, CanResolveWithDelivery, IsParked, Run, Verified, OpenStates
    <3>3. QED BY <3>2 DEF Moves
  <2>2. CASE ~(CanResolveWithDelivery(db) /\ db.fence = worker[w].fence)
    BY <1>4, <2>2 DEF CommitFinal
  <2>3. QED BY <2>1, <2>2
<1>5. CASE \/ PollRead(w) \/ RecoverVerdict(w) \/ ResolveVerdict(w) \/ Normalize(w)
           \/ AssembleFinal(w) \/ Crash(w)
  BY <1>5 DEF PollRead, RecoverVerdict, ResolveVerdict, Normalize, AssembleFinal, Crash
<1>6. QED BY <1>2, <1>3, <1>4, <1>5 DEF ResumeExternal, Finishing

LEMMA StoreMoves ==
  ASSUME Inv, [Next]_vars
  PROVE  Moves \/ db' = db
<1>1. ASSUME NEW d \in Diffs, ConclusionLands(d) PROVE db' = db
  BY <1>1 DEF ConclusionLands
<1>2. LeaseExpires \/ UNCHANGED vars => db' = db
  BY DEF LeaseExpires, vars
<1>3. QED BY <1>1, <1>2, TickMoves, ResumeMoves DEF Next

LEMMA ContractInit == Init => Contract!Init
BY DEF Init, CreateRun, Contract!Init

\* Parking, polling and resuming add nothing to what RunContract promises.
THEOREM ExternalImplementsContract == Spec => ImplementsContract
<1>1. ASSUME Inv, Inv', [Next]_vars PROVE Contract!Next \/ UNCHANGED Contract!vars
  BY <1>1, StoreMoves, ContractStep
<1>2. Inv /\ Inv' /\ [Next]_vars => [Contract!Next]_(Contract!vars)
  BY <1>1
<1>3. QED BY <1>2, ContractInit, InvIsInvariant, PTL DEF Spec, ImplementsContract, Contract!Spec
=============================================================================
