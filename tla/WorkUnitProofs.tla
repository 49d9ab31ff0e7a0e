---------------------------- MODULE WorkUnitProofs ----------------------------
(***************************************************************************)
(* What goes on beside the completion of a work unit, over the tables of   *)
(* the same store: the durable phase jobs of PhaseJobs and the planner     *)
(* recovery of UnitRecovery.  The two share no state and no constant.      *)
(*                                                                         *)
(* Part one: the slots, the carriers and the settlement of PhaseJobs, for  *)
(* any number of controllers, units, phases and slot classes and any       *)
(* number of faults.  Every clause of the invariant is about one job,      *)
(* except the two that make jobs exclude each other: SlotsKept and         *)
(* OnePerUnit.                                                             *)
(***************************************************************************)
EXTENDS PhaseJobs, UnitRecovery, FiniteSetTheorems, TLAPS

JobRecord == [status: JobStatuses, creator: Controllers \cup {NoController}, carrier: Controllers \cup {NoController}]
HostTable == [Controllers -> [at: Steps, job: Jobs, fresh: BOOLEAN]]
CarrierTable == [Jobs -> [Controllers -> CarrierStates]]

\* The types of everything but the job table.
OthersTyped ==
    /\ phase \in [Jobs -> {"open", "claimed", "settled"}]
    /\ overdue \subseteq Jobs
    /\ host \in HostTable
    /\ living \subseteq Controllers
    /\ carrier \in CarrierTable
    /\ effects \in [Jobs -> Nat]

Vacant == {"absent", "waiting", "settled"}      \* holds no slot
Unborn == {"absent", "waiting", "reserved"}     \* nobody has claimed the job
Done == {"result_ready", "settled"}

\* The jobs that occupy a class, and so the carriers still alive among them,
\* are no more than its limit.
SlotsKept == \A s \in Slots : Cardinality(Owners(s)) <= Limit[s]

\* A unit has at most one job that has been asked for and is not settled.
OnePerUnit ==
    \A j, k \in Jobs :
        j # k /\ j[1] = k[1] => job[j].status \in {"absent", "settled"}
                                \/ job[k].status \in {"absent", "settled"}

\* A carrier that may start or has started the command is the carrier of the
\* job, which keeps its slots as long as that carrier may still be at work.
CarrierOK(j) ==
    /\ job[j].status \in Unborn => job[j].carrier = NoController
    /\ \A h \in Controllers : carrier[j][h] \in {"claimed", "effect"} =>
          job[j].carrier = h /\ job[j].status \in {"running", "outcome_unknown"}

\* The command is started by that carrier alone, and a result is its result.
EffectOK(j) ==
    /\ effects[j] \in {0, 1}
    /\ job[j].carrier = NoController => effects[j] = 0
    /\ \A h \in Controllers : /\ carrier[j][h] = "claimed" => effects[j] = 0
                              /\ carrier[j][h] = "effect" => effects[j] = 1
    /\ job[j].status \in Done => effects[j] = 1

PhaseOK(j) ==
    /\ phase[j] = "settled" => job[j].status \in Done
    /\ job[j].status = "settled" => phase[j] = "settled"

\* What a controller has read stays true until it settles the phase with it.
Knows(h) == host[h].at = "accept" => job[host[h].job].status \in Done

JobsInv ==
    /\ JobsTypeOK
    /\ SlotsKept
    /\ OnePerUnit
    /\ \A j \in Jobs : CarrierOK(j) /\ EffectOK(j) /\ PhaseOK(j)
    /\ \A h \in Controllers : Knows(h)

-----------------------------------------------------------------------------
\* Sets of jobs and their size.

LEMMA JobsFinite == IsFiniteSet(Jobs) /\ Jobs # {} /\ AtRest.job \in Jobs
<1>1. IsFiniteSet(DOMAIN DurablePhases) /\ 1 \in DOMAIN DurablePhases
  BY DurablePhasesAssumption, FS_Interval
<1>2. IsFiniteSet(Jobs)
  BY <1>1, UnitsAssumption, FS_Product DEF Jobs
<1>3. Jobs # {}
  <2>1. PICK u \in Units : TRUE
    BY UnitsAssumption
  <2>2. <<u, 1>> \in Jobs
    BY <1>1, <2>1 DEF Jobs
  <2>3. QED BY <2>2
<1>4. (CHOOSE j \in Jobs : TRUE) \in Jobs
  BY <1>3
<1>5. QED BY <1>2, <1>3, <1>4 DEF AtRest

\* A set of jobs that contains no more than another is no larger.
LEMMA SmallerSet ==
  ASSUME NEW T \in SUBSET Jobs, NEW S \in SUBSET T
  PROVE  Cardinality(S) <= Cardinality(T) /\ Cardinality(S) \in Nat /\ Cardinality(T) \in Nat
<1>1. IsFiniteSet(T)
  BY JobsFinite, FS_Subset
<1>2. IsFiniteSet(S) /\ Cardinality(S) <= Cardinality(T)
  BY <1>1, FS_Subset
<1>3. QED BY <1>1, <1>2, FS_CardinalityType

\* _phase_waiting_slot_conn: a job takes its slots only while there is room.
LEMMA SlotsStep ==
  ASSUME JobsTypeOK, SlotsKept, NEW j \in Jobs, NEW r \in JobRecord,
         job' = [job EXCEPT ![j] = r],
         r.status \in Vacant \/ job[j].status \notin Vacant \/ SlotsFree(j)
  PROVE  SlotsKept'
<1> SUFFICES ASSUME NEW s \in Slots
             PROVE  Cardinality(Owners(s)') <= Limit[s]
  BY DEF SlotsKept
<1>1. Limit[s] \in Nat /\ Cardinality(Owners(s)) <= Limit[s]
  BY LimitAssumption DEF SlotsKept
<1>2. \A k \in Jobs : k # j => job'[k] = job[k]
  BY DEF JobsTypeOK
<1>3. job'[j] = r
  BY DEF JobsTypeOK
<1>4. CASE Owners(s)' \subseteq Owners(s)
  <2>1. Owners(s) \subseteq Jobs
    BY DEF Owners
  <2>2. QED BY <1>1, <1>4, <2>1, SmallerSet
<1>5. CASE ~(Owners(s)' \subseteq Owners(s))
  <2>1. j \in Owners(s)' /\ j \notin Owners(s)
    BY <1>2, <1>5 DEF Owners, NeedsOf
  <2>2. s \in NeedsOf(j) /\ SlotsFree(j)
    BY <2>1, <1>3 DEF Owners, NeedsOf, Vacant
  <2>3. Cardinality(Owners(s)) < Limit[s]
    <3>1. Owners(s) \ {j} = Owners(s)
      BY <2>1
    <3>2. QED BY <2>2, <3>1 DEF SlotsFree
  <2>4. Owners(s)' = Owners(s) \cup {j}
    BY <1>2, <2>1 DEF Owners, NeedsOf
  <2>5. IsFiniteSet(Owners(s))
    BY JobsFinite, FS_Subset DEF Owners
  <2>6. Cardinality(Owners(s)') = Cardinality(Owners(s)) + 1
    BY <2>1, <2>4, <2>5, FS_AddElement
  <2>7. Cardinality(Owners(s)) \in Nat
    BY <2>5, FS_CardinalityType
  <2>8. QED BY <1>1, <2>3, <2>6, <2>7
<1>6. QED BY <1>4, <1>5

-----------------------------------------------------------------------------
\* One transaction.

\* What a step has to show about the one job it writes, and about the
\* controllers it moves, for the invariant to hold after it.
LEMMA StepOfJob ==
  ASSUME JobsInv, OthersTyped', NEW j \in Jobs, NEW r \in JobRecord,
         job' = [job EXCEPT ![j] = r],
         r.status \in Vacant \/ job[j].status \notin Vacant \/ SlotsFree(j),
         \/ r.status \in {"absent", "settled"}
         \/ job[j].status \notin {"absent", "settled"}
         \/ Authorized(j),
         job[j].status \in Done => r.status \in Done,
         \A k \in Jobs \ {j} : /\ phase'[k] = phase[k]
                               /\ carrier'[k] = carrier[k]
                               /\ effects'[k] = effects[k],
         CarrierOK(j)', EffectOK(j)', PhaseOK(j)',
         \A h \in Controllers : host'[h] = host[h] \/ Knows(h)'
  PROVE  JobsInv'
<1>1. job'[j] = r /\ \A k \in Jobs : k # j => job'[k] = job[k]
  BY DEF JobsInv, JobsTypeOK
<1>0. JobsTypeOK'
  <2>1. job' \in [Jobs -> JobRecord]
    BY DEF JobsInv, JobsTypeOK, JobRecord
  <2>2. QED BY <2>1 DEF JobsTypeOK, OthersTyped, JobRecord, HostTable, CarrierTable
<1>2. SlotsKept'
  BY SlotsStep DEF JobsInv
<1>3. OnePerUnit'
  <2> SUFFICES ASSUME NEW m \in Jobs, NEW k \in Jobs, m # k, m[1] = k[1]
               PROVE  job'[m].status \in {"absent", "settled"}
                      \/ job'[k].status \in {"absent", "settled"}
    BY DEF OnePerUnit
  <2>1. job[m].status \in {"absent", "settled"} \/ job[k].status \in {"absent", "settled"}
    BY DEF JobsInv, OnePerUnit
  <2>2. QED BY <1>1, <2>1 DEF Authorized
<1>4. ASSUME NEW k \in Jobs
      PROVE  (CarrierOK(k) /\ EffectOK(k) /\ PhaseOK(k))'
  <2>1. CASE k = j
    BY <2>1
  <2>2. CASE k # j
    <3>1. /\ phase'[k] = phase[k] /\ carrier'[k] = carrier[k]
          /\ effects'[k] = effects[k] /\ job'[k] = job[k]
      BY <1>1, <2>2
    <3>2. QED BY <3>1 DEF JobsInv, CarrierOK, EffectOK, PhaseOK
  <2>3. QED BY <2>1, <2>2
<1>5. ASSUME NEW h \in Controllers
      PROVE  Knows(h)'
  <2>1. CASE host'[h] = host[h]
    <3>1. host[h].job \in Jobs
      BY DEF JobsInv, JobsTypeOK
    <3>2. QED BY <1>1, <2>1, <3>1 DEF JobsInv, Knows
  <2>2. QED BY <2>1
<1>6. QED BY <1>0, <1>2, <1>3, <1>4, <1>5 DEF JobsInv

\* Steps that leave the job table as it is.
LEMMA StepBesideJobs ==
  ASSUME JobsInv, OthersTyped', NEW j \in Jobs, job' = job,
         \A k \in Jobs \ {j} : /\ phase'[k] = phase[k]
                               /\ carrier'[k] = carrier[k]
                               /\ effects'[k] = effects[k],
         CarrierOK(j)', EffectOK(j)', PhaseOK(j)',
         \A h \in Controllers : host'[h] = host[h] \/ Knows(h)'
  PROVE  JobsInv'
<1>1. job[j] \in JobRecord /\ job' = [job EXCEPT ![j] = job[j]]
  BY DEF JobsInv, JobsTypeOK, JobRecord
<1>2. job[j].status \in Vacant \/ job[j].status \notin Vacant
  OBVIOUS
<1>3. job[j].status \in {"absent", "settled"} \/ job[j].status \notin {"absent", "settled"}
  OBVIOUS
<1>4. QED BY <1>1, <1>2, <1>3, StepOfJob

-----------------------------------------------------------------------------
\* Types.

\* read_phase_job changes the status alone, and only to outcome_unknown.
LEMMA ReconciledFacts ==
  ASSUME JobsTypeOK, NEW j \in Jobs
  PROVE  /\ Reconciled(j) \in JobRecord
         /\ Reconciled(j).carrier = job[j].carrier
         /\ \/ Reconciled(j) = job[j]
            \/ /\ job[j].status \in {"reserved", "running"}
               /\ Reconciled(j).status = "outcome_unknown"
<1> DEFINE r == [status |-> "outcome_unknown", creator |-> job[j].creator,
                 carrier |-> job[j].carrier]
<1>1. job[j] \in JobRecord /\ r \in JobRecord
  BY DEF JobsTypeOK, JobRecord, JobStatuses
<1>2. [job[j] EXCEPT !.status = "outcome_unknown"] = r
  BY <1>1 DEF JobRecord
<1>3. \/ Reconciled(j) = job[j]
      \/ /\ job[j].status \in {"reserved", "running"}
         /\ Reconciled(j) = r
  <2> HIDE DEF r
  <2>1. QED BY <1>2 DEF Reconciled
<1>4. QED BY <1>1, <1>3

\* A controller moves to another step with its job, or comes to rest.  One that
\* goes to accept has to know that the job is done.
LEMMA Moved ==
  ASSUME JobsTypeOK, NEW h \in Controllers, NEW step \in Steps, Goto(h, step) \/ Rest(h),
         step = "accept" => job'[host[h].job].status \in Done
  PROVE  host' \in HostTable /\ \A g \in Controllers : host'[g] = host[g] \/ Knows(g)'
<1> DEFINE there == [at |-> step, job |-> host[h].job, fresh |-> FALSE]
<1>1. there \in [at: Steps, job: Jobs, fresh: BOOLEAN]
  BY DEF JobsTypeOK
<1>2. AtRest \in [at: Steps, job: Jobs, fresh: BOOLEAN] /\ AtRest.at = "idle"
  BY JobsFinite DEF AtRest, Steps
<1>3. CASE Goto(h, step)
  <2>1. host'[h] = there
    BY <1>3 DEF Goto, JobsTypeOK
  <2>2. host' \in HostTable /\ host'[h] = there /\ \A g \in Controllers : g # h => host'[g] = host[g]
    <3> HIDE DEF there
    <3>1. /\ host' = [g \in Controllers |-> host'[g]] /\ DOMAIN host = Controllers
          /\ \A g \in Controllers : g # h => host'[g] = host[g]
      BY <1>3 DEF JobsTypeOK, Goto
    <3>2. QED BY <1>1, <2>1, <3>1 DEF JobsTypeOK, HostTable
  <2>3. QED BY <2>2 DEF Knows
<1>4. CASE Rest(h)
  <2>1. host' \in HostTable /\ host'[h] = AtRest /\ \A g \in Controllers : g # h => host'[g] = host[g]
    BY <1>2, <1>4 DEF JobsTypeOK, HostTable, Rest
  <2>2. QED BY <1>2, <2>1 DEF Knows
<1>5. QED BY <1>3, <1>4

-----------------------------------------------------------------------------
\* The controllers.

LEMMA EnterPhaseStep ==
  ASSUME JobsInv, NEW h \in Controllers, NEW j \in Jobs, EnterPhase(h, j)
  PROVE  JobsInv'
<1> DEFINE step == CASE phase[j] = "settled" -> "settle"
                     [] phase[j] # "settled" /\ job[j].status = "absent" -> "reserve"
                     [] OTHER -> "reenter"
           there == [at |-> step, job |-> j, fresh |-> phase[j] = "open"]
<1>1. there \in [at: Steps, job: Jobs, fresh: BOOLEAN] /\ there.at # "accept"
  BY DEF Steps
<1>2. host' \in HostTable /\ \A g \in Controllers : host'[g] = host[g] \/ Knows(g)'
  <2> HIDE DEF there
  <2>1. host' = [host EXCEPT ![h] = there]
    BY DEF EnterPhase, there
  <2>2. host' \in HostTable /\ host'[h] = there /\ \A g \in Controllers : g # h => host'[g] = host[g]
    BY <1>1, <2>1 DEF JobsInv, JobsTypeOK, HostTable
  <2>3. QED BY <1>1, <2>2 DEF Knows
<1>3. OthersTyped'
  BY <1>2 DEF EnterPhase, JobsInv, JobsTypeOK, OthersTyped, CarrierTable, carriers
<1>4. \A k \in Jobs \ {j} : phase'[k] = phase[k]
  BY DEF EnterPhase, JobsInv, JobsTypeOK
<1>5. PhaseOK(j)'
  BY DEF EnterPhase, JobsInv, JobsTypeOK, PhaseOK
<1>6. CarrierOK(j)' /\ EffectOK(j)'
  BY DEF EnterPhase, JobsInv, CarrierOK, EffectOK, carriers
<1>7. QED BY <1>2, <1>3, <1>4, <1>5, <1>6, StepBesideJobs DEF EnterPhase, carriers

\* A controller step that changes neither the job nor its phase.
LEMMA LookStep ==
  ASSUME JobsInv, NEW h \in Controllers, NEW step \in Steps, Goto(h, step) \/ Rest(h),
         step = "accept" => job[host[h].job].status \in Done,
         UNCHANGED <<phase, job, overdue, living, carriers>>
  PROVE  JobsInv'
<1>1. host' \in HostTable /\ \A g \in Controllers : host'[g] = host[g] \/ Knows(g)'
  BY Moved DEF JobsInv
<1>2. OthersTyped'
  BY <1>1 DEF JobsInv, JobsTypeOK, OthersTyped, CarrierTable, carriers
<1>3. host[h].job \in Jobs
  BY DEF JobsInv, JobsTypeOK
<1>4. (CarrierOK(host[h].job) /\ EffectOK(host[h].job) /\ PhaseOK(host[h].job))
      /\ UNCHANGED <<phase, job, carrier, effects>>
  BY <1>3 DEF JobsInv, carriers
<1>5. \A j \in Jobs : CarrierOK(j)' /\ EffectOK(j)' /\ PhaseOK(j)'
  BY <1>4 DEF JobsInv, CarrierOK, EffectOK, PhaseOK
<1>6. QED BY <1>1, <1>2, <1>3, <1>4, <1>5, StepBesideJobs

\* A controller step that writes one job and moves the controller; the carriers
\* and the phases stay.
LEMMA WriteStep ==
  ASSUME JobsInv, NEW h \in Controllers, NEW step \in Steps, Goto(h, step) \/ Rest(h),
         NEW j \in Jobs, j = host[h].job, NEW r \in JobRecord, job' = [job EXCEPT ![j] = r],
         r.carrier = job[j].carrier,
         step = "accept" => r.status \in Done,
         r.status \in Vacant \/ job[j].status \notin Vacant \/ SlotsFree(j),
         \/ r.status \in {"absent", "settled"}
         \/ job[j].status \notin {"absent", "settled"}
         \/ Authorized(j),
         r.status \in Unborn => job[j].status \in Unborn,
         job[j].status \in {"running", "outcome_unknown"} =>
            r.status \in {"running", "outcome_unknown"},
         r.status \in Done <=> job[j].status \in Done,
         r.status = "settled" => phase[j] = "settled",
         UNCHANGED <<phase, overdue, living, carriers>>
  PROVE  JobsInv'
<1>1. job'[j] = r
  BY DEF JobsInv, JobsTypeOK
<1>2. host' \in HostTable /\ \A g \in Controllers : host'[g] = host[g] \/ Knows(g)'
  BY <1>1, Moved DEF JobsInv
<1>3. OthersTyped'
  BY <1>2 DEF JobsInv, JobsTypeOK, OthersTyped, CarrierTable, carriers
<1>4. CarrierOK(j)'
  BY <1>1 DEF JobsInv, CarrierOK, carriers
<1>5. EffectOK(j)'
  BY <1>1 DEF JobsInv, EffectOK, carriers
<1>6. PhaseOK(j)'
  BY <1>1 DEF JobsInv, PhaseOK
<1>7. QED BY <1>2, <1>3, <1>4, <1>5, <1>6, StepOfJob DEF carriers

LEMMA ReserveStep ==
  ASSUME JobsInv, NEW h \in Controllers, Reserve(h)
  PROVE  JobsInv'
<1>1. PICK j \in Jobs : j = host[h].job
  BY DEF JobsInv, JobsTypeOK
<1> DEFINE r == [status |-> IF SlotsFree(j) THEN "reserved" ELSE "waiting",
                 creator |-> h, carrier |-> NoController]
<1>2. CASE job[j].status = "absent" /\ host[h].fresh /\ Authorized(j)
  <2>1. r \in JobRecord /\ r.carrier = job[j].carrier
    BY <1>1, <1>2 DEF JobRecord, JobStatuses, JobsInv, CarrierOK, Unborn
  <2>2. job' = [job EXCEPT ![j] = r]
    BY <1>1, <1>2 DEF Reserve
  <2>3. PICK step \in {"submit", "acquire"} : Goto(h, step)
    BY <1>1, <1>2 DEF Reserve
  <2>4. /\ r.status = "waiting" \/ (r.status = "reserved" /\ SlotsFree(j))
        /\ r.status \in {"waiting", "reserved"}
    OBVIOUS
  <2> HIDE DEF r
  <2>5. QED
    BY <1>1, <1>2, <2>1, <2>2, <2>3, <2>4, WriteStep
    DEF Reserve, Steps, Vacant, Unborn, Done
<1>3. CASE ~(job[j].status = "absent" /\ host[h].fresh /\ Authorized(j))
  <2>1. /\ UNCHANGED <<phase, job, overdue, living, carriers>>
        /\ Rest(h) \/ Goto(h, Onward(j))
    BY <1>1, <1>3 DEF Reserve
  <2>2. Onward(j) \in {"acquire", "read"}
    BY DEF Onward
  <2>3. QED BY <2>1, <2>2, LookStep DEF Steps
<1>4. QED BY <1>2, <1>3

LEMMA ReenterStep ==
  ASSUME JobsInv, NEW h \in Controllers, Reenter(h)
  PROVE  JobsInv'
<1>1. Onward(host[h].job) \in {"acquire", "read"}
  BY DEF Onward
<1>2. QED BY <1>1, LookStep DEF Reenter, Steps

LEMMA AcquireSlotsStep ==
  ASSUME JobsInv, NEW h \in Controllers, AcquireSlots(h)
  PROVE  JobsInv'
<1>1. PICK j \in Jobs : j = host[h].job
  BY DEF JobsInv, JobsTypeOK
<1> DEFINE r == [status |-> "reserved", creator |-> h, carrier |-> job[j].carrier]
<1>2. CASE job[j].status = "waiting" /\ Authorized(j) /\ SlotsFree(j)
  <2>1. r \in JobRecord /\ r.carrier = job[j].carrier /\ r.status = "reserved"
    BY <1>1 DEF JobRecord, JobStatuses, JobsInv, JobsTypeOK
  <2>2. job' = [job EXCEPT ![j] = r]
    <3>1. job'[j] = r
      BY <1>1, <1>2 DEF AcquireSlots, JobsInv, JobsTypeOK
    <3>2. QED BY <3>1, <1>1, <1>2 DEF AcquireSlots, JobsInv, JobsTypeOK
  <2> HIDE DEF r
  <2>3. QED
    BY <1>1, <1>2, <2>1, <2>2, WriteStep DEF AcquireSlots, Steps, Vacant, Unborn, Done
<1>3. CASE ~(job[j].status = "waiting" /\ Authorized(j) /\ SlotsFree(j))
  <2>1. /\ UNCHANGED <<phase, job, overdue, living, carriers>>
        /\ Rest(h) \/ Goto(h, "read")
    BY <1>1, <1>3 DEF AcquireSlots
  <2>2. QED BY <2>1, LookStep DEF Steps
<1>4. QED BY <1>2, <1>3

\* The carrier of a job that is still reserved is the first of this job.
LEMMA SubmitStep ==
  ASSUME JobsInv, NEW h \in Controllers, Submit(h)
  PROVE  JobsInv'
<1>1. PICK j \in Jobs : j = host[h].job
  BY DEF JobsInv, JobsTypeOK
<1>2. PICK r \in JobRecord : r = Reconciled(j)
  BY ReconciledFacts DEF JobsInv
<1>3. job' = [job EXCEPT ![j] = r] /\ job'[j] = r
  BY <1>1, <1>2 DEF Submit, JobsInv, JobsTypeOK
<1>4. /\ r.carrier = job[j].carrier
      /\ (r = job[j] \/ (job[j].status \in {"reserved", "running"} /\ r.status = "outcome_unknown"))
  BY <1>2, ReconciledFacts DEF JobsInv
<1>5. host' \in HostTable /\ \A g \in Controllers : host'[g] = host[g] \/ Knows(g)'
  BY Moved DEF JobsInv, Submit, Steps
<1>6. /\ carrier' \in CarrierTable
      /\ \A k \in Jobs \ {j} : carrier'[k] = carrier[k]
      /\ \A g \in Controllers : carrier'[j][g] = carrier[j][g] \/ carrier'[j][g] = "spawned"
  BY <1>1 DEF Submit, JobsInv, JobsTypeOK, CarrierTable, CarrierStates
<1>7. OthersTyped'
  BY <1>5, <1>6 DEF JobsInv, JobsTypeOK, OthersTyped, Submit
<1>8. CarrierOK(j)'
  BY <1>3, <1>4, <1>6 DEF JobsInv, CarrierOK, Unborn
<1>9. EffectOK(j)'
  <2>1. EffectOK(j) /\ UNCHANGED effects
    BY DEF JobsInv, Submit
  <2>2. r.status \in Done => job[j].status \in Done
    BY <1>4 DEF Done
  <2>3. QED BY <1>3, <1>4, <1>6, <2>1, <2>2 DEF EffectOK
<1>10. PhaseOK(j)'
  BY <1>3, <1>4 DEF JobsInv, PhaseOK, Submit, Done
<1>11. /\ r.status \in Vacant \/ job[j].status \notin Vacant
       /\ r.status \in {"absent", "settled"} \/ job[j].status \notin {"absent", "settled"}
       /\ job[j].status \in Done => r.status \in Done
  BY <1>4 DEF Vacant, Done
<1>12. QED
  BY <1>3, <1>5, <1>6, <1>7, <1>8, <1>9, <1>10, <1>11, StepOfJob DEF Submit

LEMMA ReadJobStep ==
  ASSUME JobsInv, NEW h \in Controllers, ReadJob(h)
  PROVE  JobsInv'
<1>1. PICK j \in Jobs : j = host[h].job
  BY DEF JobsInv, JobsTypeOK
<1>2. PICK r \in JobRecord : r = Reconciled(j)
  BY ReconciledFacts DEF JobsInv
<1>3. job' = [job EXCEPT ![j] = r] /\ job'[j] = r
  BY <1>1, <1>2 DEF ReadJob, JobsInv, JobsTypeOK
<1>4. /\ r.carrier = job[j].carrier
      /\ (r = job[j] \/ (job[j].status \in {"reserved", "running"} /\ r.status = "outcome_unknown"))
  BY <1>2, ReconciledFacts DEF JobsInv
<1>5. PICK step \in Steps : /\ Goto(h, step) \/ Rest(h)
                            /\ step = "accept" => job'[j].status \in Done
  BY <1>1 DEF ReadJob, Steps, Done
<1>6. job[j].status = "settled" => phase[j] = "settled"
  BY DEF JobsInv, PhaseOK
<1>7. UNCHANGED <<phase, overdue, living, carriers>>
  BY DEF ReadJob
<1>8. /\ r.status \in Vacant \/ job[j].status \notin Vacant
      /\ r.status \in {"absent", "settled"} \/ job[j].status \notin {"absent", "settled"}
      /\ r.status \in Unborn => job[j].status \in Unborn
      /\ job[j].status \in {"running", "outcome_unknown"} =>
            r.status \in {"running", "outcome_unknown"}
      /\ r.status \in Done <=> job[j].status \in Done
      /\ r.status = "settled" => phase[j] = "settled"
      /\ step = "accept" => r.status \in Done
  BY <1>3, <1>4, <1>5, <1>6 DEF Vacant, Unborn, Done
<1>9. QED
  BY <1>1, <1>3, <1>4, <1>5, <1>7, <1>8, WriteStep

LEMMA AcceptResultStep ==
  ASSUME JobsInv, NEW h \in Controllers, AcceptResult(h)
  PROVE  JobsInv'
<1>1. PICK j \in Jobs : j = host[h].job
  BY DEF JobsInv, JobsTypeOK
<1>2. job[j].status \in Done
  BY <1>1 DEF JobsInv, JobsTypeOK, AcceptResult, At, Knows
<1>3. CASE phase[j] = "claimed"
  <2>1. host' \in HostTable /\ \A g \in Controllers : host'[g] = host[g] \/ Knows(g)'
    BY <1>1, <1>2, <1>3, Moved DEF JobsInv, AcceptResult, Steps
  <2>2. /\ phase' = [phase EXCEPT ![j] = "settled"]
        /\ UNCHANGED <<job, overdue, living, carriers>>
    BY <1>1, <1>3 DEF AcceptResult
  <2>3. OthersTyped'
    BY <2>1, <2>2 DEF JobsInv, JobsTypeOK, OthersTyped, CarrierTable, carriers
  <2>4. PhaseOK(j)' /\ \A k \in Jobs \ {j} : phase'[k] = phase[k]
    BY <1>2, <2>2 DEF JobsInv, JobsTypeOK, PhaseOK
  <2>5. CarrierOK(j)' /\ EffectOK(j)'
    BY <1>2, <2>2 DEF JobsInv, CarrierOK, EffectOK, carriers
  <2>6. QED BY <2>1, <2>2, <2>3, <2>4, <2>5, StepBesideJobs DEF carriers
<1>4. CASE phase[j] # "claimed"
  BY <1>1, <1>4, LookStep DEF AcceptResult, Steps
<1>5. QED BY <1>3, <1>4

LEMMA SettleJobStep ==
  ASSUME JobsInv, NEW h \in Controllers, SettleJob(h)
  PROVE  JobsInv'
<1>1. PICK j \in Jobs : j = host[h].job
  BY DEF JobsInv, JobsTypeOK
<1> DEFINE st == IF phase[j] = "settled" /\ job[j].status = "result_ready"
                 THEN "settled" ELSE job[j].status
           r == [status |-> st, creator |-> job[j].creator, carrier |-> job[j].carrier]
<1>2. r \in JobRecord /\ r.carrier = job[j].carrier /\ r.status = st
  BY <1>1 DEF JobRecord, JobStatuses, JobsInv, JobsTypeOK
<1>3. job' = [job EXCEPT ![j] = r]
  <2>1. job \in [Jobs -> JobRecord]
    BY DEF JobsInv, JobsTypeOK, JobRecord
  <2>2. PICK old \in JobRecord : old = job[j]
    BY <2>1
  <2>3. job' = [job EXCEPT ![j] = [job[j] EXCEPT !.status = st]]
    BY <1>1 DEF SettleJob
  <2>4. [old EXCEPT !.status = st] = r
    BY <2>2 DEF JobRecord
  <2>5. QED BY <2>2, <2>3, <2>4
<1>4. r.status = "settled" => phase[j] = "settled"
  BY <1>1, <1>2 DEF JobsInv, PhaseOK
<1>5. st = job[j].status \/ (st = "settled" /\ job[j].status = "result_ready")
  OBVIOUS
<1> HIDE DEF r, st
<1>6. Rest(h) /\ UNCHANGED <<phase, overdue, living, carriers>>
  BY DEF SettleJob
<1>7. QED
  BY <1>1, <1>2, <1>3, <1>4, <1>5, <1>6, WriteStep DEF Steps, Vacant, Unborn, Done

-----------------------------------------------------------------------------
\* The carriers.

LEMMA Became ==
  ASSUME JobsTypeOK, NEW j \in Jobs, NEW h \in Controllers, NEW state \in CarrierStates,
         Becomes(j, h, state)
  PROVE  /\ carrier' \in CarrierTable
         /\ \A k \in Jobs \ {j} : carrier'[k] = carrier[k]
         /\ carrier'[j][h] = state
         /\ \A g \in Controllers : g # h => carrier'[j][g] = carrier[j][g]
  BY DEF JobsTypeOK, Becomes, CarrierTable

LEMMA ClaimJobStep ==
  ASSUME JobsInv, NEW j \in Jobs, NEW h \in Controllers, ClaimJob(j, h)
  PROVE  JobsInv'
<1> DEFINE r == [status |-> "running", creator |-> job[j].creator, carrier |-> h]
<1>1. /\ UNCHANGED <<phase, overdue, host, living, effects>>
      /\ \A k \in Jobs \ {j} : phase'[k] = phase[k] /\ effects'[k] = effects[k]
      /\ \A g \in Controllers : host'[g] = host[g]
  BY DEF ClaimJob
<1>2. h # NoController
  BY NoControllerAssumption
<1>3. CASE job[j].status = "reserved" /\ job[j].creator = h /\ h \in living /\ Authorized(j)
  <2>1. r \in JobRecord
    BY DEF JobRecord, JobStatuses, JobsInv, JobsTypeOK
  <2>2. job' = [job EXCEPT ![j] = r] /\ job'[j] = r
    <3>1. job'[j] = r
      BY <1>3 DEF ClaimJob, JobsInv, JobsTypeOK
    <3>2. QED BY <3>1, <1>3 DEF ClaimJob, JobsInv, JobsTypeOK
  <2>3. Becomes(j, h, "claimed")
    BY <1>3 DEF ClaimJob
  <2>4. /\ carrier' \in CarrierTable /\ carrier'[j][h] = "claimed"
        /\ \A k \in Jobs \ {j} : carrier'[k] = carrier[k]
        /\ \A g \in Controllers : g # h => carrier'[j][g] = carrier[j][g]
    BY <2>3, Became DEF JobsInv, CarrierStates
  <2>5. OthersTyped'
    BY <1>1, <2>4 DEF JobsInv, JobsTypeOK, OthersTyped, HostTable
  <2>6. \A g \in Controllers : carrier[j][g] \notin {"claimed", "effect"}
    BY <1>3 DEF JobsInv, CarrierOK
  <2>7. job[j].carrier = NoController /\ effects[j] = 0
    BY <1>3 DEF JobsInv, CarrierOK, EffectOK, Unborn
  <2>8. CarrierOK(j)'
    BY <2>2, <2>4, <2>6 DEF CarrierOK, Unborn
  <2>9. EffectOK(j)'
    BY <1>1, <1>2, <2>2, <2>4, <2>6, <2>7 DEF EffectOK, Done
  <2>10. PhaseOK(j)'
    BY <1>1, <1>3, <2>2 DEF JobsInv, PhaseOK, Done
  <2>11. QED
    BY <1>1, <1>3, <2>1, <2>2, <2>4, <2>5, <2>8, <2>9, <2>10, StepOfJob DEF Vacant, Done
<1>4. CASE ~(job[j].status = "reserved" /\ job[j].creator = h /\ h \in living /\ Authorized(j))
  <2>1. job' = job /\ Becomes(j, h, "gone")
    BY <1>4 DEF ClaimJob
  <2>2. /\ carrier' \in CarrierTable /\ carrier'[j][h] = "gone"
        /\ \A k \in Jobs \ {j} : carrier'[k] = carrier[k]
        /\ \A g \in Controllers : g # h => carrier'[j][g] = carrier[j][g]
    BY <2>1, Became DEF JobsInv, CarrierStates
  <2>3. OthersTyped'
    BY <1>1, <2>2 DEF JobsInv, JobsTypeOK, OthersTyped, HostTable
  <2>4. CarrierOK(j)' /\ EffectOK(j)' /\ PhaseOK(j)'
    BY <1>1, <2>1, <2>2 DEF JobsInv, CarrierOK, EffectOK, PhaseOK
  <2>5. QED BY <1>1, <2>1, <2>2, <2>3, <2>4, StepBesideJobs
<1>5. QED BY <1>3, <1>4

LEMMA LaunchStep ==
  ASSUME JobsInv, NEW j \in Jobs, NEW h \in Controllers, Launch(j, h)
  PROVE  JobsInv'
<1>1. UNCHANGED <<phase, job, overdue, host, living>> /\ carrier[j][h] = "claimed"
  BY DEF Launch, Carries
<1>2. job[j].carrier = h /\ effects[j] = 0 /\ h # NoController
  BY <1>1, NoControllerAssumption DEF JobsInv, CarrierOK, EffectOK
<1>3. \A g \in Controllers : g # h => carrier[j][g] \notin {"claimed", "effect"}
  BY <1>2 DEF JobsInv, CarrierOK
<1>4. job[j].status \notin Done
  BY <1>1 DEF JobsInv, CarrierOK, Done
<1>5. PICK state \in {"effect", "gone"} :
         /\ Becomes(j, h, state)
         /\ effects' = IF state = "effect" THEN [effects EXCEPT ![j] = @ + 1] ELSE effects
  BY DEF Launch
<1>6. /\ carrier' \in CarrierTable /\ carrier'[j][h] = state
      /\ \A k \in Jobs \ {j} : carrier'[k] = carrier[k]
      /\ \A g \in Controllers : g # h => carrier'[j][g] = carrier[j][g]
  BY <1>5, Became DEF JobsInv, CarrierStates
<1>7. /\ effects' \in [Jobs -> Nat]
      /\ effects'[j] = IF state = "effect" THEN 1 ELSE 0
      /\ \A k \in Jobs \ {j} : effects'[k] = effects[k]
  BY <1>2, <1>5 DEF JobsInv, JobsTypeOK
<1>8. OthersTyped'
  BY <1>1, <1>6, <1>7 DEF JobsInv, JobsTypeOK, OthersTyped, HostTable
<1>9. CarrierOK(j)'
  BY <1>1, <1>2, <1>6 DEF JobsInv, CarrierOK
<1>10. EffectOK(j)'
  BY <1>1, <1>2, <1>3, <1>4, <1>5, <1>6, <1>7 DEF EffectOK
<1>11. PhaseOK(j)'
  BY <1>1 DEF JobsInv, PhaseOK
<1>12. QED BY <1>1, <1>6, <1>7, <1>8, <1>9, <1>10, <1>11, StepBesideJobs

LEMMA RecordResultStep ==
  ASSUME JobsInv, NEW j \in Jobs, NEW h \in Controllers, RecordResult(j, h)
  PROVE  JobsInv'
<1> DEFINE r == [status |-> "result_ready", creator |-> job[j].creator, carrier |-> job[j].carrier]
<1>1. /\ UNCHANGED <<phase, overdue, host, living, effects>>
      /\ carrier[j][h] = "effect" /\ Becomes(j, h, "gone")
  BY DEF RecordResult, Carries
<1>2. job[j].carrier = h /\ effects[j] = 1 /\ job[j].status \in {"running", "outcome_unknown"}
  BY <1>1 DEF JobsInv, CarrierOK, EffectOK
<1>3. \A g \in Controllers : g # h => carrier[j][g] \notin {"claimed", "effect"}
  BY <1>2 DEF JobsInv, CarrierOK
<1>4. /\ carrier' \in CarrierTable /\ carrier'[j][h] = "gone"
      /\ \A k \in Jobs \ {j} : carrier'[k] = carrier[k]
      /\ \A g \in Controllers : g # h => carrier'[j][g] = carrier[j][g]
  BY <1>1, Became DEF JobsInv, CarrierStates
<1>5. OthersTyped'
  BY <1>1, <1>4 DEF JobsInv, JobsTypeOK, OthersTyped, HostTable
<1>6. \A g \in Controllers : carrier'[j][g] \notin {"claimed", "effect"}
  BY <1>3, <1>4
<1>7. CASE job[j].status = "running"
  <2>1. r \in JobRecord
    BY DEF JobRecord, JobStatuses, JobsInv, JobsTypeOK
  <2>2. job' = [job EXCEPT ![j] = r] /\ job'[j] = r
    <3>1. job'[j] = r
      BY <1>2, <1>7 DEF RecordResult, Recordable, JobsInv, JobsTypeOK
    <3>2. QED BY <3>1, <1>2, <1>7 DEF RecordResult, Recordable, JobsInv, JobsTypeOK
  <2>3. CarrierOK(j)'
    BY <1>6, <2>2 DEF CarrierOK, Unborn
  <2>4. EffectOK(j)'
    BY <1>1, <1>2, <1>6, <2>2, NoControllerAssumption DEF EffectOK
  <2>5. PhaseOK(j)'
    BY <1>1, <2>2 DEF PhaseOK, Done
  <2>6. QED
    BY <1>1, <1>4, <1>5, <1>7, <2>1, <2>2, <2>3, <2>4, <2>5, StepOfJob DEF Vacant, Done
<1>8. CASE job[j].status = "outcome_unknown"
  <2>1. job' = job
    BY <1>8 DEF RecordResult, Recordable
  <2>2. CarrierOK(j)' /\ EffectOK(j)' /\ PhaseOK(j)'
    BY <1>1, <1>6, <2>1 DEF JobsInv, CarrierOK, EffectOK, PhaseOK
  <2>3. QED BY <1>1, <1>4, <1>5, <2>1, <2>2, StepBesideJobs
<1>9. QED BY <1>2, <1>7, <1>8

-----------------------------------------------------------------------------
\* The faults.

LEMMA DieStep ==
  ASSUME JobsInv, NEW h \in Controllers, ControllerDies(h)
  PROVE  JobsInv'
<1>1. PICK j \in Jobs : TRUE
  BY JobsFinite
<1>2. host' \in HostTable /\ \A g \in Controllers : host'[g] = host[g] \/ Knows(g)'
  BY Moved DEF JobsInv, ControllerDies, Steps
<1>3. UNCHANGED <<phase, job, overdue, carrier, effects>> /\ living' \subseteq living
  BY DEF ControllerDies, carriers
<1>4. OthersTyped'
  BY <1>2, <1>3 DEF JobsInv, JobsTypeOK, OthersTyped, CarrierTable
<1>5. CarrierOK(j)' /\ EffectOK(j)' /\ PhaseOK(j)'
  BY <1>3 DEF JobsInv, CarrierOK, EffectOK, PhaseOK
<1>6. QED BY <1>2, <1>3, <1>4, <1>5, StepBesideJobs

LEMMA LoseCarrierStep ==
  ASSUME JobsInv, NEW j \in Jobs, NEW h \in Controllers, LoseCarrier(j, h)
  PROVE  JobsInv'
<1>1. UNCHANGED <<phase, job, overdue, host, living, effects>> /\ Becomes(j, h, "lost")
  BY DEF LoseCarrier
<1>2. /\ carrier' \in CarrierTable /\ carrier'[j][h] = "lost"
      /\ \A k \in Jobs \ {j} : carrier'[k] = carrier[k]
      /\ \A g \in Controllers : g # h => carrier'[j][g] = carrier[j][g]
  BY <1>1, Became DEF JobsInv, CarrierStates
<1>3. OthersTyped'
  BY <1>1, <1>2 DEF JobsInv, JobsTypeOK, OthersTyped, HostTable
<1>4. CarrierOK(j)' /\ EffectOK(j)' /\ PhaseOK(j)'
  BY <1>1, <1>2 DEF JobsInv, CarrierOK, EffectOK, PhaseOK
<1>5. QED BY <1>1, <1>2, <1>3, <1>4, StepBesideJobs

LEMMA DeadlinePassesStep ==
  ASSUME JobsInv, NEW j \in Jobs, JobDeadlinePasses(j)
  PROVE  JobsInv'
<1>1. UNCHANGED <<phase, job, host, living, carrier, effects>> /\ overdue' = overdue \cup {j}
  BY DEF JobDeadlinePasses, carriers
<1>2. OthersTyped'
  BY <1>1 DEF JobsInv, JobsTypeOK, OthersTyped, HostTable, CarrierTable
<1>3. CarrierOK(j)' /\ EffectOK(j)' /\ PhaseOK(j)'
  BY <1>1 DEF JobsInv, CarrierOK, EffectOK, PhaseOK
<1>4. QED BY <1>1, <1>2, <1>3, StepBesideJobs

-----------------------------------------------------------------------------
\* The invariant.

LEMMA JobsInitialInv == JobsInit => JobsInv
<1> SUFFICES ASSUME JobsInit PROVE JobsInv
  OBVIOUS
<1>1. JobsTypeOK
  <2>1. host \in HostTable
    BY JobsFinite DEF JobsInit, HostTable, Steps, AtRest
  <2>2. job \in [Jobs -> JobRecord]
    BY DEF JobsInit, JobRecord, JobStatuses
  <2>3. carrier \in CarrierTable
    BY DEF JobsInit, CarrierTable, CarrierStates
  <2>4. QED BY <2>1, <2>2, <2>3 DEF JobsInit, JobsTypeOK, HostTable, JobRecord, CarrierTable
<1>2. \A j \in Jobs : job[j] = [status |-> "absent", creator |-> NoController, carrier |-> NoController]
  BY DEF JobsInit
<1>3. SlotsKept
  <2> SUFFICES ASSUME NEW s \in Slots PROVE Cardinality(Owners(s)) <= Limit[s]
    BY DEF SlotsKept
  <2>1. Owners(s) = {}
    BY <1>2 DEF Owners
  <2>2. QED BY <2>1, FS_EmptySet, LimitAssumption
<1>4. OnePerUnit
  BY <1>2 DEF OnePerUnit
<1>5. \A j \in Jobs : CarrierOK(j) /\ EffectOK(j) /\ PhaseOK(j)
  BY <1>2 DEF JobsInit, CarrierOK, EffectOK, PhaseOK, Done
<1>6. \A h \in Controllers : Knows(h)
  BY DEF JobsInit, AtRest, Knows
<1>7. QED BY <1>1, <1>3, <1>4, <1>5, <1>6 DEF JobsInv

LEMMA StutterStep ==
  ASSUME JobsInv, UNCHANGED jobsVars
  PROVE  JobsInv'
<1>1. PICK j \in Jobs : TRUE
  BY JobsFinite
<1>2. UNCHANGED <<phase, job, overdue, host, living, carrier, effects>>
  BY DEF jobsVars
<1>3. OthersTyped'
  BY <1>2 DEF JobsInv, JobsTypeOK, OthersTyped, HostTable, CarrierTable
<1>4. CarrierOK(j)' /\ EffectOK(j)' /\ PhaseOK(j)'
  BY <1>2 DEF JobsInv, CarrierOK, EffectOK, PhaseOK
<1>5. QED BY <1>2, <1>3, <1>4, StepBesideJobs

LEMMA JobsNextStep == JobsInv /\ [JobsNext]_jobsVars => JobsInv'
<1> SUFFICES ASSUME JobsInv, [JobsNext]_jobsVars PROVE JobsInv'
  OBVIOUS
<1>1. ASSUME NEW h \in Controllers, Step(h)
      PROVE  JobsInv'
  BY <1>1, ReserveStep, ReenterStep, AcquireSlotsStep, SubmitStep, ReadJobStep, AcceptResultStep,
     SettleJobStep DEF Step
<1>2. ASSUME NEW h \in Controllers, NEW j \in Jobs, Carry(j, h)
      PROVE  JobsInv'
  BY <1>2, ClaimJobStep, LaunchStep, RecordResultStep DEF Carry
<1>3. QED
  BY <1>1, <1>2, EnterPhaseStep, DieStep, LoseCarrierStep, DeadlinePassesStep, StutterStep
  DEF JobsNext

LEMMA JobsInvIsInvariant == JobsSpec => []JobsInv
  BY JobsInitialInv, JobsNextStep, PTL DEF JobsSpec

-----------------------------------------------------------------------------
\* What the invariant gives.

\* The phase job tables are typed: every job, carrier and controller is in one
\* of the states _phase_jobs_conn and run_phase_job tell apart.
THEOREM PhaseJobsTypeCorrect == JobsSpec => []JobsTypeOK
<1>1. JobsInv => JobsTypeOK
  BY DEF JobsInv
<1>2. QED BY <1>1, JobsInvIsInvariant, PTL

\* A job whose command runs still holds its slots, even when nobody knows what
\* became of its carrier (_phase_slots_conn).
LEMMA RunningOwns ==
  ASSUME JobsInv, NEW j \in Running
  PROVE  j \in Jobs /\ job[j].status \in {"running", "outcome_unknown"}
  BY DEF JobsInv, Running, CarrierOK

\* However many controllers race, die and are replaced, and whichever deadlines
\* pass, the role commands that run fit the slots of every class, one at a time
\* for a unit, and none is started twice (_phase_waiting_slot_conn,
\* _phase_job_authority_conn, submit_phase, claim_phase_job).
THEOREM EffectsAreExclusive == JobsSpec => []EffectsNeverOverlap
<1>1. JobsInv => EffectsNeverOverlap
  <2> SUFFICES ASSUME JobsInv PROVE EffectsNeverOverlap
    OBVIOUS
  <2>1. ASSUME NEW s \in Slots
        PROVE  Cardinality({j \in Running : s \in NeedsOf(j)}) <= Limit[s]
    <3>1. {j \in Running : s \in NeedsOf(j)} \subseteq Owners(s)
      BY RunningOwns DEF Owners
    <3>2. Owners(s) \subseteq Jobs /\ Cardinality(Owners(s)) <= Limit[s] /\ Limit[s] \in Nat
      BY LimitAssumption DEF Owners, JobsInv, SlotsKept
    <3>3. QED BY <3>1, <3>2, SmallerSet
  <2>2. ASSUME NEW u \in Units
        PROVE  Cardinality({j \in Running : j[1] = u}) <= 1
    <3> DEFINE R == {j \in Running : j[1] = u}
    <3>1. \A j, k \in R : j = k
      BY RunningOwns DEF JobsInv, OnePerUnit
    <3>2. R = {} \/ \E j : R = {j}
      BY <3>1
    <3> HIDE DEF R
    <3>3. Cardinality(R) = 0 \/ Cardinality(R) = 1
      BY <3>2, FS_EmptySet, FS_Singleton
    <3>4. QED BY <3>3 DEF R
  <2>3. \A j \in Jobs : effects[j] <= 1
    BY DEF JobsInv, EffectOK
  <2>4. QED BY <2>1, <2>2, <2>3 DEF EffectsNeverOverlap
<1>2. QED BY <1>1, JobsInvIsInvariant, PTL

\* A phase is settled only with the result of a command that was started exactly
\* once, and a job only with its phase, wherever a controller dies in between
\* (settle_completion_phase, settle_phase_job).
THEOREM SettledByItsResult == JobsSpec => []SettledOnResult
<1>1. JobsInv => SettledOnResult
  BY DEF JobsInv, PhaseOK, EffectOK, SettledOnResult, Done
<1>2. QED BY <1>1, JobsInvIsInvariant, PTL

\* A lost outcome is final: no late answer, slot or controller changes it
\* (record_phase_job_result, read_phase_job).
THEOREM UnknownIsFinal == JobsSpec => UnknownStands
<1> DEFINE Kept == \A j \in Jobs : job[j].status = "outcome_unknown"
                                    => job'[j].status = "outcome_unknown"
<1>1. JobsInv /\ [JobsNext]_jobsVars => [Kept]_jobsVars
  <2> SUFFICES ASSUME JobsInv, JobsNext, NEW k \in Jobs, job[k].status = "outcome_unknown"
               PROVE  job'[k].status = "outcome_unknown"
    OBVIOUS
  <2>1. ASSUME NEW h \in Controllers, Step(h)
        PROVE  job'[k].status = "outcome_unknown"
    <3>1. PICK j \in Jobs : j = host[h].job
      BY DEF JobsInv, JobsTypeOK
    <3>2. Reconciled(j) = job[j] \/ job[j].status \in {"reserved", "running"}
      BY ReconciledFacts DEF JobsInv
    <3>3. job[k] = job'[k] \/ k = j
      BY <2>1, <3>1 DEF Step, Reserve, Reenter, AcquireSlots, Submit, ReadJob, AcceptResult, SettleJob,
                        JobsInv, JobsTypeOK
    <3>4. CASE k = j
      BY <2>1, <3>1, <3>2, <3>4
      DEF Step, Reserve, Reenter, AcquireSlots, Submit, ReadJob, AcceptResult, SettleJob, JobsInv, JobsTypeOK
    <3>5. QED BY <3>3, <3>4
  <2>2. ASSUME NEW h \in Controllers, NEW j \in Jobs, Carry(j, h)
        PROVE  job'[k].status = "outcome_unknown"
    BY <2>2 DEF Carry, ClaimJob, Launch, RecordResult, Recordable, JobsInv, JobsTypeOK
  <2>3. QED
    BY <2>1, <2>2 DEF JobsNext, EnterPhase, ControllerDies, LoseCarrier, JobDeadlinePasses
<1>2. QED BY <1>1, JobsInvIsInvariant, PTL DEF JobsSpec, UnknownStands

------------------------------------------------------------------------------
(***************************************************************************)
(* Part two: the claims, the budget and the retries of UnitRecovery, for   *)
(* any number of processes, requests and attempts, any budgets and any     *)
(* number of unobservable processes.                                       *)
(***************************************************************************)

Claim == [state: ClaimStates, owner: Hosts \cup {NoHost}]
Unit == [state: {"running", "red", "integrated"}, attempt: Ordinals, red: SUBSET Ordinals]
Open == {"claimed", "outcome_unknown"}

\* What the status of a record says about its claims: a claim is open under its
\* own status only, and a later status stands for the success of the roles before.
StatusOK(r) ==
    /\ record[r].status = "absent" => record[r] = NoRecord
    /\ \A p \in Phases : record[r].claim[p].state = "claimed" => record[r].status = ClaimedStatus(p)
    /\ record[r].status = "audit_recorded" => record[r].claim["audit"].state = "success"
    /\ record[r].status \in {"result_recorded", "verifier_claimed", "plan_verified"} =>
          record[r].claim["planner"].state = "success"
    /\ record[r].status = "plan_verified" => record[r].claim["plan_verifier"].state = "success"

\* A record belongs to an attempt that has been reached; while that attempt is
\* current, the Run stays in the RED a repair was asked for.
AttemptOK(r) ==
    /\ record[r].attempt <= unit.attempt
    /\ IsRepair(r) /\ record[r].attempt = unit.attempt => unit.state = "red"

ResultOK(r) ==
    record[r].resulting # 0 =>
        /\ record[r].attempt \in unit.red
        /\ record[r].resulting = record[r].attempt + 1
        /\ record[r].resulting <= unit.attempt
        /\ \A p \in {"planner", "plan_verifier"} : record[r].claim[p].state = "success"

OneResultEach ==
    \A r, q \in Requests : r # q /\ record[r].resulting # 0 => record[q].resulting # record[r].resulting

UnitOK == unit.state = "red" => unit.attempt \in unit.red

\* One claim of the Run is open, and a process in a call is its owner.
OneOpenClaim == \A k, l \in Keys : ClaimOf(k).state \in Open /\ ClaimOf(l).state \in Open => k = l
CallOK(h) == call[h] # Idle => ClaimOf(call[h]).owner = h /\ ClaimOf(call[h]).state \in Open

\* An audit belongs to a repair, and to one incident alone.
PlannedAudited(r) ==
    AuditRequired(r) /\ record[r].claim["planner"].state # "none" =>
        record[r].claim["audit"].state = "success"
AuditsOfRepairs == \A r \in Requests : record[r].claim["audit"].state # "none" => IsRepair(r)
OneAuditEach ==
    \A r, q \in Requests :
        (/\ record[r].claim["audit"].state # "none"
         /\ record[q].claim["audit"].state # "none"
         /\ Incident(r) = Incident(q)) => r = q

Inv ==
    /\ TypeOK
    /\ UnitOK
    /\ \A r \in Requests : StatusOK(r) /\ AttemptOK(r) /\ ResultOK(r) /\ PlannedAudited(r)
    /\ OneResultEach
    /\ OneOpenClaim
    /\ \A h \in Hosts : CallOK(h)
    /\ CallsWithinBudget
    /\ AuditsOfRepairs
    /\ OneAuditEach

-----------------------------------------------------------------------------
\* Types and keys.

LEMMA OrdinalsFact == Ordinals \subseteq Nat /\ 1 \in Ordinals /\ MaxAttempts \in Nat
  BY MaxAttemptsAssumption DEF Ordinals

LEMMA NoRecordFact ==
  /\ NoRecord \in Record /\ NoRecord.resulting = 0 /\ NoRecord.status = "absent"
  /\ NoRecord.attempt = 1 /\ \A p \in Phases : NoRecord.claim[p].state = "none"
  BY OrdinalsFact DEF NoRecord, Record, Statuses, Actions, ClaimStates

LEMMA RecordFields ==
  ASSUME TypeOK, NEW r \in Requests
  PROVE  /\ record[r] \in Record
         /\ record[r].claim \in [Phases -> Claim]
         /\ record[r].attempt \in Ordinals /\ record[r].attempt \in Nat
         /\ record[r].resulting \in Nat
         /\ unit.attempt \in Ordinals /\ unit.attempt \in Nat
<1>1. record[r] \in Record /\ unit \in Unit
  BY DEF TypeOK, Unit
<1>2. record[r].claim \in [Phases -> Claim]
  BY <1>1 DEF Record, Claim
<1>3. /\ record[r].attempt \in Ordinals /\ record[r].resulting \in {0} \cup Ordinals
      /\ unit.attempt \in Ordinals
  BY <1>1 DEF Record, Unit
<1>4. \A n \in {0} \cup Ordinals : n \in Nat
  BY OrdinalsFact
<1>5. QED BY <1>1, <1>2, <1>3, <1>4

LEMMA IdleIsNoKey == Idle \notin Keys
  BY NamesAssumption DEF Idle, Keys

\* A claim was made, or it is "none": nothing else is outside Made.
LEMMA ClaimType ==
  ASSUME NEW table \in [Requests -> Record], NEW k \in Keys
  PROVE  table[k[1]].claim[k[2]] \in Claim
<1>1. k[1] \in Requests /\ k[2] \in Phases
  BY DEF Keys
<1>2. table[k[1]] \in Record
  BY <1>1
<1>3. table[k[1]].claim \in [Phases -> Claim]
  BY <1>2 DEF Record, Claim
<1>4. QED BY <1>1, <1>3

LEMMA MadeFact ==
  ASSUME TypeOK, NEW k \in Keys
  PROVE  k \in Made <=> ClaimOf(k).state # "none"
  BY ClaimType DEF Made, ClaimsIn, ClaimOf, Claim, TypeOK

LEMMA MadeNextFact ==
  ASSUME TypeOK', NEW k \in Keys
  PROVE  k \in Made' <=> ClaimOf(k)'.state # "none"
  BY ClaimType DEF Made, ClaimsIn, ClaimOf, Claim, TypeOK

LEMMA MadeFinite == IsFiniteSet(Keys) /\ Made \subseteq Keys /\ Made' \subseteq Keys
<1>1. IsFiniteSet(Phases)
  <2>1. Phases = (({} \cup {"audit"}) \cup {"planner"}) \cup {"plan_verifier"}
    BY DEF Phases
  <2>2. QED BY <2>1, FS_EmptySet, FS_AddElement
<1>2. IsFiniteSet(Keys)
  BY <1>1, RequestsAssumption, FS_Product DEF Keys
<1>3. QED BY <1>2 DEF Made, ClaimsIn

-----------------------------------------------------------------------------
\* Writing one record.

\* What a transaction that changes one record has to show when it makes no new
\* claim and leaves the Run as it is.
LEMMA WriteRecord ==
  ASSUME Inv, NEW r \in Requests, NEW l \in Record, record' = [record EXCEPT ![r] = l],
         unit' = unit, limits' = limits,
         parent' \in {"active", "stopped"}, approved' \in Requests \cup {NoRequest},
         late' \in BOOLEAN, alive' \subseteq Hosts, blinks' \in 0..MaxBlinks,
         call' \in [Hosts -> (Requests \X Phases) \cup {Idle}],
         \/ /\ record[r].status = "absent"
            /\ l.attempt = unit.attempt
            /\ l.reason = "checks" => unit.state = "red"
         \/ /\ record[r].status # "absent"
            /\ l.attempt = record[r].attempt /\ l.reason = record[r].reason,
         l.status # "absent",
         l.resulting = record[r].resulting,
         \A p \in Phases :
            /\ l.claim[p].state = "none" <=> record[r].claim[p].state = "none"
            /\ l.claim[p].state \in Open => record[r].claim[p].state \in Open
            /\ record[r].claim[p].state = "success" => l.claim[p].state = "success",
         StatusOK(r)', \A h \in Hosts : CallOK(h)'
  PROVE  Inv'
<1>1. record'[r] = l /\ \A q \in Requests : q # r => record'[q] = record[q]
  BY DEF Inv, TypeOK
<1>2. TypeOK'
  <2>1. record' \in [Requests -> Record]
    BY DEF Inv, TypeOK
  <2>2. QED BY <2>1 DEF Inv, TypeOK
<1>3. \A q \in Requests : \A p \in Phases :
         /\ record'[q].claim[p].state = "none" <=> record[q].claim[p].state = "none"
         /\ record'[q].claim[p].state \in Open => record[q].claim[p].state \in Open
         /\ record[q].claim[p].state = "success" => record'[q].claim[p].state = "success"
  BY <1>1
<1>4. record[r].status = "absent" =>
         /\ record[r].resulting = 0
         /\ \A p \in Phases : record[r].claim[p].state = "none"
  BY NoRecordFact DEF Inv, StatusOK
<1>5. \A q \in Requests :
         \/ /\ record'[q].attempt = record[q].attempt
            /\ IsRepair(q)' <=> IsRepair(q)
         \/ /\ record'[q].resulting = 0
            /\ \A p \in Phases : record'[q].claim[p].state = "none"
  BY <1>1, <1>4 DEF IsRepair
<1>6. UnitOK'
  BY DEF Inv, UnitOK
<1>7. ASSUME NEW q \in Requests
      PROVE  (StatusOK(q) /\ AttemptOK(q) /\ ResultOK(q) /\ PlannedAudited(q))'
  <2>1. StatusOK(q)'
    BY <1>1 DEF Inv, StatusOK
  <2>2. AttemptOK(q)'
    BY <1>1, RecordFields DEF Inv, AttemptOK, IsRepair
  <2>3. ResultOK(q)'
    <3>1. ResultOK(q) /\ unit' = unit
      BY DEF Inv
    <3>2. record'[q].resulting = record[q].resulting
      BY <1>1
    <3>3. record'[q].resulting # 0 => record'[q].attempt = record[q].attempt
      BY <1>5
    <3>4. \A p \in {"planner", "plan_verifier"} :
             record[q].claim[p].state = "success" => record'[q].claim[p].state = "success"
      BY <1>3 DEF Phases
    <3>5. QED BY <3>1, <3>2, <3>3, <3>4 DEF ResultOK
  <2>4. PlannedAudited(q)'
    <3>1. CASE record'[q].claim["planner"].state = "none"
      BY <3>1 DEF PlannedAudited
    <3>2. CASE record'[q].claim["planner"].state # "none"
      <4>1. AuditRequired(q)' <=> AuditRequired(q)
        BY <1>5, <3>2 DEF AuditRequired, Streak, Phases
      <4>2. QED BY <1>3, <4>1 DEF Inv, PlannedAudited, Phases
    <3>3. QED BY <3>1, <3>2
  <2>5. QED BY <2>1, <2>2, <2>3, <2>4
<1>8. OneResultEach'
  BY <1>1 DEF Inv, OneResultEach
<1>9. \A k \in Keys :
         /\ ClaimOf(k)'.state \in Open => ClaimOf(k).state \in Open
         /\ ClaimOf(k)'.state = "none" <=> ClaimOf(k).state = "none"
  BY <1>3 DEF Keys, ClaimOf
<1>10. OneOpenClaim'
  BY <1>9 DEF Inv, OneOpenClaim
<1>11. CallsWithinBudget'
  <2>1. Made' = Made
    BY <1>2, <1>9, MadeFact, MadeNextFact, MadeFinite DEF Inv
  <2>2. QED BY <2>1 DEF Inv, CallsWithinBudget
<1>12. AuditsOfRepairs'
  BY <1>3, <1>5 DEF Inv, AuditsOfRepairs, Phases
<1>13. OneAuditEach'
  <2>1. ASSUME NEW q \in Requests, record'[q].claim["audit"].state # "none"
        PROVE  Incident(q)' = Incident(q)
    BY <1>5, <2>1 DEF Incident, Streak, Phases
  <2>2. OneAuditEach
    BY DEF Inv
  <2>3. \A q \in Requests :
           record'[q].claim["audit"].state # "none" => record[q].claim["audit"].state # "none"
    BY <1>3 DEF Phases
  <2>4. QED BY <2>1, <2>2, <2>3 DEF OneAuditEach
<1>14. QED BY <1>2, <1>6, <1>7, <1>8, <1>10, <1>11, <1>12, <1>13 DEF Inv

\* A record that keeps what it was requested for.
Rewritten(r, status, action, intent, resulting, claim) ==
    [status |-> status, reason |-> record[r].reason, attempt |-> record[r].attempt,
     action |-> action, intent |-> intent, resulting |-> resulting, claim |-> claim]

\* Two fields of a record rewritten, in either order.
LEMMA StatusAndIntent ==
  ASSUME NEW old \in Record, NEW x, NEW y, NEW new, new = [old EXCEPT !.status = x, !.intent = y]
  PROVE  new = [status |-> x, reason |-> old.reason, attempt |-> old.attempt, action |-> old.action,
                intent |-> y, resulting |-> old.resulting, claim |-> old.claim]
<1>1. PICK mid : mid = [status |-> x, reason |-> old.reason, attempt |-> old.attempt,
                        action |-> old.action, intent |-> old.intent,
                        resulting |-> old.resulting, claim |-> old.claim]
  OBVIOUS
<1>2. [old EXCEPT !.status = x] = mid
  BY <1>1 DEF Record
<1>3. new = [mid EXCEPT !.intent = y]
  BY <1>2
<1>4. QED BY <1>1, <1>3

LEMMA StatusAndClaim ==
  ASSUME NEW old \in Record, NEW x, NEW y, NEW new, new = [old EXCEPT !.status = x, !.claim = y]
  PROVE  new = [status |-> x, reason |-> old.reason, attempt |-> old.attempt, action |-> old.action,
                intent |-> old.intent, resulting |-> old.resulting, claim |-> y]
<1>1. PICK mid : mid = [status |-> x, reason |-> old.reason, attempt |-> old.attempt,
                        action |-> old.action, intent |-> old.intent,
                        resulting |-> old.resulting, claim |-> old.claim]
  OBVIOUS
<1>2. [old EXCEPT !.status = x] = mid
  BY <1>1 DEF Record
<1>3. new = [mid EXCEPT !.claim = y]
  BY <1>2
<1>4. QED BY <1>1, <1>3

LEMMA ClaimAndStatus ==
  ASSUME NEW old \in Record, NEW x, NEW y, NEW new, new = [old EXCEPT !.claim = y, !.status = x]
  PROVE  new = [status |-> x, reason |-> old.reason, attempt |-> old.attempt, action |-> old.action,
                intent |-> old.intent, resulting |-> old.resulting, claim |-> y]
<1>1. PICK mid : mid = [status |-> old.status, reason |-> old.reason, attempt |-> old.attempt,
                        action |-> old.action, intent |-> old.intent,
                        resulting |-> old.resulting, claim |-> y]
  OBVIOUS
<1>2. [old EXCEPT !.claim = y] = mid
  BY <1>1 DEF Record
<1>3. new = [mid EXCEPT !.status = x]
  BY <1>2
<1>4. QED BY <1>1, <1>3

LEMMA RewrittenFacts ==
  ASSUME TypeOK, NEW r \in Requests, NEW status \in Statuses, NEW action \in Actions \cup {"none"},
         NEW intent \in {"none", "retry_pending", "awaiting", "applied"},
         NEW resulting \in {0} \cup Ordinals, NEW claim \in [Phases -> Claim]
  PROVE  Rewritten(r, status, action, intent, resulting, claim) \in Record
<1>1. record[r].reason \in {"checks", "machine_complete"} /\ record[r].attempt \in Ordinals
  <2>1. record[r] \in Record
    BY DEF TypeOK
  <2>2. QED BY <2>1 DEF Record
<1>2. QED BY <1>1 DEF Rewritten, Record, Claim

\* The fields of a record, one by one.
LEMMA RecordParts ==
  ASSUME TypeOK, NEW r \in Requests
  PROVE  /\ record[r].status \in Statuses /\ record[r].action \in Actions \cup {"none"}
         /\ record[r].intent \in {"none", "retry_pending", "awaiting", "applied"}
         /\ record[r].resulting \in {0} \cup Ordinals /\ record[r].claim \in [Phases -> Claim]
         /\ record[r] = Rewritten(r, record[r].status, record[r].action, record[r].intent,
                                  record[r].resulting, record[r].claim)
<1>1. record[r] \in Record
  BY DEF TypeOK
<1>2. QED BY <1>1 DEF Record, Claim, Rewritten

\* A step that leaves open claims with their owners leaves the calls sound.
LEMMA CallsKept ==
  ASSUME Inv, \A h \in Hosts : call'[h] \in {call[h], Idle},
         \A k \in Keys : ClaimOf(k).state \in Open =>
            ClaimOf(k)'.state \in Open /\ ClaimOf(k)'.owner = ClaimOf(k).owner
  PROVE  \A h \in Hosts : CallOK(h)'
<1> SUFFICES ASSUME NEW h \in Hosts, call'[h] # Idle
             PROVE  CallOK(h)'
  BY DEF CallOK
<1>1. PICK k \in Keys : k = call[h] /\ k = call'[h]
  BY DEF Inv, TypeOK, Keys
<1>2. ClaimOf(k).owner = h /\ ClaimOf(k).state \in Open
  BY <1>1, IdleIsNoKey DEF Inv, CallOK
<1>3. ClaimOf(k)'.owner = h /\ ClaimOf(k)'.state \in Open
  BY <1>2
<1>4. QED BY <1>1, <1>3 DEF CallOK, ClaimOf

-----------------------------------------------------------------------------
\* Requests, decisions and answers: no new claim.

LEMMA RecordRequestStep ==
  ASSUME Inv, NEW h \in Hosts, NEW r \in Requests, RecordRequest(h, r)
  PROVE  Inv'
<1>1. PICK l \in Record :
         /\ l = [NoRecord EXCEPT !.status = "requested", !.attempt = unit.attempt,
                   !.reason = IF unit.state = "red" THEN "checks" ELSE "machine_complete"]
         /\ l.status = "requested" /\ l.attempt = unit.attempt /\ l.resulting = 0
         /\ l.reason = "checks" => unit.state = "red"
         /\ l.claim = NoRecord.claim
  <2>1. PICK why \in {"checks", "machine_complete"} :
           why = IF unit.state = "red" THEN "checks" ELSE "machine_complete"
    OBVIOUS
  <2>2. PICK l : l = [NoRecord EXCEPT !.status = "requested", !.attempt = unit.attempt, !.reason = why]
    OBVIOUS
  <2>3. unit.attempt \in Ordinals /\ "requested" \in Statuses
    BY RecordFields DEF Inv, Statuses
  <2>4. /\ l \in Record /\ l.status = "requested" /\ l.attempt = unit.attempt /\ l.reason = why
        /\ l.resulting = NoRecord.resulting /\ l.claim = NoRecord.claim
    BY <2>2, <2>3, NoRecordFact DEF Record
  <2>5. l = [NoRecord EXCEPT !.status = "requested", !.attempt = unit.attempt,
               !.reason = IF unit.state = "red" THEN "checks" ELSE "machine_complete"]
    BY <2>1, <2>2
  <2>6. QED BY <2>1, <2>4, <2>5, NoRecordFact
<1>2. record' = [record EXCEPT ![r] = l] /\ record'[r] = l
  BY <1>1 DEF RecordRequest, Inv, TypeOK
<1>3. record[r] = NoRecord
  BY DEF RecordRequest, Inv, StatusOK
<1>4. \A p \in Phases : l.claim[p].state = "none" /\ record[r].claim[p].state = "none"
  BY <1>1, <1>3, NoRecordFact
<1>5. StatusOK(r)'
  BY <1>1, <1>2, <1>4 DEF StatusOK
<1>6. UNCHANGED <<unit, parent, approved, call, late, alive, blinks, limits>>
  BY DEF RecordRequest, run, world
<1>7. \A h2 \in Hosts : CallOK(h2)'
  <2>1. ASSUME NEW k \in Keys, ClaimOf(k).state \in Open
        PROVE  ClaimOf(k)' = ClaimOf(k)
    <3>1. k[1] # r /\ k[1] \in Requests
      BY <1>4, <2>1 DEF ClaimOf, Keys, Open
    <3>2. QED BY <1>2, <3>1 DEF ClaimOf, Inv, TypeOK
  <2>2. QED BY <1>6, <2>1, CallsKept
<1> HIDE DEF RecordRequest
<1>8. record[r].status = "absent" /\ record[r].resulting = 0
  BY <1>3, NoRecordFact
<1>9. \A p \in Phases :
         /\ l.claim[p].state = "none" <=> record[r].claim[p].state = "none"
         /\ l.claim[p].state \in Open => record[r].claim[p].state \in Open
         /\ record[r].claim[p].state = "success" => l.claim[p].state = "success"
  BY <1>4 DEF Open
<1>10. l.status # "absent" /\ l.resulting = record[r].resulting
  BY <1>1, <1>8
<1>11. /\ parent' \in {"active", "stopped"} /\ approved' \in Requests \cup {NoRequest}
       /\ late' \in BOOLEAN /\ alive' \subseteq Hosts /\ blinks' \in 0..MaxBlinks
       /\ call' \in [Hosts -> (Requests \X Phases) \cup {Idle}]
  BY <1>6 DEF Inv, TypeOK
<1>12. QED
  BY <1>1, <1>2, <1>5, <1>6, <1>7, <1>8, <1>9, <1>10, <1>11, WriteRecord

\* A record without an open claim moves to another status, or gets its intent.
LEMMA DecideStep ==
  ASSUME Inv, NEW r \in Requests, record[r].status # "absent",
         \A p \in Phases : record[r].claim[p].state # "claimed",
         NEW status \in {"failed", "applied", "awaiting_authority", "awaiting_evidence", record[r].status},
         NEW intent \in {"none", "retry_pending", "awaiting", "applied"},
         record' = [record EXCEPT ![r] = Rewritten(r, status, record[r].action, intent,
                                                   record[r].resulting, record[r].claim)],
         UNCHANGED <<unit, parent, approved, call, late, alive, blinks, limits>>
  PROVE  Inv'
<1>1. PICK l \in Record :
         /\ l = Rewritten(r, status, record[r].action, intent, record[r].resulting, record[r].claim)
         /\ l.status = status /\ l.claim = record[r].claim /\ l.resulting = record[r].resulting
         /\ l.attempt = record[r].attempt /\ l.reason = record[r].reason
  <2>1. status \in Statuses
    BY RecordParts DEF Inv, Statuses
  <2> DEFINE new == Rewritten(r, status, record[r].action, intent, record[r].resulting, record[r].claim)
  <2>2. new \in Record
    BY <2>1, RewrittenFacts, RecordParts DEF Inv
  <2>3. /\ new.status = status /\ new.claim = record[r].claim /\ new.resulting = record[r].resulting
        /\ new.attempt = record[r].attempt /\ new.reason = record[r].reason
    BY DEF Rewritten
  <2> HIDE DEF new
  <2>4. QED BY <2>2, <2>3 DEF new
<1>2. record' = [record EXCEPT ![r] = l] /\ record'[r] = l
  BY <1>1 DEF Inv, TypeOK
<1>3. StatusOK(r)'
  <2>1. StatusOK(r) /\ record[r].status # "absent"
    BY DEF Inv
  <2>2. l.claim = record[r].claim /\ l.status # "absent"
    BY <1>1, <2>1
  <2>3. l.status = record[r].status \/ l.status \in {"failed", "applied", "awaiting_authority", "awaiting_evidence"}
    BY <1>1
  <2>4. QED BY <1>2, <2>1, <2>2, <2>3 DEF StatusOK
<1>4. \A h \in Hosts : CallOK(h)'
  <2>1. \A k \in Keys : ClaimOf(k)' = ClaimOf(k)
    BY <1>1, <1>2 DEF ClaimOf, Keys, Inv, TypeOK
  <2>2. QED BY <2>1, CallsKept
<1>5. \A p \in Phases :
         /\ l.claim[p].state = "none" <=> record[r].claim[p].state = "none"
         /\ l.claim[p].state \in Open => record[r].claim[p].state \in Open
         /\ record[r].claim[p].state = "success" => l.claim[p].state = "success"
  BY <1>1
<1>6. l.status # "absent"
  BY <1>1
<1>7. /\ parent' \in {"active", "stopped"} /\ approved' \in Requests \cup {NoRequest}
      /\ late' \in BOOLEAN /\ alive' \subseteq Hosts /\ blinks' \in 0..MaxBlinks
      /\ call' \in [Hosts -> (Requests \X Phases) \cup {Idle}]
  BY DEF Inv, TypeOK
<1>8. QED BY <1>1, <1>2, <1>3, <1>4, <1>5, <1>6, <1>7, WriteRecord

LEMMA ApplyDecisionStep ==
  ASSUME Inv, NEW h \in Hosts, NEW r \in Requests, ApplyDecision(h, r)
  PROVE  Inv'
<1>1. PICK d \in Decided(r, record[r].action) :
         record' = [record EXCEPT ![r].status = d[1], ![r].intent = d[2]]
  BY DEF ApplyDecision
<1>2. /\ d[1] \in {"applied", "plan_verified", "awaiting_authority", "awaiting_evidence"}
      /\ d[2] \in {"applied", "retry_pending", "awaiting"}
  BY DEF Decided
<1>3. record[r].status = "plan_verified"
  BY DEF ApplyDecision, Applicable
<1>4. \A p \in Phases : record[r].claim[p].state # "claimed"
  BY <1>3 DEF Inv, StatusOK, ClaimedStatus, Phases
<1>5. record' = [record EXCEPT ![r] = Rewritten(r, d[1], record[r].action, d[2],
                                               record[r].resulting, record[r].claim)]
  <2>1. record \in [Requests -> Record]
    BY DEF Inv, TypeOK
  <2>2. PICK old \in Record : old = record[r]
    BY <2>1
  <2>3. PICK x, y, new : x = d[1] /\ y = d[2] /\ new = [old EXCEPT !.status = x, !.intent = y]
    OBVIOUS
  <2>4. record' = [record EXCEPT ![r] = new]
    BY <1>1, <2>1, <2>2, <2>3
  <2>5. new = [status |-> x, reason |-> old.reason, attempt |-> old.attempt, action |-> old.action,
               intent |-> y, resulting |-> old.resulting, claim |-> old.claim]
    BY <2>3, StatusAndIntent
  <2>6. new = Rewritten(r, d[1], record[r].action, d[2], record[r].resulting, record[r].claim)
    BY <2>2, <2>3, <2>5 DEF Rewritten
  <2>7. QED BY <2>4, <2>6
<1>6. UNCHANGED <<unit, parent, approved, call, late, alive, blinks, limits>>
  BY DEF ApplyDecision, run, world
<1>7. QED BY <1>2, <1>3, <1>4, <1>5, <1>6, DecideStep

\* An open claim is closed, or loses its outcome, under a status of its own.
LEMMA CloseStep ==
  ASSUME Inv, NEW r \in Requests, NEW p \in Phases, record[r].claim[p].state \in Open,
         record[r].status # "absent",
         NEW state \in ClaimStates \ {"none", "claimed"},
         record[r].claim[p].state = "outcome_unknown" => state = "outcome_unknown",
         NEW status \in Statuses \ {"absent"}, NEW action \in Actions \cup {"none"},
         status = "audit_recorded" => p = "audit" /\ state = "success",
         status = "result_recorded" => p = "planner" /\ state = "success",
         status = "plan_verified" =>
            p = "plan_verifier" /\ state = "success" /\ record[r].status = "verifier_claimed",
         status # "verifier_claimed",
         NEW c, c = [record[r].claim EXCEPT ![p] = [state |-> state, owner |-> record[r].claim[p].owner]],
         record' = [record EXCEPT ![r] = Rewritten(r, status, action, record[r].intent,
                                                   record[r].resulting, c)],
         \A h \in Hosts : call'[h] \in {call[h], Idle},
         \A h \in Hosts : call'[h] = <<r, p>> => state = "outcome_unknown",
         call' \in [Hosts -> (Requests \X Phases) \cup {Idle}],
         alive' \subseteq Hosts, blinks' \in 0..MaxBlinks,
         UNCHANGED <<unit, parent, approved, late, limits>>
  PROVE  Inv'
<1>1. record[r].claim \in [Phases -> Claim]
  BY RecordParts DEF Inv
<1>2. /\ c \in [Phases -> Claim] /\ c[p].state = state /\ c[p].owner = record[r].claim[p].owner
      /\ \A q \in Phases : q # p => c[q] = record[r].claim[q]
  BY <1>1 DEF Claim
<1>3. PICK l \in Record :
         /\ l = Rewritten(r, status, action, record[r].intent, record[r].resulting, c)
         /\ l.status = status /\ l.claim = c /\ l.resulting = record[r].resulting
         /\ l.attempt = record[r].attempt /\ l.reason = record[r].reason
  <2> DEFINE new == Rewritten(r, status, action, record[r].intent, record[r].resulting, c)
  <2>1. new \in Record
    BY <1>2, RewrittenFacts, RecordParts DEF Inv
  <2>2. /\ new.status = status /\ new.claim = c /\ new.resulting = record[r].resulting
        /\ new.attempt = record[r].attempt /\ new.reason = record[r].reason
    BY DEF Rewritten
  <2> HIDE DEF new
  <2>3. QED BY <2>1, <2>2 DEF new
<1>4. record' = [record EXCEPT ![r] = l] /\ record'[r] = l
      /\ \A q \in Requests : q # r => record'[q] = record[q]
  BY <1>3 DEF Inv, TypeOK
<1>5. \A q \in Phases : q # p => record[r].claim[q].state \notin Open
  <2> SUFFICES ASSUME NEW q \in Phases, record[r].claim[q].state \in Open
               PROVE  q = p
    OBVIOUS
  <2>1. <<r, p>> \in Keys /\ <<r, q>> \in Keys
    BY DEF Keys
  <2>2. ClaimOf(<<r, p>>) = record[r].claim[p] /\ ClaimOf(<<r, q>>) = record[r].claim[q]
    BY DEF ClaimOf
  <2>3. <<r, p>> = <<r, q>>
    BY <2>1, <2>2 DEF Inv, OneOpenClaim
  <2>4. QED BY <2>3
<1>6. \A q \in Phases :
         /\ l.claim[q].state = "none" <=> record[r].claim[q].state = "none"
         /\ l.claim[q].state \in Open => record[r].claim[q].state \in Open
         /\ record[r].claim[q].state = "success" => l.claim[q].state = "success"
  <2> SUFFICES ASSUME NEW q \in Phases
               PROVE  /\ l.claim[q].state = "none" <=> record[r].claim[q].state = "none"
                      /\ l.claim[q].state \in Open => record[r].claim[q].state \in Open
                      /\ record[r].claim[q].state = "success" => l.claim[q].state = "success"
    OBVIOUS
  <2>1. CASE q = p
    BY <1>2, <1>3, <2>1 DEF Open
  <2>2. CASE q # p
    BY <1>2, <1>3, <2>2 DEF Open
  <2>3. QED BY <2>1, <2>2
<1>7. StatusOK(r)'
  <2>1. l.status # "absent" /\ \A q \in Phases : l.claim[q].state # "claimed"
    <3>1. l.status # "absent"
      BY <1>3
    <3>2. l.claim[p].state # "claimed"
      BY <1>2, <1>3
    <3>3. ASSUME NEW q \in Phases, q # p PROVE l.claim[q].state # "claimed"
      <4>1. l.claim[q] = record[r].claim[q]
        BY <1>2, <1>3, <3>3
      <4>2. record[r].claim[q].state \notin Open
        BY <1>5, <3>3
      <4>3. QED BY <4>1, <4>2 DEF Open
    <3>4. QED BY <3>1, <3>2, <3>3
  <2>2. l.status = "plan_verified" => record[r].claim["planner"].state = "success"
    BY <1>3 DEF Inv, StatusOK
  <2>3. l.status = "audit_recorded" => l.claim["audit"].state = "success"
    BY <1>2, <1>3
  <2>4. l.status \in {"result_recorded", "verifier_claimed", "plan_verified"} =>
           l.claim["planner"].state = "success"
    BY <1>2, <1>3, <1>6, <2>2 DEF Phases
  <2>5. l.status = "plan_verified" => l.claim["plan_verifier"].state = "success"
    BY <1>2, <1>3
  <2> HIDE DEF StatusOK
  <2>6. QED BY <1>4, <2>1, <2>3, <2>4, <2>5 DEF StatusOK
<1>8. \A h \in Hosts : CallOK(h)'
  <2> SUFFICES ASSUME NEW h \in Hosts, call'[h] # Idle
               PROVE  CallOK(h)'
    BY DEF CallOK
  <2>1. PICK k \in Keys : k = call[h] /\ k = call'[h]
    BY DEF Inv, TypeOK, Keys
  <2>2. ClaimOf(k).owner = h /\ ClaimOf(k).state \in Open
    BY <2>1, IdleIsNoKey DEF Inv, CallOK
  <2>3. k = <<r, p>>
    <3>1. <<r, p>> \in Keys /\ ClaimOf(<<r, p>>) = record[r].claim[p]
      BY DEF Keys, ClaimOf
    <3>2. QED BY <2>2, <3>1 DEF Inv, OneOpenClaim
  <2>4. ClaimOf(k) = record[r].claim[p] /\ ClaimOf(k)' = c[p]
    BY <1>3, <1>4, <2>3 DEF ClaimOf
  <2>5. state = "outcome_unknown"
    BY <2>1, <2>3
  <2>6. QED BY <1>2, <2>1, <2>2, <2>4, <2>5 DEF CallOK, ClaimOf, Open
<1>9. l.status # "absent"
  BY <1>3
<1>10. /\ parent' \in {"active", "stopped"} /\ approved' \in Requests \cup {NoRequest}
       /\ late' \in BOOLEAN /\ alive' \subseteq Hosts /\ blinks' \in 0..MaxBlinks
       /\ call' \in [Hosts -> (Requests \X Phases) \cup {Idle}]
  BY DEF Inv, TypeOK
<1>11. QED
  BY <1>3, <1>4, <1>6, <1>7, <1>8, <1>9, <1>10, WriteRecord

\* The ways the actions write a closed claim: as changes of two or three fields.
Closes(r, p, state, status, action) ==
    \/ record' = [record EXCEPT ![r].claim[p].state = state, ![r].status = status, ![r].action = action]
    \/ /\ record' = [record EXCEPT ![r].claim[p].state = state, ![r].status = status]
       /\ action = record[r].action
    \/ /\ record' = [record EXCEPT ![r].status = status, ![r].claim[p].state = state]
       /\ action = record[r].action

LEMMA ClosedRecord ==
  ASSUME Inv, NEW r \in Requests, NEW p \in Phases, NEW state \in ClaimStates, NEW status \in Statuses,
         NEW action \in Actions \cup {"none"}, NEW c,
         c = [record[r].claim EXCEPT ![p] = [state |-> state, owner |-> record[r].claim[p].owner]],
         Closes(r, p, state, status, action)
  PROVE  record' = [record EXCEPT ![r] = Rewritten(r, status, action, record[r].intent,
                                                   record[r].resulting, c)]
<1>1. record[r].claim \in [Phases -> Claim] /\ record[r] \in Record
  BY RecordParts DEF Inv, TypeOK
<1>2. [record[r].claim EXCEPT ![p].state = state] = c
  <2>1. [record[r].claim[p] EXCEPT !.state = state] = [state |-> state, owner |-> record[r].claim[p].owner]
    BY <1>1 DEF Claim
  <2>2. QED BY <2>1
<1>3. PICK l : l = Rewritten(r, status, action, record[r].intent, record[r].resulting, c)
  OBVIOUS
<1>4. record'[r] = l
  <2>1. record \in [Requests -> Record]
    BY DEF Inv, TypeOK
  <2>2. PICK old \in Record : old = record[r]
    BY <2>1
  <2>3. l = [status |-> status, reason |-> old.reason, attempt |-> old.attempt, action |-> action,
             intent |-> old.intent, resulting |-> old.resulting, claim |-> c]
    BY <1>3, <2>2 DEF Rewritten
  <2>4. PICK mid : mid = [old EXCEPT !.claim = c, !.status = status]
    OBVIOUS
  <2>5. PICK swapped : swapped = [old EXCEPT !.status = status, !.claim = c]
    OBVIOUS
  <2>6. mid = [status |-> status, reason |-> old.reason, attempt |-> old.attempt, action |-> old.action,
               intent |-> old.intent, resulting |-> old.resulting, claim |-> c]
    BY <2>4, ClaimAndStatus
  <2>7. swapped = mid
    BY <2>5, <2>6, StatusAndClaim
  <2>8. CASE record' = [record EXCEPT ![r].claim[p].state = state, ![r].status = status, ![r].action = action]
    <3>1. record'[r] = [mid EXCEPT !.action = action]
      BY <1>2, <2>1, <2>2, <2>4, <2>8
    <3>2. QED BY <2>3, <2>6, <3>1
  <2>9. CASE /\ record' = [record EXCEPT ![r].claim[p].state = state, ![r].status = status]
             /\ action = record[r].action
    <3>1. record'[r] = mid
      BY <1>2, <2>1, <2>2, <2>4, <2>9
    <3>2. QED BY <2>2, <2>3, <2>6, <2>9, <3>1
  <2>10. CASE /\ record' = [record EXCEPT ![r].status = status, ![r].claim[p].state = state]
              /\ action = record[r].action
    <3>1. [old EXCEPT !.status = status].claim = old.claim
      BY DEF Record
    <3>2. record'[r] = swapped
      BY <1>2, <2>1, <2>2, <2>5, <2>10, <3>1
    <3>3. QED BY <2>2, <2>3, <2>6, <2>7, <2>10, <3>2
  <2>11. QED BY <2>8, <2>9, <2>10 DEF Closes
<1>5. record' = [record EXCEPT ![r] = l]
  BY <1>4 DEF Closes, Inv, TypeOK
<1>6. QED BY <1>3, <1>5

LEMMA LoseClaimStep ==
  ASSUME Inv, NEW h \in Hosts, NEW k \in Keys, LoseClaim(h, k)
  PROVE  Inv'
<1>1. PICK r \in Requests, p \in Phases : k = <<r, p>>
  BY DEF Keys
<1>2. PICK c : c = [record[r].claim EXCEPT ![p] =
                      [state |-> "outcome_unknown", owner |-> record[r].claim[p].owner]]
  OBVIOUS
<1>3. record[r].claim[p].state = "claimed"
  BY <1>1 DEF LoseClaim, ClaimOf
<1>4. record[r].status # "absent"
  BY <1>3 DEF Inv, StatusOK, ClaimedStatus, Phases
<1>5. record' = [record EXCEPT ![r] = Rewritten(r, "outcome_unknown", record[r].action,
                                               record[r].intent, record[r].resulting, c)]
  <2>1. record' = [record EXCEPT ![r].status = "outcome_unknown", ![r].claim[p].state = "outcome_unknown"]
    BY <1>1 DEF LoseClaim
  <2>2. /\ "outcome_unknown" \in ClaimStates /\ "outcome_unknown" \in Statuses
        /\ record[r].action \in Actions \cup {"none"}
    BY RecordParts DEF ClaimStates, Statuses, Inv
  <2>3. PICK gone \in ClaimStates, status \in Statuses, action \in Actions \cup {"none"} :
           gone = "outcome_unknown" /\ status = "outcome_unknown" /\ action = record[r].action
    BY <2>2
  <2>4. /\ c = [record[r].claim EXCEPT ![p] = [state |-> gone, owner |-> record[r].claim[p].owner]]
        /\ Closes(r, p, gone, status, action)
    BY <1>2, <2>1, <2>3 DEF Closes
  <2>5. record' = [record EXCEPT ![r] = Rewritten(r, status, action, record[r].intent,
                                                 record[r].resulting, c)]
    BY <2>3, <2>4, ClosedRecord
  <2>6. QED BY <2>3, <2>5
<1>6. UNCHANGED <<unit, parent, approved, call, late, alive, limits>> /\ blinks' \in 0..MaxBlinks
  BY MaxBlinksAssumption DEF LoseClaim, run, Inv, TypeOK
<1>7. record[r].action \in Actions \cup {"none"}
  BY RecordParts DEF Inv
<1>8. call' \in [Hosts -> (Requests \X Phases) \cup {Idle}] /\ alive' \subseteq Hosts
  BY <1>6 DEF Inv, TypeOK
<1> DEFINE gone == "outcome_unknown"
<1>9. gone \in ClaimStates \ {"none", "claimed"} /\ gone \in Statuses \ {"absent"}
      /\ gone \notin {"audit_recorded", "result_recorded", "plan_verified", "verifier_claimed"}
      /\ record[r].claim[p].state \in Open
  BY <1>3 DEF ClaimStates, Statuses, Open
<1>10. c = [record[r].claim EXCEPT ![p] = [state |-> gone, owner |-> record[r].claim[p].owner]]
       /\ record' = [record EXCEPT ![r] = Rewritten(r, gone, record[r].action,
                                                   record[r].intent, record[r].resulting, c)]
  BY <1>2, <1>5
<1>11. \A h2 \in Hosts : call'[h2] = <<r, p>> => gone = "outcome_unknown"
  OBVIOUS
<1> HIDE DEF gone
<1>12. QED BY <1>3, <1>4, <1>6, <1>7, <1>8, <1>9, <1>10, <1>11, CloseStep

\* A step that leaves the Run and its records alone.
LEMMA FrameStep ==
  ASSUME Inv, UNCHANGED <<unit, record, limits>>,
         parent' \in {"active", "stopped"}, approved' \in Requests \cup {NoRequest},
         late' \in BOOLEAN, alive' \subseteq Hosts, blinks' \in 0..MaxBlinks,
         call' \in [Hosts -> (Requests \X Phases) \cup {Idle}],
         \A h \in Hosts : call'[h] \in {call[h], Idle}
  PROVE  Inv'
<1>1. TypeOK' /\ UnitOK' /\ OneResultEach'
  BY DEF Inv, TypeOK, UnitOK, OneResultEach
<1>2. ASSUME NEW r \in Requests
      PROVE  (StatusOK(r) /\ AttemptOK(r) /\ ResultOK(r) /\ PlannedAudited(r))'
  BY DEF Inv, StatusOK, AttemptOK, ResultOK, PlannedAudited, IsRepair, AuditRequired, Streak
<1>3. \A k \in Keys : ClaimOf(k)' = ClaimOf(k)
  BY DEF ClaimOf
<1>4. OneOpenClaim' /\ \A h \in Hosts : CallOK(h)'
  BY <1>3, CallsKept DEF Inv, OneOpenClaim
<1>5. CallsWithinBudget'
  <2>1. Made' = Made
    BY DEF Made, ClaimsIn, ClaimOf
  <2>2. QED BY <2>1 DEF Inv, CallsWithinBudget
<1>6. AuditsOfRepairs' /\ OneAuditEach'
  <2>1. \A r \in Requests : Incident(r)' = Incident(r) /\ (IsRepair(r)' <=> IsRepair(r))
    BY DEF Incident, Streak, IsRepair
  <2>2. QED BY <2>1 DEF Inv, AuditsOfRepairs, OneAuditEach
<1>7. QED BY <1>1, <1>2, <1>4, <1>5, <1>6 DEF Inv

\* finish_recovery_phase closes the claim of its process, if it still has it.
LEMMA FinishCloses ==
  ASSUME Inv, NEW h \in Hosts, FinishPhase(h), NEW r \in Requests, NEW p \in Phases, call[h] = <<r, p>>,
         ClaimOf(call[h]) = [state |-> "claimed", owner |-> h]
  PROVE  \E state \in {"unknown", "failed", "success"},
            status \in {"outcome_unknown", "failed", FinishedStatus[p]}, action \in Actions \cup {"none"} :
           /\ Closes(r, p, state, status, action)
           /\ status = FinishedStatus[p] => state = "success"
<1> DEFINE Close(state, status) == [record EXCEPT ![r].claim[p].state = state, ![r].status = status]
<1>1. record[r].action \in Actions \cup {"none"}
  BY RecordParts DEF Inv
<1>2. FinishedStatus[p] \notin {"outcome_unknown", "failed"}
  BY DEF FinishedStatus, Phases
<1>3. \/ record' = Close("unknown", "outcome_unknown")
      \/ record' = Close("failed", "failed")
      \/ record' = Close("success", "failed")
      \/ record' = Close("success", FinishedStatus[p])
      \/ \E a \in Actions : record' = [Close("success", FinishedStatus[p]) EXCEPT ![r].action = a]
  <2>1. /\ call[h][1] = r /\ call[h][2] = p
        /\ ~(ClaimOf(call[h]) # [state |-> "claimed", owner |-> h])
    OBVIOUS
  <2>2. LET at == call[h][1]
            of == call[h][2]
            Shut(state, status) == [record EXCEPT ![at].claim[of].state = state, ![at].status = status]
        IN  \/ record' = Shut("unknown", "outcome_unknown")
            \/ record' = Shut("failed", "failed")
            \/ record' = Shut("success", "failed")
            \/ /\ of # "planner"
               /\ record' = Shut("success", FinishedStatus[of])
            \/ /\ of = "planner"
               /\ \E a \in Actions : record' = [Shut("success", FinishedStatus[of]) EXCEPT ![at].action = a]
    BY <2>1 DEF FinishPhase
  <2>3. QED BY <2>1, <2>2
<1>4. CASE record' = Close("unknown", "outcome_unknown")
  BY <1>1, <1>2, <1>4 DEF Closes
<1>5. CASE record' = Close("failed", "failed")
  BY <1>1, <1>2, <1>5 DEF Closes
<1>6. CASE record' = Close("success", "failed")
  BY <1>1, <1>2, <1>6 DEF Closes
<1>7. CASE record' = Close("success", FinishedStatus[p])
  BY <1>1, <1>7 DEF Closes
<1>8. CASE \E a \in Actions : record' = [Close("success", FinishedStatus[p]) EXCEPT ![r].action = a]
  <2>1. PICK a \in Actions : record' = [Close("success", FinishedStatus[p]) EXCEPT ![r].action = a]
    BY <1>8
  <2>2. Closes(r, p, "success", FinishedStatus[p], a)
    BY <2>1 DEF Closes
  <2>3. QED BY <2>2
<1>9. QED BY <1>3, <1>4, <1>5, <1>6, <1>7, <1>8

LEMMA FinishPhaseStep ==
  ASSUME Inv, NEW h \in Hosts, FinishPhase(h)
  PROVE  Inv'
<1>1. PICK r \in Requests, p \in Phases : call[h] = <<r, p>>
  <2>1. call[h] \in (Requests \X Phases) \cup {Idle} /\ call[h] # Idle
    BY DEF FinishPhase, Inv, TypeOK
  <2>2. QED BY <2>1
<1>2. /\ call' = [call EXCEPT ![h] = Idle] /\ call[h] # Idle
      /\ UNCHANGED <<unit, parent, approved, late, alive, blinks, limits>>
  BY DEF FinishPhase, run, world
<1>3. /\ call' \in [Hosts -> (Requests \X Phases) \cup {Idle}]
      /\ \A h2 \in Hosts : call'[h2] \in {call[h2], Idle}
  BY <1>2 DEF Inv, TypeOK
<1>4. CASE UNCHANGED record
  <2>1. parent' \in {"active", "stopped"} /\ approved' \in Requests \cup {NoRequest} /\ late' \in BOOLEAN
    BY <1>2 DEF Inv, TypeOK
  <2>2. alive' \subseteq Hosts /\ blinks' \in 0..MaxBlinks
    BY <1>2 DEF Inv, TypeOK
  <2>3. QED BY <1>2, <1>3, <1>4, <2>1, <2>2, FrameStep
<1>5. CASE ClaimOf(call[h]) = [state |-> "claimed", owner |-> h]
  <2>1. record[r].claim[p].state = "claimed" /\ record[r].claim[p].owner = h
    BY <1>1, <1>5 DEF ClaimOf
  <2>2. record[r].status = ClaimedStatus(p)
    BY <2>1 DEF Inv, StatusOK
  <2>3. PICK state \in {"unknown", "failed", "success"},
             status \in {"outcome_unknown", "failed", FinishedStatus[p]}, action \in Actions \cup {"none"} :
           /\ Closes(r, p, state, status, action)
           /\ status = FinishedStatus[p] => state = "success"
    BY <1>1, <1>5, FinishCloses
  <2>4. PICK c : c = [record[r].claim EXCEPT ![p] = [state |-> state, owner |-> record[r].claim[p].owner]]
    OBVIOUS
  <2>5. /\ state \in ClaimStates \ {"none", "claimed"} /\ status \in Statuses \ {"absent"}
        /\ status = "audit_recorded" => p = "audit" /\ state = "success"
        /\ status = "result_recorded" => p = "planner" /\ state = "success"
        /\ status = "plan_verified" =>
              p = "plan_verifier" /\ state = "success" /\ record[r].status = "verifier_claimed"
        /\ status # "verifier_claimed"
    BY <2>2, <2>3 DEF ClaimStates, Statuses, FinishedStatus, Phases, ClaimedStatus
  <2>6. record' = [record EXCEPT ![r] = Rewritten(r, status, action, record[r].intent,
                                                 record[r].resulting, c)]
    BY <2>3, <2>4, <2>5, ClosedRecord
  <2>7. \A h2 \in Hosts : call'[h2] = <<r, p>> => state = "outcome_unknown"
    <3> SUFFICES ASSUME NEW h2 \in Hosts, call'[h2] = <<r, p>>
                 PROVE  FALSE
      OBVIOUS
    <3>1. <<r, p>> # Idle
      BY <1>1, <1>2
    <3>2. h2 # h /\ call[h2] = <<r, p>>
      BY <1>2, <3>1 DEF Inv, TypeOK
    <3>3. ClaimOf(<<r, p>>).owner = h2
      BY <3>1, <3>2 DEF Inv, CallOK
    <3>4. QED BY <2>1, <3>2, <3>3 DEF ClaimOf
  <2>8. record[r].claim[p].state \in Open /\ record[r].claim[p].state # "outcome_unknown"
    BY <2>1 DEF Open
  <2>9. record[r].status # "absent"
    BY <2>2 DEF ClaimedStatus, Phases
  <2>10. alive' \subseteq Hosts /\ blinks' \in 0..MaxBlinks
    BY <1>2 DEF Inv, TypeOK
  <2>11. QED
    BY <1>2, <1>3, <2>4, <2>5, <2>6, <2>7, <2>8, <2>9, <2>10, CloseStep
<1>6. QED BY <1>4, <1>5 DEF FinishPhase

-----------------------------------------------------------------------------
\* A new claim.

\* A call more of one kind stays within the budget that was not spent.
LEMMA OneCallMore ==
  ASSUME NEW calls, IsFiniteSet(calls), NEW k, NEW budget \in Nat, ~(Cardinality(calls) >= budget)
  PROVE  Cardinality(calls \cup {k}) <= budget
<1>1. Cardinality(calls) \in Nat
  BY FS_CardinalityType
<1>2. Cardinality(calls \cup {k}) \in {Cardinality(calls), Cardinality(calls) + 1}
  BY FS_AddElement
<1>3. QED BY <1>1, <1>2

LEMMA NewClaimStep ==
  ASSUME Inv, NEW h \in Hosts, NEW r \in Requests, NEW p \in Phases, Claimable(r, p), ~Exhausted(r, p),
         NEW c, c = [record[r].claim EXCEPT ![p] = [state |-> "claimed", owner |-> h]],
         record' = [record EXCEPT ![r] = Rewritten(r, ClaimedStatus(p), record[r].action,
                                                   record[r].intent, record[r].resulting, c)],
         call' = [call EXCEPT ![h] = <<r, p>>],
         UNCHANGED <<unit, parent, approved, late, alive, blinks, limits>>
  PROVE  Inv'
<1>1. record[r].claim \in [Phases -> Claim] /\ record[r].status # "absent"
  BY RecordParts DEF Inv, Claimable, IsCurrent
<1>2. /\ c \in [Phases -> Claim] /\ c[p].state = "claimed" /\ c[p].owner = h
      /\ \A q \in Phases : q # p => c[q] = record[r].claim[q]
  BY <1>1 DEF Claim, ClaimStates
<1>3. PICK l \in Record :
         /\ l = Rewritten(r, ClaimedStatus(p), record[r].action, record[r].intent, record[r].resulting, c)
         /\ l.status = ClaimedStatus(p) /\ l.claim = c /\ l.resulting = record[r].resulting
         /\ l.attempt = record[r].attempt /\ l.reason = record[r].reason
  <2> DEFINE new == Rewritten(r, ClaimedStatus(p), record[r].action, record[r].intent,
                              record[r].resulting, c)
  <2>1. ClaimedStatus(p) \in Statuses
    BY DEF ClaimedStatus, Statuses, Phases
  <2>2. new \in Record
    BY <1>2, <2>1, RewrittenFacts, RecordParts DEF Inv
  <2>3. /\ new.status = ClaimedStatus(p) /\ new.claim = c /\ new.resulting = record[r].resulting
        /\ new.attempt = record[r].attempt /\ new.reason = record[r].reason
    BY DEF Rewritten
  <2> HIDE DEF new
  <2>4. QED BY <2>2, <2>3 DEF new
<1>4. record' = [record EXCEPT ![r] = l] /\ record'[r] = l
      /\ \A q \in Requests : q # r => record'[q] = record[q]
  BY <1>3 DEF Inv, TypeOK
<1>5. \A k \in Keys : ClaimOf(k).state \notin Open
  BY DEF Claimable, Unresolved, ClaimsIn, Open
<1>6. \A q \in Phases : record[r].claim[q].state # "claimed"
  <2> SUFFICES ASSUME NEW q \in Phases
               PROVE  record[r].claim[q].state # "claimed"
    OBVIOUS
  <2>1. <<r, q>> \in Keys /\ ClaimOf(<<r, q>>) = record[r].claim[q]
    BY DEF Keys, ClaimOf
  <2>2. QED BY <1>5, <2>1 DEF Open
<1>7. record[r].claim[p].state = "none" /\ record[r].status = Allowed(r, p)
  BY DEF Claimable
<1>8. TypeOK'
  <2>1. record' \in [Requests -> Record]
    BY <1>4 DEF Inv, TypeOK
  <2>2. call' \in [Hosts -> (Requests \X Phases) \cup {Idle}]
    BY DEF Inv, TypeOK
  <2>3. QED BY <2>1, <2>2 DEF Inv, TypeOK
<1>9. \A q \in Requests :
         /\ record'[q].attempt = record[q].attempt /\ record'[q].resulting = record[q].resulting
         /\ IsRepair(q)' <=> IsRepair(q)
         /\ AuditRequired(q)' <=> AuditRequired(q)
         /\ Incident(q)' = Incident(q)
  <2>1. ClaimedStatus(p) # "absent"
    BY DEF ClaimedStatus, Phases
  <2>2. \A q \in Requests :
           /\ record'[q].attempt = record[q].attempt /\ record'[q].resulting = record[q].resulting
           /\ IsRepair(q)' <=> IsRepair(q)
    BY <1>1, <1>3, <1>4, <2>1 DEF IsRepair
  <2>3. \A q \in Requests : AuditRequired(q)' <=> AuditRequired(q)
    BY <2>2 DEF AuditRequired, Streak
  <2>4. \A q \in Requests : Incident(q)' = Incident(q)
    BY <2>2 DEF Incident, Streak
  <2>5. QED BY <2>2, <2>3, <2>4
<1>10. \A q \in Requests : \A s \in Phases :
          /\ ~(q = r /\ s = p) => record'[q].claim[s] = record[q].claim[s]
          /\ record[q].claim[s].state = "success" => record'[q].claim[s].state = "success"
          /\ record[q].claim[s].state # "none" => record'[q].claim[s] = record[q].claim[s]
  BY <1>2, <1>3, <1>4, <1>7
<1>11. UnitOK'
  BY DEF Inv, UnitOK
<1>12. ASSUME NEW q \in Requests
       PROVE  (StatusOK(q) /\ AttemptOK(q) /\ ResultOK(q) /\ PlannedAudited(q))'
  <2>1. StatusOK(q)'
    <3>1. CASE q # r
      BY <1>4, <3>1 DEF Inv, StatusOK
    <3>2. CASE q = r
      <4>1. l.status # "absent" /\ l.status \notin {"audit_recorded", "result_recorded", "plan_verified"}
        BY <1>3 DEF ClaimedStatus, Phases
      <4>2. \A s \in Phases : l.claim[s].state = "claimed" => l.status = ClaimedStatus(s)
        BY <1>2, <1>3, <1>6
      <4>3. l.status = "verifier_claimed" => l.claim["planner"].state = "success"
        <5>1. SUFFICES ASSUME l.status = "verifier_claimed"
                       PROVE  l.claim["planner"].state = "success"
          OBVIOUS
        <5>2. p = "plan_verifier"
          BY <1>3, <5>1 DEF ClaimedStatus, Phases
        <5>3. record[r].status = "result_recorded"
          BY <1>7, <5>2 DEF Allowed
        <5>4. record[r].claim["planner"].state = "success"
          BY <5>3 DEF Inv, StatusOK
        <5>5. QED BY <1>2, <1>3, <5>2, <5>4 DEF Phases
      <4>4. QED BY <1>4, <3>2, <4>1, <4>2, <4>3 DEF StatusOK
    <3>3. QED BY <3>1, <3>2
  <2>2. AttemptOK(q)'
    BY <1>9 DEF Inv, AttemptOK
  <2>3. ResultOK(q)'
    <3>1. ResultOK(q) /\ unit' = unit
      BY DEF Inv
    <3>2. /\ record'[q].resulting = record[q].resulting
          /\ record'[q].attempt = record[q].attempt
      BY <1>9
    <3>3. \A s \in {"planner", "plan_verifier"} :
             record[q].claim[s].state = "success" => record'[q].claim[s].state = "success"
      BY <1>10 DEF Phases
    <3>4. QED BY <3>1, <3>2, <3>3 DEF ResultOK
  <2>4. PlannedAudited(q)'
    <3>1. CASE ~(q = r /\ p = "planner")
      BY <1>9, <1>10, <3>1 DEF Inv, PlannedAudited, Phases
    <3>2. CASE q = r /\ p = "planner"
      <4>1. AuditRequired(r) => record[r].claim["audit"].state = "success"
        BY <1>7, <3>2 DEF Allowed, Inv, StatusOK
      <4>2. QED BY <1>9, <1>10, <3>2, <4>1 DEF PlannedAudited, Phases
    <3>3. QED BY <3>1, <3>2
  <2>5. QED BY <2>1, <2>2, <2>3, <2>4
<1>13. OneResultEach'
  BY <1>9 DEF Inv, OneResultEach
<1>14. \A k \in Keys : k # <<r, p>> => ClaimOf(k)' = ClaimOf(k)
  <2> SUFFICES ASSUME NEW k \in Keys, k # <<r, p>>
               PROVE  ClaimOf(k)' = ClaimOf(k)
    OBVIOUS
  <2>1. PICK q \in Requests, s \in Phases : k = <<q, s>>
    BY DEF Keys
  <2>2. QED BY <1>10, <2>1 DEF ClaimOf
<1>15. <<r, p>> \in Keys /\ ClaimOf(<<r, p>>) = record[r].claim[p] /\ ClaimOf(<<r, p>>)' = c[p]
  BY <1>3, <1>4 DEF Keys, ClaimOf
<1>16. OneOpenClaim'
  BY <1>5, <1>14 DEF OneOpenClaim
<1>17. \A h2 \in Hosts : CallOK(h2)'
  <2> SUFFICES ASSUME NEW h2 \in Hosts, call'[h2] # Idle
               PROVE  CallOK(h2)'
    BY DEF CallOK
  <2>1. CASE h2 = h
    <3>1. call'[h2] = <<r, p>>
      BY <2>1 DEF Inv, TypeOK
    <3>2. QED BY <1>2, <1>15, <2>1, <3>1 DEF CallOK, ClaimOf, Open
  <2>2. CASE h2 # h
    <3>1. call[h2] # Idle /\ call[h2] \in Keys
      BY <2>2 DEF Inv, TypeOK, Keys
    <3>2. QED BY <1>5, <3>1 DEF Inv, CallOK
  <2>3. QED BY <2>1, <2>2
<1>18. CallsWithinBudget'
  <2>1. Made' = Made \cup {<<r, p>>}
    <3>1. \A k \in Keys : k \in Made' <=> k \in Made \/ k = <<r, p>>
      BY <1>2, <1>8, <1>14, <1>15, MadeFact, MadeNextFact DEF Inv
    <3>2. QED BY <1>15, <3>1, MadeFinite
  <2>2. limits' = limits /\ limits.planner \in Nat /\ limits.verifier \in Nat
    BY LimitsAssumption DEF Inv, TypeOK
  <2> DEFINE plans == {k \in Made : k[2] = "planner"}
             checks == {k \in Made : k[2] # "planner"}
  <2>3. IsFiniteSet(plans) /\ IsFiniteSet(checks)
    BY MadeFinite, FS_Subset
  <2>4. CASE p = "planner"
    <3>1. ~(Cardinality(plans) >= limits.planner)
      <4>1. Calls(r, {"planner"}) = plans
        BY DEF Calls
      <4>2. QED BY <2>4, <4>1 DEF Exhausted
    <3>2. {k \in Made' : k[2] = "planner"} = plans \cup {<<r, p>>} /\ {k \in Made' : k[2] # "planner"} = checks
      BY <2>1, <2>4
    <3>3. Cardinality(checks) <= limits.verifier
      BY DEF Inv, CallsWithinBudget
    <3> HIDE DEF plans, checks
    <3>4. Cardinality(plans \cup {<<r, p>>}) <= limits.planner
      BY <2>2, <2>3, <3>1, OneCallMore
    <3>5. QED BY <2>2, <3>2, <3>3, <3>4 DEF CallsWithinBudget
  <2>5. CASE p # "planner"
    <3>1. ~(Cardinality(checks) >= limits.verifier)
      <4>1. Calls(r, {"audit", "plan_verifier"}) = checks
        BY MadeFinite DEF Calls, Keys, Phases
      <4>2. QED BY <2>5, <4>1 DEF Exhausted
    <3>2. {k \in Made' : k[2] = "planner"} = plans /\ {k \in Made' : k[2] # "planner"} = checks \cup {<<r, p>>}
      BY <2>1, <2>5
    <3>3. Cardinality(plans) <= limits.planner
      BY DEF Inv, CallsWithinBudget
    <3> HIDE DEF plans, checks
    <3>4. Cardinality(checks \cup {<<r, p>>}) <= limits.verifier
      BY <2>2, <2>3, <3>1, OneCallMore
    <3>5. QED BY <2>2, <3>2, <3>3, <3>4 DEF CallsWithinBudget
  <2>6. QED BY <2>4, <2>5
<1>19. AuditsOfRepairs'
  <2>1. p = "audit" => IsRepair(r)
    BY DEF Claimable, AuditRequired
  <2>2. QED BY <1>9, <1>10, <2>1 DEF Inv, AuditsOfRepairs, Phases
<1>20. OneAuditEach'
  <2>1. p = "audit" => \A q \in Requests :
                         record[q].claim["audit"].state # "none" => Incident(q) # Incident(r)
    BY DEF Claimable, AuditSpent, Inv, AuditsOfRepairs
  <2>2. \A q \in Requests :
           record'[q].claim["audit"].state # "none" =>
              record[q].claim["audit"].state # "none" \/ (q = r /\ p = "audit")
    BY <1>10 DEF Phases
  <2>3. OneAuditEach
    BY DEF Inv
  <2>4. \A q \in Requests : Incident(q)' = Incident(q)
    BY <1>9
  <2>5. ASSUME NEW q1 \in Requests, NEW q2 \in Requests,
               record'[q1].claim["audit"].state # "none",
               record'[q2].claim["audit"].state # "none",
               Incident(q1)' = Incident(q2)'
        PROVE  q1 = q2
    <3>1. Incident(q1) = Incident(q2)
      BY <2>4, <2>5
    <3>2. CASE record[q1].claim["audit"].state # "none" /\ record[q2].claim["audit"].state # "none"
      BY <2>3, <3>1, <3>2 DEF OneAuditEach
    <3>3. CASE record[q1].claim["audit"].state = "none"
      BY <2>1, <2>2, <2>5, <3>1, <3>3
    <3>4. CASE record[q2].claim["audit"].state = "none"
      BY <2>1, <2>2, <2>5, <3>1, <3>4
    <3>5. QED BY <3>2, <3>3, <3>4
  <2>6. QED BY <2>5 DEF OneAuditEach
<1>21. QED BY <1>8, <1>11, <1>12, <1>13, <1>16, <1>17, <1>18, <1>19, <1>20 DEF Inv

LEMMA ClaimPhaseStep ==
  ASSUME Inv, NEW h \in Hosts, NEW r \in Requests, NEW p \in Phases, ClaimPhase(h, r, p)
  PROVE  Inv'
<1>1. Claimable(r, p) /\ UNCHANGED <<unit, parent, approved, late, alive, blinks, limits>>
  BY DEF ClaimPhase, run, world
<1>2. CASE Exhausted(r, p) \/ late
  <2>1. record' = [record EXCEPT ![r].status = "failed"] /\ UNCHANGED call
    BY <1>2 DEF ClaimPhase
  <2>2. record' = [record EXCEPT ![r] = Rewritten(r, "failed", record[r].action, record[r].intent,
                                                 record[r].resulting, record[r].claim)]
    <3>1. record'[r] = Rewritten(r, "failed", record[r].action, record[r].intent,
                                 record[r].resulting, record[r].claim)
      <4>1. record \in [Requests -> Record]
        BY DEF Inv, TypeOK
      <4>2. PICK old \in Record : old = record[r]
        BY <4>1
      <4>3. record'[r] = [old EXCEPT !.status = "failed"]
        BY <2>1, <4>1, <4>2
      <4>4. [old EXCEPT !.status = "failed"] =
               [status |-> "failed", reason |-> old.reason, attempt |-> old.attempt, action |-> old.action,
                intent |-> old.intent, resulting |-> old.resulting, claim |-> old.claim]
        BY DEF Record
      <4>5. QED BY <4>2, <4>3, <4>4 DEF Rewritten
    <3>2. QED BY <2>1, <3>1 DEF Inv, TypeOK
  <2>3. record[r].status # "absent" /\ record[r].intent \in {"none", "retry_pending", "awaiting", "applied"}
    BY <1>1, RecordParts DEF Claimable, IsCurrent, Inv
  <2>4. \A q \in Phases : record[r].claim[q].state # "claimed"
    <3> SUFFICES ASSUME NEW q \in Phases, record[r].claim[q].state = "claimed"
                 PROVE  FALSE
      OBVIOUS
    <3>1. <<r, q>> \in Keys /\ ClaimOf(<<r, q>>).state \in {"claimed", "outcome_unknown"}
      BY DEF Keys, ClaimOf
    <3>2. QED BY <1>1, <3>1 DEF Claimable, Unresolved, ClaimsIn
  <2>5. PICK failed \in {"failed", "applied", "awaiting_authority", "awaiting_evidence", record[r].status} :
           failed = "failed"
    OBVIOUS
  <2>6. record' = [record EXCEPT ![r] = Rewritten(r, failed, record[r].action, record[r].intent,
                                                 record[r].resulting, record[r].claim)]
    BY <2>2, <2>5
  <2>7. QED BY <1>1, <2>1, <2>3, <2>4, <2>6, DecideStep
<1>3. CASE ~(Exhausted(r, p) \/ late)
  <2>1. /\ record' = [record EXCEPT ![r].status = ClaimedStatus(p),
                                    ![r].claim[p] = [state |-> "claimed", owner |-> h]]
        /\ call' = [call EXCEPT ![h] = <<r, p>>]
    BY <1>3 DEF ClaimPhase
  <2>2. PICK c : c = [record[r].claim EXCEPT ![p] = [state |-> "claimed", owner |-> h]]
    OBVIOUS
  <2>3. record' = [record EXCEPT ![r] = Rewritten(r, ClaimedStatus(p), record[r].action,
                                                 record[r].intent, record[r].resulting, c)]
    <3>1. record \in [Requests -> Record]
      BY DEF Inv, TypeOK
    <3>2. PICK old \in Record : old = record[r]
      BY <3>1
    <3>3. PICK x, new : x = ClaimedStatus(p) /\ new = [old EXCEPT !.status = x, !.claim = c]
      OBVIOUS
    <3>4. record' = [record EXCEPT ![r] = new]
      <4>1. c = [old.claim EXCEPT ![p] = [state |-> "claimed", owner |-> h]]
        BY <2>2, <3>2
      <4>2. record'[r] = new
        BY <2>1, <3>1, <3>2, <3>3, <4>1 DEF Record
      <4>3. QED BY <2>1, <3>1, <4>2
    <3>5. new = [status |-> x, reason |-> old.reason, attempt |-> old.attempt, action |-> old.action,
                 intent |-> old.intent, resulting |-> old.resulting, claim |-> c]
      BY <3>3, StatusAndClaim
    <3>6. new = Rewritten(r, ClaimedStatus(p), record[r].action,
                          record[r].intent, record[r].resulting, c)
      BY <3>2, <3>3, <3>5 DEF Rewritten
    <3>7. QED BY <3>4, <3>6
  <2>4. QED BY <1>1, <1>3, <2>1, <2>2, <2>3, NewClaimStep
<1>4. QED BY <1>2, <1>3

-----------------------------------------------------------------------------
\* The Run goes on.

\* What a step that leaves all claims alone says of them.
LEMMA ClaimsUntouched ==
  ASSUME Inv, \A q \in Requests : record'[q].claim = record[q].claim, UNCHANGED <<call, limits>>
  PROVE  OneOpenClaim' /\ (\A h \in Hosts : CallOK(h)') /\ CallsWithinBudget'
<1>1. \A k \in Keys : ClaimOf(k)' = ClaimOf(k)
  BY DEF ClaimOf, Keys
<1>2. OneOpenClaim'
  BY <1>1 DEF Inv, OneOpenClaim
<1>3. \A h \in Hosts : CallOK(h)'
  BY <1>1, CallsKept
<1>4. CallsWithinBudget'
  <2>1. Made' = Made
    BY <1>1 DEF Made, ClaimsIn
  <2>2. QED BY <2>1 DEF Inv, CallsWithinBudget
<1>5. QED BY <1>2, <1>3, <1>4

LEMMA RetryCompletionStep ==
  ASSUME Inv, NEW h \in Hosts, NEW r \in Requests, RetryCompletion(h, r)
  PROVE  Inv'
<1>1. /\ record[r].status = "plan_verified" /\ record[r].attempt = unit.attempt
      /\ unit.state = "red" /\ unit.attempt < MaxAttempts
      /\ UNCHANGED <<parent, approved, call, late, alive, blinks, limits>>
  BY DEF RetryCompletion, Retriable, IsCurrent, world
<1>2. unit.attempt \in unit.red
  BY <1>1 DEF Inv, UnitOK
<1>3. /\ unit.attempt \in Nat /\ unit.attempt + 1 \in Ordinals /\ unit.red \subseteq Ordinals
      /\ \A q \in Requests : record[q].attempt \in Nat /\ record[q].resulting \in Nat
  BY <1>1, RecordFields, OrdinalsFact DEF Inv, TypeOK, Ordinals
<1>4. PICK next \in Ordinals : next = unit.attempt + 1
  BY <1>3
<1>5. unit' \in Unit /\ unit'.state = "running" /\ unit'.attempt = next /\ unit'.red = unit.red
  BY <1>4 DEF RetryCompletion, Inv, TypeOK, Unit
<1>6. /\ record' = [record EXCEPT ![r] = Rewritten(r, "applied", record[r].action, "applied", next, record[r].claim)]
      /\ record'[r] = Rewritten(r, "applied", record[r].action, "applied", next, record[r].claim)
  <2>1. record' = [record EXCEPT ![r].status = "applied", ![r].intent = "applied", ![r].resulting = next]
    BY <1>4 DEF RetryCompletion
  <2>2. record'[r] = Rewritten(r, "applied", record[r].action, "applied", next, record[r].claim)
    <3>1. record \in [Requests -> Record] /\ record[r] \in Record
      BY DEF Inv, TypeOK
    <3>2. record'[r] = [record[r] EXCEPT !.status = "applied", !.intent = "applied", !.resulting = next]
      BY <2>1, <3>1
    <3>3. QED BY <3>1, <3>2 DEF Record, Rewritten
  <2>3. QED BY <2>1, <2>2 DEF Inv, TypeOK
<1>7. PICK l \in Record :
         /\ record' = [record EXCEPT ![r] = l] /\ record'[r] = l
         /\ l.status = "applied" /\ l.claim = record[r].claim /\ l.resulting = next
         /\ l.attempt = record[r].attempt /\ l.reason = record[r].reason
  <2> DEFINE new == Rewritten(r, "applied", record[r].action, "applied", next, record[r].claim)
  <2>1. "applied" \in Statuses
    BY DEF Statuses
  <2>2. new \in Record
    BY <2>1, RewrittenFacts, RecordParts DEF Inv
  <2>3. /\ new.status = "applied" /\ new.claim = record[r].claim /\ new.resulting = next
        /\ new.attempt = record[r].attempt /\ new.reason = record[r].reason
    BY DEF Rewritten
  <2> HIDE DEF new
  <2>4. QED BY <1>6, <2>2, <2>3 DEF new
<1>8. \A q \in Requests : q # r => record'[q] = record[q]
  BY <1>7 DEF Inv, TypeOK
<1>9. \A q \in Requests :
         /\ record'[q].claim = record[q].claim /\ record'[q].attempt = record[q].attempt
         /\ IsRepair(q)' <=> IsRepair(q)
         /\ AuditRequired(q)' <=> AuditRequired(q)
         /\ Incident(q)' = Incident(q)
  <2>1. \A q \in Requests :
           /\ record'[q].claim = record[q].claim /\ record'[q].attempt = record[q].attempt
           /\ IsRepair(q)' <=> IsRepair(q)
    BY <1>1, <1>7, <1>8 DEF IsRepair
  <2>2. \A q \in Requests : AuditRequired(q)' <=> AuditRequired(q)
    BY <1>1, <1>5, <2>1 DEF AuditRequired, Streak
  <2>3. \A q \in Requests : Incident(q)' = Incident(q)
    BY <1>5, <2>1 DEF Incident, Streak
  <2>4. QED BY <2>1, <2>2, <2>3
<1>10. TypeOK'
  <2>1. record' \in [Requests -> Record]
    BY <1>7 DEF Inv, TypeOK
  <2>2. QED BY <1>1, <1>5, <2>1 DEF Inv, TypeOK, Unit
<1>11. UnitOK'
  BY <1>5 DEF UnitOK
<1>12. ASSUME NEW q \in Requests
       PROVE  (StatusOK(q) /\ AttemptOK(q) /\ ResultOK(q) /\ PlannedAudited(q))'
  <2>1. StatusOK(q)'
    <3>1. CASE q = r
      <4>1. \A p \in Phases : record[r].claim[p].state # "claimed"
        BY <1>1 DEF Inv, StatusOK, ClaimedStatus, Phases
      <4>2. QED BY <1>7, <3>1, <4>1 DEF StatusOK
    <3>2. CASE q # r
      BY <1>8, <3>2 DEF Inv, StatusOK
    <3>3. QED BY <3>1, <3>2
  <2>2. AttemptOK(q)'
    BY <1>3, <1>4, <1>5, <1>9 DEF Inv, AttemptOK
  <2>3. ResultOK(q)'
    <3>1. CASE q = r
      <4>1. \A p \in {"planner", "plan_verifier"} : record[r].claim[p].state = "success"
        BY <1>1 DEF Inv, StatusOK
      <4>2. next <= next
        BY <1>3, <1>4
      <4>3. QED BY <1>1, <1>2, <1>4, <1>5, <1>7, <3>1, <4>1, <4>2 DEF ResultOK
    <3>2. CASE q # r
      BY <1>3, <1>4, <1>5, <1>8, <3>2 DEF Inv, ResultOK
    <3>3. QED BY <3>1, <3>2
  <2>4. PlannedAudited(q)'
    BY <1>9 DEF Inv, PlannedAudited
  <2>5. QED BY <2>1, <2>2, <2>3, <2>4
<1>13. OneResultEach'
  <2>1. \A q \in Requests : record[q].resulting # 0 => record[q].resulting <= unit.attempt
    BY DEF Inv, ResultOK
  <2>2. \A q \in Requests : record[q].resulting # next
    BY <1>3, <1>4, <2>1
  <2>3. QED BY <1>7, <1>8, <2>2 DEF Inv, OneResultEach
<1>14. OneOpenClaim' /\ (\A h2 \in Hosts : CallOK(h2)') /\ CallsWithinBudget'
  BY <1>1, <1>9, ClaimsUntouched
<1>15. AuditsOfRepairs' /\ OneAuditEach'
  BY <1>9 DEF Inv, AuditsOfRepairs, OneAuditEach
<1>16. QED BY <1>10, <1>11, <1>12, <1>13, <1>14, <1>15 DEF Inv

LEMMA AdvanceRunStep ==
  ASSUME Inv, AdvanceRun
  PROVE  Inv'
<1>1. unit.state = "running" /\ UNCHANGED <<parent, approved, record, call, late, alive, blinks, limits>>
  BY DEF AdvanceRun, world
<1>2. /\ unit.attempt \in Ordinals /\ unit.attempt \in Nat /\ unit.red \subseteq Ordinals
      /\ \A q \in Requests : record[q].attempt \in Nat
      /\ \A n \in Ordinals : n \in Nat
  BY RecordFields, OrdinalsFact DEF Inv, TypeOK
<1>3. /\ unit' \in Unit
      /\ \/ unit'.state = "integrated" /\ unit'.attempt = unit.attempt /\ unit'.red = unit.red
         \/ /\ unit'.state = "red" /\ unit'.attempt = unit.attempt
            /\ unit'.red = unit.red \cup {unit.attempt}
         \/ unit'.state = "running" /\ unit'.attempt = unit.attempt + 1 /\ unit'.red = unit.red
  <2>1. unit \in Unit
    BY DEF Inv, TypeOK, Unit
  <2>2. CASE unit' = [unit EXCEPT !.state = "integrated"]
    BY <2>1, <2>2 DEF Unit
  <2>3. CASE unit' = [unit EXCEPT !.state = "red", !.red = @ \cup {unit.attempt}]
    BY <1>2, <2>1, <2>3 DEF Unit
  <2>4. CASE \E n \in {unit.attempt + 1} \cap Ordinals : unit' = [unit EXCEPT !.attempt = n]
    BY <1>1, <2>1, <2>4 DEF Unit
  <2>5. QED BY <2>2, <2>3, <2>4 DEF AdvanceRun
\* A repair was asked for an attempt before the running one, whose RED cannot
\* change any more.
<1>4. ASSUME NEW q \in Requests, IsRepair(q)
      PROVE  Streak(record[q].attempt)' = Streak(record[q].attempt)
  <2>1. record[q].attempt < unit.attempt
    <3>1. record[q].attempt <= unit.attempt /\ record[q].attempt # unit.attempt
      BY <1>1, <1>4 DEF Inv, AttemptOK
    <3>2. QED BY <1>2, <3>1
  <2>2. unit.attempt \notin 1..record[q].attempt
    BY <1>2, <2>1
  <2>3. \A n \in Ordinals : n..record[q].attempt \subseteq unit'.red <=> n..record[q].attempt \subseteq unit.red
    <3> SUFFICES ASSUME NEW n \in Ordinals
                 PROVE  n..record[q].attempt \subseteq unit'.red <=> n..record[q].attempt \subseteq unit.red
      OBVIOUS
    <3>1. unit.attempt \notin n..record[q].attempt
      BY <1>2, <2>1
    <3>2. QED BY <1>3, <3>1
  <2>4. QED BY <1>1, <2>3 DEF Streak
<1>5. \A q \in Requests :
         /\ IsRepair(q)' <=> IsRepair(q)
         /\ AuditRequired(q)' <=> AuditRequired(q)
         /\ IsRepair(q) => Incident(q)' = Incident(q)
  <2>1. \A q \in Requests : IsRepair(q)' <=> IsRepair(q)
    BY <1>1 DEF IsRepair
  <2>2. \A q \in Requests : AuditRequired(q)' <=> AuditRequired(q)
    BY <1>1, <1>4, <2>1 DEF AuditRequired
  <2>3. \A q \in Requests : IsRepair(q) => Incident(q)' = Incident(q)
    BY <1>1, <1>4 DEF Incident
  <2>4. QED BY <2>1, <2>2, <2>3
<1>6. TypeOK'
  BY <1>1, <1>3 DEF Inv, TypeOK, Unit
<1>7. UnitOK'
  BY <1>3 DEF UnitOK
<1>8. ASSUME NEW q \in Requests
      PROVE  (StatusOK(q) /\ AttemptOK(q) /\ ResultOK(q) /\ PlannedAudited(q))'
  <2>1. StatusOK(q)'
    BY <1>1 DEF Inv, StatusOK
  <2>2. AttemptOK(q)'
    <3>1. record[q].attempt <= unit.attempt /\ (IsRepair(q) => record[q].attempt # unit.attempt)
      BY <1>1 DEF Inv, AttemptOK
    <3>2. QED BY <1>1, <1>2, <1>3, <1>5, <3>1 DEF AttemptOK
  <2>3. ResultOK(q)'
    <3>1. record[q].resulting \in Nat
      BY RecordFields DEF Inv
    <3>2. QED BY <1>1, <1>2, <1>3, <3>1 DEF Inv, ResultOK
  <2>4. PlannedAudited(q)'
    BY <1>1, <1>5 DEF Inv, PlannedAudited
  <2>5. QED BY <2>1, <2>2, <2>3, <2>4
<1>9. OneResultEach'
  BY <1>1 DEF Inv, OneResultEach
<1>10. OneOpenClaim' /\ (\A h2 \in Hosts : CallOK(h2)') /\ CallsWithinBudget'
  BY <1>1, ClaimsUntouched
<1>11. AuditsOfRepairs' /\ OneAuditEach'
  BY <1>1, <1>5 DEF Inv, AuditsOfRepairs, OneAuditEach
<1>12. QED BY <1>6, <1>7, <1>8, <1>9, <1>10, <1>11 DEF Inv

-----------------------------------------------------------------------------
\* The invariant.

LEMMA InitialInv == Init => Inv
<1> SUFFICES ASSUME Init
             PROVE  Inv
  OBVIOUS
<1>1. \A r \in Requests : record[r] = NoRecord
  BY DEF Init
<1>2. \A r \in Requests : /\ record[r].status = "absent" /\ record[r].resulting = 0 /\ record[r].attempt = 1
                          /\ \A p \in Phases : record[r].claim[p].state = "none"
  BY <1>1, NoRecordFact
<1>3. TypeOK
  <2>1. record \in [Requests -> Record]
    BY NoRecordFact DEF Init
  <2>2. unit \in [state: {"running", "red", "integrated"}, attempt: Ordinals, red: SUBSET Ordinals]
    BY OrdinalsFact DEF Init
  <2>3. call \in [Hosts -> (Requests \X Phases) \cup {Idle}]
    BY DEF Init
  <2>4. blinks \in 0..MaxBlinks
    BY MaxBlinksAssumption DEF Init
  <2>5. QED BY <2>1, <2>2, <2>3, <2>4 DEF Init, TypeOK
<1>4. \A r \in Requests : StatusOK(r) /\ AttemptOK(r) /\ ResultOK(r) /\ PlannedAudited(r)
  BY <1>1, <1>2 DEF Init, StatusOK, AttemptOK, ResultOK, PlannedAudited, IsRepair, Phases
<1>5. \A k \in Keys : ClaimOf(k).state = "none"
  BY <1>2 DEF Keys, ClaimOf
<1>6. Made = {}
  BY <1>3, <1>5, MadeFact, MadeFinite
<1>7. CallsWithinBudget
  <2>1. limits.planner \in Nat /\ limits.verifier \in Nat
    BY <1>3, LimitsAssumption DEF TypeOK
  <2>2. {k \in Made : k[2] = "planner"} = {} /\ {k \in Made : k[2] # "planner"} = {}
    BY <1>6
  <2>3. QED BY <2>1, <2>2, FS_EmptySet DEF CallsWithinBudget
<1>8. UnitOK /\ OneResultEach /\ OneOpenClaim /\ (\A h \in Hosts : CallOK(h))
  BY <1>2, <1>5 DEF Init, UnitOK, OneResultEach, OneOpenClaim, Open, CallOK
<1>9. AuditsOfRepairs /\ OneAuditEach
  BY <1>2 DEF AuditsOfRepairs, OneAuditEach, Phases
<1>10. QED BY <1>3, <1>4, <1>7, <1>8, <1>9 DEF Inv

LEMMA NextStep == Inv /\ [Next]_vars => Inv'
<1> SUFFICES ASSUME Inv, [Next]_vars
             PROVE  Inv'
  OBVIOUS
<1>1. ASSUME NEW h \in Hosts, NEW r \in Requests, RecordRequest(h, r)
      PROVE  Inv'
  BY <1>1, RecordRequestStep
<1>2. ASSUME NEW h \in Hosts, NEW r \in Requests, ApplyDecision(h, r)
      PROVE  Inv'
  BY <1>2, ApplyDecisionStep
<1>3. ASSUME NEW h \in Hosts, NEW r \in Requests, RetryCompletion(h, r)
      PROVE  Inv'
  BY <1>3, RetryCompletionStep
<1>4. ASSUME NEW h \in Hosts, NEW r \in Requests, NEW p \in Phases, ClaimPhase(h, r, p)
      PROVE  Inv'
  BY <1>4, ClaimPhaseStep
<1>5. ASSUME NEW h \in Hosts, NEW k \in Keys, LoseClaim(h, k)
      PROVE  Inv'
  BY <1>5, LoseClaimStep
<1>6. ASSUME NEW h \in Hosts, FinishPhase(h)
      PROVE  Inv'
  BY <1>6, FinishPhaseStep
<1>7. ASSUME NEW h \in Hosts, Die(h)
      PROVE  Inv'
  <2>1. /\ UNCHANGED <<unit, record, limits, parent, approved, late, blinks>>
        /\ call' = [call EXCEPT ![h] = Idle] /\ alive' = alive \ {h}
    BY <1>7 DEF Die, run
  <2>2. /\ call' \in [Hosts -> (Requests \X Phases) \cup {Idle}]
        /\ \A h2 \in Hosts : call'[h2] \in {call[h2], Idle}
    BY <2>1 DEF Inv, TypeOK
  <2>3. parent' \in {"active", "stopped"} /\ approved' \in Requests \cup {NoRequest}
        /\ late' \in BOOLEAN /\ alive' \subseteq Hosts /\ blinks' \in 0..MaxBlinks
    BY <2>1 DEF Inv, TypeOK
  <2>4. QED BY <2>1, <2>2, <2>3, FrameStep
<1>8. ASSUME \/ \E r \in Requests : ApproveDisposition(r)
             \/ StopParent
             \/ DeadlinePasses
             \/ UNCHANGED vars
      PROVE  Inv'
  <2>1. UNCHANGED <<unit, record, call, limits>>
    BY <1>8 DEF ApproveDisposition, StopParent, DeadlinePasses, run, world, vars
  <2>2. parent' \in {"active", "stopped"} /\ approved' \in Requests \cup {NoRequest}
        /\ late' \in BOOLEAN /\ alive' \subseteq Hosts /\ blinks' \in 0..MaxBlinks
    BY <1>8 DEF ApproveDisposition, StopParent, DeadlinePasses, run, world, vars, Inv, TypeOK
  <2>3. /\ call' \in [Hosts -> (Requests \X Phases) \cup {Idle}]
        /\ \A h2 \in Hosts : call'[h2] \in {call[h2], Idle}
    BY <2>1 DEF Inv, TypeOK
  <2>4. QED BY <2>1, <2>2, <2>3, FrameStep
<1>9. CASE AdvanceRun
  BY <1>9, AdvanceRunStep
<1>10. QED BY <1>1, <1>2, <1>3, <1>4, <1>5, <1>6, <1>7, <1>8, <1>9 DEF Next

LEMMA InvIsInvariant == Spec => []Inv
  BY InitialInv, NextStep, PTL DEF Spec

-----------------------------------------------------------------------------
\* What the recovery promises.

\* Every state of a recovery is well typed: records only name attempts of the
\* Run and actions the store accepts, and a process is in one call at most.
THEOREM RecoveryTypeCorrect == Spec => []TypeOK
<1>1. Inv => TypeOK
  BY DEF Inv
<1>2. QED BY <1>1, InvIsInvariant, PTL

\* Two role calls of a Run never overlap, for any number of processes and of
\* requests and however many live processes are taken for dead: a claim whose
\* outcome was lost still blocks the Run (claim_recovery_phase).
THEOREM RoleCallsNeverOverlap == Spec => []OneRoleCall
<1>1. Inv => OneRoleCall
  <2> SUFFICES ASSUME Inv
               PROVE  OneRoleCall
    OBVIOUS
  <2>1. \A h, g \in InCall : h = g
    <3> SUFFICES ASSUME NEW h \in InCall, NEW g \in InCall
                 PROVE  h = g
      OBVIOUS
    <3>1. PICK k \in Keys : k = call[h]
      BY DEF InCall, Inv, TypeOK, Keys
    <3>2. PICK l \in Keys : l = call[g]
      BY DEF InCall, Inv, TypeOK, Keys
    <3>3. ClaimOf(k).owner = h /\ ClaimOf(k).state \in Open
      BY <3>1 DEF InCall, Inv, CallOK
    <3>4. ClaimOf(l).owner = g /\ ClaimOf(l).state \in Open
      BY <3>2 DEF InCall, Inv, CallOK
    <3>5. k = l
      BY <3>3, <3>4 DEF Inv, OneOpenClaim
    <3>6. QED BY <3>3, <3>4, <3>5
  <2>2. CASE InCall = {}
    <3>1. Cardinality(InCall) = 0
      BY <2>2, FS_EmptySet
    <3>2. QED BY <3>1 DEF OneRoleCall
  <2>3. CASE InCall # {}
    <3>1. PICK h : InCall = {h}
      BY <2>1, <2>3
    <3>2. Cardinality(InCall) = 1
      BY <3>1, FS_Singleton
    <3>3. QED BY <3>2 DEF OneRoleCall
  <2>4. QED BY <2>2, <2>3
<1>2. QED BY <1>1, InvIsInvariant, PTL

\* All requests of a Run together stay within its two budgets, whatever the
\* budgets are and however many requests are recorded (claim_recovery_phase).
THEOREM RoleCallsAreBounded == Spec => []CallsWithinBudget
<1>1. Inv => CallsWithinBudget
  BY DEF Inv
<1>2. QED BY <1>1, InvIsInvariant, PTL

\* An attempt begun by the recovery follows the RED its request was made for,
\* after a planner and a verifier that both succeeded, and answers to one
\* request (apply_recovery_decision, retry_completion).
THEOREM RetriesAreVerified == Spec => []RetriedOnItsVerdict
<1>1. Inv => RetriedOnItsVerdict
  BY DEF Inv, ResultOK, OneResultEach, RetriedOnItsVerdict
<1>2. QED BY <1>1, InvIsInvariant, PTL

\* In a row of failures long enough to require an audit no planner is called
\* before an audit succeeded, and an incident is audited once, also when two
\* requests of the same RED are alive (_recovery_audit_required,
\* claim_recovery_phase).
THEOREM PlansAreAudited == Spec => []AuditedBeforePlanned
<1>1. Inv => AuditedBeforePlanned
  <2> SUFFICES ASSUME Inv
               PROVE  AuditedBeforePlanned
    OBVIOUS
  <2>1. \A r \in Requests :
           AuditRequired(r) /\ record[r].claim["planner"].state # "none" =>
              record[r].claim["audit"].state = "success"
    BY DEF Inv, PlannedAudited
  <2>2. ASSUME NEW k \in {m \in Made : m[2] = "audit"}, NEW l \in {m \in Made : m[2] = "audit"},
               Incident(k[1]) = Incident(l[1])
        PROVE  k = l
    <3>1. PICK r \in Requests : k = <<r, "audit">>
      BY MadeFinite DEF Keys
    <3>2. PICK q \in Requests : l = <<q, "audit">>
      BY MadeFinite DEF Keys
    <3>3. record[r].claim["audit"].state # "none" /\ record[q].claim["audit"].state # "none"
      <4>1. k \in Keys /\ l \in Keys /\ TypeOK
        BY MadeFinite DEF Inv
      <4>2. ClaimOf(k).state # "none" /\ ClaimOf(l).state # "none"
        BY <4>1, MadeFact
      <4>3. QED BY <3>1, <3>2, <4>2 DEF ClaimOf
    <3>4. r = q
      BY <2>2, <3>1, <3>2, <3>3 DEF Inv, OneAuditEach
    <3>5. QED BY <3>1, <3>2, <3>4
  <2>3. QED BY <2>1, <2>2 DEF AuditedBeforePlanned
<1>2. QED BY <1>1, InvIsInvariant, PTL

\* After its goal was stopped a Run only sees the closeout that was approved for
\* it decided, and only the calls that lead there (_recovery_disposition_conn,
\* claim_recovery_phase, apply_recovery_decision).
THEOREM StoppedRunsOnlyCloseOut == Spec => StoppedOnlyClosesOut
<1> DEFINE Reserved(r) == \A p \in Phases :
              record[r].claim[p].state = "none" /\ record'[r].claim[p].state # "none" => r = approved
           Settled(r) == record[r].intent = "none" /\ record'[r].intent # "none" =>
              /\ r = approved
              /\ record[r].reason = "machine_complete" /\ record[r].action = "closeout"
           Kept ==
              parent = "stopped" =>
                \A r \in Requests :
                  /\ record[r].intent = "none" /\ record'[r].intent # "none" =>
                       /\ r = approved
                       /\ record[r].reason = "machine_complete" /\ record[r].action = "closeout"
                  /\ \A p \in Phases :
                       record[r].claim[p].state = "none" /\ record'[r].claim[p].state # "none" =>
                          r = approved
<1>1. Inv /\ [Next]_vars => [Kept]_vars
  <2> SUFFICES ASSUME Inv, Next, parent = "stopped", NEW r \in Requests
               PROVE  Settled(r) /\ Reserved(r)
    OBVIOUS
  <2>1. record \in [Requests -> Record] /\ record[r] \in Record /\ record[r].claim \in [Phases -> Claim]
    BY RecordFields DEF Inv, TypeOK
  <2>2. ASSUME NEW h \in Hosts, NEW q \in Requests, RecordRequest(h, q)
        PROVE  Settled(r) /\ Reserved(r)
    <3>1. \A p \in Phases : NoRecord.claim[p].state = "none" /\ NoRecord.intent = "none"
      BY DEF NoRecord
    <3>2. CASE q = r
      <4>1. record'[r].intent = NoRecord.intent /\ record'[r].claim = NoRecord.claim
        BY <2>1, <2>2, <3>2 DEF RecordRequest, NoRecord
      <4>2. QED BY <3>1, <4>1 DEF Phases
    <3>3. CASE q # r
      BY <2>1, <2>2, <3>3 DEF RecordRequest
    <3>4. QED BY <3>2, <3>3
  <2>3. ASSUME NEW h \in Hosts, NEW q \in Requests, ApplyDecision(h, q)
        PROVE  Settled(r) /\ Reserved(r)
    <3>1. q = approved /\ record[q].reason = "machine_complete" /\ record[q].action = "closeout"
      BY <2>3 DEF ApplyDecision, Applicable, Permitted, DispositionSound
    <3>2. PICK d : record' = [record EXCEPT ![q].status = d[1], ![q].intent = d[2]]
      BY <2>3 DEF ApplyDecision
    <3>3. q # r => record'[r] = record[r]
      BY <2>1, <3>2
    <3>4. record'[r].claim = record[r].claim
      BY <2>1, <3>2, <3>3 DEF Record
    <3>5. QED BY <3>1, <3>3, <3>4
  <2>4. ASSUME NEW h \in Hosts, NEW q \in Requests, RetryCompletion(h, q)
        PROVE  Settled(r) /\ Reserved(r)
    <3>1. record[q].intent = "retry_pending"
      BY <2>4 DEF RetryCompletion, Retriable
    <3>2. q # r => record'[r] = record[r]
      BY <2>1, <2>4 DEF RetryCompletion
    <3>3. record'[r].claim = record[r].claim
      BY <2>1, <2>4, <3>2 DEF RetryCompletion, Record
    <3>4. QED BY <3>1, <3>2, <3>3
  <2>5. ASSUME NEW h \in Hosts, NEW q \in Requests, NEW p \in Phases, ClaimPhase(h, q, p)
        PROVE  Settled(r) /\ Reserved(r)
    <3>1. q = approved
      BY <2>5 DEF ClaimPhase, Claimable, Permitted
    <3>2. q # r => record'[r] = record[r]
      BY <2>1, <2>5 DEF ClaimPhase
    <3>3. record'[r].intent = record[r].intent
      BY <2>1, <2>5, <3>2 DEF ClaimPhase, Record
    <3>4. QED BY <3>1, <3>2, <3>3
  <2>6. ASSUME NEW q \in Requests, NEW p \in Phases, NEW state, NEW status, NEW action,
               Closes(q, p, state, status, action), record[q].claim[p].state = "claimed"
        PROVE  Settled(r) /\ Reserved(r)
    <3>1. q # r => record'[r] = record[r]
      BY <2>1, <2>6 DEF Closes
    <3>2. record'[r].intent = record[r].intent
      BY <2>1, <2>6, <3>1 DEF Closes, Record
    <3>3. \A s \in Phases : s # p => record'[r].claim[s] = record[r].claim[s]
      BY <2>1, <2>6, <3>1 DEF Closes, Record
    <3>4. q = r => record[r].claim[p].state # "none"
      BY <2>6
    <3>5. QED BY <3>1, <3>2, <3>3, <3>4
  <2>7. ASSUME NEW h \in Hosts, NEW k \in Keys, LoseClaim(h, k)
        PROVE  Settled(r) /\ Reserved(r)
    <3>1. PICK q \in Requests, p \in Phases : k = <<q, p>>
      BY DEF Keys
    <3>2. record[q].claim[p].state = "claimed"
      BY <2>7, <3>1 DEF LoseClaim, ClaimOf
    <3>3. Closes(q, p, "outcome_unknown", "outcome_unknown", record[q].action)
      BY <2>7, <3>1 DEF LoseClaim, Closes
    <3>4. QED BY <2>6, <3>2, <3>3
  <2>8. ASSUME NEW h \in Hosts, FinishPhase(h)
        PROVE  Settled(r) /\ Reserved(r)
    <3>1. PICK q \in Requests, p \in Phases : call[h] = <<q, p>>
      <4>1. call[h] \in (Requests \X Phases) \cup {Idle} /\ call[h] # Idle
        BY <2>8 DEF FinishPhase, Inv, TypeOK
      <4>2. QED BY <4>1
    <3>2. CASE UNCHANGED record
      BY <3>2
    <3>3. CASE ClaimOf(call[h]) = [state |-> "claimed", owner |-> h]
      <4>1. record[q].claim[p].state = "claimed"
        BY <3>1, <3>3 DEF ClaimOf
      <4>2. \E state, status, action : Closes(q, p, state, status, action)
        BY <2>8, <3>1, <3>3, FinishCloses
      <4>3. QED BY <2>6, <4>1, <4>2
    <3>4. QED BY <2>8, <3>2, <3>3 DEF FinishPhase
  <2>9. ASSUME UNCHANGED record
        PROVE  Settled(r) /\ Reserved(r)
    BY <2>9
  <2> HIDE DEF Settled, Reserved
  <2>10. QED
    BY <2>2, <2>3, <2>4, <2>5, <2>7, <2>8, <2>9
       DEF Next, Die, ApproveDisposition, AdvanceRun, StopParent, DeadlinePasses, run
<1>2. QED BY <1>1, InvIsInvariant, PTL DEF Spec, StoppedOnlyClosesOut
==============================================================================
