------------------------------ MODULE PhaseJobs ------------------------------
(***************************************************************************)
(* Durable phase jobs.  A completion phase of a unit (checks, verifier,    *)
(* integration ..) is claimed, reserved as a job, given its resource       *)
(* slots and run by an independent carrier process; the controllers only   *)
(* read the job and settle it (_effect of work_unit_completion.py,         *)
(* run_phase_job and submit_phase of runner_adapter.py, the phase job      *)
(* tables of work_unit_store.py).                                          *)
(*                                                                         *)
(* Every action is one transaction, or the start of a process.  A unit is  *)
(* its current attempt; its phases follow one another, and a RED verdict   *)
(* only ends the sequence, so that verdicts are left out.                  *)
(***************************************************************************)
EXTENDS Naturals, Sequences, FiniteSets

CONSTANTS
    Controllers,    \* controller processes; a restarted one is another
    Units,
    DurablePhases,  \* the durable phases of a unit, in order
    Slots,          \* classes of resource slots
    Needs,          \* the slots a phase occupies
    Limit,          \* how many jobs may occupy a class at once
    MaxFaults       \* bound on deaths and missed deadlines

ASSUME DurablePhasesAssumption ==
    Len(DurablePhases) \in Nat \ {0} /\ DOMAIN DurablePhases = 1..Len(DurablePhases)
ASSUME UnitsAssumption == Units # {} /\ IsFiniteSet(Units)
ASSUME NeedsAssumption == \A i \in DOMAIN DurablePhases : Needs[DurablePhases[i]] \subseteq Slots
ASSUME LimitAssumption == \A s \in Slots : Limit[s] \in Nat \ {0}
ASSUME MaxFaultsAssumption == MaxFaults \in Nat

Jobs == Units \X DOMAIN DurablePhases
NoController == "no_controller"
ASSUME NoControllerAssumption == NoController \notin Controllers

VARIABLES
    phase,      \* state of the completion_phases row of each job
    job,        \* the job as _phase_jobs_conn reads it from its events
    overdue,    \* jobs whose deadline has passed
    host,       \* where each controller stands in _effect
    living,     \* controllers that live
    carrier,    \* the carrier process each controller started for each job
    effects     \* how often the role command of each job was started

jobsVars == <<phase, job, overdue, host, living, carrier, effects>>

JobStatuses == {"absent", "waiting", "reserved", "running", "result_ready",
             "settled", "outcome_unknown"}

\* "lost": the carrier died; "gone": it came to an end by itself.
CarrierStates == {"none", "spawned", "claimed", "effect", "gone", "lost"}
Steps == {"idle", "reserve", "reenter", "acquire", "submit", "read", "accept", "settle"}

\* fresh: this call made the phase claim, so it may create the job; of no use
\* once the job is reserved.
AtRest == [at |-> "idle", job |-> CHOOSE j \in Jobs : TRUE, fresh |-> FALSE]

JobsTypeOK ==
    /\ phase \in [Jobs -> {"open", "claimed", "settled"}]
    /\ job \in [Jobs -> [status: JobStatuses, creator: Controllers \cup {NoController},
                         carrier: Controllers \cup {NoController}]]
    /\ overdue \subseteq Jobs
    /\ host \in [Controllers -> [at: Steps, job: Jobs, fresh: BOOLEAN]]
    /\ living \subseteq Controllers
    /\ carrier \in [Jobs -> [Controllers -> CarrierStates]]
    /\ effects \in [Jobs -> Nat]

JobsInit ==
    /\ phase = [j \in Jobs |-> "open"]
    /\ job = [j \in Jobs |-> [status |-> "absent", creator |-> NoController, carrier |-> NoController]]
    /\ overdue = {}
    /\ host = [h \in Controllers |-> AtRest]
    /\ living = Controllers
    /\ carrier = [j \in Jobs |-> [h \in Controllers |-> "none"]]
    /\ effects = [j \in Jobs |-> 0]

-----------------------------------------------------------------------------
\* Slots.

NeedsOf(j) == Needs[DurablePhases[j[2]]]

\* Slip: a job whose outcome is unknown gives its slots back.
OwnersKnown(s) == {j \in Jobs : s \in NeedsOf(j) /\ job[j].status \in {"reserved", "running", "result_ready"}}

\* _phase_slots_conn: the jobs that occupy a class.
Owners(s) == {j \in Jobs : s \in NeedsOf(j) /\ job[j].status \notin {"absent", "waiting", "settled"}}

\* _phase_waiting_slot_conn: all the slots at once, or none.
SlotsFree(j) == \A s \in NeedsOf(j) : Cardinality(Owners(s) \ {j}) < Limit[s]

\* _phase_job_authority_conn: the phase is claimed and nothing else of the unit
\* is unsettled; a job that waits for its slots has no deadline yet.
Authorized(j) ==
    /\ phase[j] = "claimed"
    /\ \A k \in Jobs \ {j} : k[1] = j[1] => job[k].status \in {"absent", "settled"}
    /\ j \notin overdue

-----------------------------------------------------------------------------
\* A controller, between two polls of which nothing is kept.

At(h, step) == h \in living /\ host[h].at = step
Goto(h, step) == host' = [host EXCEPT ![h].at = step, ![h].fresh = FALSE]
Rest(h) == host' = [host EXCEPT ![h] = AtRest]
carriers == <<carrier, effects>>

\* The job advance comes to: the first of the unit that is not settled.
IsNext(j) ==
    /\ job[j].status # "settled"
    /\ \A i \in 1..(j[2] - 1) : job[<<j[1], i>>].status = "settled"

\* _effect, with claim_completion_phase: a phase settled by a call that did not
\* live to settle the job is settled again from its result.
EnterPhase(h, j) ==
    /\ At(h, "idle")
    /\ IsNext(j)
    /\ phase' = [phase EXCEPT ![j] = IF @ = "open" THEN "claimed" ELSE @]
    /\ LET step == CASE phase[j] = "settled" -> "settle"
                     [] phase[j] # "settled" /\ job[j].status = "absent" -> "reserve"
                     [] OTHER -> "reenter"
       IN  host' = [host EXCEPT ![h] = [at |-> step, job |-> j, fresh |-> phase[j] = "open"]]
    /\ UNCHANGED <<job, overdue, living, carriers>>

\* Slip: the slots are asked for by the call that reserved the job alone.
OnwardReading(j) == "read"

\* run_phase_job, of a job that is reserved already.
Onward(j) == IF job[j].status = "waiting" THEN "acquire" ELSE "read"

\* The job was listed (list_phase_jobs) before it is reserved.
Reenter(h) ==
    /\ At(h, "reenter")
    /\ Goto(h, Onward(host[h].job))
    /\ UNCHANGED <<phase, job, overdue, living, carriers>>

\* reserve_phase_job: only the call that claimed the phase creates the job, all
\* others get the one there is, or fail (phase_job_reservation_missing_for_claim).
\* A job reserved by another since it was listed is left to that one.
Reserve(h) ==
    LET j == host[h].job
        created == [status |-> IF SlotsFree(j) THEN "reserved" ELSE "waiting",
                    creator |-> h, carrier |-> NoController]
    IN  /\ At(h, "reserve")
        /\ IF job[j].status = "absent"
           THEN IF host[h].fresh /\ Authorized(j)
                THEN /\ job' = [job EXCEPT ![j] = created]
                     /\ Goto(h, IF SlotsFree(j) THEN "submit" ELSE "acquire")
                ELSE UNCHANGED job /\ Rest(h)
           ELSE /\ \/ Goto(h, Onward(j))
                   \/ job[j].status = "reserved" /\ Rest(h)
                /\ UNCHANGED job
        /\ UNCHANGED <<phase, overdue, living, carriers>>

\* acquire_phase_job_slots: whoever gets the slots becomes the creator, and only
\* the creator submits; whoever finds them acquired by another waits.
AcquireSlots(h) ==
    LET j == host[h].job
    IN  /\ At(h, "acquire")
        /\ IF job[j].status = "waiting"
           THEN IF Authorized(j) /\ SlotsFree(j)
                THEN /\ job' = [job EXCEPT ![j].status = "reserved", ![j].creator = h]
                     /\ Goto(h, "submit")
                ELSE UNCHANGED job /\ Rest(h)
           ELSE /\ IF job[j].status = "reserved" THEN Rest(h) ELSE Goto(h, "read")
                /\ UNCHANGED job
        /\ UNCHANGED <<phase, overdue, living, carriers>>

\* read_phase_job: a job that has lost its process, its carrier once there is
\* one, or has passed its deadline, has lost its outcome.
Reconciled(j) ==
    LET observed == IF job[j].carrier = NoController THEN job[j].creator \in living
                    ELSE carrier[j][job[j].carrier] \notin {"gone", "lost"}
    IN  IF job[j].status \in {"reserved", "running"} /\ (~observed \/ j \in overdue)
        THEN [job[j] EXCEPT !.status = "outcome_unknown"]
        ELSE job[j]

\* submit_phase: the carrier is started, and never a second time.
Submit(h) ==
    LET j == host[h].job
    IN  /\ At(h, "submit")
        /\ job' = [job EXCEPT ![j] = Reconciled(j)]
        /\ carrier' = IF job'[j].status = "reserved" /\ job[j].creator = h
                      THEN [carrier EXCEPT ![j][h] = "spawned"] ELSE carrier
        /\ Goto(h, "read")
        /\ UNCHANGED <<phase, overdue, living, effects>>

\* The end of run_phase_job: a result, or PhaseJobPending.
ReadJob(h) ==
    LET j == host[h].job
    IN  /\ At(h, "read")
        /\ job' = [job EXCEPT ![j] = Reconciled(j)]
        /\ IF job'[j].status \in {"result_ready", "settled"} THEN Goto(h, "accept") ELSE Rest(h)
        /\ UNCHANGED <<phase, overdue, living, carriers>>

\* settle_completion_phase refuses a phase that is settled already.
AcceptResult(h) ==
    LET j == host[h].job
    IN  /\ At(h, "accept")
        /\ IF phase[j] = "claimed"
           THEN phase' = [phase EXCEPT ![j] = "settled"] /\ Goto(h, "settle")
           ELSE UNCHANGED phase /\ Rest(h)
        /\ UNCHANGED <<job, overdue, living, carriers>>

\* settle_phase_job, the same settlement if another controller was first.
SettleJob(h) ==
    LET j == host[h].job
    IN  /\ At(h, "settle")
        /\ job' = [job EXCEPT ![j].status = IF phase[j] = "settled" /\ @ = "result_ready"
                                            THEN "settled" ELSE @]
        /\ Rest(h)
        /\ UNCHANGED <<phase, overdue, living, carriers>>

-----------------------------------------------------------------------------
\* A carrier.

Carries(j, h, state) == carrier[j][h] = state
Becomes(j, h, state) == carrier' = [carrier EXCEPT ![j][h] = state]

\* claim_phase_job: of a job that is reserved, by a child whose creator lives.
ClaimJob(j, h) ==
    /\ Carries(j, h, "spawned")
    /\ IF job[j].status = "reserved" /\ job[j].creator = h /\ h \in living /\ Authorized(j)
       THEN /\ job' = [job EXCEPT ![j].status = "running", ![j].carrier = h]
            /\ Becomes(j, h, "claimed")
       ELSE UNCHANGED job /\ Becomes(j, h, "gone")
    /\ UNCHANGED <<phase, overdue, host, living, effects>>

\* _phase_launch_guard, with validate_phase_job_launch, and the role command.
Launch(j, h) ==
    /\ Carries(j, h, "claimed")
    /\ IF job[j].status = "running" /\ job[j].carrier = h /\ Authorized(j)
       THEN /\ Becomes(j, h, "effect")
            /\ effects' = [effects EXCEPT ![j] = @ + 1]
       ELSE Becomes(j, h, "gone") /\ UNCHANGED effects
    /\ UNCHANGED <<phase, job, overdue, host, living>>

Recordable(j) == job[j].status \in {"running", "result_ready", "settled"}

\* record_phase_job_result, when the role command has ended.
RecordResult(j, h) ==
    /\ Carries(j, h, "effect")
    /\ job' = IF Recordable(j) /\ job[j].carrier = h
              THEN [job EXCEPT ![j].status = IF @ = "settled" THEN @ ELSE "result_ready"]
              ELSE job
    /\ Becomes(j, h, "gone")
    /\ UNCHANGED <<phase, overdue, host, living, effects>>

-----------------------------------------------------------------------------
\* Faults.

Faults == Cardinality(Controllers \ living) + Cardinality(overdue)
          + Cardinality({c \in Jobs \X Controllers : carrier[c[1]][c[2]] = "lost"})

Undisturbed ==
    /\ living = Controllers /\ overdue = {}
    /\ \A j \in Jobs, h \in Controllers : carrier[j][h] # "lost"

ControllerDies(h) ==
    /\ h \in living
    /\ Faults < MaxFaults
    /\ living' = living \ {h}
    /\ Rest(h)
    /\ UNCHANGED <<phase, job, overdue, carriers>>

LoseCarrier(j, h) ==
    /\ carrier[j][h] \in {"spawned", "claimed", "effect"}
    /\ Faults < MaxFaults
    /\ Becomes(j, h, "lost")
    /\ UNCHANGED <<phase, job, overdue, host, living, effects>>

\* The slice of a job starts with its slots.
JobDeadlinePasses(j) ==
    /\ job[j].status \in {"reserved", "running"}
    /\ j \notin overdue
    /\ Faults < MaxFaults
    /\ overdue' = overdue \cup {j}
    /\ UNCHANGED <<phase, job, host, living, carriers>>

Step(h) ==
    \/ Reserve(h) \/ Reenter(h) \/ AcquireSlots(h) \/ Submit(h) \/ ReadJob(h)
    \/ AcceptResult(h) \/ SettleJob(h)
Carry(j, h) == ClaimJob(j, h) \/ Launch(j, h) \/ RecordResult(j, h)

JobsNext ==
    \/ \E h \in Controllers : Step(h) \/ ControllerDies(h)
    \/ \E h \in Controllers, j \in Jobs : EnterPhase(h, j) \/ Carry(j, h) \/ LoseCarrier(j, h)
    \/ \E j \in Jobs : JobDeadlinePasses(j)

JobsSpec == JobsInit /\ [][JobsNext]_jobsVars

\* As long as nothing fails, a controller polls every unit again and again, a
\* call that has begun goes on, and a carrier runs by itself to the end of its
\* command.  Of a disturbed system nothing is assumed.
FairSpec ==
    /\ JobsSpec
    /\ \A h \in Controllers : WF_jobsVars(Undisturbed /\ Step(h))
    /\ \A h \in Controllers, u \in Units :
          SF_jobsVars(Undisturbed /\ \E i \in DOMAIN DurablePhases : EnterPhase(h, <<u, i>>))
    /\ \A h \in Controllers, j \in Jobs : WF_jobsVars(Undisturbed /\ Carry(j, h))

-----------------------------------------------------------------------------
\* What must hold.

Running == {j \in Jobs : \E h \in Controllers : carrier[j][h] = "effect"}

\* The role commands that really run fit the slots, one at a time for a unit,
\* and none is started twice, although a controller may be replaced, a deadline
\* may pass and the carrier be given up while it lives: a job keeps its slots
\* until it is settled (_phase_slots_conn, submit_phase).
EffectsNeverOverlap ==
    /\ \A s \in Slots : Cardinality({j \in Running : s \in NeedsOf(j)}) <= Limit[s]
    /\ \A u \in Units : Cardinality({j \in Running : j[1] = u}) <= 1
    /\ \A j \in Jobs : effects[j] <= 1

\* A phase is settled only by the result of its own job, whose command has been
\* run, and a job only with its phase: what a crash leaves between the two
\* settlements is finished from the result (_effect, _phase_settlement_conn).
SettledOnResult ==
    \A j \in Jobs :
        /\ phase[j] = "settled" => job[j].status \in {"result_ready", "settled"} /\ effects[j] = 1
        /\ job[j].status = "settled" => phase[j] = "settled"

\* A lost outcome stays lost, also when the carrier answers after all, so that
\* nobody acts on an answer others have ruled out (record_phase_job_result).
UnknownStands ==
    [][\A j \in Jobs : job[j].status = "outcome_unknown" => job'[j].status = "outcome_unknown"]_jobsVars

\* Without a death or a missed deadline every phase of every unit is settled,
\* however the controllers race for the slots and for each other's jobs
\* (run_phase_job, acquire_phase_job_slots).
UndisturbedSettles == []Undisturbed => <>(\A j \in Jobs : job[j].status = "settled")
=============================================================================
