--------------------------- MODULE PostMergeResume ---------------------------
(***************************************************************************)
(* The post-merge resume (post_merge_resume.py): a watch, armed before a   *)
(* pull request is merged, is polled by short scheduler ticks until the    *)
(* merge and a green CI are read back, and the successor node is           *)
(* dispatched by one durable transition.  Three JSON files, each under a   *)
(* file lock of its own: the watch (PendingPostMergeWatchStore), the       *)
(* poller's record (BoundedPostMergeResumePoller) and the controller's     *)
(* state (PostMergeResumeController).  The lock of the watch is held for   *)
(* one operation; the poller's through poll_once and the controller's      *)
(* through handle_event, the calls to the outside included.  A lock is     *)
(* waited for five seconds (locked_file), and is released by a death.      *)
(*                                                                         *)
(* One goal node, so one transition key.  A tick gives its ports; besides  *)
(* the ticks, a hook hands the controller the SCM's own event.             *)
(***************************************************************************)
EXTENDS Naturals, FiniteSets

CONSTANTS
    Ticks,      \* scheduler processes; each runs one tick after another
    Hook,       \* the process that delivers the SCM's event
    MaxPolls,   \* max_attempts of the watch
    MaxFaults   \* bound on deaths, claims that run out early, blocked admissions

ASSUME ProcsAssumption == Hook \notin Ticks
ASSUME BoundsAssumption == MaxPolls \in Nat \ {0} /\ MaxFaults \in Nat

Procs == Ticks \cup {Hook}
None == "none"
ASSUME NoneAssumption == None \notin Procs

VARIABLES
    watch,      \* post-merge-resume-pending-watch.json
    poller,     \* the poller's record
    transition, \* the transition of the controller and its successor_dispatch
    rejected,   \* the events the controller's deliveries say are rejected
    scm,        \* the repository that holds the pull request, its merge and CI
    granted,    \* generations acquire_generation has given out
    requests,   \* generations the calls of dispatch_successor have carried
    proc,       \* where each process stands, and what it holds in memory
    faults

vars == <<watch, poller, transition, rejected, scm, granted, requests, proc, faults>>

Aliases == {"armed", "repaired"}
Events == {"polled", "delivered"}

\* Steps under the lock of the poller, and under the lock of the controller.
Handling == {"leasing", "applying", "dispatching", "acking"}
Polling == {"merging", "checking", "handing", "recording"}
Steps == {"idle", "admitting", "entering", "finishing"} \cup Polling \cup Handling

Idle == [at |-> "idle", alias |-> "armed", ci |-> "pending", lease |-> 0, result |-> None,
         counted |-> FALSE]

TypeOK ==
    /\ watch \in [status: {"absent", "pending", "completed", "rejected", "expired"},
                  polls: 0..MaxPolls, due: BOOLEAN, claim: Ticks \cup {None}, live: BOOLEAN,
                  alias: Aliases, superseded: BOOLEAN]
    /\ poller \in [status: {"absent", "pending", "completed", "rejected"},
                   alias: Aliases, merged: BOOLEAN]
    /\ transition \in [status: {"absent", "pending", "dispatched"}, lease: Nat]
    /\ rejected \subseteq Events
    /\ scm \in [alias: Aliases, merge: {"open", "merged", "foreign"}, ci: {"pending", "green", "red"}]
    /\ granted \in Nat
    /\ requests \subseteq 1..granted
    /\ proc \in [Procs -> [at: Steps, alias: Aliases, ci: {"pending", "green", "red"},
                           lease: 0..granted,
                           result: {None, "resumed", "duplicate", "waiting", "rejected", "completed"},
                           counted: BOOLEAN]]
    /\ faults \in 0..MaxFaults

\* alias: the repository_id of a binding; the rest of a binding never changes.
Init ==
    /\ watch = [status |-> "absent", polls |-> 0, due |-> TRUE, claim |-> None, live |-> FALSE,
                alias |-> "armed", superseded |-> FALSE]
    /\ poller = [status |-> "absent", alias |-> "armed", merged |-> FALSE]
    /\ transition = [status |-> "absent", lease |-> 0]
    /\ rejected = {}
    /\ scm \in [alias: Aliases, merge: {"open"}, ci: {"pending"}]
    /\ granted = 0
    /\ requests = {}
    /\ proc = [p \in Procs |-> Idle]
    /\ faults = 0

At(p, step) == proc[p].at = step
Goto(p, step) == proc' = [proc EXCEPT ![p].at = step]
controller == <<transition, rejected>>
ports == <<scm, granted, requests>>

\* handle_event and poll_once come to an end with a result.  A hook is done; a
\* tick records, or finishes the watch, with what it was told.
Answer(p, result) ==
    IF p = Hook THEN proc' = [proc EXCEPT ![p] = Idle]
    ELSE proc' = [proc EXCEPT ![p].at = "recording", ![p].result = result]
Leave(p, result) == proc' = [proc EXCEPT ![p].at = "finishing", ![p].result = result,
                                         ![p].counted = TRUE]

\* The locks: the poller's belongs to the tick inside poll_once, the
\* controller's to whoever is inside handle_event.
PollerBusy(p) == \E q \in Ticks \ {p} : proc[q].at \in Polling \cup Handling
ControllerBusy == \E q \in Procs : proc[q].at \in Handling

-----------------------------------------------------------------------------
\* The watch.

\* arm: a repeated call changes nothing.
Arm ==
    /\ watch.status = "absent"
    /\ watch' = [watch EXCEPT !.status = "pending"]
    /\ UNCHANGED <<poller, controller, ports, proc, faults>>

\* settle_superseded: the claim of a tick that is under way is left alone.
Supersede ==
    /\ watch.status = "pending"
    /\ ~watch.superseded
    /\ watch' = [watch EXCEPT !.status = "rejected", !.superseded = TRUE]
    /\ UNCHANGED <<poller, controller, ports, proc, faults>>

\* repair_pending_binding: what it knows of the polls is the watch.
Repair ==
    /\ watch.status = "pending" /\ watch.polls = 0
    /\ watch.claim = None
    /\ watch.alias = "armed"
    /\ watch' = [watch EXCEPT !.alias = "repaired", !.due = TRUE]
    /\ UNCHANGED <<poller, controller, ports, proc, faults>>

\* Slip: a claim is only ever ended by its own tick.
ClaimableUnexpired == watch.status = "pending" /\ watch.due /\ watch.claim = None

Claimable == watch.status = "pending" /\ watch.due /\ (watch.claim = None \/ ~watch.live)

\* claim: a tick that finds nothing to claim returns; else it goes by the binding
\* it has read here.
Claim(p) ==
    /\ At(p, "idle")
    /\ Claimable
    /\ watch' = [watch EXCEPT !.claim = p, !.live = TRUE]
    /\ proc' = [proc EXCEPT ![p].at = "admitting", ![p].alias = watch.alias]
    /\ UNCHANGED <<poller, controller, ports, faults>>

\* _verify_admission in tick: held; refused for good; or not held at the moment.
Admit(p) ==
    /\ At(p, "admitting")
    /\ \/ Goto(p, "entering") /\ UNCHANGED faults
       \/ /\ proc' = [proc EXCEPT ![p].at = "finishing", ![p].result = "rejected"]
          /\ UNCHANGED faults
       \/ /\ faults < MaxFaults
          /\ faults' = faults + 1
          /\ proc' = [proc EXCEPT ![p].at = "finishing", ![p].result = "waiting"]
    /\ UNCHANGED <<watch, poller, controller, ports>>

\* Slip: the token is not compared.
HoldsAny(p) == TRUE

\* The token finish is called with is that of the poll_claim.
Holds(p) == watch.claim = p

\* finish: a tick that has lost its claim changes nothing; else its outcome is
\* stored, whatever has become of the watch meanwhile.
Finish(p) ==
    LET polls == IF proc[p].counted THEN watch.polls + 1 ELSE watch.polls
        status == IF proc[p].result \in {"completed", "rejected"} THEN proc[p].result
                  ELSE IF proc[p].counted /\ polls >= MaxPolls THEN "expired" ELSE "pending"
    IN /\ At(p, "finishing")
       /\ watch' = IF Holds(p)
                     THEN [watch EXCEPT !.status = status, !.polls = polls, !.claim = None,
                                        !.live = FALSE, !.due = status # "pending"]
                     ELSE watch
       /\ proc' = [proc EXCEPT ![p] = Idle]
       /\ UNCHANGED <<poller, controller, ports, faults>>

-----------------------------------------------------------------------------
\* The poller.

\* expected_binding is that of the claim, whatever has become of the watch since.
ForeignRecord(p) == poller.status # "absent" /\ poller.alias # proc[p].alias

\* poll_once up to the first readback.  A record of another binding raises
\* (_read_state); a settled one answers as it is; one that has seen the merge
\* looks for the controller's transition first (_stored_resume).
EnterPoll(p) ==
    /\ At(p, "entering")
    /\ ~PollerBusy(p)
    /\ \/ /\ ForeignRecord(p)
          /\ Leave(p, "waiting") /\ UNCHANGED poller
       \/ /\ ~ForeignRecord(p) /\ poller.status \in {"completed", "rejected"}
          /\ Leave(p, poller.status) /\ UNCHANGED poller
       \/ /\ ~ForeignRecord(p) /\ poller.status = "pending" /\ poller.merged
          /\ ~ControllerBusy
          /\ IF transition.status = "dispatched"
               THEN poller' = [poller EXCEPT !.status = "completed"] /\ Leave(p, "completed")
               ELSE /\ Goto(p, IF transition.status = "pending" THEN "handing" ELSE "checking")
                    /\ UNCHANGED poller
       \/ /\ ~ForeignRecord(p) /\ poller.status \in {"absent", "pending"} /\ ~poller.merged
          /\ poller' = [poller EXCEPT !.status = "pending", !.alias = proc[p].alias]
          /\ Goto(p, "merging")
    /\ UNCHANGED <<watch, controller, ports, faults>>

\* The merge reader, _read_polled_merge and the save of the merge; the reader
\* may fail, which is like a merge that is still open.
ReadMerge(p) ==
    /\ At(p, "merging")
    /\ \/ Leave(p, "waiting") /\ UNCHANGED poller
       \/ /\ scm.merge = "merged" /\ scm.alias = poller.alias
          /\ poller' = [poller EXCEPT !.merged = TRUE]
          /\ Goto(p, "checking")
       \/ /\ scm.merge = "foreign" \/ scm.alias # poller.alias
          /\ poller' = [poller EXCEPT !.status = "rejected"]
          /\ Leave(p, "rejected")
    /\ UNCHANGED <<watch, controller, ports, faults>>

\* The CI reader: nothing to read yet, or a conclusion of the controller's to judge.
ReadCI(p) ==
    /\ At(p, "checking")
    /\ \/ Leave(p, "waiting")
       \/ proc' = [proc EXCEPT ![p].at = "handing", ![p].ci = scm.ci]
    /\ UNCHANGED <<watch, poller, controller, ports, faults>>

\* Slip: a transition that exists is a successor that was dispatched.
RecordedEagerly(result) ==
    CASE transition.status # "absent" -> "completed"
      [] transition.status = "absent" /\ result = "rejected" -> "rejected"
      [] OTHER -> "pending"

\* _record_controller_result: the transition is read again; it goes before the result.
Recorded(result) ==
    CASE transition.status = "dispatched" -> "completed"
      [] transition.status # "dispatched" /\ result = "rejected" -> "rejected"
      [] OTHER -> "pending"

Record(p) ==
    LET status == Recorded(proc[p].result)
    IN /\ At(p, "recording")
       /\ ~ControllerBusy
       /\ poller' = [poller EXCEPT !.status = status]
       /\ Leave(p, IF status = "pending" THEN "waiting" ELSE status)
       /\ UNCHANGED <<watch, controller, ports, faults>>

\* A lock that is not had in time raises out of poll_once: the tick waits.
LockBusy(p) ==
    /\ \/ At(p, "entering") /\ PollerBusy(p)
       \/ ControllerBusy /\ (At(p, "handing") \/ At(p, "recording"))
       \/ At(p, "entering") /\ poller.merged /\ ControllerBusy
    /\ Leave(p, "waiting")
    /\ UNCHANGED <<watch, poller, controller, ports, faults>>

-----------------------------------------------------------------------------
\* The controller.

\* Slip: a transition counts as applied once its dispatch is acknowledged.
AppliedOnceDispatched == transition.status = "dispatched"

Applied == transition.status # "absent"

EventOf(p) == IF p = Hook THEN "delivered" ELSE "polled"

\* A tick hands over the readbacks it has stored; a hook's are made in handle_event.
MergeSeen(p) == p # Hook \/ scm.merge = "merged"
CISeen(p) == IF p = Hook THEN scm.ci ELSE proc[p].ci

Reject(p) ==
    /\ rejected' = rejected \cup {EventOf(p)}
    /\ Answer(p, "rejected")
    /\ UNCHANGED transition

\* handle_event up to the acquisition: an applied transition goes before all
\* else, a rejected event stays rejected, and whatever a readback cannot prove is
\* rejected, a CI that is not finished excepted.
HandleEvent(p) ==
    /\ At(p, IF p = Hook THEN "idle" ELSE "handing")
    /\ ~ControllerBusy
    /\ \/ /\ Applied
          /\ IF transition.status = "pending"
               THEN proc' = [proc EXCEPT ![p].at = "dispatching", ![p].lease = transition.lease]
               ELSE Answer(p, "duplicate")
          /\ UNCHANGED controller
       \/ /\ ~Applied
          /\ EventOf(p) \in rejected \/ ~MergeSeen(p) \/ CISeen(p) = "red"
          /\ Reject(p)
       \/ /\ ~Applied
          /\ EventOf(p) \notin rejected /\ MergeSeen(p) /\ CISeen(p) # "red"
          /\ IF CISeen(p) = "pending" THEN Answer(p, "waiting") ELSE Goto(p, "leasing")
          /\ UNCHANGED controller
    /\ UNCHANGED <<watch, poller, ports, faults>>

\* acquire_generation: a generation newer than all before, or a refusal.
Acquire(p) ==
    /\ At(p, "leasing")
    /\ \/ /\ granted' = granted + 1
          /\ proc' = [proc EXCEPT ![p].at = "applying", ![p].lease = granted + 1]
          /\ UNCHANGED controller
       \/ Reject(p) /\ UNCHANGED granted
    /\ UNCHANGED <<watch, poller, scm, requests, faults>>

\* The projection, and the write of the transition with its pending dispatch.
Apply(p) ==
    /\ At(p, "applying")
    /\ \/ /\ transition' = [status |-> "pending", lease |-> proc[p].lease]
          /\ Goto(p, "dispatching")
          /\ UNCHANGED rejected
       \/ Reject(p)
    /\ UNCHANGED <<watch, poller, ports, faults>>

\* dispatch_successor is called with the request the transition holds.
Dispatch(p) ==
    /\ At(p, "dispatching")
    /\ requests' = requests \cup {proc[p].lease}
    /\ Goto(p, "acking")
    /\ UNCHANGED <<watch, poller, controller, scm, granted, faults>>

\* Its receipt is written; an error leaves the dispatch pending.
Acknowledge(p) ==
    /\ At(p, "acking")
    /\ \/ transition' = [transition EXCEPT !.status = "dispatched"] /\ Answer(p, "resumed")
       \/ Answer(p, "waiting") /\ UNCHANGED transition
    /\ UNCHANGED <<watch, poller, rejected, ports, faults>>

-----------------------------------------------------------------------------
\* The outside.

MergeHappens ==
    /\ scm.merge = "open"
    /\ \E merge \in {"merged", "foreign"} : scm' = [scm EXCEPT !.merge = merge]
    /\ UNCHANGED <<watch, poller, controller, granted, requests, proc, faults>>

CIConcludes ==
    /\ scm.merge = "merged" /\ scm.ci = "pending"
    /\ \E ci \in {"green", "red"} : scm' = [scm EXCEPT !.ci = ci]
    /\ UNCHANGED <<watch, poller, controller, granted, requests, proc, faults>>

\* next_poll_at of the watch comes.
BackoffElapses ==
    /\ watch.status = "pending" /\ ~watch.due
    /\ watch' = [watch EXCEPT !.due = TRUE]
    /\ UNCHANGED <<poller, controller, ports, proc, faults>>

\* expires_at of the claim comes: of a tick that died, or of a slow one.
ClaimExpires ==
    /\ watch.live
    /\ IF At(watch.claim, "idle") THEN UNCHANGED faults
       ELSE faults < MaxFaults /\ faults' = faults + 1
    /\ watch' = [watch EXCEPT !.live = FALSE]
    /\ UNCHANGED <<poller, controller, ports, proc>>

\* A process dies; its locks are free, what it has written stays.
Crash(p) ==
    /\ ~At(p, "idle")
    /\ faults < MaxFaults
    /\ faults' = faults + 1
    /\ proc' = [proc EXCEPT ![p] = Idle]
    /\ UNCHANGED <<watch, poller, controller, ports>>

Handle(p) == HandleEvent(p) \/ Acquire(p) \/ Apply(p) \/ Dispatch(p) \/ Acknowledge(p)

Poll(p) == EnterPoll(p) \/ ReadMerge(p) \/ ReadCI(p) \/ Handle(p) \/ Record(p) \/ LockBusy(p)

Tick(p) == Claim(p) \/ Admit(p) \/ Poll(p) \/ Finish(p)

Next ==
    \/ Arm \/ Supersede \/ Repair
    \/ \E p \in Ticks : Tick(p)
    \/ Handle(Hook)
    \/ MergeHappens \/ CIConcludes \/ BackoffElapses \/ ClaimExpires
    \/ \E p \in Procs : Crash(p)

Spec == Init /\ [][Next]_vars

\* The scheduler runs ticks again and again, calls to the outside return, and
\* time passes.  Nothing is assumed of the SCM, of the hook or of the operators.
Fairness ==
    /\ \A p \in Ticks : WF_vars(Tick(p))
    /\ WF_vars(Acquire(Hook) \/ Apply(Hook) \/ Dispatch(Hook) \/ Acknowledge(Hook))
    /\ WF_vars(BackoffElapses)
    /\ WF_vars(ClaimExpires)

FairSpec == Spec /\ Fairness

-----------------------------------------------------------------------------

\* The successor is asked for by one request only: every call of
\* dispatch_successor, by ticks, by the hook and again after a crash, carries the
\* generation of the transition on disk, and none is made before the pull
\* request is merged with a green CI (handle_event, _pending_dispatch).
DispatchedAlike ==
    /\ requests \subseteq {transition.lease}
    /\ requests # {} => scm.merge = "merged" /\ scm.ci = "green"

\* What the poller or the watch calls completed has been dispatched and
\* acknowledged, whichever process did it (_record_controller_result, finish).
CompletedIsDispatched ==
    "completed" \in {watch.status, poller.status} => transition.status = "dispatched"

\* A watch that a tick has settled is settled for good: a slow tick whose claim
\* was taken over cannot reopen it or replace its outcome (claim, finish).
SettledByOneTick ==
    [][watch.status \in {"completed", "rejected", "expired"} /\ ~watch.superseded
         => watch'.status = watch.status]_vars

\* A pending watch ends, by a result or by its last poll, whatever ticks died,
\* lost their claim or did not get a lock (claim, finish, locked_file).
WatchEnds == watch.status = "pending" ~> watch.status # "pending"

\* settle_superseded: "Atomically retire one pending watch superseded by a newer
\* Goal map".  A retired watch is not pending again.
SupersededStaysRetired == watch.superseded => watch.status # "pending"

\* repair_pending_binding "refuses once any merge/CI readback or transition work
\* has happened": a binding is replaced only while no poll has read the merge.
RepairedBeforeReadback ==
    [][watch'.alias # watch.alias => ~poller.merged]_vars
=============================================================================
