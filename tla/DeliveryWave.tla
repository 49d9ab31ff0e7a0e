---------------------------- MODULE DeliveryWave ----------------------------
(***************************************************************************)
(* What the task area promises for the units of one parent goal, with no   *)
(* executor, no phases, no ticks and no crash: a unit enters one of        *)
(* MaxWorkers slots only when what it depends on is delivered and nothing  *)
(* in a slot touches the same paths, keeps its slot until it is delivered  *)
(* or stopped, and is delivered only after the units its delivery waits    *)
(* for.  TaskArea implements it.                                           *)
(***************************************************************************)
EXTENDS Naturals, FiniteSets

CONSTANTS Units, DependsOn, DeliveryAfter, Overlaps, MaxWorkers

VARIABLE stage      \* the stage of each unit

Stages == {"waiting", "active", "delivered", "stopped"}

Active == {u \in Units : stage[u] = "active"}

Init == stage = [u \in Units |-> "waiting"]

Admit(u) ==
    /\ stage[u] = "waiting"
    /\ \A d \in DependsOn[u] : stage[d] = "delivered"
    /\ Cardinality(Active) < MaxWorkers
    /\ \A v \in Active : <<u, v>> \notin Overlaps
    /\ stage' = [stage EXCEPT ![u] = "active"]

Deliver(u) ==
    /\ stage[u] = "active"
    /\ \A d \in DeliveryAfter[u] : stage[d] = "delivered"
    /\ stage' = [stage EXCEPT ![u] = "delivered"]

Stop(u) ==
    /\ stage[u] = "active"
    /\ stage' = [stage EXCEPT ![u] = "stopped"]

Next == \E u \in Units : Admit(u) \/ Deliver(u) \/ Stop(u)

Spec == Init /\ [][Next]_stage
=============================================================================
