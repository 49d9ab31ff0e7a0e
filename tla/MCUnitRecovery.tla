--------------------------- MODULE MCUnitRecovery ---------------------------
\* Instances of UnitRecovery for TLC.
EXTENDS UnitRecovery, TLC

\* An audit at the second failure with calls for two rounds, and an audit at
\* the first failure with one planner call for both requests.
MCLimits == {[planner |-> 2, verifier |-> 2, audit |-> 2],
             [planner |-> 1, verifier |-> 2, audit |-> 1]}

\* No choice depends on which process or which request it is.
Symmetry == Permutations(Hosts) \cup Permutations(Requests)
=============================================================================
