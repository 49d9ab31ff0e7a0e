----------------------------- MODULE MCPhaseJobs -----------------------------
\* Two units that contend in both of their phases: for the heavy slot, then for
\* the model slot (two in the code, one for two units here) and the target.
EXTENDS PhaseJobs

MCPhases == <<"checks", "integration">>
MCSlots == {"heavy", "model", "integration"}
MCNeeds == [checks |-> {"heavy"}, integration |-> {"model", "integration"}]
MCLimit == [s \in MCSlots |-> 1]
=============================================================================
