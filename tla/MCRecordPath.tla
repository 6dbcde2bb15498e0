---------------------------- MODULE MCRecordPath ----------------------------
(* RecordPath for TLC: counters of six values, so that the half window, the *)
(* wrap and the low window of the restart rule are all a few steps away.    *)
EXTENDS RecordPath, TLC

\* Both recovery policies, each with the settings that its branches depend on.
PathConfigs ==
    {[policy |-> "FailStop", deliverOnError |-> TRUE, rateLimited |-> FALSE],
     [policy |-> "Reconnect", deliverOnError |-> FALSE, rateLimited |-> TRUE]}

FailStopConfigs == {c \in PathConfigs : c.policy = "FailStop"}

\* Calibrations are told apart only by equality when all or none overflow.
CalibrationSymmetry == Permutations(Calibrations)
=============================================================================
