---------------------------- MODULE MCTelemetry -----------------------------
(* One poller against direct observations, and the decisions taken on what *)
(* they leave.                                                             *)
EXTENDS DecideFor

MCPollers == {"poller"}
MCTemperatures == {50, 90}
MCLimits == {500}
MCPolicyCaps == {600}
MCRequestPowers == {320, 480}
MCBudgetAnswers == {400, NoReading}

\* Without the auxiliary heated, which no action and no property of this run reads.
MCView == <<latest, last_observed, power_window, hardware_cap, thermal, polls, clock>>
=============================================================================
