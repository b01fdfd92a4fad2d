---------------------------- MODULE MCDecisions -----------------------------
(* A small instance of Decisions.                                          *)
EXTENDS Decisions

\* Hardware cap, budget and thermal ceiling: none, ample, binding between the
\* soft target and the larger request, binding below it, exhausted.
MCCaps ==
    {<<NoLimit, NoLimit, NoLimit>>, <<6, 6, NoLimit>>, <<6, 3, 6>>, <<6, 6, 1>>, <<6, 0, 6>>}

MCInput(fresh, current, thermal, caps, power, energy, burst) ==
    [power_freshness |-> fresh, policy_current |-> current, thermal_state |-> thermal,
     hardware_cap |-> caps[1], budget_available |-> caps[2], thermal_ceiling |-> caps[3],
     requested_power |-> power, energy |-> energy, burst_available |-> burst]

MCInputs ==
    {MCInput("CURRENT", TRUE, th, caps, p, 1, FALSE) :
        th \in {"HOT", "THERMALLY_CONSTRAINED", "RECOVERING"}, caps \in MCCaps, p \in {1, 4}}
    \cup {MCInput("AGING", TRUE, "UNKNOWN", caps, p, 1, TRUE) : caps \in MCCaps, p \in {3, 4}}
    \cup {MCInput("CURRENT", TRUE, "NORMAL", <<6, 6, 6>>, 1, 2, FALSE),
          MCInput("STALE", TRUE, "NORMAL", <<6, 6, 6>>, 1, 1, FALSE),
          MCInput("AGING", FALSE, "NORMAL", <<6, 6, 6>>, 1, 1, FALSE)}
=============================================================================
