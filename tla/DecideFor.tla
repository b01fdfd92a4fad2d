----------------------------- MODULE DecideFor ------------------------------
(***************************************************************************)
(* Governor::decide_for: how a decision's input is put together from the   *)
(* device state of Telemetry, the caps of the policy and the answer of the *)
(* ledger, and what the rules of Decisions make of it.                     *)
(*                                                                         *)
(* A decision changes nothing but the hysteresis, and hysteresis replaces  *)
(* an ALLOW by a restriction and never the reverse (Decisions), so what    *)
(* holds of every ALLOW of the rules holds of every ALLOW returned.        *)
(*                                                                         *)
(* The governor always calls the policy current, never fills in the energy *)
(* used in the window and never enables the burst budget.  A governor      *)
(* without a device decides like one whose device was never observed.      *)
(***************************************************************************)
EXTENDS Telemetry, FiniteSetsExt

CONSTANTS
    PolicyCaps,     \* the hard caps the policy sets: fleet, node, device
    SoftTarget,     \* soft_target of the policy, or NoReading
    EnergyBudget,   \* energy_window.budget; 0 when the window is not enforced
    RequestPowers, RequestEnergies,
    BudgetAnswers   \* what available may answer; NoReading without a budget

ASSUME DecideAssumption ==
    /\ PolicyCaps \subseteq Nat /\ RequestPowers \subseteq Nat /\ RequestEnergies \subseteq Nat
    /\ SoftTarget \in Nat \cup {NoReading} /\ EnergyBudget \in Nat
    /\ BudgetAnswers \subseteq Nat \cup {NoReading}

Engine == INSTANCE Decisions WITH
    NoLimit <- NoReading, NoVerdict <- NoSample, Inputs <- {}, MinStable <- 0,
    last <- NoSample, decision <- NoSample, cause <- NoSample

DecisionRequest ==
    [power: RequestPowers, energy: RequestEnergies, budget_available: BudgetAnswers]

\* A mutant: the limit the hardware reports counts only where the policy has none.
hardware_ceiling_policy_first ==
    LET caps == IF PolicyCaps = {} THEN {hardware_cap} \ {NoReading} ELSE PolicyCaps
    IN  IF caps = {} THEN NoReading ELSE Min(caps)

\* The least of the caps that are given.
hardware_ceiling ==
    LET caps == PolicyCaps \cup ({hardware_cap} \ {NoReading})
    IN  IF caps = {} THEN NoReading ELSE Min(caps)

\* The temperature of the latest sample with power, else the last one observed.
ceiling_temperature ==
    IF latest # NoSample /\ latest.temperature # NoReading THEN latest.temperature
    ELSE thermal.last_temp

thermal_ceiling ==
    IF hardware_ceiling \notin {0, NoReading}
    THEN permitted_power(hardware_ceiling, ceiling_temperature)
    ELSE NoReading

decide_input(q, now) ==
    [power_freshness |-> freshness_of(now), policy_current |-> TRUE,
     thermal_state |-> thermal.state,
     hardware_cap |-> hardware_ceiling, budget_available |-> q.budget_available,
     thermal_ceiling |-> thermal_ceiling,
     requested_power |-> q.power, energy |-> q.energy, burst_available |-> FALSE]

decide_locked(q, now) == Engine!Rule(decide_input(q, now))

-----------------------------------------------------------------------------
\* Whatever order polls, observations and invalidations came in, a plain ALLOW
\* rests on a sample that really is recent and stays within every cap of the
\* policy, the budget, and the power the device's own reported limit permits at
\* the temperature reported with it; only a sample that came out of order may
\* have left the cap of another sample in force.
AllowIsGrounded ==
    \A q \in DecisionRequest, now \in CallTimes :
        decide_locked(q, now).verdict = "ALLOW" =>
            /\ latest # NoSample /\ clock - latest.taken < StaleAfter + CallLag
            /\ \A cap \in PolicyCaps \cup ({q.budget_available} \ {NoReading}) : q.power <= cap
            /\ last_observed = power_window /\ latest.power_limit # NoReading =>
                  /\ q.power <= latest.power_limit
                  /\ latest.temperature # NoReading =>
                        q.power <= permitted_power(latest.power_limit, latest.temperature)
=============================================================================
