------------------------------ MODULE Thermal -------------------------------
(***************************************************************************)
(* The ThermalGovernor's classifier as a function of its state and one     *)
(* reading, and the power it permits at a temperature.                     *)
(*                                                                         *)
(* Temperatures are whole degrees.  The governor calls observe only with a *)
(* temperature, so the reset to UNKNOWN on a missing one is left out.      *)
(***************************************************************************)
EXTENDS Integers

CONSTANTS
    CoolMax, NormalMax, WarmMax, HotMax,   \* ThermalThresholds
    RecoveryMargin,                        \* recovery_margin
    ConfirmCount,                          \* constrained_confirm_count
    ReductionPercent,                      \* constrained_reduction, in percent
    NoReading                              \* std::nullopt of a reading

ASSUME ThermalAssumption ==
    /\ CoolMax \in Nat /\ NormalMax \in Nat /\ WarmMax \in Nat /\ HotMax \in Nat
    /\ CoolMax < NormalMax /\ NormalMax < WarmMax /\ WarmMax < HotMax
    /\ RecoveryMargin \in 0 .. HotMax
    /\ ConfirmCount \in Nat \ {0}
    /\ ReductionPercent \in 0 .. 100
    /\ NoReading \notin Nat

RawState == {"COOL", "NORMAL", "WARM", "HOT", "THERMALLY_CONSTRAINED"}
ThermalState == RawState \cup {"UNKNOWN", "RECOVERING"}

ThermalGovernorState ==
    [state: ThermalState, need_confirm: 0 .. ConfirmCount, last_temp: Nat \cup {NoReading}]

reset == [state |-> "UNKNOWN", need_confirm |-> 0, last_temp |-> NoReading]

classify_raw(t) ==
    IF t < CoolMax THEN "COOL"
    ELSE IF t < NormalMax THEN "NORMAL"
    ELSE IF t < WarmMax THEN "WARM"
    ELSE IF t < HotMax THEN "HOT"
    ELSE "THERMALLY_CONSTRAINED"

RecoverBelow == HotMax - RecoveryMargin

\* A mutant: the confirmation count is not reset when the constraint is declared.
ObserveHot_counts_on(th, t) ==
    LET confirmed == th.state = "THERMALLY_CONSTRAINED" \/ th.need_confirm + 1 >= ConfirmCount
    IN  [state |-> IF confirmed THEN "THERMALLY_CONSTRAINED" ELSE th.state,
         need_confirm |-> th.need_confirm + 1,
         last_temp |-> t]

\* A reading at or above hot_max: it constrains once it is confirmed, and
\* until then leaves the state as it was.
ObserveHot(th, t) ==
    LET confirmed == th.state = "THERMALLY_CONSTRAINED" \/ th.need_confirm + 1 >= ConfirmCount
    IN  [state |-> IF confirmed THEN "THERMALLY_CONSTRAINED" ELSE th.state,
         need_confirm |-> IF confirmed THEN 0 ELSE th.need_confirm + 1,
         last_temp |-> t]

\* A mutant: a reading below hot_max does not end a run of hot readings.
ObserveBelowHot_keeps_count(th, t) ==
    [state |-> CASE th.state = "THERMALLY_CONSTRAINED" ->
                        IF t < RecoverBelow THEN "RECOVERING" ELSE th.state
                 [] th.state = "RECOVERING" -> IF t <= WarmMax THEN "NORMAL" ELSE th.state
                 [] OTHER -> classify_raw(t),
     need_confirm |-> th.need_confirm,
     last_temp |-> t]

\* A mutant: a constrained device below the margin is released at once.
ObserveBelowHot_skips_recovery(th, t) ==
    [state |-> IF th.state = "THERMALLY_CONSTRAINED" /\ t >= RecoverBelow
               THEN th.state ELSE classify_raw(t),
     need_confirm |-> 0,
     last_temp |-> t]

\* Any other reading: a constrained device starts to recover below the margin,
\* a recovering one is back to normal at or below warm_max.
ObserveBelowHot(th, t) ==
    [state |-> CASE th.state = "THERMALLY_CONSTRAINED" ->
                        IF t < RecoverBelow THEN "RECOVERING" ELSE th.state
                 [] th.state = "RECOVERING" -> IF t <= WarmMax THEN "NORMAL" ELSE th.state
                 [] OTHER -> classify_raw(t),
     need_confirm |-> 0,
     last_temp |-> t]

observe(th, t) ==
    IF classify_raw(t) = "THERMALLY_CONSTRAINED" THEN ObserveHot(th, t) ELSE ObserveBelowHot(th, t)

\* A mutant: the headroom shrinks from zero at the lower threshold.
headroom_fraction_restarts(t) ==
    IF t <= NormalMax THEN 100 * (HotMax - NormalMax)
    ELSE IF t < HotMax THEN (HotMax - t) * (100 - ReductionPercent)
    ELSE ReductionPercent * (HotMax - NormalMax)

\* The headroom at temperature t in parts of 100 * (hot_max - normal_max): all
\* of it up to normal_max, then falling linearly to constrained_reduction.
headroom_fraction(t) ==
    IF t <= NormalMax THEN 100 * (HotMax - NormalMax)
    ELSE IF t < HotMax
         THEN 100 * (HotMax - NormalMax) - (t - NormalMax) * (100 - ReductionPercent)
    ELSE ReductionPercent * (HotMax - NormalMax)

permitted_power(cap, t) ==
    IF t = NoReading THEN NoReading
    ELSE (cap * headroom_fraction(t)) \div (100 * (HotMax - NormalMax))
=============================================================================
