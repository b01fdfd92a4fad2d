-------------------------- MODULE ThermalGovernor ---------------------------
(***************************************************************************)
(* The thermal classifier fed with every sequence of readings, compared    *)
(* with a definition of its states by the readings alone.                  *)
(***************************************************************************)
EXTENDS Thermal, Sequences

CONSTANTS
    Temperatures,   \* the readings fed
    NominalCap,     \* the hardware cap permitted_power scales
    MaxReadings     \* bound on the readings between two resets

ASSUME ReadingAssumption ==
    /\ Temperatures \subseteq Nat
    /\ NominalCap \in Nat
    /\ MaxReadings \in Nat

VARIABLES
    thermal,    \* the ThermalGovernor of the device
    readings    \* auxiliary: what it was fed since it was reset

vars == <<thermal, readings>>

\* The classifier and its history keep their types; the confirmation count of
\* observe stays below constrained_confirm_count.
TypeOK ==
    /\ thermal \in ThermalGovernorState
    /\ thermal.need_confirm < ConfirmCount
    /\ readings \in Seq(Temperatures)

Init == thermal = reset /\ readings = << >>

Observe(t) ==
    /\ Len(readings) < MaxReadings
    /\ thermal' = observe(thermal, t)
    /\ readings' = Append(readings, t)

\* invalidate_live_telemetry fences the thermal state.
Reset == thermal' = reset /\ readings' = << >>

Next == (\E t \in Temperatures : Observe(t)) \/ Reset

Spec == Init /\ [][Next]_vars

-----------------------------------------------------------------------------
\* Readings i - ConfirmCount + 1 .. i are all hot.
ConfirmedAt(i) ==
    i >= ConfirmCount /\ \A j \in i - ConfirmCount + 1 .. i : readings[j] >= HotMax

\* After reading n the device is constrained: a confirmed run of hot readings
\* with none since that is below the recovery margin.
ConstrainedAfter(n) ==
    \E i \in 1 .. n : ConfirmedAt(i) /\ \A j \in i + 1 .. n : readings[j] >= RecoverBelow

\* A constraint ended at some reading, and none since is back at warm_max.
RecoveringAfter(n) ==
    /\ ~ ConstrainedAfter(n)
    /\ \E i \in 1 .. n :
          /\ ConstrainedAfter(i - 1)
          /\ readings[i] < RecoverBelow
          /\ \A j \in i + 1 .. n : readings[j] > WarmMax

\* The classifier of thermal.hpp says THERMALLY_CONSTRAINED exactly after
\* constrained_confirm_count consecutive hot readings that no reading below
\* the recovery margin followed: noise around hot_max neither constrains a
\* device nor frees one.
ConstrainedIffConfirmed ==
    thermal.state = "THERMALLY_CONSTRAINED" <=> ConstrainedAfter(Len(readings))

\* It says RECOVERING exactly between the end of a constraint and the first
\* later reading at or below warm_max: the first cool reading never frees the
\* device at once, and a single hot one does not cut the recovery short.
RecoveringIffCooling ==
    thermal.state = "RECOVERING" <=> RecoveringAfter(Len(readings))

\* A hotter reading never permits more power than the one before it, nor less
\* than the reduced cap in whole watts, across the kinks of headroom_fraction.
HotterPermitsLess ==
    \A i, j \in 1 .. Len(readings) :
        readings[i] <= readings[j] =>
            /\ permitted_power(NominalCap, readings[j]) <= permitted_power(NominalCap, readings[i])
            /\ permitted_power(NominalCap, readings[j]) >= (ReductionPercent * NominalCap) \div 100
=============================================================================
