----------------------------- MODULE MCThermal ------------------------------
(* Readings at and around every threshold of the default ThermalThresholds. *)
EXTENDS ThermalGovernor

MCTemperatures == {59, 75, 79, 80, 85}
=============================================================================
