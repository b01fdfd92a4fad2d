--------------------------- MODULE MCPersistence ----------------------------
(* A node budget over one device budget, saved, lost and loaded again.     *)
EXTENDS Persistence

CONSTANTS node, gpu

MCBudgetIds == {node, gpu}
MCParentsOf == [b \in MCBudgetIds |-> IF b = node THEN {NoBudget} ELSE {node}]
MCHardMaxes == [b \in MCBudgetIds |-> IF b = node THEN {1, 6} ELSE {6}]
=============================================================================
