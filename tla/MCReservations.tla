--------------------------- MODULE MCReservations ---------------------------
(* Small instances of Reservations: a node budget over two device budgets. *)
EXTENDS LedgerRefinement, TLC

CONSTANTS node, gpu0, gpu1

MCBudgetIds == {node, gpu0, gpu1}
MCParentsOf == [b \in MCBudgetIds |-> IF b = node THEN {NoBudget} ELSE {node}]

\* Only the node's limit changes: it may be re-issued below what is booked.
MCHardMaxes == [b \in MCBudgetIds |-> IF b = node THEN {2, 4} ELSE {3}]

\* Without the policy generation, which only install_policy itself reads.
MCView == <<budgetVars, reservations, index, clock>>

MCSymmetry == Permutations(ReservationIds) \cup Permutations({gpu0, gpu1})
=============================================================================
