---------------------------- MODULE MCCoordinator ---------------------------
(* Two processes of one worker and one budget: one of them can be active.  *)
EXTENDS Coordinator

CONSTANTS gpu, w1, b1, b2

MCBudgetIds == {gpu}
MCParentsOf == [b \in MCBudgetIds |-> {NoBudget}]
MCHardMaxes == [b \in MCBudgetIds |-> {2}]
MCWorkerOf == [c \in Connections |-> w1]
MCBootOf == [c \in Connections |-> <<b1, b2>>[c]]
=============================================================================
