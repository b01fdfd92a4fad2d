-------------------------- MODULE LedgerRefinement --------------------------
(***************************************************************************)
(* The governor's reservation interface implements a capacity ledger: the  *)
(* accounts are the budgets, the claims the reservations, and a            *)
(* reservation holds its watts on the whole chain of its budget from       *)
(* reserve to release.                                                     *)
(***************************************************************************)
EXTENDS Reservations

\* An expired reservation holds what it reserved; a planned one holds nothing.
HeldBy(r) ==
    LET res == reservations[r] IN
    IF res.reserved_power > 0 /\ res.state # "RELEASED"
    THEN [on |-> chain(res.budget), amount |-> res.reserved_power]
    ELSE [on |-> {}, amount |-> 0]

Ledger == INSTANCE CapacityLedger WITH
    Accounts <- BudgetIds, Claims <- ReservationIds, MaxAmount <- MaxPower,
    Limits <- UNION {HardMaxes[b] : b \in BudgetIds},
    open <- installed,
    limit <- [b \in BudgetIds |-> cfg[b].hard_max],
    held <- [r \in ReservationIds |-> HeldBy(r)]

\* Whatever calls are made in whatever order, the watts granted on any budget
\* go up only within its hard_max, as one whole along the chain, and come back
\* the same way; no expiry, re-issue, refused or repeated call moves any.
ImplementsLedger == Ledger!LedgerSpec
=============================================================================
