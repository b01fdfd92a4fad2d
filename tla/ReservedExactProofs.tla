------------------------- MODULE ReservedExactProofs ------------------------
(***************************************************************************)
(* The reserved counters are exact: LedgerInv is an inductive invariant of *)
(* Reservations when budgets keep their parents.  The sum of the watts of  *)
(* a set of reservations is the cardinality of the set of their single     *)
(* watts, so that it can be reasoned about without recursion.              *)
(***************************************************************************)
EXTENDS ReservationsProofs, LedgerRefinement

-----------------------------------------------------------------------------
(* Sums of watts as cardinalities.                                         *)

\* The watts of the reservations H when reservation r has f[r] of them.
WattsOf(H, f) == {p \in H \X (1 .. MaxPower) : p[2] <= f[p[1]]}

\* One reservation with n watts contributes n.
LEMMA RowCardinality ==
    ASSUME NEW r, NEW n \in Nat
    PROVE  /\ IsFiniteSet({r} \X (1 .. n))
           /\ Cardinality({r} \X (1 .. n)) = n
<1>1. IsFiniteSet({r}) /\ Cardinality({r}) = 1
  BY FS_Singleton
<1>2. IsFiniteSet(1 .. n) /\ Cardinality(1 .. n) = n
  BY FS_Interval
<1>3. /\ IsFiniteSet({r} \X (1 .. n))
      /\ Cardinality({r} \X (1 .. n)) = Cardinality({r}) * Cardinality(1 .. n)
  BY <1>1, <1>2, FS_Product
<1> QED
  BY <1>1, <1>2, <1>3

\* Finitely many reservations hold finitely many watts.
LEMMA WattsFinite ==
    ASSUME NEW H, IsFiniteSet(H), NEW f
    PROVE  IsFiniteSet(WattsOf(H, f)) /\ Cardinality(WattsOf(H, f)) \in Nat
<1>1. IsFiniteSet(1 .. MaxPower)
  BY FS_Interval, ReservationAssumption
<1>2. IsFiniteSet(H \X (1 .. MaxPower))
  BY <1>1, FS_Product
<1>3. WattsOf(H, f) \in SUBSET (H \X (1 .. MaxPower))
  BY DEF WattsOf
<1> QED
  BY <1>2, <1>3, FS_Subset, FS_CardinalityType

\* One more holder adds its watts to the sum.
LEMMA WattsAdd ==
    ASSUME NEW H, IsFiniteSet(H), NEW r, r \notin H, NEW f, NEW g,
           \A h \in H : f[h] = g[h], g[r] \in 0 .. MaxPower
    PROVE  Cardinality(WattsOf(H \cup {r}, g)) = Cardinality(WattsOf(H, f)) + g[r]
<1> DEFINE Row == {r} \X (1 .. g[r])
<1>1. WattsOf(H \cup {r}, g) = WattsOf(H, f) \cup Row
  <2>1. ASSUME NEW p \in WattsOf(H \cup {r}, g) PROVE p \in WattsOf(H, f) \cup Row
    <3>1. PICK h \in H \cup {r}, w \in 1 .. MaxPower : p = <<h, w>> /\ w <= g[h]
      BY DEF WattsOf
    <3>2. CASE h \in H
      BY <3>1, <3>2 DEF WattsOf
    <3>3. CASE h = r
      BY <3>1, <3>3
    <3> QED BY <3>2, <3>3
  <2>2. ASSUME NEW p \in Row PROVE p \in WattsOf(H \cup {r}, g)
    <3>1. PICK w \in 1 .. g[r] : p = <<r, w>>
      OBVIOUS
    <3>2. w \in 1 .. MaxPower
      BY ReservationAssumption
    <3> QED BY <3>1, <3>2 DEF WattsOf
  <2>3. ASSUME NEW p \in WattsOf(H, f) PROVE p \in WattsOf(H \cup {r}, g)
    BY DEF WattsOf
  <2> HIDE DEF Row
  <2> QED BY <2>1, <2>2, <2>3
<1>2. WattsOf(H, f) \cap Row = {}
  BY DEF WattsOf
<1>3. IsFiniteSet(Row) /\ Cardinality(Row) = g[r]
  <2>1. g[r] \in Nat
    BY ReservationAssumption
  <2> QED BY <2>1, RowCardinality
<1>4. IsFiniteSet(WattsOf(H, f)) /\ Cardinality(WattsOf(H, f)) \in Nat
  BY WattsFinite
<1>5. Cardinality(WattsOf(H, f) \cup Row) =
        Cardinality(WattsOf(H, f)) + Cardinality(Row) - Cardinality(WattsOf(H, f) \cap Row)
  <2> HIDE DEF Row
  <2> QED BY <1>3, <1>4, FS_Union
<1>6. Cardinality({}) = 0
  BY FS_EmptySet
<1>7. g[r] \in Nat
  BY ReservationAssumption
<1>8. Cardinality(WattsOf(H, f) \cap Row) = 0
  BY <1>2, <1>6
<1>9. Cardinality(WattsOf(H \cup {r}, g)) = Cardinality(WattsOf(H, f) \cup Row)
  BY <1>1
<1> HIDE DEF Row
<1> QED
  BY <1>3, <1>4, <1>5, <1>7, <1>8, <1>9

-----------------------------------------------------------------------------
(* Ancestor chains.                                                        *)

\* The chain of a budget has the budget itself.
LEMMA ChainStart == ASSUME NEW b \in BudgetIds PROVE b \in chain(b)
BY DEF chain

\* The chain goes on to the parent of every budget it has reached.
LEMMA ChainFollowsParents == ASSUME NEW b PROVE ParentClosed(chain(b))
BY DEF chain, ParentClosed

\* The chain has nothing that the parent links do not reach from its budget.
LEMMA ChainLeast ==
    ASSUME NEW b, NEW S \in SUBSET BudgetIds, b \in S, ParentClosed(S)
    PROVE  chain(b) \subseteq S
BY DEF chain

\* A step that leaves the definitions alone leaves the chains alone.
LEMMA ChainUnchanged ==
    ASSUME UNCHANGED <<installed, cfg>>
    PROVE  \A b : chain(b)' = chain(b)
BY DEF chain, ParentClosed, Parent

\* A chain that is installed as a whole survives every step that keeps the
\* installed budgets and their parents.
LEMMA ChainStable ==
    ASSUME NEW b \in BudgetIds, chain(b) \subseteq installed,
           installed \subseteq installed',
           \A x \in installed : cfg'[x].parent = cfg[x].parent
    PROVE  chain(b)' = chain(b)
<1>1. \A y \in chain(b) : Parent(y)' = Parent(y)
  BY DEF Parent
<1>2. ParentClosed(chain(b))
  BY ChainFollowsParents
<1>3. b \in chain(b) /\ chain(b) \in SUBSET BudgetIds
  BY ChainStart DEF chain
<1>4. \A y \in chain(b) : Parent(y)' \in BudgetIds => Parent(y)' \in chain(b)
  BY <1>1, <1>2 DEF ParentClosed
<1>5. chain(b)' \subseteq chain(b)
  <2> DEFINE C == chain(b)
  <2>1. \A y \in C : Parent(y)' \in BudgetIds => Parent(y)' \in C
    BY <1>4
  <2>2. b \in C /\ C \in SUBSET BudgetIds
    BY <1>3
  <2> HIDE DEF C
  <2>3. chain(b)' \subseteq C
    BY <2>1, <2>2 DEF chain, ParentClosed
  <2> QED BY <2>3 DEF C
<1>6. chain(b) \subseteq chain(b)'
  <2> SUFFICES ASSUME NEW S \in SUBSET BudgetIds, b \in S, ParentClosed(S)'
               PROVE  chain(b) \subseteq S
    BY DEF chain
  <2>1. ParentClosed(S \cap chain(b))
    BY <1>1, <1>2 DEF ParentClosed
  <2>2. chain(b) \subseteq S \cap chain(b)
    BY <1>3, <2>1, ChainLeast
  <2> QED BY <2>2
<1> QED BY <1>5, <1>6

-----------------------------------------------------------------------------
(* Holders and their watts.                                                *)

\* The watts each reservation holds, as one function.
Held == [r \in ReservationIds |-> reservations[r].reserved_power]

\* The watts charged to a budget are the watts of its holders.
LEMMA HeldWattsAreWatts ==
    ASSUME NEW b
    PROVE  HeldWatts(b) = WattsOf(Holders(b), Held)
<1>1. \A p \in Holders(b) \X (1 .. MaxPower) : Held[p[1]] = reservations[p[1]].reserved_power
  BY DEF Held, Holders
<1> QED BY <1>1 DEF HeldWatts, WattsOf

\* A budget has finitely many holders, as there are finitely many ids.
LEMMA HoldersFinite == ASSUME NEW b PROVE IsFiniteSet(Holders(b))
<1>1. Holders(b) \in SUBSET ReservationIds
  BY DEF Holders
<1> QED BY <1>1, FS_Subset, ReservationAssumption

\* Where nobody holds anything nothing is held.
LEMMA NoHoldersNoWatts ==
    ASSUME NEW b, Holders(b) = {} PROVE Cardinality(HeldWatts(b)) = 0
<1>1. HeldWatts(b) = {}
  BY DEF HeldWatts
<1> QED BY <1>1, FS_EmptySet

\* The same holders with the same watts hold the same.
LEMMA SameWatts ==
    ASSUME NEW b, Holders(b)' = Holders(b),
           \A h \in Holders(b) : reservations'[h].reserved_power = reservations[h].reserved_power
    PROVE  HeldWatts(b)' = HeldWatts(b)
BY DEF HeldWatts

\* One more holder holds its watts on top, one holder less takes them away.
LEMMA MoreWatts ==
    ASSUME NEW b, NEW r \in ReservationIds, r \notin Holders(b),
           Holders(b)' = Holders(b) \cup {r},
           \A h \in Holders(b) : reservations'[h].reserved_power = reservations[h].reserved_power,
           reservations'[r].reserved_power \in 0 .. MaxPower
    PROVE  Cardinality(HeldWatts(b)') = Cardinality(HeldWatts(b)) + reservations'[r].reserved_power
<1>1. HeldWatts(b)' = WattsOf(Holders(b) \cup {r}, Held')
  <2>1. \A p \in Holders(b)' \X (1 .. MaxPower) :
            Held'[p[1]] = reservations'[p[1]].reserved_power
    BY DEF Held, Holders
  <2> QED BY <2>1 DEF HeldWatts, WattsOf
<1>2. \A h \in Holders(b) : Held[h] = Held'[h]
  BY DEF Held, Holders
<1>3. Held'[r] = reservations'[r].reserved_power
  BY DEF Held
<1>4. IsFiniteSet(Holders(b))
  BY HoldersFinite
<1>5. Cardinality(WattsOf(Holders(b) \cup {r}, Held')) =
        Cardinality(WattsOf(Holders(b), Held)) + Held'[r]
  <2> SUFFICES ASSUME NEW H, H = Holders(b), NEW f, f = Held, NEW g, g = Held'
               PROVE  Cardinality(WattsOf(H \cup {r}, g)) = Cardinality(WattsOf(H, f)) + g[r]
    OBVIOUS
  <2>1. IsFiniteSet(H) /\ r \notin H /\ (\A h \in H : f[h] = g[h]) /\ g[r] \in 0 .. MaxPower
    BY <1>2, <1>3, <1>4
  <2> QED BY <2>1, WattsAdd, SMTT(60)
<1> QED BY <1>1, <1>3, <1>5, HeldWattsAreWatts

\* Releasing a holder takes exactly its watts off the budget.
LEMMA LessWatts ==
    ASSUME NEW b, NEW r \in ReservationIds, r \in Holders(b),
           Holders(b)' = Holders(b) \ {r},
           \A h \in Holders(b) : reservations'[h].reserved_power = reservations[h].reserved_power,
           reservations[r].reserved_power \in 0 .. MaxPower
    PROVE  Cardinality(HeldWatts(b)) = Cardinality(HeldWatts(b)') + reservations[r].reserved_power
<1>1. HeldWatts(b)' = WattsOf(Holders(b) \ {r}, Held')
  <2>1. \A p \in Holders(b)' \X (1 .. MaxPower) :
            Held'[p[1]] = reservations'[p[1]].reserved_power
    BY DEF Held, Holders
  <2> QED BY <2>1 DEF HeldWatts, WattsOf
<1>2. \A h \in Holders(b) \ {r} : Held'[h] = Held[h]
  BY DEF Held, Holders
<1>3. Held[r] = reservations[r].reserved_power
  BY DEF Held
<1>4. IsFiniteSet(Holders(b) \ {r}) /\ (Holders(b) \ {r}) \cup {r} = Holders(b)
  BY HoldersFinite, FS_RemoveElement
<1>5. Cardinality(WattsOf((Holders(b) \ {r}) \cup {r}, Held)) =
        Cardinality(WattsOf(Holders(b) \ {r}, Held')) + Held[r]
  <2> SUFFICES ASSUME NEW H, H = Holders(b) \ {r}, NEW f, f = Held', NEW g, g = Held
               PROVE  Cardinality(WattsOf(H \cup {r}, g)) = Cardinality(WattsOf(H, f)) + g[r]
    OBVIOUS
  <2>1. IsFiniteSet(H) /\ r \notin H /\ (\A h \in H : f[h] = g[h]) /\ g[r] \in 0 .. MaxPower
    BY <1>2, <1>3, <1>4
  <2> QED BY <2>1, WattsAdd, SMTT(60)
<1> QED BY <1>1, <1>3, <1>4, <1>5, HeldWattsAreWatts

-----------------------------------------------------------------------------
(* Every step keeps the ledger.  What the counters say is generalised to   *)
(* counters that fall short of what is held by some amount, which no call  *)
(* changes: none here, and after a load what could not be claimed again.   *)

\* The reserved counter of each budget falls short of what is held by debt.
ReservedShort(debt) ==
    \A b \in BudgetIds : reserved[b] + debt[b] = Cardinality(HeldWatts(b))

ShortInv(debt) ==
    /\ TypeOK
    /\ ParentsAsOffered
    /\ UnreservedHoldsNothing
    /\ ChargedChainsInstalled
    /\ ReservedShort(debt)

\* A step that only moves a reservation on in its lifecycle, without releasing
\* it, charges nobody: validate, admit, activate and expiry.
LEMMA MoveOnStep ==
    ASSUME NEW debt \in [BudgetIds -> Nat], ShortInv(debt), TypeOK', NEW r \in ReservationIds, NEW s,
           UNCHANGED <<installed, cfg, reserved>>,
           reservations' = [reservations EXCEPT ![r].state = s],
           \/ s = "VALIDATED" /\ reservations[r].state = "PLANNED"
           \/ s \in {"ADMITTED", "ACTIVE"} /\ reservations[r].state \in {"RESERVED", "ADMITTED"}
           \/ s = "EXPIRED" /\ reservations[r].state \in {"PLANNED", "VALIDATED", "RESERVED", "ADMITTED"}
    PROVE  ShortInv(debt)'
<1> USE DEF ShortInv, TypeOK
<1>1. \A b : chain(b)' = chain(b)
  BY ChainUnchanged
<1>2. \A q \in ReservationIds :
        /\ reservations'[q].budget = reservations[q].budget
        /\ reservations'[q].reserved_power = reservations[q].reserved_power
        /\ reservations'[q].state = IF q = r THEN s ELSE reservations[q].state
  BY DEF Reservation
<1>3. ParentsAsOffered'
  BY DEF ParentsAsOffered
<1>4. UnreservedHoldsNothing'
  BY <1>2 DEF UnreservedHoldsNothing
<1>5. \A q \in ReservationIds : Charged(q)' => Charged(q)
  BY <1>2 DEF Charged, UnreservedHoldsNothing
<1>6. ChargedChainsInstalled'
  BY <1>1, <1>2, <1>5 DEF ChargedChainsInstalled
<1>7. ReservedShort(debt)'
  <2> SUFFICES ASSUME NEW b \in BudgetIds PROVE HeldWatts(b)' = HeldWatts(b)
    BY DEF ReservedShort
  <2>1. Holders(b)' = Holders(b)
    BY <1>1, <1>2 DEF Holders
  <2> QED
    BY <1>2, <2>1, SameWatts DEF Holders
<1> QED
  BY <1>3, <1>4, <1>6, <1>7

\* Planning charges nobody: a new reservation holds nothing.
LEMMA PlanStep ==
    ASSUME NEW debt \in [BudgetIds -> Nat], ShortInv(debt), TypeOK', NEW r \in ReservationIds, NEW b \in BudgetIds, NEW power,
           NEW pol, NEW now, plan_reservation(r, b, power, pol, now)
    PROVE  ShortInv(debt)'
<1> USE DEF ShortInv, TypeOK
<1>0. UNCHANGED <<installed, cfg, reserved>> /\ reservations[r].state = "NONE"
  BY DEF plan_reservation, budgetVars
<1>1. \A x : chain(x)' = chain(x)
  BY <1>0, ChainUnchanged
<1>2. /\ \A q \in ReservationIds \ {r} : reservations'[q] = reservations[q]
      /\ reservations'[r].state = "PLANNED" /\ reservations'[r].reserved_power = 0
  BY DEF plan_reservation
<1>3. ParentsAsOffered'
  BY <1>0 DEF ParentsAsOffered
<1>4. UnreservedHoldsNothing'
  BY <1>2 DEF UnreservedHoldsNothing
<1>5. ChargedChainsInstalled'
  BY <1>0, <1>1, <1>2 DEF ChargedChainsInstalled, Charged
<1>6. ReservedShort(debt)'
  <2> SUFFICES ASSUME NEW x \in BudgetIds PROVE HeldWatts(x)' = HeldWatts(x)
    BY <1>0 DEF ReservedShort
  <2>1. r \notin Holders(x) /\ r \notin Holders(x)'
    BY <1>0, <1>2 DEF Holders, UnreservedHoldsNothing
  <2>2. Holders(x)' = Holders(x)
    BY <1>1, <1>2, <2>1 DEF Holders
  <2> QED
    BY <1>2, <2>1, <2>2, SameWatts DEF Holders
<1> QED
  BY <1>3, <1>4, <1>5, <1>6

\* Installing or re-issuing a budget leaves the chains that are charged as they
\* are, and a budget installed for the first time is charged by nobody.
LEMMA InstallStep ==
    ASSUME StableParents, NEW debt \in [BudgetIds -> Nat], ShortInv(debt), TypeOK',
           NEW b \in BudgetIds, NEW d \in Definitions(b), install_budget(b, d)
    PROVE  ShortInv(debt)'
<1> USE DEF ShortInv, TypeOK
<1>1. installed' = installed \cup {b} /\ UNCHANGED reservations
  BY DEF install_budget, Install
<1>2. d.parent \in ParentsOf[b]
  BY DEF Definitions
<1>3. \A x \in installed : cfg'[x].parent = cfg[x].parent
  BY <1>2 DEF install_budget, Install, StableParents, ParentsAsOffered, BudgetTypeOK
<1>4. ParentsAsOffered'
  BY <1>1, <1>2, <1>3 DEF ParentsAsOffered, install_budget, Install, BudgetTypeOK
<1>5. UnreservedHoldsNothing'
  BY <1>1 DEF UnreservedHoldsNothing
<1>6. \A q \in ReservationIds : Charged(q) => chain(reservations[q].budget)' = chain(reservations[q].budget)
  BY <1>1, <1>3, ChainStable DEF ChargedChainsInstalled
<1>7. \A q \in ReservationIds : Charged(q)' = Charged(q)
  BY <1>1 DEF Charged
<1>8. ChargedChainsInstalled'
  BY <1>1, <1>6, <1>7 DEF ChargedChainsInstalled
<1>9. \A q \in ReservationIds :
        reservations[q].reserved_power > 0 /\ reservations[q].state # "RELEASED" => Charged(q)
  BY DEF Charged, UnreservedHoldsNothing, Reservation, ReservationState, LiveStates
<1>10. \A x \in BudgetIds : HeldWatts(x)' = HeldWatts(x)
  <2> SUFFICES ASSUME NEW x \in BudgetIds PROVE HeldWatts(x)' = HeldWatts(x)
    OBVIOUS
  <2>1. Holders(x)' = Holders(x)
    BY <1>1, <1>6, <1>9 DEF Holders
  <2> QED
    BY <1>1, <2>1, SameWatts
<1>11. ASSUME b \notin installed PROVE reserved[b] = 0
  <2>1. Holders(b) = {}
    BY <1>9, <1>11 DEF Holders, ChargedChainsInstalled
  <2>2. reserved[b] \in Nat /\ debt[b] \in Nat /\ reserved[b] + debt[b] = 0
    BY <2>1, NoHoldersNoWatts DEF ReservedShort, BudgetTypeOK
  <2> QED BY <2>2
<1>12. reserved' = reserved
  BY <1>11 DEF install_budget, Install, BudgetTypeOK
<1> QED
  BY <1>4, <1>5, <1>8, <1>10, <1>12 DEF ReservedShort

\* Reserving charges the reservation's watts to exactly its chain.
LEMMA ReserveStep ==
    ASSUME NEW debt \in [BudgetIds -> Nat], ShortInv(debt), TypeOK', NEW r \in ReservationIds, NEW gen, NEW now,
           reserve_reservation(r, gen, now), ~ Expire(r)
    PROVE  ShortInv(debt)'
<1> USE DEF ShortInv, TypeOK
<1> DEFINE budget == reservations[r].budget
           amount == reservations[r].requested_power
<1>0. /\ reservations[r].state \in {"PLANNED", "VALIDATED"}
      /\ ReserveAccepts(budget, amount, gen)
      /\ reserved' = AddAlong(reserved, budget, amount)
      /\ UNCHANGED <<installed, cfg>>
      /\ reservations' = [reservations EXCEPT
             ![r].state = "RESERVED", ![r].budget_generation = gen,
             ![r].reserved_power = reservations[r].requested_power]
  BY DEF reserve_reservation, ReserveEffect
<1>1. \A x : chain(x)' = chain(x)
  BY <1>0, ChainUnchanged
<1>2. /\ \A q \in ReservationIds \ {r} : reservations'[q] = reservations[q]
      /\ reservations'[r].state = "RESERVED"
      /\ reservations'[r].budget = budget
      /\ reservations'[r].reserved_power = amount
      /\ reservations[r].reserved_power = 0
      /\ amount \in 0 .. MaxPower
  BY <1>0 DEF Reservation, UnreservedHoldsNothing
<1>3. ParentsAsOffered'
  BY <1>0 DEF ParentsAsOffered
<1>4. UnreservedHoldsNothing'
  BY <1>2 DEF UnreservedHoldsNothing
<1>5. budget \in BudgetIds /\ chain(budget) \subseteq installed
  BY <1>0 DEF ReserveAccepts, CurrentGeneration, chain_has_capacity, BudgetTypeOK
<1>6. ChargedChainsInstalled'
  BY <1>0, <1>1, <1>2, <1>5 DEF ChargedChainsInstalled, Charged
<1>7. ASSUME NEW x \in BudgetIds PROVE reserved'[x] + debt[x] = Cardinality(HeldWatts(x)')
  <2>0. reserved[x] + debt[x] = Cardinality(HeldWatts(x)) /\ r \notin Holders(x)
    BY <1>2 DEF ReservedShort, Holders
  <2>1. CASE x \in chain(budget) /\ amount > 0
    <3>1. Holders(x)' = Holders(x) \cup {r}
      BY <1>1, <1>2, <2>1 DEF Holders
    <3>2. Cardinality(HeldWatts(x)') = Cardinality(HeldWatts(x)) + amount
      BY <1>2, <2>0, <3>1, MoreWatts DEF Holders
    <3>3. reserved'[x] = reserved[x] + amount
      BY <1>0, <2>1 DEF AddAlong
    <3>4. reserved[x] \in Nat /\ debt[x] \in Nat /\ amount \in Nat
      BY <1>2, ReservationAssumption DEF BudgetTypeOK
    <3> HIDE DEF amount
    <3> QED BY <2>0, <3>2, <3>3, <3>4
  <2>2. CASE ~ (x \in chain(budget) /\ amount > 0)
    <3>1. Holders(x)' = Holders(x)
      BY <1>1, <1>2, <2>0, <2>2 DEF Holders
    <3>2. HeldWatts(x)' = HeldWatts(x)
      BY <1>2, <2>0, <3>1, SameWatts DEF Holders
    <3>3. reserved'[x] = reserved[x]
      BY <1>0, <1>2, <2>2, ReservationAssumption DEF AddAlong, BudgetTypeOK
    <3> QED BY <2>0, <3>2, <3>3
  <2> QED BY <2>1, <2>2
<1> QED
  BY <1>3, <1>4, <1>6, <1>7 DEF ReservedShort

\* Releasing takes the watts off the chain they were charged to.
LEMMA ReleaseStep ==
    ASSUME NEW debt \in [BudgetIds -> Nat], ShortInv(debt), TypeOK', NEW r \in ReservationIds, NEW gen, release_reservation(r, gen)
    PROVE  ShortInv(debt)'
<1> USE DEF ShortInv, TypeOK
<1> DEFINE budget == reservations[r].budget
           amount == reservations[r].reserved_power
<1>0. /\ reservations[r].state \in LiveStates
      /\ reserved' = SubtractAlong(reserved, budget, amount)
      /\ UNCHANGED <<installed, cfg>>
      /\ reservations' = [reservations EXCEPT ![r].state = "RELEASED"]
  BY DEF release_reservation, ReleaseEffect
<1>1. \A x : chain(x)' = chain(x)
  BY <1>0, ChainUnchanged
<1>2. /\ \A q \in ReservationIds \ {r} : reservations'[q] = reservations[q]
      /\ reservations'[r].state = "RELEASED"
      /\ reservations'[r].reserved_power = amount
      /\ amount \in 0 .. MaxPower
  BY <1>0 DEF Reservation
<1>3. ParentsAsOffered'
  BY <1>0 DEF ParentsAsOffered
<1>4. UnreservedHoldsNothing'
  BY <1>2 DEF UnreservedHoldsNothing
<1>5. ChargedChainsInstalled'
  BY <1>0, <1>1, <1>2 DEF ChargedChainsInstalled, Charged
<1>6. ASSUME NEW x \in BudgetIds PROVE reserved'[x] + debt[x] = Cardinality(HeldWatts(x)')
  <2>0. reserved[x] + debt[x] = Cardinality(HeldWatts(x)) /\ reserved[x] \in Nat
    BY DEF ReservedShort, BudgetTypeOK
  <2>1. CASE x \in chain(budget) /\ amount > 0
    <3>1. r \in Holders(x) /\ Holders(x)' = Holders(x) \ {r}
      BY <1>0, <1>1, <1>2, <2>1 DEF Holders, LiveStates
    <3>2. Cardinality(HeldWatts(x)) = Cardinality(HeldWatts(x)') + amount
      BY <1>2, <3>1, LessWatts DEF Holders
    <3>3. Cardinality(HeldWatts(x)') \in Nat
      <4>1. IsFiniteSet(Holders(x)')
        BY <3>1, HoldersFinite, FS_RemoveElement
      <4>2. HeldWatts(x)' \in SUBSET (Holders(x)' \X (1 .. MaxPower))
        BY DEF HeldWatts
      <4>3. IsFiniteSet(1 .. MaxPower)
        BY FS_Interval, ReservationAssumption
      <4> QED BY <4>1, <4>2, <4>3, FS_Product, FS_Subset, FS_CardinalityType
    <3> QED
      BY <1>0, <1>2, <2>0, <2>1, <3>2, <3>3, ReservationAssumption DEF SubtractAlong
  <2>2. CASE ~ (x \in chain(budget) /\ amount > 0)
    <3>1. Holders(x)' = Holders(x)
      BY <1>1, <1>2, <2>2 DEF Holders
    <3>2. HeldWatts(x)' = HeldWatts(x)
      BY <1>2, <3>1, SameWatts DEF Holders
    <3>3. reserved'[x] = reserved[x]
      BY <1>0, <1>2, <2>0, <2>2, ReservationAssumption DEF SubtractAlong
    <3> QED BY <2>0, <3>2, <3>3
  <2> QED BY <2>1, <2>2
<1> QED
  BY <1>3, <1>4, <1>5, <1>6 DEF ReservedShort

\* No call changes by how much a counter falls short.
LEMMA ShortStep ==
    ASSUME StableParents, NEW debt \in [BudgetIds -> Nat], ShortInv(debt), [Next]_vars
    PROVE  ShortInv(debt)'
<1>0. TypeOK'
  BY TypeStep DEF ShortInv
<1>1. ASSUME NEW b \in BudgetIds, NEW d \in Definitions(b), install_budget(b, d)
      PROVE  ShortInv(debt)'
  BY <1>0, <1>1, InstallStep
<1>2. ASSUME NEW r \in ReservationIds, NEW b \in BudgetIds, NEW power \in Powers,
             NEW pol \in PlannedPolicies, NEW now \in CallTimes,
             plan_reservation(r, b, power, pol, now)
      PROVE  ShortInv(debt)'
  BY <1>0, <1>2, PlanStep
<1>3. ASSUME NEW r \in ReservationIds, NEW pol \in PolicyGenerations,
             validate_reservation(r, pol)
      PROVE  ShortInv(debt)'
  BY <1>0, <1>3, MoveOnStep DEF validate_reservation, budgetVars
<1>4. ASSUME NEW r \in ReservationIds, Expire(r),
             reservations[r].state \in {"PLANNED", "VALIDATED", "RESERVED", "ADMITTED"}
      PROVE  ShortInv(debt)'
  BY <1>0, <1>4, MoveOnStep DEF Expire, budgetVars
<1>5. ASSUME NEW r \in ReservationIds, NEW gen \in Generations, NEW now \in CallTimes,
             reserve_reservation(r, gen, now)
      PROVE  ShortInv(debt)'
  <2>1. CASE Expire(r)
    BY <1>4, <1>5, <2>1 DEF reserve_reservation
  <2>2. CASE ~ Expire(r)
    BY <1>0, <1>5, <2>2, ReserveStep
  <2> QED BY <2>1, <2>2
<1>6. ASSUME NEW r \in ReservationIds, NEW now \in CallTimes, admit_reservation(r, now)
      PROVE  ShortInv(debt)'
  <2>1. CASE Expire(r)
    BY <1>4, <1>6, <2>1 DEF admit_reservation
  <2>2. CASE ~ Expire(r)
    <3>1. /\ reservations' = [reservations EXCEPT ![r].state = "ADMITTED"]
          /\ reservations[r].state = "RESERVED"
          /\ UNCHANGED <<installed, cfg, reserved>>
      BY <1>6, <2>2 DEF admit_reservation, budgetVars
    <3> QED BY <1>0, <3>1, MoveOnStep
  <2> QED BY <2>1, <2>2
<1>7. ASSUME NEW r \in ReservationIds, NEW gen \in Generations, NEW now \in CallTimes,
             activate_reservation(r, gen, now)
      PROVE  ShortInv(debt)'
  <2>1. CASE Expire(r)
    BY <1>4, <1>7, <2>1 DEF activate_reservation
  <2>2. CASE ~ Expire(r)
    <3>1. /\ reservations' = [reservations EXCEPT ![r].state = "ACTIVE"]
          /\ reservations[r].state \in {"RESERVED", "ADMITTED"}
          /\ UNCHANGED <<installed, cfg, reserved>>
      BY <1>7, <2>2 DEF activate_reservation, ActivateEffect
    <3> QED BY <1>0, <3>1, MoveOnStep
  <2> QED BY <2>1, <2>2
<1>8. ASSUME NEW r \in ReservationIds, NEW gen \in Generations, release_reservation(r, gen)
      PROVE  ShortInv(debt)'
  BY <1>0, <1>8, ReleaseStep
<1>9. ASSUME UNCHANGED <<installed, cfg, reserved, reservations>> PROVE ShortInv(debt)'
  <2>1. \A x : chain(x)' = chain(x)
    BY <1>9, ChainUnchanged
  <2>2. \A x : HeldWatts(x)' = HeldWatts(x)
    BY <1>9, <2>1 DEF HeldWatts, Holders
  <2>3. ParentsAsOffered' /\ UnreservedHoldsNothing'
    BY <1>9 DEF ShortInv, ParentsAsOffered, UnreservedHoldsNothing
  <2>4. ChargedChainsInstalled'
    BY <1>9, <2>1 DEF ShortInv, ChargedChainsInstalled, Charged
  <2>5. ReservedShort(debt)'
    BY <1>9, <2>2 DEF ShortInv, ReservedShort
  <2> QED BY <1>0, <2>3, <2>4, <2>5 DEF ShortInv
<1> QED
  BY <1>1, <1>2, <1>3, <1>5, <1>6, <1>7, <1>8, <1>9
     DEF Next, install_policy, Tick, vars, budgetVars

\* LedgerInv is inductive.
LEMMA LedgerStep ==
    ASSUME StableParents PROVE LedgerInv /\ [Next]_vars => LedgerInv'
<1> SUFFICES ASSUME LedgerInv, [Next]_vars PROVE LedgerInv'
    OBVIOUS
<1> SUFFICES ASSUME NEW debt, debt = [b \in BudgetIds |-> 0] PROVE LedgerInv'
    OBVIOUS
<1>1. debt \in [BudgetIds -> Nat]
  OBVIOUS
<1>2. ShortInv(debt)
  BY DEF LedgerInv, ShortInv, TypeOK, BudgetTypeOK, ReservedExact, ReservedShort
<1>3. ShortInv(debt)'
  BY <1>1, <1>2, ShortStep
<1>4. TypeOK' => (ReservedShort(debt)' => ReservedExact')
  BY DEF TypeOK, BudgetTypeOK, ReservedExact, ReservedShort
<1> QED  BY <1>3, <1>4 DEF LedgerInv, ShortInv

\* The inductive invariant of the ledger holds in every run in which budgets
\* keep their parents: counters are exact, what is charged is charged on an
\* installed chain, and nothing is held before it is reserved.
THEOREM LedgerInvHolds == ASSUME StableParents PROVE Spec => []LedgerInv
<1>1. Init => LedgerInv
  <2> SUFFICES ASSUME Init PROVE LedgerInv
    OBVIOUS
  <2>1. TypeOK
    BY TypeInit
  <2>2. ParentsAsOffered /\ UnreservedHoldsNothing /\ ChargedChainsInstalled
    BY DEF Init, BudgetInit, NoReservation, ParentsAsOffered, UnreservedHoldsNothing,
           ChargedChainsInstalled, Charged
  <2>3. \A b \in BudgetIds : Holders(b) = {}
    BY DEF Init, NoReservation, Holders
  <2>4. ReservedExact
    BY <2>3, NoHoldersNoWatts DEF ReservedExact, Init, BudgetInit
  <2> QED BY <2>1, <2>2, <2>4 DEF LedgerInv
<1> QED
  BY <1>1, LedgerStep, PTL DEF Spec

\* For every tree of budgets and any number of reservations, the reserved
\* counter of a budget is the sum of what its reservations hold.
THEOREM ReservedExactHolds == ASSUME StableParents PROVE Spec => []ReservedExact
<1>1. LedgerInv => ReservedExact
  BY DEF LedgerInv
<1> QED
  BY <1>1, LedgerInvHolds, PTL

\* A single reservation holds no more than the budgets it is charged to show.
LEMMA HolderWithinReserved ==
    ASSUME LedgerInv, NEW r \in ReservationIds, NEW b \in BudgetIds, r \in Holders(b)
    PROVE  reservations[r].reserved_power <= reserved[b]
<1> DEFINE n == reservations[r].reserved_power
<1>1. n \in 0 .. MaxPower /\ n \in Nat
  BY ReservationAssumption DEF LedgerInv, TypeOK, Reservation
<1>2. IsFiniteSet({r} \X (1 .. n)) /\ Cardinality({r} \X (1 .. n)) = n
  BY <1>1, RowCardinality
<1>3. ({r} \X (1 .. n)) \in SUBSET HeldWatts(b)
  BY <1>1, ReservationAssumption DEF HeldWatts
<1>4. IsFiniteSet(HeldWatts(b))
  BY HeldWattsAreWatts, HoldersFinite, WattsFinite
<1>5. Cardinality({r} \X (1 .. n)) <= Cardinality(HeldWatts(b))
  BY <1>3, <1>4, FS_Subset
<1> QED
  BY <1>2, <1>5 DEF LedgerInv, ReservedExact

\* Whatever was re-issued in between, a reservation that holds capacity can be
\* given back under the current generation of its budget.
THEOREM HeldIsReleasableHolds == ASSUME StableParents PROVE Spec => []HeldIsReleasable
<1>1. LedgerInv => HeldIsReleasable
  <2> SUFFICES ASSUME LedgerInv, NEW r \in ReservationIds,
                      reservations[r].state \in {"RESERVED", "ADMITTED", "ACTIVE"}
               PROVE  ReleaseAccepts(reservations[r].budget, reservations[r].reserved_power,
                                     cfg[reservations[r].budget].generation)
    BY DEF HeldIsReleasable
  <2> DEFINE budget == reservations[r].budget
             amount == reservations[r].reserved_power
  <2>1. budget \in BudgetIds /\ chain(budget) \subseteq installed
    BY DEF LedgerInv, ChargedChainsInstalled, Charged
  <2>2. CurrentGeneration(budget, cfg[budget].generation)
    BY <2>1, ChainStart DEF CurrentGeneration
  <2>3. ASSUME NEW x \in chain(budget) PROVE reserved[x] >= amount
    <3>1. x \in BudgetIds /\ reserved[x] \in Nat /\ amount \in Nat
      BY <2>3, ReservationAssumption DEF chain, LedgerInv, TypeOK, BudgetTypeOK, Reservation
    <3>2. CASE amount > 0
      BY <2>3, <3>1, <3>2, HolderWithinReserved DEF Holders
    <3>3. CASE amount = 0
      BY <3>1, <3>3
    <3> QED BY <3>1, <3>2, <3>3
  <2> QED
    BY <2>1, <2>2, <2>3 DEF ReleaseAccepts, CoversAlong
<1> QED
  BY <1>1, LedgerInvHolds, PTL

-----------------------------------------------------------------------------
(* Parents cover their children: chains are paths, so the watts charged to *)
(* two children of one parent are watts of different reservations.         *)

\* The chain of a budget is the budget and the chain of its parent.
LEMMA ChainOfParent ==
    ASSUME NEW b \in BudgetIds, Parent(b) \in BudgetIds
    PROVE  chain(b) \subseteq {b} \cup chain(Parent(b))
<1> DEFINE S == {b} \cup chain(Parent(b))
<1>1. S \in SUBSET BudgetIds /\ b \in S
  BY DEF chain
<1>2. Parent(b) \in chain(Parent(b)) /\ ParentClosed(chain(Parent(b)))
  BY ChainStart, ChainFollowsParents
<1>3. ParentClosed(S)
  BY <1>2 DEF ParentClosed
<1> HIDE DEF S
<1>4. chain(b) \subseteq S
  BY <1>1, <1>3, ChainLeast
<1> QED  BY <1>4 DEF S

\* Of two budgets of a chain one lies on the chain of the other.
LEMMA ChainIsPath ==
    ASSUME NEW b \in BudgetIds, NEW c \in chain(b), NEW d \in chain(b)
    PROVE  c \in chain(d) \/ d \in chain(c)
<1> DEFINE T == {x \in chain(b) : \A y \in chain(b) : x \in chain(y) \/ y \in chain(x)}
<1>1. T \in SUBSET BudgetIds /\ b \in T
  BY ChainStart DEF chain
<1>2. ASSUME NEW x \in T, Parent(x) \in BudgetIds PROVE Parent(x) \in T
  <2>1. x \in BudgetIds /\ Parent(x) \in chain(b)
    BY <1>1, <1>2, ChainFollowsParents DEF ParentClosed
  <2>2. ASSUME NEW y \in chain(b) PROVE Parent(x) \in chain(y) \/ y \in chain(Parent(x))
    <3>1. CASE x \in chain(y)
      BY <1>2, <3>1, ChainFollowsParents DEF ParentClosed
    <3>2. CASE y \in chain(x) /\ y # x
      BY <1>2, <2>1, <3>2, ChainOfParent
    <3>3. CASE y = x
      <4>1. x \in chain(x)
        BY <2>1, ChainStart
      <4> QED  BY <1>2, <3>1, <3>3, <4>1
    <3> QED  BY <3>1, <3>2, <3>3
  <2> QED  BY <2>1, <2>2
<1>3. ParentClosed(T)
  BY <1>2 DEF ParentClosed
<1> HIDE DEF T
<1>4. chain(b) \subseteq T
  BY <1>1, <1>3, ChainLeast
<1> QED  BY <1>4 DEF T

\* Trees have no cycles: no child lies on the chain of its parent.
LEMMA ChildBelowParent ==
    ASSUME LedgerInv, NEW c \in installed, cfg[c].parent \in BudgetIds
    PROVE  c \notin chain(cfg[c].parent)
<1>1. PICK depth \in [BudgetIds -> 0 .. MaxDepth] :
          \A b \in BudgetIds : \A p \in ParentsOf[b] \ {NoBudget} : depth[p] < depth[b]
  BY BudgetTree
<1>2. \A b \in installed : b \in BudgetIds /\ cfg[b].parent \in ParentsOf[b]
  BY DEF LedgerInv, TypeOK, BudgetTypeOK, ParentsAsOffered
<1>3. \A b \in BudgetIds : depth[b] \in Nat
  BY <1>1 DEF MaxDepth
<1>4. \A b \in BudgetIds : Parent(b) \in BudgetIds => depth[Parent(b)] < depth[b]
  BY <1>1, <1>2, BudgetAssumption DEF Parent
<1> DEFINE p == cfg[c].parent
           S == {x \in BudgetIds : depth[x] <= depth[p]}
<1>5. S \in SUBSET BudgetIds /\ p \in S /\ ParentClosed(S)
  <2>1. S \in SUBSET BudgetIds /\ p \in S
    BY <1>3
  <2>2. ASSUME NEW y \in S, Parent(y) \in BudgetIds PROVE Parent(y) \in S
    <3>1. depth[Parent(y)] < depth[y] /\ depth[y] <= depth[p]
      BY <1>4, <2>2
    <3>2. depth[Parent(y)] \in Nat /\ depth[y] \in Nat /\ depth[p] \in Nat
      BY <1>3, <2>2
    <3> QED  BY <2>2, <3>1, <3>2
  <2> QED  BY <2>1, <2>2 DEF ParentClosed
<1>6. depth[p] < depth[c]
  BY <1>1, <1>2, BudgetAssumption
<1>7. c \notin S
  BY <1>2, <1>3, <1>6
<1>8. chain(p) \subseteq S
  <2> HIDE DEF S
  <2> QED  BY <1>5, ChainLeast
<1> QED  BY <1>7, <1>8

\* No chain goes through two children of one parent.
LEMMA OneChildPerChain ==
    ASSUME LedgerInv, NEW b \in BudgetIds, NEW c \in chain(b) \cap installed,
           NEW d \in chain(b) \cap installed, cfg[c].parent = cfg[d].parent,
           cfg[c].parent \in BudgetIds
    PROVE  c = d
<1>1. c \in BudgetIds /\ d \in BudgetIds
  BY DEF chain
<1>2. c \in chain(d) \/ d \in chain(c)
  BY ChainIsPath
<1>3. ASSUME c \in chain(d), c # d PROVE FALSE
  <2>1. Parent(d) = cfg[c].parent
    BY DEF Parent
  <2>2. c \in chain(cfg[c].parent)
    BY <1>1, <1>3, <2>1, ChainOfParent
  <2> QED  BY <2>2, ChildBelowParent
<1>4. ASSUME d \in chain(c), c # d PROVE FALSE
  <2>1. Parent(c) = cfg[d].parent
    BY DEF Parent
  <2>2. d \in chain(cfg[d].parent)
    BY <1>1, <1>4, <2>1, ChainOfParent
  <2> QED  BY <2>2, ChildBelowParent
<1> QED  BY <1>2, <1>3, <1>4

\* What is charged to a child is charged to its parent as well, and nothing is
\* charged to two children.
LEMMA ChildWatts ==
    ASSUME LedgerInv, NEW p \in installed, NEW c \in Children(p)
    PROVE  /\ HeldWatts(c) \subseteq HeldWatts(p)
           /\ \A d \in Children(p) : d # c => HeldWatts(c) \cap HeldWatts(d) = {}
<1>1. p \in BudgetIds /\ c \in installed /\ cfg[c].parent = p
  BY DEF Children, LedgerInv, TypeOK, BudgetTypeOK
<1>2. \A r \in Holders(c) : r \in ReservationIds /\ reservations[r].budget \in BudgetIds
  BY DEF Holders, LedgerInv, ChargedChainsInstalled, Charged, UnreservedHoldsNothing, TypeOK,
         Reservation, ReservationState, LiveStates
<1>3. Holders(c) \subseteq Holders(p)
  <2> SUFFICES ASSUME NEW r \in Holders(c) PROVE r \in Holders(p)
    OBVIOUS
  <2>1. c \in chain(reservations[r].budget)
    BY DEF Holders
  <2>2. p \in chain(reservations[r].budget)
    BY <1>1, <2>1, ChainFollowsParents DEF ParentClosed, Parent
  <2> QED  BY <2>2 DEF Holders
<1>4. HeldWatts(c) \subseteq HeldWatts(p)
  BY <1>3 DEF HeldWatts
<1>5. ASSUME NEW d \in Children(p), d # c PROVE HeldWatts(c) \cap HeldWatts(d) = {}
  <2>1. d \in installed /\ cfg[d].parent = p
    BY DEF Children
  <2>2. ASSUME NEW r \in Holders(c), r \in Holders(d) PROVE FALSE
    <3>1. c \in chain(reservations[r].budget) /\ d \in chain(reservations[r].budget)
      BY <2>2 DEF Holders
    <3> QED  BY <1>1, <1>2, <1>5, <2>1, <3>1, OneChildPerChain
  <2> QED  BY <2>2 DEF HeldWatts
<1> QED  BY <1>4, <1>5

\* For every tree of budgets, a parent's reserved counter covers its
\* children's counters together.
THEOREM ParentCoversChildrenHolds ==
    ASSUME StableParents PROVE Spec => []ParentCoversChildren
<1>1. LedgerInv => ParentCoversChildren
  <2> SUFFICES ASSUME LedgerInv, NEW p \in installed
               PROVE  Cardinality(ChildrenWatts(p)) <= reserved[p]
    BY DEF ParentCoversChildren
  <2> DEFINE number(c) == CHOOSE f : f \in Bijection(1 .. reserved[c], HeldWatts(c))
             place == [u \in ChildrenWatts(p) |-> number(u[1])[u[2]]]
  <2>1. \A b \in BudgetIds : reserved[b] = Cardinality(HeldWatts(b)) /\ reserved[b] \in Nat
    BY DEF LedgerInv, ReservedExact, TypeOK, BudgetTypeOK
  <2>2. p \in BudgetIds /\ Children(p) \subseteq BudgetIds
    BY DEF Children, LedgerInv, TypeOK, BudgetTypeOK
  <2>3. \A b \in BudgetIds : IsFiniteSet(HeldWatts(b))
    BY HeldWattsAreWatts, HoldersFinite, WattsFinite
  <2>4. ASSUME NEW c \in Children(p)
        PROVE  number(c) \in Bijection(1 .. reserved[c], HeldWatts(c))
    <3>1. ExistsBijection(1 .. reserved[c], HeldWatts(c))
      BY <2>1, <2>2, <2>3, FS_CardinalityType
    <3> QED  BY <3>1 DEF ExistsBijection
  <2> HIDE DEF number
  <2>5. ASSUME NEW u \in ChildrenWatts(p)
        PROVE  /\ u[1] \in Children(p) /\ u[2] \in 1 .. reserved[u[1]]
               /\ u = <<u[1], u[2]>>
               /\ place[u] = number(u[1])[u[2]]
               /\ place[u] \in HeldWatts(u[1])
    <3>1. u[1] \in Children(p) /\ u[2] \in 1 .. reserved[u[1]] /\ u = <<u[1], u[2]>>
      BY <2>1, <2>2 DEF ChildrenWatts
    <3>2. number(u[1]) \in [1 .. reserved[u[1]] -> HeldWatts(u[1])]
      BY <2>4, <3>1 DEF Bijection, Injection
    <3> QED  BY <3>1, <3>2
  <2>6. place \in [ChildrenWatts(p) -> HeldWatts(p)]
    BY <2>5, ChildWatts
  <2>7. ASSUME NEW u \in ChildrenWatts(p), NEW v \in ChildrenWatts(p), place[u] = place[v]
        PROVE  u = v
    <3>1. u[1] = v[1]
      BY <2>5, <2>7, ChildWatts
    <3>2. IsInjective(number(u[1])) /\ DOMAIN number(u[1]) = 1 .. reserved[u[1]]
      BY <2>4, <2>5 DEF Bijection, Injection
    <3>3. u[2] = v[2]
      BY <2>5, <2>7, <3>1, <3>2 DEF IsInjective
    <3> QED  BY <2>5, <3>1, <3>3
  <2>8. place \in Injection(ChildrenWatts(p), HeldWatts(p))
    <3>1. DOMAIN place = ChildrenWatts(p)
      OBVIOUS
    <3> HIDE DEF place
    <3> QED  BY <2>6, <2>7, <3>1 DEF Injection, IsInjective
  <2> HIDE DEF place
  <2> QED  BY <2>1, <2>2, <2>3, <2>8, FS_Injection
<1> QED
  BY <1>1, LedgerInvHolds, PTL

-----------------------------------------------------------------------------
(* The governor implements the capacity ledger, step by step.              *)

\* A reservation that holds watts is charged, so its chain is installed.
LEMMA HolderIsCharged ==
    ASSUME LedgerInv, NEW r \in ReservationIds,
           reservations[r].reserved_power > 0, reservations[r].state # "RELEASED"
    PROVE  /\ reservations[r].budget \in BudgetIds
           /\ chain(reservations[r].budget) \subseteq installed
<1>1. reservations[r].state \in ReservationState \cup {"NONE"}
  BY DEF LedgerInv, TypeOK, Reservation
<1>2. Charged(r)
  BY <1>1 DEF Charged, LedgerInv, UnreservedHoldsNothing, ReservationState, LiveStates
<1> QED  BY <1>2 DEF LedgerInv, ChargedChainsInstalled

\* The load of an account of the ledger is the reserved counter of its budget.
LEMMA LoadIsReserved ==
    ASSUME LedgerInv, NEW b \in BudgetIds
    PROVE  Ledger!Load(b) = reserved[b]
<1> DEFINE held == [r \in ReservationIds |-> HeldBy(r)]
<1>1. ASSUME NEW r \in ReservationIds
      PROVE  /\ b \in held[r].on <=> r \in Holders(b)
             /\ r \in Holders(b) => held[r].amount = reservations[r].reserved_power
  BY DEF HeldBy, Holders
<1>2. {r \in ReservationIds : b \in held[r].on} = Holders(b)
  BY <1>1 DEF Holders
<1>3. Ledger!Units(b) =
        {u \in {r \in ReservationIds : b \in held[r].on} \X (1 .. MaxPower) :
            u[2] <= held[u[1]].amount}
  BY DEF Ledger!Units
<1> HIDE DEF held
<1>4. Ledger!Units(b) = {u \in Holders(b) \X (1 .. MaxPower) : u[2] <= held[u[1]].amount}
  BY <1>2, <1>3
<1>5. \A u \in Holders(b) \X (1 .. MaxPower) :
          held[u[1]].amount = reservations[u[1]].reserved_power
  BY <1>1 DEF Holders
<1>6. Ledger!Units(b) = HeldWatts(b)
  BY <1>4, <1>5 DEF HeldWatts
<1>7. Ledger!Load(b) = Cardinality(Ledger!Units(b))
  BY DEF Ledger!Load, Ledger!Cardinality, Cardinality
<1>8. reserved[b] = Cardinality(HeldWatts(b))
  BY DEF LedgerInv, ReservedExact
<1> QED  BY <1>6, <1>7, <1>8

\* A step that leaves the definitions alone and every reservation with what it
\* holds leaves the ledger alone.
LEMMA LedgerStutter ==
    ASSUME UNCHANGED <<installed, cfg>>,
           \A r \in ReservationIds : HeldBy(r)' = HeldBy(r)
    PROVE  UNCHANGED Ledger!ledger
BY DEF Ledger!ledger

\* A step that changes the lifecycle state of one reservation, and not to
\* RELEASED, leaves the ledger alone.
LEMMA MoveOnStutters ==
    ASSUME TypeOK, UNCHANGED <<installed, cfg>>, NEW r \in ReservationIds, NEW s,
           s # "RELEASED", reservations[r].state # "RELEASED",
           reservations' = [reservations EXCEPT ![r].state = s]
    PROVE  UNCHANGED Ledger!ledger
<1>1. \A b : chain(b)' = chain(b)
  BY ChainUnchanged
<1>2. \A x \in ReservationIds :
        /\ reservations'[x].reserved_power = reservations[x].reserved_power
        /\ reservations'[x].budget = reservations[x].budget
        /\ reservations'[x].state # "RELEASED" <=> reservations[x].state # "RELEASED"
  BY DEF TypeOK, Reservation
<1>3. \A x \in ReservationIds : HeldBy(x)' = HeldBy(x)
  BY <1>1, <1>2 DEF HeldBy
<1> QED  BY <1>3, LedgerStutter

\* Installing or re-issuing a budget opens its account or changes its limit:
\* whatever is held stays held on the same accounts.
LEMMA InstallSetsLimit ==
    ASSUME StableParents, LedgerInv, NEW b \in BudgetIds, NEW d \in Definitions(b),
           install_budget(b, d)
    PROVE  Ledger!LedgerNext
<1>1. /\ installed' = installed \cup {b} /\ cfg' = [cfg EXCEPT ![b] = d]
      /\ reservations' = reservations
  BY DEF install_budget, Install
<1>2. d.hard_max \in HardMaxes[b] /\ d.parent \in ParentsOf[b]
  BY DEF Definitions
<1>3. cfg \in [BudgetIds -> PowerBudget] /\ installed \subseteq BudgetIds
  BY DEF LedgerInv, TypeOK, BudgetTypeOK
<1>4. \A x \in installed : cfg'[x].parent = cfg[x].parent
  BY <1>1, <1>2, <1>3 DEF StableParents, LedgerInv, ParentsAsOffered
<1>5. ASSUME NEW r \in ReservationIds PROVE HeldBy(r)' = HeldBy(r)
  <2>1. CASE reservations[r].reserved_power > 0 /\ reservations[r].state # "RELEASED"
    <3>1. reservations[r].budget \in BudgetIds /\ chain(reservations[r].budget) \subseteq installed
      BY <2>1, HolderIsCharged
    <3>2. chain(reservations[r].budget)' = chain(reservations[r].budget)
      <4> DEFINE c == reservations[r].budget
      <4>1. c' = c
        BY <1>1
      <4>2. ASSUME NEW x \in BudgetIds, chain(x) \subseteq installed PROVE chain(x)' = chain(x)
        BY <1>1, <1>4, <4>2, ChainStable
      <4> QED  BY <3>1, <4>1, <4>2 DEF chain, ParentClosed, Parent
    <3> QED  BY <1>1, <2>1, <3>2 DEF HeldBy
  <2>2. CASE ~ (reservations[r].reserved_power > 0 /\ reservations[r].state # "RELEASED")
    BY <1>1, <2>2 DEF HeldBy
  <2> QED  BY <2>1, <2>2
<1>6. [x \in BudgetIds |-> cfg'[x].hard_max] =
        [[x \in BudgetIds |-> cfg[x].hard_max] EXCEPT ![b] = d.hard_max]
  BY <1>1, <1>3
<1>7. [r \in ReservationIds |-> HeldBy(r)]' = [r \in ReservationIds |-> HeldBy(r)]
  BY <1>5
<1>8. Ledger!SetLimit(b, d.hard_max)
  BY <1>1, <1>6, <1>7 DEF Ledger!SetLimit
<1>9. d.hard_max \in UNION {HardMaxes[x] : x \in BudgetIds}
  BY <1>2
<1> QED  BY <1>8, <1>9 DEF Ledger!LedgerNext

\* A reservation that is reserved is granted its watts on its whole chain,
\* within the limit of every budget of it.
LEMMA ReserveGrants ==
    ASSUME LedgerInv, NEW r \in ReservationIds, NEW gen \in Generations, NEW now \in CallTimes,
           reserve_reservation(r, gen, now), ~ Expire(r)
    PROVE  Ledger!LedgerNext \/ UNCHANGED Ledger!ledger
<1> DEFINE b == reservations[r].budget
           n == reservations[r].requested_power
<1>1. /\ reservations[r].state \in {"PLANNED", "VALIDATED"}
      /\ ReserveAccepts(b, n, gen)
      /\ reservations' = [reservations EXCEPT ![r].state = "RESERVED",
             ![r].budget_generation = gen, ![r].reserved_power = n]
      /\ UNCHANGED <<installed, cfg>>
  BY DEF reserve_reservation, ReserveEffect
<1>2. TypeOK /\ reservations \in [ReservationIds -> Reservation] /\ reservations[r] \in Reservation
  BY DEF LedgerInv, TypeOK
<1>3. n \in 0 .. MaxPower /\ n \in Nat /\ MaxPower \in Nat
  BY <1>2, ReservationAssumption DEF Reservation
<1>4. b \in installed /\ b \in BudgetIds /\ chain_has_capacity(b, n)
  BY <1>1 DEF ReserveAccepts, CurrentGeneration, LedgerInv, TypeOK, BudgetTypeOK
<1>5. \A x : chain(x)' = chain(x)
  BY <1>1, ChainUnchanged
<1>6. reservations[r].reserved_power = 0
  BY <1>1 DEF LedgerInv, UnreservedHoldsNothing
<1>7. HeldBy(r) = [on |-> {}, amount |-> 0]
  BY <1>6 DEF HeldBy
<1>8. /\ reservations'[r].reserved_power = n /\ reservations'[r].budget = b
      /\ reservations'[r].state = "RESERVED"
      /\ \A x \in ReservationIds \ {r} : reservations'[x] = reservations[x]
  BY <1>1, <1>2 DEF Reservation
<1>9. HeldBy(r)' = IF n > 0 THEN [on |-> chain(b), amount |-> n] ELSE [on |-> {}, amount |-> 0]
  <2>1. chain(reservations[r].budget)' = chain(b)
    BY <1>1, <1>8 DEF chain, ParentClosed, Parent
  <2> QED  BY <1>8, <2>1 DEF HeldBy
<1>10. \A x \in ReservationIds \ {r} : HeldBy(x)' = HeldBy(x)
  BY <1>5, <1>8 DEF HeldBy
<1>11. CASE n = 0
  <2>1. \A x \in ReservationIds : HeldBy(x)' = HeldBy(x)
    BY <1>3, <1>7, <1>9, <1>10, <1>11
  <2> QED  BY <1>1, <2>1, LedgerStutter
<1>12. CASE n > 0
  <2> DEFINE held == [x \in ReservationIds |-> HeldBy(x)]
             lim == [x \in BudgetIds |-> cfg[x].hard_max]
  <2>1. held' = [held EXCEPT ![r] = [on |-> chain(b), amount |-> n]]
    BY <1>9, <1>10, <1>12
  <2>2. chain(b) \in (SUBSET BudgetIds) \ {{}} /\ n \in 1 .. MaxPower
    <3>1. b \in chain(b) /\ chain(b) \subseteq BudgetIds
      BY <1>4, ChainStart DEF chain
    <3> QED  BY <1>3, <1>12, <3>1
  <2>3. ASSUME NEW a \in chain(b) PROVE a \in installed /\ Ledger!Load(a) + n <= lim[a]
    <3>1. a \in BudgetIds /\ a \in installed
      BY <1>4 DEF chain, chain_has_capacity
    <3>2. booked(a) + n <= cfg[a].hard_max
      BY <1>2, <1>3, <1>4, <1>12, CapacityOfChain
    <3>3. reserved[a] \in Nat /\ used[a] \in Nat /\ cfg[a].hard_max \in Nat
      BY <1>2, <3>1 DEF TypeOK, BudgetTypeOK, PowerBudget
    <3>4. Ledger!Load(a) = reserved[a]
      BY <3>1, LoadIsReserved
    <3> QED  BY <1>3, <3>1, <3>2, <3>3, <3>4 DEF booked
  <2>4. held[r] = Ledger!Nothing
    BY <1>7 DEF Ledger!Nothing
  <2>5. lim' = lim /\ installed' = installed
    BY <1>1
  <2>6. Ledger!Grant(r)
    <3>1. \E S \in (SUBSET BudgetIds) \ {{}}, m \in 1 .. MaxPower :
             /\ held' = [held EXCEPT ![r] = [on |-> S, amount |-> m]]
             /\ \A a \in S : a \in installed /\ Ledger!Load(a) + m <= lim[a]
      <4> HIDE DEF held, lim, b, n
      <4> QED  BY <2>1, <2>2, <2>3
    <3> QED  BY <2>4, <2>5, <3>1 DEF Ledger!Grant
  <2> QED  BY <2>6 DEF Ledger!LedgerNext
<1> QED  BY <1>3, <1>11, <1>12

\* A reservation that is released gives back all it holds at once.
LEMMA ReleaseGivesBack ==
    ASSUME LedgerInv, NEW r \in ReservationIds, NEW gen \in Generations,
           release_reservation(r, gen)
    PROVE  Ledger!LedgerNext \/ UNCHANGED Ledger!ledger
<1>1. /\ reservations[r].state \in LiveStates
      /\ reservations' = [reservations EXCEPT ![r].state = "RELEASED"]
      /\ UNCHANGED <<installed, cfg>>
  BY DEF release_reservation
<1>2. reservations \in [ReservationIds -> Reservation] /\ reservations[r] \in Reservation
  BY DEF LedgerInv, TypeOK
<1>3. \A x : chain(x)' = chain(x)
  BY <1>1, ChainUnchanged
<1>4. /\ reservations'[r].state = "RELEASED"
      /\ \A x \in ReservationIds \ {r} : reservations'[x] = reservations[x]
  BY <1>1, <1>2 DEF Reservation
<1>5. HeldBy(r)' = [on |-> {}, amount |-> 0]
  BY <1>4 DEF HeldBy
<1>6. \A x \in ReservationIds \ {r} : HeldBy(x)' = HeldBy(x)
  BY <1>3, <1>4 DEF HeldBy
<1>7. CASE HeldBy(r) = [on |-> {}, amount |-> 0]
  <2>1. \A x \in ReservationIds : HeldBy(x)' = HeldBy(x)
    BY <1>5, <1>6, <1>7
  <2> QED  BY <1>1, <2>1, LedgerStutter
<1>8. CASE HeldBy(r) # [on |-> {}, amount |-> 0]
  <2> DEFINE held == [x \in ReservationIds |-> HeldBy(x)]
  <2>1. held' = [held EXCEPT ![r] = Ledger!Nothing]
    BY <1>5, <1>6 DEF Ledger!Nothing
  <2>2. held[r] # Ledger!Nothing
    BY <1>8 DEF Ledger!Nothing
  <2>3. Ledger!GiveBack(r)
    BY <1>1, <2>1, <2>2 DEF Ledger!GiveBack
  <2> QED  BY <2>3 DEF Ledger!LedgerNext
<1> QED  BY <1>7, <1>8

\* Every call of the governor is a step of the ledger or leaves it alone.
LEMMA LedgerSimulation ==
    ASSUME StableParents, LedgerInv, [Next]_vars
    PROVE  [Ledger!LedgerNext]_(Ledger!ledger)
<1>0. TypeOK
  BY DEF LedgerInv
<1>1. ASSUME NEW b \in BudgetIds, NEW d \in Definitions(b), install_budget(b, d)
      PROVE  Ledger!LedgerNext
  BY <1>1, InstallSetsLimit
<1>2. ASSUME NEW r \in ReservationIds, NEW b \in BudgetIds, NEW power \in Powers,
             NEW pol \in PlannedPolicies, NEW now \in CallTimes,
             plan_reservation(r, b, power, pol, now)
      PROVE  UNCHANGED Ledger!ledger
  <2>1. /\ reservations[r].state = "NONE" /\ reservations'[r].reserved_power = 0
        /\ \A x \in ReservationIds \ {r} : reservations'[x] = reservations[x]
        /\ UNCHANGED <<installed, cfg>>
    BY <1>0, <1>2 DEF plan_reservation, budgetVars, TypeOK
  <2>2. reservations[r].reserved_power = 0
    BY <2>1 DEF LedgerInv, UnreservedHoldsNothing
  <2>3. \A x : chain(x)' = chain(x)
    BY <2>1, ChainUnchanged
  <2>4. \A x \in ReservationIds : HeldBy(x)' = HeldBy(x)
    BY <2>1, <2>2, <2>3 DEF HeldBy
  <2> QED  BY <2>1, <2>4, LedgerStutter
<1>3. ASSUME NEW r \in ReservationIds, NEW pol \in PolicyGenerations,
             validate_reservation(r, pol)
      PROVE  UNCHANGED Ledger!ledger
  BY <1>0, <1>3, MoveOnStutters DEF validate_reservation, budgetVars
<1>4. ASSUME NEW r \in ReservationIds, Expire(r), reservations[r].state # "RELEASED"
      PROVE  UNCHANGED Ledger!ledger
  BY <1>0, <1>4, MoveOnStutters DEF Expire, budgetVars
<1>5. ASSUME NEW r \in ReservationIds, NEW gen \in Generations, NEW now \in CallTimes,
             reserve_reservation(r, gen, now)
      PROVE  Ledger!LedgerNext \/ UNCHANGED Ledger!ledger
  <2>1. CASE Expire(r)
    BY <1>4, <1>5, <2>1 DEF reserve_reservation
  <2>2. CASE ~ Expire(r)
    BY <1>5, <2>2, ReserveGrants
  <2> QED  BY <2>1, <2>2
<1>6. ASSUME NEW r \in ReservationIds, NEW now \in CallTimes, admit_reservation(r, now)
      PROVE  UNCHANGED Ledger!ledger
  <2>1. CASE Expire(r)
    BY <1>4, <1>6, <2>1 DEF admit_reservation
  <2>2. CASE ~ Expire(r)
    BY <1>0, <1>6, <2>2, MoveOnStutters DEF admit_reservation, budgetVars
  <2> QED  BY <2>1, <2>2
<1>7. ASSUME NEW r \in ReservationIds, NEW gen \in Generations, NEW now \in CallTimes,
             activate_reservation(r, gen, now)
      PROVE  UNCHANGED Ledger!ledger
  <2>1. CASE Expire(r)
    BY <1>4, <1>7, <2>1 DEF activate_reservation
  <2>2. CASE ~ Expire(r)
    BY <1>0, <1>7, <2>2, MoveOnStutters DEF activate_reservation, ActivateEffect
  <2> QED  BY <2>1, <2>2
<1>8. ASSUME NEW r \in ReservationIds, NEW gen \in Generations, release_reservation(r, gen)
      PROVE  Ledger!LedgerNext \/ UNCHANGED Ledger!ledger
  BY <1>8, ReleaseGivesBack
<1>9. ASSUME UNCHANGED <<installed, cfg, reservations>> PROVE UNCHANGED Ledger!ledger
  <2>1. \A x : chain(x)' = chain(x)
    BY <1>9, ChainUnchanged
  <2>2. \A x \in ReservationIds : HeldBy(x)' = HeldBy(x)
    BY <1>9, <2>1 DEF HeldBy
  <2> QED  BY <1>9, <2>2, LedgerStutter
<1> QED
  BY <1>1, <1>2, <1>3, <1>5, <1>6, <1>7, <1>8, <1>9
     DEF Next, install_policy, Tick, vars, budgetVars

\* The reservation interface implements the abstract ledger for every tree of
\* budgets and any number of reservations: watts are granted only within every
\* limit of the chain, and move in no other way than by a grant or its return.
THEOREM ImplementsLedgerHolds == ASSUME StableParents PROVE Spec => ImplementsLedger
<1>1. Init => Ledger!LedgerInit
  <2> SUFFICES ASSUME Init PROVE Ledger!LedgerInit
    OBVIOUS
  <2>1. installed = {} /\ \A b \in BudgetIds : cfg[b].hard_max = 0
    BY DEF Init, BudgetInit, NoDefinition
  <2>2. \A r \in ReservationIds : HeldBy(r) = Ledger!Nothing
    BY DEF Init, NoReservation, HeldBy, Ledger!Nothing
  <2> QED  BY <2>1, <2>2 DEF Ledger!LedgerInit
<1>2. LedgerInv /\ [Next]_vars => [Ledger!LedgerNext]_(Ledger!ledger)
  BY LedgerSimulation
<1> QED
  BY <1>1, <1>2, LedgerInvHolds, PTL DEF Spec, ImplementsLedger, Ledger!LedgerSpec
=============================================================================
