------------------------- MODULE ReservationsProofs -------------------------
(***************************************************************************)
(* Theorems about Reservations for every tree of budgets, every set of     *)
(* reservations and every bound.                                           *)
(***************************************************************************)
EXTENDS Reservations, FiniteSetTheorems, WellFoundedInduction, TLAPS

-----------------------------------------------------------------------------
(* Type correctness.                                                       *)

\* Adding watts along a chain keeps a table of watts well typed.
LEMMA AddAlongType ==
    ASSUME NEW f \in [BudgetIds -> Nat], NEW b, NEW amount \in Nat
    PROVE  AddAlong(f, b, amount) \in [BudgetIds -> Nat]
BY DEF AddAlong

\* So does subtracting watts that every budget of the chain covers.
LEMMA SubtractAlongType ==
    ASSUME NEW f \in [BudgetIds -> Nat], NEW b, NEW amount \in Nat,
           CoversAlong(f, b, amount)
    PROVE  SubtractAlong(f, b, amount) \in [BudgetIds -> Nat]
BY DEF SubtractAlong, CoversAlong, chain

\* A definition that callers install is a well-typed budget.
LEMMA DefinitionType ==
    ASSUME NEW b \in BudgetIds, NEW d \in Definitions(b)
    PROVE  d \in PowerBudget
BY BudgetAssumption DEF Definitions, PowerBudget, Generations

\* The record that reserve leaves is a well-typed reservation.
LEMMA ReservedRecord ==
    ASSUME NEW res \in Reservation, NEW gen \in Generations, NEW power \in 0 .. MaxPower
    PROVE  [res EXCEPT !.state = "RESERVED", !.budget_generation = gen,
                       !.reserved_power = power] \in Reservation
BY DEF Reservation, ReservationState, LiveStates

\* Every action keeps TypeOK.
LEMMA TypeStep == TypeOK /\ [Next]_vars => TypeOK'
<1> SUFFICES ASSUME TypeOK, [Next]_vars PROVE TypeOK'
    OBVIOUS
<1> USE ReservationAssumption, BudgetAssumption DEF TypeOK
<1>1. ASSUME NEW b \in BudgetIds, NEW d \in Definitions(b), install_budget(b, d)
      PROVE  TypeOK'
  BY <1>1, DefinitionType DEF install_budget, Install, BudgetTypeOK
<1>2. ASSUME NEW gen \in PolicyGenerations, install_policy(gen)
      PROVE  TypeOK'
  BY <1>2 DEF install_policy, budgetVars, BudgetTypeOK
<1>3. ASSUME NEW r \in ReservationIds, NEW b \in BudgetIds, NEW power \in Powers,
             NEW pol \in PlannedPolicies, NEW now \in CallTimes,
             plan_reservation(r, b, power, pol, now)
      PROVE  TypeOK'
  <2>1. [state |-> "PLANNED", budget |-> b, requested_power |-> power,
         reserved_power |-> 0, policy_generation |-> pol,
         budget_generation |-> 0, created |-> now] \in Reservation
    BY DEF Reservation, ReservationState, LiveStates, PolicyGenerations, Generations, CallTimes
  <2> QED
    BY <1>3, <2>1 DEF plan_reservation, budgetVars, BudgetTypeOK, update_index_state,
        ReservationState, LiveStates
<1>4. ASSUME NEW r \in ReservationIds, NEW pol \in PolicyGenerations,
             validate_reservation(r, pol)
      PROVE  TypeOK'
  <2>1. [reservations[r] EXCEPT !.state = "VALIDATED"] \in Reservation
    BY DEF Reservation, ReservationState, LiveStates
  <2>2. reservations' \in [ReservationIds -> Reservation]
    BY <1>4, <2>1 DEF validate_reservation
  <2> QED
    BY <1>4, <2>2 DEF validate_reservation, budgetVars, BudgetTypeOK, update_index_state,
        ReservationState, LiveStates
<1>5. ASSUME NEW r \in ReservationIds, Expire(r), UNCHANGED <<policy, clock>>
      PROVE  TypeOK'
  <2>1. reservations' \in [ReservationIds -> Reservation]
    BY <1>5 DEF Expire, Reservation, ReservationState
  <2> QED
    BY <1>5, <2>1 DEF Expire, budgetVars, BudgetTypeOK
<1>6. ASSUME NEW r \in ReservationIds, NEW gen \in Generations, NEW now \in CallTimes,
             reserve_reservation(r, gen, now)
      PROVE  TypeOK'
  <2>1. CASE expired(r, now) /\ Expire(r)
    BY <1>5, <1>6, <2>1 DEF reserve_reservation
  <2>2. CASE ~ (expired(r, now) /\ Expire(r))
    <3>1. BudgetTypeOK'
      BY <1>6, <2>2, AddAlongType
         DEF reserve_reservation, ReserveEffect, BudgetTypeOK, Reservation
    <3>2. [reservations[r] EXCEPT !.state = "RESERVED", !.budget_generation = gen,
             !.reserved_power = reservations[r].requested_power] \in Reservation
      <4>1. reservations[r] \in Reservation
        OBVIOUS
      <4>2. reservations[r].requested_power \in 0 .. MaxPower
        BY <4>1 DEF Reservation
      <4> QED BY <4>1, <4>2, ReservedRecord
    <3>3. reservations' \in [ReservationIds -> Reservation]
      BY <1>6, <2>2, <3>2 DEF reserve_reservation
    <3> QED
      BY <1>6, <2>2, <3>1, <3>3 DEF reserve_reservation, update_index_state,
          ReservationState, LiveStates
  <2> QED BY <2>1, <2>2
<1>7. ASSUME NEW r \in ReservationIds, NEW now \in CallTimes, admit_reservation(r, now)
      PROVE  TypeOK'
  <2>1. CASE expired(r, now) /\ Expire(r)
    BY <1>5, <1>7, <2>1 DEF admit_reservation
  <2>2. CASE ~ (expired(r, now) /\ Expire(r))
    <3>1. [reservations[r] EXCEPT !.state = "ADMITTED"] \in Reservation
      BY DEF Reservation, ReservationState, LiveStates
    <3>2. reservations' \in [ReservationIds -> Reservation]
      BY <1>7, <2>2, <3>1 DEF admit_reservation
    <3> QED
      BY <1>7, <2>2, <3>2 DEF admit_reservation, update_index_state, budgetVars, BudgetTypeOK,
          ReservationState, LiveStates
  <2> QED BY <2>1, <2>2
<1>8. ASSUME NEW r \in ReservationIds, NEW gen \in Generations, NEW now \in CallTimes,
             activate_reservation(r, gen, now)
      PROVE  TypeOK'
  <2>1. CASE expired(r, now) /\ Expire(r)
    BY <1>5, <1>8, <2>1 DEF activate_reservation
  <2>2. CASE ~ (expired(r, now) /\ Expire(r))
    <3>1. BudgetTypeOK'
      BY <1>8, <2>2, AddAlongType
         DEF activate_reservation, ActivateEffect, BudgetTypeOK, Reservation
    <3>2. [reservations[r] EXCEPT !.state = "ACTIVE"] \in Reservation
      BY DEF Reservation, ReservationState, LiveStates
    <3>3. reservations' \in [ReservationIds -> Reservation]
      BY <1>8, <2>2, <3>2 DEF activate_reservation
    <3> QED
      BY <1>8, <2>2, <3>1, <3>3 DEF activate_reservation, update_index_state,
          ReservationState, LiveStates
  <2> QED BY <2>1, <2>2
<1>9. ASSUME NEW r \in ReservationIds, NEW gen \in Generations, release_reservation(r, gen)
      PROVE  TypeOK'
  <2>1. reserved' \in [BudgetIds -> Nat]
    BY <1>9, SubtractAlongType
       DEF release_reservation, ReleaseAccepts, ReleaseEffect, BudgetTypeOK, Reservation
  <2>2. used' \in [BudgetIds -> Nat]
    BY <1>9, SubtractAlongType
       DEF release_reservation, TryDeactivate, DeactivateAccepts, BudgetTypeOK, Reservation
  <2>3. [reservations[r] EXCEPT !.state = "RELEASED"] \in Reservation
    BY SMTT(30) DEF Reservation, ReservationState, LiveStates
  <2>4. reservations' \in [ReservationIds -> Reservation]
    BY <1>9, <2>3 DEF release_reservation
  <2> QED
    BY <1>9, <2>1, <2>2, <2>4 DEF release_reservation, update_index_state, BudgetTypeOK,
        ReservationState, LiveStates
<1>10. ASSUME Tick PROVE TypeOK'
  BY <1>10 DEF Tick, budgetVars, BudgetTypeOK
<1>11. ASSUME UNCHANGED vars PROVE TypeOK'
  BY <1>11 DEF vars, budgetVars, BudgetTypeOK
<1> QED
  BY <1>1, <1>2, <1>3, <1>4, <1>6, <1>7, <1>8, <1>9, <1>10, <1>11 DEF Next

\* The governor starts well typed: nothing installed, planned or booked.
LEMMA TypeInit == Init => TypeOK
BY ReservationAssumption, BudgetAssumption
   DEF Init, BudgetInit, TypeOK, BudgetTypeOK, NoDefinition, PowerBudget, Generations,
       NoReservation, Reservation, PolicyGenerations, ReservationState

\* In every reachable state the governor's reservation state is well typed.
THEOREM TypeCorrect == Spec => []TypeOK
BY TypeInit, TypeStep, PTL DEF Spec

-----------------------------------------------------------------------------
(* Action properties that need only the types.                             *)

\* Where a chain has capacity for an amount, adding it keeps every budget of
\* the chain within its limit.
LEMMA CapacityOfChain ==
    ASSUME TypeOK, NEW b, NEW amount \in Nat, chain_has_capacity(b, amount),
           NEW x \in chain(b), amount > 0
    PROVE  booked(x) + amount <= cfg[x].hard_max
BY DEF chain_has_capacity, own_available, booked, chain, TypeOK, BudgetTypeOK, PowerBudget

\* No call raises what is booked on a budget above its limit.
LEMMA CapacityStep ==
    ASSUME TypeOK, [Next]_vars, NEW x \in BudgetIds, booked(x)' > booked(x)
    PROVE  booked(x)' <= cfg'[x].hard_max
<1> USE DEF TypeOK, BudgetTypeOK
<1>1. ASSUME UNCHANGED <<reserved, used>> PROVE FALSE
  BY <1>1 DEF booked
<1>2. ASSUME NEW b \in BudgetIds, NEW d \in Definitions(b), install_budget(b, d)
      PROVE  FALSE
  BY <1>2 DEF install_budget, Install, booked
<1>3. ASSUME NEW r \in ReservationIds, NEW gen \in Generations, NEW now \in CallTimes,
             reserve_reservation(r, gen, now)
      PROVE  booked(x)' <= cfg'[x].hard_max
  <2> DEFINE b == reservations[r].budget
             amount == reservations[r].requested_power
  <2>1. /\ chain_has_capacity(b, amount)
        /\ reserved' = AddAlong(reserved, b, amount)
        /\ UNCHANGED <<cfg, used>>
    BY <1>1, <1>3 DEF reserve_reservation, Expire, budgetVars, ReserveAccepts, ReserveEffect
  <2>2. amount \in Nat
    BY ReservationAssumption DEF Reservation
  <2>3. x \in chain(b) /\ amount > 0 /\ booked(x)' = booked(x) + amount
    BY <2>1, <2>2 DEF AddAlong, booked
  <2> QED
    BY <2>1, <2>2, <2>3, CapacityOfChain
<1>4. ASSUME NEW r \in ReservationIds, NEW gen \in Generations, NEW now \in CallTimes,
             activate_reservation(r, gen, now)
      PROVE  booked(x)' <= cfg'[x].hard_max
  <2> DEFINE b == reservations[r].budget
             amount == reservations[r].requested_power
  <2>1. /\ chain_has_capacity(b, amount)
        /\ used' = AddAlong(used, b, amount)
        /\ UNCHANGED <<cfg, reserved>>
    BY <1>1, <1>4 DEF activate_reservation, Expire, budgetVars, ActivateAccepts, ActivateEffect
  <2>2. amount \in Nat
    BY ReservationAssumption DEF Reservation
  <2>3. x \in chain(b) /\ amount > 0 /\ booked(x)' = booked(x) + amount
    BY <2>1, <2>2 DEF AddAlong, booked
  <2> QED
    BY <2>1, <2>2, <2>3, CapacityOfChain
<1>5. ASSUME NEW r \in ReservationIds, NEW gen \in Generations, release_reservation(r, gen)
      PROVE  FALSE
  <2>1. reservations[r].reserved_power \in Nat
    BY ReservationAssumption DEF Reservation
  <2>2. reserved'[x] <= reserved[x]
    BY <1>5, <2>1 DEF release_reservation, ReleaseEffect, SubtractAlong
  <2>3. used'[x] <= used[x]
    BY <1>5, <2>1 DEF release_reservation, TryDeactivate, SubtractAlong
  <2>4. reserved'[x] \in Int /\ used'[x] \in Int
    BY <1>5, <2>1 DEF release_reservation, ReleaseEffect, TryDeactivate, SubtractAlong
  <2> QED
    BY <2>2, <2>3, <2>4 DEF booked
<1>6. ASSUME UNCHANGED vars PROVE FALSE
  BY <1>1, <1>6 DEF vars, budgetVars
<1> QED
  BY <1>1, <1>2, <1>3, <1>4, <1>5, <1>6
     DEF Next, install_policy, plan_reservation, validate_reservation, admit_reservation,
         Expire, Tick, budgetVars

\* No interleaving of calls raises what is booked on a budget above its limit.
THEOREM CapacityGateHolds == Spec => CapacityGate
<1>1. TypeOK /\ [Next]_vars =>
        [\A b \in BudgetIds : booked(b)' > booked(b) => booked(b)' <= cfg'[b].hard_max]_vars
  BY CapacityStep
<1> QED
  BY <1>1, TypeCorrect, PTL DEF Spec, CapacityGate

\* No re-issue of a budget lets a reservation of the old generation start.
THEOREM NoStaleActivationHolds == Spec => NoStaleActivation
<1>1. TypeOK /\ [Next]_vars =>
        [\A r \in ReservationIds :
            reservations'[r].state = "ACTIVE" /\ reservations[r].state # "ACTIVE" =>
              reservations[r].budget_generation = cfg[reservations[r].budget].generation]_vars
  <2> SUFFICES ASSUME TypeOK, Next, NEW x \in ReservationIds,
                      reservations'[x].state = "ACTIVE", reservations[x].state # "ACTIVE"
               PROVE  reservations[x].budget_generation = cfg[reservations[x].budget].generation
      BY DEF vars
  <2> USE DEF TypeOK
  <2>1. ASSUME NEW r \in ReservationIds, NEW gen \in Generations, NEW now \in CallTimes,
               activate_reservation(r, gen, now)
        PROVE  reservations[x].budget_generation = cfg[reservations[x].budget].generation
    BY <2>1 DEF activate_reservation, Expire, ActivateAccepts, CurrentGeneration, Reservation
  <2>2. ASSUME NEW r \in ReservationIds, NEW gen \in Generations, NEW now \in CallTimes,
               reserve_reservation(r, gen, now)
        PROVE  FALSE
    BY <2>2 DEF reserve_reservation, Expire, Reservation
  <2>3. ASSUME NEW r \in ReservationIds, NEW b \in BudgetIds, NEW power \in Powers,
               NEW pol \in PlannedPolicies, NEW now \in CallTimes,
               plan_reservation(r, b, power, pol, now)
        PROVE  FALSE
    BY <2>3 DEF plan_reservation, Reservation
  <2>4. ASSUME NEW r \in ReservationIds, NEW pol \in PolicyGenerations,
               validate_reservation(r, pol)
        PROVE  FALSE
    BY <2>4 DEF validate_reservation, Reservation
  <2>5. ASSUME NEW r \in ReservationIds, NEW now \in CallTimes, admit_reservation(r, now)
        PROVE  FALSE
    BY <2>5 DEF admit_reservation, Expire, Reservation
  <2>6. ASSUME NEW r \in ReservationIds, NEW gen \in Generations, release_reservation(r, gen)
        PROVE  FALSE
    BY <2>6 DEF release_reservation, Reservation
  <2> QED
    BY <2>1, <2>2, <2>3, <2>4, <2>5, <2>6 DEF Next, install_budget, install_policy, Tick
<1> QED
  BY <1>1, TypeCorrect, PTL DEF Spec, NoStaleActivation

-----------------------------------------------------------------------------
(* What the governor reports: the index and the free capacity.             *)

\* The secondary index lags behind a reservation only when it has expired,
\* for any number of reservations and callers.
THEOREM IndexLagsOnlyOnExpiryHolds == Spec => []IndexLagsOnlyOnExpiry
<1>1. Init => IndexLagsOnlyOnExpiry
  BY DEF Init, NoReservation, IndexLagsOnlyOnExpiry
<1>2. TypeOK /\ IndexLagsOnlyOnExpiry /\ [Next]_vars => IndexLagsOnlyOnExpiry'
  <2> SUFFICES ASSUME TypeOK, IndexLagsOnlyOnExpiry, [Next]_vars,
                      NEW x \in ReservationIds, index'[x] # reservations'[x].state
               PROVE  reservations'[x].state = "EXPIRED"
    BY DEF IndexLagsOnlyOnExpiry
  <2>0. /\ reservations \in [ReservationIds -> Reservation]
        /\ index \in [ReservationIds -> ReservationState \cup {"NONE"}]
        /\ reservations[x] \in Reservation
        /\ index[x] # reservations[x].state => reservations[x].state = "EXPIRED"
    BY DEF TypeOK, IndexLagsOnlyOnExpiry
  <2>1. ASSUME NEW r \in ReservationIds, NEW s, update_index_state(r, s),
               reservations'[r].state = s,
               \A y \in ReservationIds \ {r} : reservations'[y] = reservations[y]
        PROVE  reservations'[x].state = "EXPIRED"
    BY <2>0, <2>1 DEF update_index_state
  <2>2. ASSUME NEW r \in ReservationIds, Expire(r)
        PROVE  reservations'[x].state = "EXPIRED"
    BY <2>0, <2>2 DEF Expire, Reservation
  <2>3. ASSUME UNCHANGED <<reservations, index>> PROVE reservations'[x].state = "EXPIRED"
    BY <2>0, <2>3
  <2>4. ASSUME NEW r \in ReservationIds, NEW b \in BudgetIds, NEW power \in Powers,
               NEW pol \in PlannedPolicies, NEW now \in CallTimes,
               plan_reservation(r, b, power, pol, now)
        PROVE  reservations'[x].state = "EXPIRED"
    BY <2>0, <2>1, <2>4 DEF plan_reservation
  <2>5. ASSUME NEW r \in ReservationIds, NEW pol \in PolicyGenerations,
               validate_reservation(r, pol)
        PROVE  reservations'[x].state = "EXPIRED"
    BY <2>0, <2>1, <2>5 DEF validate_reservation, Reservation
  <2>6. ASSUME NEW r \in ReservationIds, NEW gen \in Generations, NEW now \in CallTimes,
               reserve_reservation(r, gen, now)
        PROVE  reservations'[x].state = "EXPIRED"
    <3>1. CASE Expire(r)
      BY <2>2, <3>1
    <3>2. CASE ~ Expire(r)
      BY <2>0, <2>1, <2>6, <3>2 DEF reserve_reservation, Reservation
    <3> QED  BY <3>1, <3>2
  <2>7. ASSUME NEW r \in ReservationIds, NEW now \in CallTimes, admit_reservation(r, now)
        PROVE  reservations'[x].state = "EXPIRED"
    <3>1. CASE Expire(r)
      BY <2>2, <3>1
    <3>2. CASE ~ Expire(r)
      BY <2>0, <2>1, <2>7, <3>2 DEF admit_reservation, Reservation
    <3> QED  BY <3>1, <3>2
  <2>8. ASSUME NEW r \in ReservationIds, NEW gen \in Generations, NEW now \in CallTimes,
               activate_reservation(r, gen, now)
        PROVE  reservations'[x].state = "EXPIRED"
    <3>1. CASE Expire(r)
      BY <2>2, <3>1
    <3>2. CASE ~ Expire(r)
      BY <2>0, <2>1, <2>8, <3>2 DEF activate_reservation, Reservation
    <3> QED  BY <3>1, <3>2
  <2>9. ASSUME NEW r \in ReservationIds, NEW gen \in Generations, release_reservation(r, gen)
        PROVE  reservations'[x].state = "EXPIRED"
    BY <2>0, <2>1, <2>9 DEF release_reservation, Reservation
  <2> QED
    BY <2>3, <2>4, <2>5, <2>6, <2>7, <2>8, <2>9
       DEF Next, install_budget, install_policy, Tick, vars
<1> QED
  BY <1>1, <1>2, TypeCorrect, PTL DEF Spec

\* Among amounts of watts there is always a least one.
LEMMA LeastWatts ==
    ASSUME NEW S \in SUBSET Nat, S # {} PROVE \E x \in S : \A y \in S : x <= y
<1> DEFINE less == {pair \in Nat \X Nat : pair[1] < pair[2]}
<1>1. IsWellFoundedOn(less, Nat)
  BY NatLessThanWellFounded DEF OpToRel
<1>2. PICK x \in S : \A y \in S : ~ (<<y, x>> \in less)
  <2> HIDE DEF less
  <2> QED  BY <1>1, WFMin
<1>3. \A y \in S : ~ (y < x)
  BY <1>2
<1> QED  BY <1>3

\* The report of free capacity and the check that reserve makes agree on every
\* chain, overbooked and half-installed ones too.
THEOREM AvailableIsReservableHolds == Spec => []AvailableIsReservable
<1>1. TypeOK => AvailableIsReservable
  <2> SUFFICES ASSUME TypeOK, NEW b \in installed, cfg[b].authoritative,
                      NEW amount \in 1 .. MaxPower
               PROVE  ReserveAccepts(b, amount, cfg[b].generation) <=> amount <= available(b)
    BY DEF AvailableIsReservable
  <2> DEFINE Free == {own_available(x) : x \in chain(b)}
  <2>1. b \in BudgetIds /\ b \in chain(b) /\ chain(b) \subseteq BudgetIds
    BY DEF TypeOK, BudgetTypeOK, chain
  <2>2. \A x \in BudgetIds : own_available(x) \in Nat
    BY DEF TypeOK, BudgetTypeOK, PowerBudget, own_available, booked
  <2>3. amount \in Nat /\ amount > 0
    BY ReservationAssumption
  <2>4. ReserveAccepts(b, amount, cfg[b].generation) <=> chain_has_capacity(b, amount)
    BY DEF ReserveAccepts, CurrentGeneration
  <2>5. CASE chain(b) \subseteq installed
    <3>1. Free \in SUBSET Nat /\ Free # {}
      BY <2>1, <2>2
    <3>2. available(b) = CHOOSE a \in Free : \A f \in Free : a <= f
      BY <2>5 DEF available
    <3>3. available(b) \in Free /\ \A f \in Free : available(b) <= f
      <4> HIDE DEF Free
      <4> QED  BY <3>1, <3>2, LeastWatts
    <3>4. PICK x \in chain(b) : available(b) = own_available(x)
      BY <3>3
    <3>5. chain_has_capacity(b, amount) <=> \A y \in chain(b) : own_available(y) >= amount
      BY <2>5 DEF chain_has_capacity
    <3>6. \A y \in chain(b) : available(b) <= own_available(y)
      BY <3>3
    <3> QED  BY <2>1, <2>2, <2>3, <2>4, <3>4, <3>5, <3>6
  <2>6. CASE ~ (chain(b) \subseteq installed)
    BY <2>3, <2>4, <2>6 DEF chain_has_capacity, available
  <2> QED  BY <2>5, <2>6
<1> QED
  BY <1>1, TypeCorrect, PTL
=============================================================================
