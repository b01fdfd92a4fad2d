---------------------------- MODULE Reservations ----------------------------
(***************************************************************************)
(* The governor's reservation interface: the lifecycle                     *)
(*   plan -> validate -> reserve -> admit -> activate -> release           *)
(* of the ReservationManager over the BudgetManager of PowerBudgets, with  *)
(* the secondary index and the installation of budgets and policies.       *)
(*                                                                         *)
(* Every governor method runs under one exclusive lock, so each is one     *)
(* action; threads interleave between calls.  A call that is rejected      *)
(* without changing anything is a stuttering step and has no action.  The  *)
(* caller supplies the id, the generation it believes current and a        *)
(* timestamp.                                                              *)
(***************************************************************************)
EXTENDS PowerBudgets

CONSTANTS
    ReservationIds,       \* ids ReservationId::allocate hands out
    Powers,               \* the requested_power values
    MaxPower,             \* the largest of them
    MaxPolicyGeneration,  \* bound on policy generations
    PlannedPolicies,      \* the policy generations callers plan under
    Validity,             \* validity window of a reservation
    MaxTime,              \* bound on the clock
    CallLag               \* how old a caller's timestamp may be when its call runs

ASSUME ReservationAssumption ==
    /\ IsFiniteSet(ReservationIds)
    /\ MaxPower \in Nat
    /\ Powers \subseteq 0 .. MaxPower
    /\ MaxPolicyGeneration \in Nat
    /\ PlannedPolicies \subseteq 0 .. MaxPolicyGeneration
    /\ Validity \in Nat
    /\ MaxTime \in Nat \ {0}
    /\ CallLag \in Nat

VARIABLES
    reservations,   \* map_; state "NONE" for an id not yet allocated
    index,          \* ReservationIndex: the state each id is listed under
    policy,         \* generation of the governor's current policy
    clock           \* the steady clock callers read

vars == <<budgetVars, reservations, index, policy, clock>>

LiveStates == {"PLANNED", "VALIDATED", "RESERVED", "ADMITTED", "ACTIVE"}
ReservationState == LiveStates \cup {"RELEASED", "EXPIRED"}
PolicyGenerations == 0 .. MaxPolicyGeneration

Reservation ==
    [state: ReservationState \cup {"NONE"},
     budget: BudgetIds \cup {NoBudget},
     requested_power: 0 .. MaxPower,
     reserved_power: 0 .. MaxPower,
     policy_generation: PolicyGenerations,
     budget_generation: Generations,
     created: 0 .. MaxTime]

NoReservation ==
    [state |-> "NONE", budget |-> NoBudget, requested_power |-> 0, reserved_power |-> 0,
     policy_generation |-> 0, budget_generation |-> 0, created |-> 0]

\* Every variable of the governor's reservation state keeps its type.
TypeOK ==
    /\ BudgetTypeOK
    /\ reservations \in [ReservationIds -> Reservation]
    /\ index \in [ReservationIds -> ReservationState \cup {"NONE"}]
    /\ policy \in PolicyGenerations
    /\ clock \in 1 .. MaxTime

Init ==
    /\ BudgetInit
    /\ reservations = [r \in ReservationIds |-> NoReservation]
    /\ index = [r \in ReservationIds |-> "NONE"]
    /\ policy = 0
    /\ clock = 1

-----------------------------------------------------------------------------
\* A caller reads the clock before it waits for the lock, so its timestamp may
\* be old when the call runs.  Time 0, the Timestamp() of the coordinator, is
\* among them when CallLag reaches back that far.
CallTimes == {t \in 0 .. clock : clock - t <= CallLag}

\* Elapsed time saturates at zero; a zero creation time never expires.
expired(r, now) ==
    /\ reservations[r].created # 0
    /\ now - reservations[r].created > Validity

\* A mutant: an id that is listed already keeps its place in the index.
update_index_state_once(r, state) ==
    index' = IF index[r] = "NONE" THEN [index EXCEPT ![r] = state] ELSE index

\* A successful call re-lists the reservation; an expiry does not.
update_index_state(r, state) == index' = [index EXCEPT ![r] = state]

Expire(r) ==
    /\ reservations' = [reservations EXCEPT ![r].state = "EXPIRED"]
    /\ UNCHANGED <<budgetVars, index>>

-----------------------------------------------------------------------------
\* The policy generation is the caller's; the governor does not look at it.
plan_reservation(r, b, power, pol, now) ==
    /\ reservations[r].state = "NONE"
    /\ reservations' = [reservations EXCEPT ![r] =
           [state |-> "PLANNED", budget |-> b, requested_power |-> power,
            reserved_power |-> 0, policy_generation |-> pol,
            budget_generation |-> 0, created |-> now]]
    /\ update_index_state(r, "PLANNED")
    /\ UNCHANGED <<budgetVars, policy, clock>>

\* The caller's policy generation is compared with the reservation's own,
\* not with the governor's current policy.
validate_reservation(r, pol) ==
    /\ reservations[r].state = "PLANNED"
    /\ reservations[r].policy_generation = pol
    /\ reservations' = [reservations EXCEPT ![r].state = "VALIDATED"]
    /\ update_index_state(r, "VALIDATED")
    /\ UNCHANGED <<budgetVars, policy, clock>>

reserve_reservation(r, gen, now) ==
    LET res == reservations[r] IN
    /\ res.state \in {"PLANNED", "VALIDATED"}
    /\ \/ expired(r, now) /\ Expire(r)
       \/ /\ ~ expired(r, now)
          /\ ReserveAccepts(res.budget, res.requested_power, gen)
          /\ ReserveEffect(res.budget, res.requested_power)
          /\ reservations' = [reservations EXCEPT
                 ![r].state = "RESERVED", ![r].budget_generation = gen,
                 ![r].reserved_power = res.requested_power]
          /\ update_index_state(r, "RESERVED")
    /\ UNCHANGED <<policy, clock>>

admit_reservation(r, now) ==
    /\ reservations[r].state = "RESERVED"
    /\ \/ expired(r, now) /\ Expire(r)
       \/ /\ ~ expired(r, now)
          /\ reservations' = [reservations EXCEPT ![r].state = "ADMITTED"]
          /\ update_index_state(r, "ADMITTED")
          /\ UNCHANGED budgetVars
    /\ UNCHANGED <<policy, clock>>

activate_reservation(r, gen, now) ==
    LET res == reservations[r] IN
    /\ res.state \in {"ADMITTED", "RESERVED"}
    /\ \/ expired(r, now) /\ Expire(r)
       \/ /\ ~ expired(r, now)
          /\ res.budget_generation = gen
          /\ ActivateAccepts(res.budget, res.requested_power, gen)
          /\ ActivateEffect(res.budget, res.requested_power)
          /\ reservations' = [reservations EXCEPT ![r].state = "ACTIVE"]
          /\ update_index_state(r, "ACTIVE")
    /\ UNCHANGED <<policy, clock>>

\* The generation is the caller's, not the one the reservation was made under.
\* Usage is taken back for every reservation that holds capacity, activated or
\* not, and the outcome of doing so is ignored.
release_reservation(r, gen) ==
    LET res == reservations[r] IN
    /\ res.state \in LiveStates
    /\ ReleaseAccepts(res.budget, res.reserved_power, gen)
    /\ ReleaseEffect(res.budget, res.reserved_power)
    /\ IF res.state \in {"ACTIVE", "ADMITTED", "RESERVED"}
       THEN TryDeactivate(res.budget, res.reserved_power, gen)
       ELSE used' = used
    /\ reservations' = [reservations EXCEPT ![r].state = "RELEASED"]
    /\ update_index_state(r, "RELEASED")
    /\ UNCHANGED <<installed, cfg, policy, clock>>

install_budget(b, d) ==
    /\ Install(b, d)
    /\ UNCHANGED <<reservations, index, policy, clock>>

install_policy(gen) ==
    /\ gen > policy
    /\ policy' = gen
    /\ UNCHANGED <<budgetVars, reservations, index, clock>>

Tick ==
    /\ clock < MaxTime
    /\ clock' = clock + 1
    /\ UNCHANGED <<budgetVars, reservations, index, policy>>

Next ==
    \/ \E b \in BudgetIds : \E d \in Definitions(b) : install_budget(b, d)
    \/ \E gen \in PolicyGenerations : install_policy(gen)
    \/ \E r \in ReservationIds, b \in BudgetIds, power \in Powers,
          pol \in PlannedPolicies, now \in CallTimes :
            plan_reservation(r, b, power, pol, now)
    \/ \E r \in ReservationIds, pol \in PolicyGenerations : validate_reservation(r, pol)
    \/ \E r \in ReservationIds, gen \in Generations, now \in CallTimes :
            reserve_reservation(r, gen, now)
    \/ \E r \in ReservationIds, now \in CallTimes : admit_reservation(r, now)
    \/ \E r \in ReservationIds, gen \in Generations, now \in CallTimes :
            activate_reservation(r, gen, now)
    \/ \E r \in ReservationIds, gen \in Generations : release_reservation(r, gen)
    \/ Tick

Spec == Init /\ [][Next]_vars

-----------------------------------------------------------------------------
(***************************************************************************)
(* What each budget is charged with, watt by watt: the pair <<r, w>> is    *)
(* the w-th watt that reservation r holds on budget b.  Every state but    *)
(* RELEASED keeps what was reserved, EXPIRED included.                     *)
(***************************************************************************)
Holders(b) ==
    {r \in ReservationIds :
        /\ reservations[r].reserved_power > 0
        /\ reservations[r].state # "RELEASED"
        /\ b \in chain(reservations[r].budget)}

HeldWatts(b) ==
    {p \in Holders(b) \X (1 .. MaxPower) : p[2] <= reservations[p[1]].reserved_power}

\* The reserved counter of every budget (reserve and release of budget.hpp) is
\* exactly the watts of the reservations below it that were reserved and not
\* released: no interleaving of calls books a reservation twice, releases it
\* twice or frees part of it.
ReservedExact == \A b \in BudgetIds : reserved[b] = Cardinality(HeldWatts(b))

\* A reservation that holds capacity can always be given back: release under
\* the budget's current generation is never refused as an over-release or for
\* a missing ancestor, whatever was re-issued since it was reserved.
HeldIsReleasable ==
    \A r \in ReservationIds :
        LET res == reservations[r] IN
        res.state \in {"RESERVED", "ADMITTED", "ACTIVE"} =>
            ReleaseAccepts(res.budget, res.reserved_power, cfg[res.budget].generation)

\* A parent's reserved counter covers those of its children together (the
\* second invariant in the header of budget.hpp), also while budgets are
\* re-issued and reservations released in any order.
Children(p) == {b \in installed : cfg[b].parent = p}

ChildrenWatts(p) ==
    {c \in Children(p) \X (1 .. MaxPower * Cardinality(ReservationIds)) :
        c[2] <= reserved[c[1]]}

ParentCoversChildren ==
    \A p \in installed : Cardinality(ChildrenWatts(p)) <= reserved[p]

\* A call that raises what is booked on any budget leaves that budget within
\* its hard_max (first invariant in the header of budget.hpp), although checks
\* and additions go through the whole chain and a re-issue may have lowered
\* the limit below what was booked already.
CapacityGate ==
    [][\A b \in BudgetIds : booked(b)' > booked(b) => booked(b)' <= cfg'[b].hard_max]_vars

\* A reservation becomes ACTIVE only under the generation of its budget that
\* it was reserved under: a re-issue between reserve and activate stops it
\* ("stale activation" of reservation.hpp).
NoStaleActivation ==
    [][\A r \in ReservationIds :
          reservations'[r].state = "ACTIVE" /\ reservations[r].state # "ACTIVE" =>
              reservations[r].budget_generation = cfg[reservations[r].budget].generation]_vars

\* What budget_available reports is what reserve accepts: a positive amount
\* is refused for lack of capacity exactly when it exceeds the reported watts,
\* on overbooked and half-installed chains too.
AvailableIsReservable ==
    \A b \in installed :
        LET free == available(b) IN
        cfg[b].authoritative =>
            \A amount \in 1 .. MaxPower :
                ReserveAccepts(b, amount, cfg[b].generation) <=> amount <= free

\* The index lists a reservation under its state, except that it never hears
\* of an expiry: a reservation it lists elsewhere has expired.
IndexLagsOnlyOnExpiry ==
    \A r \in ReservationIds :
        index[r] # reservations[r].state => reservations[r].state = "EXPIRED"

-----------------------------------------------------------------------------
(***************************************************************************)
(* What makes ReservedExact inductive: a reservation holds nothing before  *)
(* it is reserved, and the chain it was charged on stays as it was.        *)
(***************************************************************************)

\* A re-issue does not move a budget under another parent: install accepts
\* such a definition and then releases walk another chain than reserves did.
StableParents == \A b \in BudgetIds : \A p, q \in ParentsOf[b] : p = q

ParentsAsOffered == \A b \in installed : cfg[b].parent \in ParentsOf[b]

UnreservedHoldsNothing ==
    \A r \in ReservationIds :
        reservations[r].state \in {"NONE", "PLANNED", "VALIDATED"} =>
            reservations[r].reserved_power = 0

\* Reserved and not released; an expired reservation only if it had reserved.
Charged(r) ==
    \/ reservations[r].state \in {"RESERVED", "ADMITTED", "ACTIVE"}
    \/ reservations[r].state = "EXPIRED" /\ reservations[r].reserved_power > 0

ChargedChainsInstalled ==
    \A r \in ReservationIds : Charged(r) =>
        /\ reservations[r].budget \in BudgetIds
        /\ chain(reservations[r].budget) \subseteq installed

LedgerInv ==
    /\ TypeOK
    /\ ParentsAsOffered
    /\ UnreservedHoldsNothing
    /\ ChargedChainsInstalled
    /\ ReservedExact

-----------------------------------------------------------------------------
(* Statements of the repository's comments that the code does not keep.    *)

\* "guard against ... leaked reservations" (reservation.hpp): the watts
\* reserved on a budget belong to reservations that are still live.
NoLeakedReservation ==
    \A b \in BudgetIds :
        reserved[b] = Cardinality({p \in HeldWatts(b) : reservations[p[1]].state \in LiveStates})

\* "A reservation that was activated has attributed usage; release removes it
\* only once" (reservation.hpp): the usage attributed to a budget is that of
\* its ACTIVE reservations.
UsageIsActive ==
    \A b \in BudgetIds :
        used[b] = Cardinality({p \in HeldWatts(b) : reservations[p[1]].state = "ACTIVE"})
=============================================================================
