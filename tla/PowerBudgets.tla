---------------------------- MODULE PowerBudgets ----------------------------
(***************************************************************************)
(* The BudgetManager: a tree of power budgets and, for each budget, the    *)
(* watts reserved and the watts attributed as used.  Every mutation walks  *)
(* the ancestor chain of the budget it names and is all or nothing.        *)
(*                                                                         *)
(* This module has the state of the manager and its operations as pairs of *)
(* a condition (the checks that make the C++ method return false) and an   *)
(* effect.  Module Reservations calls them under the governor's lock.      *)
(*                                                                         *)
(* Watts are natural numbers.  The code compares doubles with a slack of   *)
(* 1e-9; on whole watts  avail + 1e-9 < amount  is  avail < amount  and    *)
(* booked + 1e-9 > max  is  booked >= max.                                 *)
(***************************************************************************)
EXTENDS Integers, FiniteSets

CONSTANTS
    BudgetIds,            \* the budget ids that may be installed
    NoBudget,             \* std::nullopt of PowerBudget::parent
    ParentsOf,            \* ParentsOf[b]: the parents a definition of b may name
    HardMaxes,            \* HardMaxes[b]: the hard_max values a definition of b may carry
    Authorities,          \* the authoritative flags a definition may carry
    MaxBudgetGeneration   \* bound on budget generations

ASSUME BudgetAssumption ==
    /\ IsFiniteSet(BudgetIds)
    /\ NoBudget \notin BudgetIds
    /\ ParentsOf \in [BudgetIds -> SUBSET (BudgetIds \cup {NoBudget})]
    /\ HardMaxes \in [BudgetIds -> SUBSET Nat]
    /\ Authorities \subseteq BOOLEAN
    /\ MaxBudgetGeneration \in Nat

\* Budgets form trees that are at most as deep as the chain loop of the code
\* goes (MaxDepth).  install does not check it: see the README.
MaxDepth == 64

ASSUME BudgetTree ==
    \E depth \in [BudgetIds -> 0 .. MaxDepth] :
        \A b \in BudgetIds : \A p \in ParentsOf[b] \ {NoBudget} : depth[p] < depth[b]

VARIABLES
    installed,   \* the keys of states_
    cfg,         \* State::cfg of an installed budget
    reserved,    \* State::reserved
    used         \* State::used

budgetVars == <<installed, cfg, reserved, used>>

Generations == 0 .. MaxBudgetGeneration   \* 0 is the null generation

PowerBudget ==
    [generation: Generations, parent: BudgetIds \cup {NoBudget},
     hard_max: Nat, authoritative: BOOLEAN]

\* The definitions of budget b that callers install.
Definitions(b) ==
    [generation: Generations \ {0}, parent: ParentsOf[b],
     hard_max: HardMaxes[b], authoritative: Authorities]

NoDefinition ==
    [generation |-> 0, parent |-> NoBudget, hard_max |-> 0, authoritative |-> FALSE]

BudgetInit ==
    /\ installed = {}
    /\ cfg = [b \in BudgetIds |-> NoDefinition]
    /\ reserved = [b \in BudgetIds |-> 0]
    /\ used = [b \in BudgetIds |-> 0]

-----------------------------------------------------------------------------
(***************************************************************************)
(* The ancestor chain.  The loop starts at b and follows parent links; it  *)
(* lists an id before it looks the id up, so the chain may end in a budget *)
(* that is not installed.  As a set this is the least set that contains b  *)
(* and is closed under the parent link of installed budgets.  The loop's   *)
(* cut-off after 65 entries never acts, by BudgetTree.                     *)
(***************************************************************************)
Parent(b) == IF b \in installed THEN cfg[b].parent ELSE NoBudget

ParentClosed(S) == \A y \in S : Parent(y) \in BudgetIds => Parent(y) \in S

chain(b) ==
    LET Closed == {S \in SUBSET BudgetIds : b \in S /\ ParentClosed(S)}
    IN  {x \in BudgetIds : \A S \in Closed : x \in S}

booked(b) == reserved[b] + used[b]

\* A mutant: free capacity that overlooks the watts already in use.
own_available_ignores_usage(b) ==
    IF reserved[b] <= cfg[b].hard_max THEN cfg[b].hard_max - reserved[b] ELSE 0

own_available(b) ==
    IF booked(b) <= cfg[b].hard_max THEN cfg[b].hard_max - booked(b) ELSE 0

\* A mutant: an ancestor that is not installed is skipped, not refused.
chain_has_capacity_skips_missing(b, amount) ==
    \A x \in chain(b) \cap installed : own_available(x) >= amount

chain_has_capacity(b, amount) ==
    \A x \in chain(b) : x \in installed /\ own_available(x) >= amount

\* A mutant: the caller's generation is not compared.
CurrentGeneration_unchecked(b, gen) == b \in installed

\* The budget exists and the caller's generation is its current one.
CurrentGeneration(b, gen) == b \in installed /\ cfg[b].generation = gen

\* Additions and subtractions in the code go through Watts::clamped, which cuts
\* at zero; every subtraction is made after CoversAlong, so it never does.
AddAlong(f, b, amount) ==
    LET C == chain(b) IN [x \in BudgetIds |-> IF x \in C THEN f[x] + amount ELSE f[x]]

SubtractAlong(f, b, amount) ==
    LET C == chain(b) IN [x \in BudgetIds |-> IF x \in C THEN f[x] - amount ELSE f[x]]

CoversAlong(f, b, amount) ==
    \A x \in chain(b) : x \in installed /\ f[x] >= amount

-----------------------------------------------------------------------------
(***************************************************************************)
(* The operations.  A call whose condition fails returns false and leaves  *)
(* the manager unchanged.                                                  *)
(***************************************************************************)
InstallAccepts(b, d) == b \in installed => d.generation > cfg[b].generation

\* A mutant: a re-issue starts the accounting afresh.
Install_forgets_booked(b, d) ==
    /\ InstallAccepts(b, d)
    /\ installed' = installed \cup {b}
    /\ cfg' = [cfg EXCEPT ![b] = d]
    /\ reserved' = [reserved EXCEPT ![b] = 0]
    /\ used' = [used EXCEPT ![b] = 0]

\* A new id starts with empty accounting, a re-issue keeps what is booked.
Install(b, d) ==
    /\ InstallAccepts(b, d)
    /\ installed' = installed \cup {b}
    /\ cfg' = [cfg EXCEPT ![b] = d]
    /\ reserved' = [reserved EXCEPT ![b] = IF b \in installed THEN @ ELSE 0]
    /\ used' = [used EXCEPT ![b] = IF b \in installed THEN @ ELSE 0]

\* Only the leaf's generation and authority are looked at.
ReserveAccepts(b, amount, gen) ==
    /\ CurrentGeneration(b, gen)
    /\ cfg[b].authoritative
    /\ chain_has_capacity(b, amount)

\* A mutant: the ancestors are checked and not charged.
ReserveEffect_leaf_only(b, amount) ==
    /\ reserved' = [reserved EXCEPT ![b] = @ + amount]
    /\ UNCHANGED <<installed, cfg, used>>

ReserveEffect(b, amount) ==
    /\ reserved' = AddAlong(reserved, b, amount)
    /\ UNCHANGED <<installed, cfg, used>>

\* What the reservation itself has reserved is not credited: the amount must
\* be free on top of it.
ActivateAccepts(b, amount, gen) ==
    /\ CurrentGeneration(b, gen)
    /\ chain_has_capacity(b, amount)

ActivateEffect(b, amount) ==
    /\ used' = AddAlong(used, b, amount)
    /\ UNCHANGED <<installed, cfg, reserved>>

ReleaseAccepts(b, amount, gen) ==
    /\ CurrentGeneration(b, gen)
    /\ CoversAlong(reserved, b, amount)

ReleaseEffect(b, amount) == reserved' = SubtractAlong(reserved, b, amount)

\* A mutant: usage is taken back without the underflow check.
DeactivateAccepts_unchecked(b, amount, gen) == CurrentGeneration(b, gen)

DeactivateAccepts(b, amount, gen) ==
    /\ CurrentGeneration(b, gen)
    /\ CoversAlong(used, b, amount)

\* Callers of deactivate ignore its result.
TryDeactivate(b, amount, gen) ==
    IF DeactivateAccepts(b, amount, gen)
    THEN used' = SubtractAlong(used, b, amount)
    ELSE used' = used

-----------------------------------------------------------------------------
\* A mutant: the report overlooks the ancestors.
available_own_only(b) == own_available(b)

\* What the governor reports as free on b, bounded by every ancestor.
available(b) ==
    LET C == chain(b)
        Free == {own_available(x) : x \in C}
    IN  IF C \subseteq installed
        THEN CHOOSE a \in Free : \A f \in Free : a <= f
        ELSE 0

BudgetTypeOK ==
    /\ installed \subseteq BudgetIds
    /\ cfg \in [BudgetIds -> PowerBudget]
    /\ reserved \in [BudgetIds -> Nat]
    /\ used \in [BudgetIds -> Nat]

=============================================================================
