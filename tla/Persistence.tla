---------------------------- MODULE Persistence -----------------------------
(***************************************************************************)
(* Governor::save and Governor::load over the ledger of Reservations: what *)
(* a crash of the process leaves on disk and what a governor that loads it *)
(* holds.                                                                  *)
(*                                                                         *)
(* One thread saves and loads (the coordinator's command loop, or the      *)
(* command line); the others go on calling the reservation interface       *)
(* between its steps.  A crash may come between any two steps.  It is the  *)
(* process that crashes, not the machine: the code flushes to the          *)
(* operating system and never forces anything to disk.                     *)
(*                                                                         *)
(* The record has the policy, the budgets and the reservations; what is    *)
(* booked is not saved and is rebuilt from the reservations.               *)
(***************************************************************************)
EXTENDS Reservations

CONSTANTS
    NoFile,        \* nothing under the name
    Torn,          \* bytes that decode_envelope refuses
    Resolution,    \* units of power in the 1/1000 watt the record keeps
    PlanBudgets,   \* the budgets callers plan on
    MaxSaves,      \* bound on saves
    MaxCalls,      \* bound on calls of the reservation interface
    MaxRestarts    \* bound on crashes

ASSUME PersistenceAssumption ==
    /\ ReservationIds \subseteq Nat \ {0} /\ ReservationIds # {}
    /\ Resolution \in Nat \ {0}
    /\ PlanBudgets \subseteq BudgetIds
    /\ MaxSaves \in Nat \ {0} /\ MaxCalls \in Nat /\ MaxRestarts \in Nat
    /\ NoFile # Torn

VARIABLES
    path,       \* the file under the name save is given
    tmp,        \* the file under that name with ".tmp"
    io,         \* where the saving and loading thread is
    next_id,    \* ReservationId::allocate, a counter of the process
    saves,      \* auxiliary: saves begun; numbers the records
    acked,      \* auxiliary: number of the newest record save returned true for
    calls,      \* auxiliary: calls so far
    restarts    \* auxiliary: crashes so far

diskVars == <<path, tmp>>
counters == <<calls, restarts>>
allVars == <<vars, diskVars, io, next_id, saves, acked, counters>>

Idle == [step |-> "idle"]

\* A mutant: amounts are rounded up.
f64_rounds_up(v) == ((v + Resolution - 1) \div Resolution) * Resolution

\* Powers are kept in thousandths of a watt, cut towards zero.
f64(v) == (v \div Resolution) * Resolution

\* The live reservations are within the limits of their budgets.
LiveWatts(b) == {p \in HeldWatts(b) : reservations[p[1]].state \in LiveStates}
LimitsKept == \A b \in BudgetIds : Cardinality(LiveWatts(b)) <= cfg[b].hard_max

\* Fields seq and fits are auxiliary.
encode_state ==
    [seq |-> saves + 1, fits |-> LimitsKept,
     policy |-> policy,
     installed |-> installed,
     cfg |-> [b \in BudgetIds |-> [cfg[b] EXCEPT !.hard_max = f64(@)]],
     reservations |-> [r \in ReservationIds |->
         [reservations[r] EXCEPT !.requested_power = f64(@), !.reserved_power = f64(@)]]]

Record ==
    [seq: 1 .. MaxSaves, fits: BOOLEAN, policy: PolicyGenerations, installed: SUBSET BudgetIds,
     cfg: [BudgetIds -> PowerBudget], reservations: [ReservationIds -> Reservation]]

\* A file that is missing and one that is refused are no records.
ASSUME FileAssumption == NoFile \notin Record /\ Torn \notin Record

\* Every variable of the governor, the disk and the thread keeps its type.
PersistenceTypeOK ==
    /\ TypeOK
    /\ path \in {NoFile, Torn} \cup Record
    /\ tmp \in {NoFile, Torn} \cup Record
    /\ io \in {Idle} \cup [step: {"encoded", "opened", "written", "renamed", "read"}, record: Record]
    /\ next_id \in Nat
    /\ saves \in 0 .. MaxSaves /\ acked \in 0 .. MaxSaves
    /\ calls \in 0 .. MaxCalls /\ restarts \in 0 .. MaxRestarts

\* A new governor that was saved once, before anything was installed.
PersistenceInit ==
    /\ Init
    /\ saves = 1 /\ acked = 1
    /\ path = [encode_state EXCEPT !.seq = 1] /\ tmp = NoFile /\ io = Idle
    /\ next_id = 1 /\ calls = 0 /\ restarts = 0

-----------------------------------------------------------------------------
(***************************************************************************)
(* Governor::save: encode under the shared lock, then persist_write.       *)
(***************************************************************************)
SaveEncode ==
    /\ io = Idle /\ saves < MaxSaves
    /\ io' = [step |-> "encoded", record |-> encode_state]
    /\ saves' = saves + 1
    /\ UNCHANGED <<vars, diskVars, next_id, acked, counters>>

\* A mutant: the record is written under its final name.
SaveOpen_in_place ==
    /\ io.step = "encoded"
    /\ path' = Torn /\ io' = [io EXCEPT !.step = "opened"]
    /\ UNCHANGED <<vars, tmp, next_id, saves, acked, counters>>

\* Opening truncates the temporary file.  Opening may fail.
SaveOpen ==
    /\ io.step = "encoded"
    /\ \/ tmp' = Torn /\ io' = [io EXCEPT !.step = "opened"]
       \/ tmp' = tmp /\ io' = Idle
    /\ UNCHANGED <<vars, path, next_id, saves, acked, counters>>

\* A write that fails leaves a torn temporary file behind.
SaveWrite ==
    /\ io.step = "opened"
    /\ \/ tmp' = io.record /\ io' = [io EXCEPT !.step = "written"]
       \/ tmp' = tmp /\ io' = Idle
    /\ UNCHANGED <<vars, path, next_id, saves, acked, counters>>

\* The replacement is atomic; when it fails the temporary file is removed.
SaveRename ==
    /\ io.step = "written"
    /\ tmp' = NoFile
    /\ \/ path' = tmp /\ io' = [io EXCEPT !.step = "renamed"]
       \/ path' = path /\ io' = Idle
    /\ UNCHANGED <<vars, next_id, saves, acked, counters>>

SaveReturn ==
    /\ io.step = "renamed"
    /\ acked' = io.record.seq /\ io' = Idle
    /\ UNCHANGED <<vars, diskVars, next_id, saves, counters>>

-----------------------------------------------------------------------------
(***************************************************************************)
(* Governor::load: read and check the file without the lock, then          *)
(* decode_state under it.  A call that reads no acceptable file returns    *)
(* false at once and is a stuttering step.                                 *)
(***************************************************************************)
LoadRead ==
    /\ io = Idle
    /\ path \notin {NoFile, Torn}
    /\ io' = [step |-> "read", record |-> path]
    /\ UNCHANGED <<vars, diskVars, next_id, saves, acked, counters>>

\* Budgets that install accepts.  The record lists them in no particular order
\* and the first refusal ends the load, so those installed before it may be
\* any of them.
Installable(s) == {b \in s.installed : InstallAccepts(b, s.cfg[b])}

InstallBudgets(s, B) ==
    /\ B \subseteq Installable(s)
    /\ Installable(s) = s.installed => B = s.installed
    /\ installed' = installed \cup B
    /\ cfg' = [b \in BudgetIds |-> IF b \in B THEN s.cfg[b] ELSE cfg[b]]
    /\ used' = used

\* Every parent named is installed.  Cycles are excluded by BudgetTree.
validate_budget_hierarchy ==
    \A b \in installed' : cfg'[b].parent \in installed' \cup {NoBudget}

Listed(s) == {r \in ReservationIds : s.reservations[r].state # "NONE"}

\* A mutant: what the record says replaces what is there.
Restorable_overwrites(s) == Listed(s)

\* Reservations are restored by id, up to the first that is there already.
Restorable(s) ==
    {r \in Listed(s) : \A q \in Listed(s) : q <= r => reservations[q].state = "NONE"}

\* A mutant: released reservations claim their watts again.
Reclaims_released(res) == res.state # "EXPIRED" /\ res.reserved_power > 0

\* A mutant: an admitted reservation is overlooked.
Reclaims_not_admitted(res) ==
    res.state \in {"RESERVED", "ACTIVE"} /\ res.reserved_power > 0

\* The states that hold capacity.
Reclaims(res) == res.state \in {"RESERVED", "ADMITTED", "ACTIVE"} /\ res.reserved_power > 0

\* A mutant: the claim is booked without the checks of reserve.
Reclaim_unchecked(res, booking) ==
    [x \in BudgetIds |-> IF x \in chain(res.budget)' THEN booking[x] + res.reserved_power
                                                     ELSE booking[x]]

\* budgets_.reserve of a restored reservation, with what is reserved so far.
\* Its result is ignored.
Reclaim(res, booking) ==
    LET C == chain(res.budget)'
        granted ==
            /\ res.budget \in installed'
            /\ cfg'[res.budget].generation = res.budget_generation
            /\ cfg'[res.budget].authoritative
            /\ \A x \in C : x \in installed' /\
                   booking[x] + used'[x] + res.reserved_power <= cfg'[x].hard_max
    IN  [x \in BudgetIds |->
            IF granted /\ x \in C THEN booking[x] + res.reserved_power ELSE booking[x]]

LastId == CHOOSE n \in ReservationIds : \A r \in ReservationIds : r <= n

\* What is reserved once the restored reservations up to n have claimed theirs.
Booking(s, R) ==
    LET booking[n \in 0 .. LastId] ==
            IF n = 0 THEN reserved
            ELSE IF n \in R /\ Reclaims(s.reservations[n])
                 THEN Reclaim(s.reservations[n], booking[n - 1])
                 ELSE booking[n - 1]
    IN  booking

RestoreReservations(s, R) ==
    /\ reserved' = Booking(s, R)[LastId]
    /\ reservations' = [r \in ReservationIds |->
           IF r \in R THEN s.reservations[r] ELSE reservations[r]]
    /\ index' = [r \in ReservationIds |->
           IF r \in R THEN s.reservations[r].state ELSE index[r]]

\* The policy is replaced whatever its generation.  A load that fails half way
\* leaves what it did before.
decode_state(s) ==
    /\ policy' = s.policy
    /\ \E B \in SUBSET BudgetIds : InstallBudgets(s, B)
    /\ LET R == IF Installable(s) = s.installed /\ validate_budget_hierarchy
                THEN Restorable(s) ELSE {}
       IN  RestoreReservations(s, R)

LoadApply ==
    /\ io.step = "read"
    /\ \E s \in {io.record} : decode_state(s)
    /\ io' = Idle
    /\ UNCHANGED <<clock, diskVars, next_id, saves, acked, counters>>

-----------------------------------------------------------------------------
\* The allocator moves on whether or not the id it gave is taken.
plan(b, power, pol, now) ==
    /\ calls < MaxCalls /\ calls' = calls + 1
    /\ next_id \in ReservationIds /\ next_id' = next_id + 1
    /\ \/ plan_reservation(next_id, b, power, pol, now)
       \/ reservations[next_id].state # "NONE" /\ UNCHANGED vars
    /\ UNCHANGED <<diskVars, io, saves, acked, restarts>>

Call ==
    /\ calls < MaxCalls /\ calls' = calls + 1
    /\ \/ \E b \in BudgetIds : \E d \in Definitions(b) : install_budget(b, d)
       \/ \E gen \in PolicyGenerations : install_policy(gen)
       \/ \E r \in ReservationIds, pol \in PolicyGenerations : validate_reservation(r, pol)
       \/ \E r \in ReservationIds, gen \in Generations, now \in CallTimes :
              \/ reserve_reservation(r, gen, now)
              \/ activate_reservation(r, gen, now)
       \/ \E r \in ReservationIds, now \in CallTimes : admit_reservation(r, now)
       \/ \E r \in ReservationIds, gen \in Generations : release_reservation(r, gen)
       \/ Tick
    /\ UNCHANGED <<diskVars, io, next_id, saves, acked, restarts>>

\* A new process has an empty governor and an allocator that starts again; the
\* files stay as they are.
Restart ==
    /\ restarts < MaxRestarts
    /\ restarts' = restarts + 1
    /\ installed' = {} /\ cfg' = [b \in BudgetIds |-> NoDefinition]
    /\ reserved' = [b \in BudgetIds |-> 0] /\ used' = [b \in BudgetIds |-> 0]
    /\ reservations' = [r \in ReservationIds |-> NoReservation]
    /\ index' = [r \in ReservationIds |-> "NONE"]
    /\ policy' = 0 /\ io' = Idle /\ next_id' = 1
    /\ UNCHANGED <<clock, diskVars, saves, acked, calls>>

PersistenceNext ==
    \/ SaveEncode \/ SaveOpen \/ SaveWrite \/ SaveRename \/ SaveReturn
    \/ LoadRead \/ LoadApply
    \/ \E b \in PlanBudgets, power \in Powers, pol \in PlannedPolicies, now \in CallTimes :
            plan(b, power, pol, now)
    \/ Call
    \/ Restart

PersistenceSpec == PersistenceInit /\ [][PersistenceNext]_allVars

-----------------------------------------------------------------------------
\* Once save has returned true the file is complete and as new as what was
\* saved ("Writes are atomic" of persistence.hpp): no crash or failure between
\* the steps of a later save puts a torn or an older record in its place.
AckedSaveSurvives ==
    path \notin {NoFile, Torn} /\ path.seq >= acked

\* The budgets never carry watts that no reservation holds: whatever a load
\* restores, in part or on top of live reservations, it claims nothing for a
\* reservation that is over and nothing twice (decode_state and reserve).
NoPhantomReservation == \A b \in BudgetIds : reserved[b] <= Cardinality(HeldWatts(b))

\* The reservation behind an id stays the one it was as long as the process
\* lives: ids allocated anew after a restart never replace a restored
\* reservation, and a load never replaces one planned before it.
Identity(r) ==
    <<reservations[r].budget, reservations[r].requested_power, reservations[r].policy_generation>>

IdentityIsStable ==
    [][restarts' = restarts =>
          \A r \in ReservationIds : reservations[r].state # "NONE" => Identity(r)' = Identity(r)]_allVars

\* Nothing is booked past a limit by recovering either: what a load raises
\* above what it was is within the hard_max that is in force after it.
CapacityGateAcrossLoads ==
    [][\A b \in BudgetIds : booked(b)' > booked(b) => booked(b)' <= cfg'[b].hard_max]_allVars

(***************************************************************************)
(* What a round trip keeps.  A record is coherent when no budget was       *)
(* re-issued since its reservations were made and none is overbooked.      *)
(***************************************************************************)
Fresh == installed = {} /\ \A r \in ReservationIds : reservations[r].state = "NONE"

Coherent(s) ==
    /\ s.fits
    /\ \A b \in s.installed : s.cfg[b].parent \in s.installed \cup {NoBudget}
    /\ \A r \in ReservationIds : Reclaims(s.reservations[r]) =>
          /\ s.cfg[s.reservations[r].budget].generation = s.reservations[r].budget_generation
          /\ s.cfg[s.reservations[r].budget].authoritative

\* A coherent record that is loaded into a new governor brings back every
\* reservation, and every budget is charged with exactly the watts of those
\* that still hold capacity, in whatever order they claim them and although
\* amounts and limits were cut to thousandths of a watt separately.
RoundTrip ==
    [][io.step = "read" /\ io' = Idle /\ Fresh /\ restarts' = restarts
          /\ Coherent(io.record) =>
          /\ reservations' = io.record.reservations
          /\ \A b \in BudgetIds : reserved'[b] = Cardinality(LiveWatts(b)')]_allVars

\* "a restored, non-released reservation re-claims capacity" (governor.hpp):
\* each budget is charged at least with the reservations that hold capacity.
RestoredReclaims == \A b \in BudgetIds : reserved[b] >= Cardinality(LiveWatts(b))
=============================================================================
