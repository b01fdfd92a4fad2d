# Power Governor: TLA+ models, model checking and proofs

This directory verifies the core of Power Governor (`src/`), a C++ library that
decides how much power accelerator workloads may use. It holds TLA+ modules for the
governor's components, TLC configurations that check them on small instances, and
TLAPS proofs for every value of the constants. `PROJECT.json` lists components,
runs, mutants, the map from definitions to source lines, findings, hazards and
theorems. All paths below are relative to the repository; `include/` stands for
`src/include/powergovernor/`.

## 1. Inventory

A `Governor` (`include/governor.hpp`) owns everything and guards it with one
`std::shared_mutex`. Every method that changes the state takes it exclusively, with
two deliberate exceptions: `poll` samples the backend, and `set_power_limit` drives
it, without the lock. Callers are threads of one process; in the distributed tool a
coordinator process has one thread per worker connection, all of them calling one
governor.

| Component | State | Operations | Correct when |
|---|---|---|---|
| Budget hierarchy (`budget.hpp`) | per budget: definition, watts reserved, watts used | install, reserve, activate, deactivate, release, available, self-check | nothing is booked beyond a limit, counters equal what is held, a parent covers its children |
| Reservation lifecycle (`reservation.hpp`) | per reservation: state, budget, watts, generations, creation time | plan, validate, reserve, admit, activate, release, account_energy, restore | no double or leaked capacity, no stale activation, always releasable |
| Governor interface (`governor.hpp`, `index.hpp`, `policy.hpp`) | current policy, index of reservations | the locked methods around the above, install_policy | index agrees with the reservations, nothing rolls back |
| Decision engine (`decision_engine.hpp`) | last verdict and its time | evaluate, reset_hysteresis | an ALLOW is safe, limits respect every ceiling, no oscillation |
| Thermal governor (`thermal.hpp`) | state, confirmation count, last temperature | observe, headroom, permitted_power, reset | constrained exactly after confirmed hot readings, recovers with hysteresis |
| Telemetry (`governor.hpp`, `freshness.hpp`, `energy.hpp`) | latest sample, its time, power window, hardware cap | poll, observe_backend, invalidate | what is taken for fresh is recent |
| Energy and burst (`energy.hpp`, `burst.hpp`) | meters, windows, burst credit | add, record, consume, refill, save and load of meters | bursts bounded over time, queries agree with consumption, no energy invented |
| Persistence (`persistence.hpp`, save/load of `governor.hpp`) | a file | save, load | what is recovered is what was saved, or nothing |
| Coordinator (`src/tools/distributed.cpp`) | epoch, boots, observation marks, one governor | register, observe, reserve, activate, release, decide, roll epoch | stale workers change nothing |
| Authority (`authority.hpp`) | marks per kind of generation | check, advance | as above; the governor never calls check |
| Backend (`backend.hpp`, `backend_cuda.hpp`, `src/src/`) | applied limit | sample, set and restore the limit | external hardware |
| Wire protocol (`protocol.hpp`, `net.hpp`) | none | encode, decode, send, receive | messages are records of the coordinator model; bytes are left out |
| Domains, history, classes, performance states, units, ids, command line | static tables and logs | | no decision depends on them |

How they interact: the reservation manager calls the budget manager for every change
of capacity; a decision reads the budgets' free watts, the thermal state, the
telemetry's freshness and the policy, and changes only the hysteresis; ingestion
feeds the thermal governor, the power window and the hardware cap that decisions
read; loading a file rebuilds budgets, reservations and the policy and drops live
telemetry.

What is hard here:

- threads interleave between governor calls, so the budget, the policy or the
  telemetry a caller looked at may have changed when its next call runs;
- timestamps are the caller's, read before it waits for the lock, so calls run in
  another order than their timestamps; the arithmetic on them saturates;
- `poll` is three steps with foreign steps in between, and ingestion may throw
  halfway;
- a budget is re-issued while reservations hold capacity under its old generation;
- a reservation expires between two calls of its lifecycle;
- a save is five steps and a crash may come between any two; a load takes effect piece
  by piece and keeps the pieces when it fails;
- the coordinator checks its fence under one lock and calls the governor without it;
  workers die, are replaced, and old messages are sent again; the acknowledgement of a
  reservation may be lost;
- windows that refill by time meet late timestamps, and queries that move the window.

`hazards` of `PROJECT.json` lists each at its line with the properties that cover it.

## 2. Modules

| Module | Models | Extends |
|---|---|---|
| `PowerBudgets` | `BudgetManager` as conditions and effects | |
| `Reservations` | `ReservationManager`, the index, the governor's reservation, budget and policy methods | `PowerBudgets` |
| `Decisions` | `DecisionEngine` and `Governor::reset_hysteresis` | |
| `Thermal` | `ThermalGovernor` as functions of its state and a reading | |
| `ThermalGovernor` | the classifier fed with sequences of readings, and its reference | `Thermal` |
| `Telemetry` | `DeviceState`, `poll`, `observe_backend`, `ingest_locked`, invalidation, freshness | `Thermal` |
| `DecideFor` | `decide_locked`: the input put together from device, policy and ledger, and the rules' verdict | `Telemetry`, instance of `Decisions` |
| `CapacityLedger` | abstract: claims, accounts, limits | |
| `LedgerRefinement` | the mapping under which `Reservations` implements `CapacityLedger` | `Reservations` |
| `Persistence` | `save`, `load`, `encode_state`, `decode_state`, `persist_write`, `persist_read`, crashes | `Reservations` |
| `Coordinator` | `src/tools/distributed.cpp`: workers, connections, `handle_worker`, operator | `Reservations` |
| `Accounting` | `BurstBudget`, `EnergyWindowAccount`, `PowerWindow`, `EnergyMeter`, `account_energy` | |
| `MC...` | instances for TLC | the module they check |
| `...Proofs` | TLAPS proofs | the module they prove about |

Definitions carry the names of the code where TLA+ allows it.

**PowerBudgets, Reservations.** `installed`, `cfg`, `reserved` and `used` are the
`BudgetManager::states_` map; `reservations` is `map_`, with state `"NONE"` for an id
not yet allocated; `index` is the state under which `ReservationIndex` lists an id.
Each governor method is one action, since it runs under the exclusive lock. A call
that is refused without changing anything is a stuttering step; a call that is
refused but expires the reservation is a disjunct of its action (`Expire`), because
it does change the state. `chain` is a set: the loop of the code lists the least set
closed under parent links. That is exact for budgets that form trees no deeper than
the loop goes, which `BudgetTree` assumes (`install` does not check it). Capacity is
whole watts; the code's slack of 1e-9 is below that resolution. Generations start at 1:
`install` would accept generation 0, under which `release` would refuse
(`include/reservation.hpp:250`), but no caller installs it.

**Decisions.** `Rule` is the chain of rules of `evaluate` in the order of the code,
`Holds` the hysteresis at its end, `make_verdict` what is stored. The policy is a set
of constants. `cause` is auxiliary: the last verdict a rule gave of its own that
restricted, until hysteresis lets it go or is reset. A burst ALLOW does not end it but
marks it as bypassed, so that what follows the burst is still seen against it.

**Thermal, ThermalGovernor.** Whole degrees. `readings` is auxiliary: the history
against which the classifier is compared. The governor never calls `observe` without
a temperature, so that branch is left out.

**Telemetry.** `poll` is `PollStamp` (the clock), `PollSample` (the backend, no lock)
and `PollIngest` (under the lock). `PowerWindow::record` throws when its timestamp is
older than the newest one in the window; by then `latest` and `last_observed` are
overwritten and the cap and the thermal state are not (`IngestPower`,
`IngestTemperature`). `taken` of a sample and `heated` are auxiliary: when the
reading was really taken. `Timestamp()` as the time of a call is left out here (only
the coordinator passes it).

**DecideFor.** A decision changes only the hysteresis, so the composition needs no state
of its own: `decide_input` is the `DecisionInput` of `decide_locked` for a request, with
the caps of the policy and the ledger's answer as parameters, and `decide_locked` what
the rules of `Decisions` say of it. Hysteresis can only replace an ALLOW by a
restriction (`EvaluateSound` of `DecisionsProofs`), so what holds of every ALLOW of the rules holds of
every ALLOW returned. The code always calls the policy current, never fills in the energy
used in the window, and never enables the burst budget; the input says so too.

**CapacityLedger, LedgerRefinement.** What the reservation interface promises when
lifecycle, generations, usage and time are forgotten: a claim holds an amount on a set of
accounts, is granted whole and only within every limit, and is given back whole; limits
change under it. `HeldBy` maps a reservation to what it holds, on the chain of its
budget, from reserve to release.

**Persistence.** `path` and `tmp` are the two files, each absent, torn or a record;
`io` is where the one saving and loading thread is. A save is `SaveEncode` (under the
shared lock), `SaveOpen` (truncates the temporary file), `SaveWrite`, `SaveRename`
(atomic) and `SaveReturn`; opening, writing and renaming may fail. A load is `LoadRead`
(file and envelope, no lock) and `LoadApply`, which is `decode_state`: policy, budgets in
any order up to the first that `install` refuses, the check of the hierarchy, and
reservations by id up to the first that exists, each claiming its capacity again by
`reserve` with the result ignored. What was done before a failure stays done. `Restart`
is a crash of the process at any step: files survive, everything else and the id
allocator start again. Amounts are cut to the resolution of the record (`f64`), limits
and reservations separately. Checksum and envelope are abstracted to whether a file is
complete, which is what they establish. A load claims reserved watts only: the usage of a
reservation that comes back ACTIVE is not attributed again (`used` stays as it is), so
its budgets report more free watts than before the save, until it is released.

**Coordinator.** Per connection: `client` (the worker process), `wire` (the message on
its way; a worker sends one request and waits) and `thread` (the program counter of
`handle_worker`). Registration and its answer are two critical sections, as in the code.
The fence (`ServerReceive`) and the governor calls after it (`ServerIngest`,
`ServerPlan`, `ServerReserve`, `ServerAct`) are separate steps; the governor's part of
each is the action of `Reservations`. `Send` covers every command of `worker_dispatch`,
including the `stale_` commands that replay the authority of an earlier epoch or
process. `Lost` kills a worker at any time, `Quit` and `ServerThrows` end the
coordinator: an id that was never planned makes the governor throw in a detached thread
where nobody catches it. Timestamps are the constants the code uses. Requests whose
answer changes nothing (decision, snapshot, unknown or malformed) are one kind, `OTHER`.
Each process has a boot of its own (`BootOf`), as `src/README.md:105` asks of workers; the
code takes the number from the command line, and a test that restarts a worker with its
old one (`src/tests/test_multiprocess.cpp:108`) is outside what the fence can tell apart.

**Accounting.** Burst budget and energy account are the same bucket with one difference
that is kept: reads of the burst budget start and refill its window (`ReadBurst`), reads
of the energy account work the answer out and change nothing. `workload_meter` is a map
that grows with the workloads that are accounted or loaded; `device_meter` is the meter
of the one device, which exists from the first ingested sample (`FirstSample`) and gets
what any workload uses, as `account_energy` adds it to every device. `SaveMeters` writes
the totals of the workloads, cut to the resolution of the record (`f64`); `LoadMeters`
needs a record, replaces the meters it lists and leaves the others, the device's and the
overall one alone; `Restart` empties them all. The power window is the class on its own
here and not that of the device, which is in `Telemetry`. `bursts`, `recorded` and `metered` are
auxiliary histories for the properties. Nothing in the governor calls `consume` or
`set_limits`: these classes are verified as the components they are.

## 3. Runs

Run one with `tlc -workers 2 -config X.cfg M`. `CHECK_DEADLOCK FALSE` is set where the
bounded clock, the bounded number of calls or the finite supply of ids make a run end;
the thermal and telemetry models never stop.

**Fairness.** Every call of the library is the caller's choice, so nothing obliges a step
of the library models to be taken and they state no fairness. The coordinator runs
threads of its own: `CoordinatorSpec` assumes weak fairness of each connection's thread
(the operating system schedules it; it blocks only in `recv_frame` and on two mutexes
that are held for one step) and of each worker's receipt of what has arrived (TCP
delivers or fails). Nobody has to connect, send, or type a command, and no worker has to
stay alive.

### Passing runs

**reservations** (`MCReservations`; 133,522 distinct states). A node budget with two
device budgets, installed in any order and re-issued once, the node's limit being 2 or
4 watts and the devices' 3; two reservations of 1 or 2 watts; a policy that may
be replaced (callers plan under generation 1, as the coordinator does; TLC's view of a
state leaves its generation out, since no other operation reads it); a validity of 0 and
a clock of 2, so that any reservation may expire between any two calls. With these numbers two reservations fit or not depending on their sizes and
the node's generation, a re-issue may fall below what is booked, chains may be
half-installed, and activation, which asks for the watts a second time, succeeds or
fails. Ids and the two devices are symmetric. Timestamps are current (`CallLag = 0`);
late ones are covered by the theorems, which hold for every lag.

- `ReservedExact`: the reserved counter of each budget is exactly what the
  reservations below it hold.
- `HeldIsReleasable`: a reservation with capacity can be released under the budget's
  current generation, whatever was re-issued.
- `ParentCoversChildren`: a parent's counter covers its children's together.
- `AvailableIsReservable`: what `budget_available` reports is exactly what `reserve`
  grants, on overbooked and half-installed chains too.
- `IndexLagsOnlyOnExpiry`: the index is wrong about a reservation only if it expired.
- `CapacityGate`: whatever raises a budget's booking leaves it within the limit.
- `NoStaleActivation`: a reservation becomes active only under the generation it was
  reserved under.
- `ImplementsLedger`: every behaviour is one of `CapacityLedger`.

**decisions** (`MCDecisions`; 23,504 distinct states). 43 inputs reach every rule:
four thermal states, requests below and above the soft target, ceilings that are
absent, ample, binding above or below the soft target, or zero; with a burst, an
energy window overdrawn, stale telemetry and a stale policy. `MinStable = 2`, a clock
of 3 and timestamps one unit late let a restriction be held, expire and be re-ordered.

- `AllowIsSafe`, `LimitWithinCeiling`: neither burst credit nor hysteresis lets a
  plain ALLOW or a limit past a hard limit.
- `OnlyBurstBreaksHold`: within `min_stable_duration` of a restriction, up to the lag of
  timestamps, ALLOW is given by the burst rule, or after it, and in no other way. This is
  what the code keeps of its hysteresis; what its comment promises is the run
  unstable_verdict.
- `HeldRepeatsCause`: a held verdict was given by a rule and survives neither an
  ALLOW, a burst's included, nor a reset.

**thermal** (`MCThermal`; 97,656 distinct states). All sequences of up to seven
readings out of one per region that the classifier tells apart, at the default
thresholds, two of them exactly on a threshold: enough for a constraint, its recovery,
a relapse and a second recovery.

- `ConstrainedIffConfirmed`, `RecoveringIffCooling`: the incremental classifier agrees
  with a definition of the two states by the history alone.
- `HotterPermitsLess`: the permitted power falls with the temperature, down to the
  reduced cap in whole watts.

**telemetry** (`MCTelemetry`; 146,326 distinct states). One poller against direct
observations and invalidation, samples with and without each reading, a clock of 4
with freshness limits 1, 2 and 3, timestamps one unit late. The auxiliary `heated` is
left out of TLC's view: no action and no property of this run reads it.

- `FreshIsRecent`: what a decision takes for usable was taken within
  `observation_stale`.
- `CapIsOfLatest`: the hardware cap is that of the latest sample, unless that sample
  came out of order.
- `AllowIsGrounded`: for requests of 320 and 480 watts, a policy cap of 600, a reported
  limit of 500 and a budget of 400 or none, so that every one of them binds for some
  request and temperature: an ALLOW rests on a recent sample, respects policy and budget,
  and stays within what the device's limit permits at the temperature reported with it.

**persistence** (`MCPersistence`; 685,258 distinct states). A node budget, whose limit may
be re-issued from 6 down to 1 or from 1 up to 6, over one device budget; two reservations
of 3 half-units, so that rounding cuts; two saves, of which the first is an empty
governor's, one crash, six calls of the reservation interface anywhere between the steps
of saves and loads. Enough for a save during which the ledger changes, a crash in the
middle of a second save, a load into a new governor and one into a governor that has
already planned an id the record also holds.

- `AckedSaveSurvives`: once save returned true, the file is a complete record at least as
  new, through failures and crashes of later saves.
- `NoPhantomReservation`: budgets never carry watts that no reservation holds, whatever
  was loaded in part or on top of what.
- `IdentityIsStable`: the allocator starts again after a restart, and yet no id ever
  changes the reservation it stands for.
- `CapacityGateAcrossLoads`: what a load books is within the limits in force after it.
- `RoundTrip`: a record in which no budget was re-issued under its reservations brings
  back every reservation and exactly their watts, in whatever order they claim them and
  although amounts and limits were cut separately.

**coordinator** (`MCCoordinator`; 237,790 distinct states). Two processes of one worker,
the second the restart of the first, either of which may register late or die; the first
one's messages may be replayed through the second; two epochs; two requests of any kind;
one budget of 2 watts, of which an active reservation needs all (activation books its
watts a second time), so that requests compete. Two requests are enough for a grant and
its activation, release or replay, and for two threads between fence and governor.

- `StaleRequestsHaveNoEffect`: a request sent with the authority of an earlier epoch or
  of a replaced process never passes the fence.
- `FreshBootNotMuted`: a process is not refused for the generations of its predecessor.
- `GrantReachesOwner`: while a worker lives, it has the id of every grant made to it, or
  the id is on its way.
- `AckedIsGranted`: an id that a worker is told was granted, although other threads may
  act on it between the two calls of RESERVE, and it is told to no other worker and no
  other process of the same one. Ids are not bound to workers, so this is all that keeps
  one from the capacity of another.
- `RequestsAnswered` (liveness): every registration and request is answered, or the
  worker learns that the connection is gone.

**accounting** (`MCAccounting`; 1,261,706 distinct states). Five calls at times 1 to 5 with
timestamps up to one unit late, a window of 2, amounts of 1 and 2 against a capacity of
2, two powers, two workloads, a record that keeps multiples of 2. Five calls exhaust a
bucket, cross a window, and exhaust it again; or save a record of one workload, use
another, and load it twice, with or without a restart.

- `BurstBoundedOverTime`: no span of the window's length, less the lag, sees more than
  twice the capacity, whatever queries moved the window. The bound is reached: a burst at
  the end of one window and one at the start of the next.
- `AccountAnswersAgree`: `can_consume` says what `consume` does, and `remaining` and
  `consumed` share out the budget, at the end of a window too.
- `WindowHoldsRecent`: the samples kept are those that a trim of the whole record would
  keep.
- `AverageWithinSamples`: the average lies between the least and the greatest retained
  sample.
- `NoEnergyInvented`: across saves, restarts and loads in any order, of records that list
  some of the workloads, a workload's meter holds no more energy, and no more measured
  energy, than was accounted to it; a device's no more than the overall meter.

Every property has a mutant: a plausible bug of the code under which TLC refutes it.

### Runs that show a disagreement

Each checks one statement of the repository that the code does not keep; `findings`
quotes it.

| Run | Property | What TLC shows |
|---|---|---|
| leaked_reservation | `NoLeakedReservation` | reserve, wait, admit or activate: the reservation is EXPIRED, its watts stay reserved, release refuses it |
| usage_attribution | `UsageIsActive` | releasing a reservation that was never activated takes away the usage of an active one |
| stale_thermal | `NoStaleThermal` | samples without a temperature keep the telemetry current over an old thermal state |
| lost_claim | `RestoredReclaims` | a budget is re-issued after a reservation was made; after save, restart and load the reservation is RESERVED and nothing is booked for it |
| unstable_verdict | `RestrictionIsStable` | a request over the ceiling is limited; at the same time, with nothing else changed, a smaller one is allowed by burst credit |

`ReservedExact` counts the watts of expired reservations as held, as the code does;
without that it would be `NoLeakedReservation`.

What else the modelling showed, without a run of its own:

- After planning, nobody compares the policy generation of a reservation with the policy
  in force (`include/reservation.hpp:216`): one planned under a superseded policy becomes
  active, although `include/policy.hpp:5` says that such reservations are "never silently
  authoritative" unless a caller grand-fathers them.
- `accounting_consistent` fails a budget that is booked exactly to its limit, which
  `reserve` grants: the slack of 1e-9 is on the wrong side (`include/budget.hpp:255`).
- A held verdict is stored with the current time and so restarts its own hold
  (`include/decision_engine.hpp:358`): a caller that asks often enough is restricted
  without end after the cause is gone.
- A load does not restore the usage of ACTIVE reservations (`include/governor.hpp:585`);
  releasing one of them may then take the usage of another off the budget, as in
  usage_attribution.
- Decisions of the coordinator are taken at `Timestamp()`, zero: telemetry is always
  CURRENT there, and reservations never expire (`src/tools/distributed.cpp:240`, `:248`).
- A load replaces the policy whatever its generation, so an older file rolls it back
  (`include/governor.hpp:521`), which `install_policy` refuses.
- After `roll_epoch` a worker that stayed connected is refused as STALE_EPOCH until it
  registers again; the fence does not tell it from a stale one.
- A request that has passed the fence is carried out even if the epoch rolls, or its
  worker's next process registers, before the governor is called. The fence shuts out
  what was out of date when it was sent, not what becomes so on the way.
- A refused RESERVE leaves a PLANNED reservation that nobody knows the id of; any
  registered worker may activate or release any id.
- The thermal ceiling takes the temperature of the latest sample that had power, even if
  a later sample without power reported another one (`include/governor.hpp:376`).
- A power window always keeps two samples, so its average may span a gap of any length.
- The overall meter is not saved: after a load it is below the sum of the workloads.

## 4. Proofs

All theorems hold for every value of the constants that satisfies the named
assumptions of the modules: any finite set of budgets and reservations, any limits,
any policy, any number of pollers, workers, saves and readings, any lag. `tlapm M.tla`
checks a module. Every property of a passing run is stated by a theorem, except the
liveness property at the end of this section. Each inductive invariant below was checked with TLC on the
instance of its run before it was proved.

**ReservationsProofs.** `TypeCorrect`: TypeOK is inductive; the interesting part is
that no subtraction goes below zero, which follows from the cover check that precedes
each (`SubtractAlongType`). `CapacityGateHolds`: only reserve and activate raise a
booking, both after `chain_has_capacity` (`CapacityOfChain`). `NoStaleActivationHolds`
follows from the two generation checks of activate. `IndexLagsOnlyOnExpiryHolds`: every
action that moves a reservation writes its index entry too, except `Expire`.
`AvailableIsReservableHolds`: `available` is the least free amount along the chain, or
zero if the chain ends early, and that is what the capacity check compares with.

**ReservedExactProofs.** `ReservedExact` alone is not inductive. A release must take
the watts off the chain they were charged to, so the chain of a charged reservation
must not have changed; a chain changes when a missing ancestor is installed or a
budget gets another parent. `LedgerInv` adds that charged reservations have chains
that are installed to the root (`ChargedChainsInstalled`; reserve checks it), that
installed budgets have the parent they were offered with, and that nothing is held
before it is reserved. `StableParents`, a hypothesis of these theorems, says that a
re-issue names the same parent: `install` accepts another one, and the counters are
then wrong. `ChainStable` shows that a fully installed chain survives every step.
Sums are not recursive functions but cardinalities: the pair `<<r, w>>` is the w-th
watt of reservation r, and `WattsAdd` shows that one more holder adds its watts, from
the library's theorems on finite sets. From this follow `LedgerInvHolds`,
`ReservedExactHolds`, `HeldIsReleasableHolds` (one holder's watts are a subset of
all that is charged) and `ParentCoversChildrenHolds` (the chains of siblings are
disjoint below their parent, `BudgetTree`).

`ImplementsLedgerHolds` is the refinement: the initial state maps to that of
`CapacityLedger`, and each action of `Reservations` to a grant, a return, a change of
limits or a stutter. The guard of the abstract grant speaks of all claims on an account,
the code's of a counter; `ReservedExact` makes them the same number.

The step lemmas are stated for `ShortInv(debt)`, in which each counter falls short of
what is held by some fixed amount. With no debt this is `LedgerInv`; `PersistenceProofs`
uses the others, because a load may restore a reservation that finds no room.

**DecisionsProofs.** `AllowIsSafeHolds` and `LimitWithinCeilingHolds` follow from the
rules alone (`RuleSound`), plus the fact that hysteresis replaces only a default ALLOW
and recomputes the limit from the new input (`EvaluateSound`). `OnlyBurstBreaksHoldHolds`
and `HeldRepeatsCauseHolds` need `HysteresisInv`: a restriction is stored exactly while
there is a cause that no burst bypassed; it repeats that cause, and its time is not
earlier than the cause's by more than the lag, since a held call stores its own, possibly
late, time.

**TelemetryProofs.** `FreshIsRecentHolds` rests on the order of poll's steps: the
timestamp is read before the sample is taken, so it never overstates freshness
(`TelemetryInv`); an ingestion that throws has already stored both. `CapIsOfLatestHolds`
adds that cap and window are written together. `AllowIsGroundedHolds` carries both
through `decide_locked`: it goes along the chain of rules for the input that the
governor puts together.

**ThermalProofs.** The history decides by looking back over the readings; the code keeps
a counter. `RunIsCounted` relates them: `need_confirm` is the length of the run of hot
readings that the history ends with, unless the device is constrained already.
`ThermalInv`, with it and the two properties, is inductive (`ConstrainedIffConfirmedHolds`,
`RecoveringIffCoolingHolds`). `HotterPermitsLessHolds` is arithmetic on
`headroom_fraction`, in whole watts, for every threshold and cap.

**CoordinatorProofs.** Beside types and the two fence properties, `CoordinatorInv` says
seven things: the wire is used by one side at a
time (`Dialogue`); a process registers once and is never current again once replaced
(`BootsOnce`); a request that was stale when sent stays stale, and any other carries its
own process's authority (`RequestAuthority`); a planned reservation has an owner, and a
thread about to reserve acts on its own plan (`Ownership`); a grant is with its owner or
on the way (`GrantedReaches`, which is `GrantReachesOwner` with the admitted ones); an id
that a worker is told is a grant it owns (`ToldAreOwn`); and each reservation, planned or about to be, takes a request of its own, so the allocator
has an id left (`IdsSuffice`). From it follow `StaleRequestsHaveNoEffectHolds`,
`FreshBootNotMutedHolds`, `GrantReachesOwnerHolds` and `AckedIsGrantedHolds`. The last one
is `ToldAreOwn` without the owner: an id enters what a worker is told only by the answer
of a `ServerReserve` that was granted (`ToldOnlyByReserve`), the thread reserves its own
plan (`Ownership`), and no later step takes back under which generation a reservation was
made. That the ledger's types are kept is carried over from `ReservationsProofs`: each
step of a thread is an action of `Reservations` or leaves the ledger alone
(`StepIsSpecified`), which uses two constants of the code that `CoordinatorAssumption`
records: requests plan under the first policy generation, and activation passes time 0.

**PersistenceProofs.** `DiskInv` says what the records on disk, in the temporary file and
with the thread are, and orders their numbers against the acknowledged one; it gives
`AckedSaveSurvivesHolds`. `IdentityIsStableHolds` needs only types: `restore` refuses an
id that exists. `CapacityGateAcrossLoadsHolds` and `NoPhantomReservationHolds` are about
`Booking`, the running total of what restored reservations claim: it grows only by
claims that fit, and by no more than each reservation holds. Since induction is out of
reach, what holds along it is shown by a least counterexample (`BookingSteps`).
`RecoveryInv` adds to `DiskInv` that charged chains are installed to the root and that
counters are at most what is held (`LedgerKept`), and that a record lists the budgets its reservations are charged to
(`SoundRecord`, kept because a live ledger satisfies it when it is encoded).
`NoPhantomReservationHolds` has the hypothesis `StableParents`.

`RoundTripHolds` does without it, since a record is described by its own parent links
(`RecordChain`): that is what the governor had when it encoded the record, and what a new
governor has when it has loaded it. Amounts and limits are cut separately when they are
written. Cut amounts are multiples of the resolution, so a sum of them is one too
(`SumOfMultiples`, by a smallest set for which it is not), and a multiple within a limit
is within the limit cut the same way (`CutIsLargest`). Hence the claims of a record whose
limits were kept when it was encoded still fit (`ClaimsFit`); each claim is granted in
whatever order they are made (`ClaimGranted`), and exactly their watts are booked
(`BookingExact`). `RoundTripInv` adds to `DiskInv` what this needs of every record and of
the governor: ids that were not given are blank, nothing is held before it is reserved,
what is reserved is reserved on a budget that exists (`Entries`), and a budget that does
not exist has nothing booked (`BookedIsInstalled`).

**AccountingProofs.** `AccountAnswersAgreeHolds` needs that an enforced account is never
overdrawn (`WithinBudget`), `NoEnergyInventedHolds` that what is saved was accounted
to its workload (`SavedWasMetered`; cutting only lowers it, `CutIsLess`), `WindowHoldsRecentHolds` that the samples are the recent end of the
record (`Recent`): what one trim dropped, a later one would drop too.
`BurstBoundedOverTimeHolds` needs `BurstInv`: the grants fall into those more than a
window older than the present one, those of the window before and those of the present
one, and each of the last two groups is within the capacity. Its hypothesis is that the
window has a length: the capacity is allowance times window, so an empty one grants
nothing. `AverageWithinSamplesHolds` bounds the running total of the integral
(`EnergyBounds`) by a least counterexample over the samples.

**Only model-checked.** `RequestsAnswered`, which is liveness under fairness and outside
what the prover does. The runs that expect a violation are TLC's too.

## 5. Not modelled

- `AuthorityGate`: the governor stores marks in it and never asks it; the fences that
  decide anything are the coordinator's own, and those are modelled.
- `set_power_limit`, `restore_power_limit`: calls to the hardware; the governor keeps
  nothing of them but a line of history, which nothing reads.
- In the coordinator: `set_policy` (that is `install_policy` of `Reservations`), `save`
  (`Persistence`) and the contents of observations (`Telemetry`); two workers with
  different ids, since the state per worker is disjoint and the ledger they share is
  reached through the same steps as by two processes of one worker.
- A crash of the machine: the code flushes to the operating system and forces nothing to
  disk, so it promises nothing there. Two saves to one path at the same time.
- Observation and decision generations inside the governor: numbers no operation
  compares. `account_energy` of a reservation: a number nothing reads.
- References handed out past the lock (`reservation()`, `budget_manager()`,
  `domains()`): a race of the caller, not of the governor.
- Domains, history, workload classes, performance states: no decision depends on them
  (`class_rules` only change the wording of reasons).
- Wire format, checksums, JSON, digests, CUDA and NVML calls, the command line: I/O
  without protocol state of their own.

## 6. Plan

Every safety property of the passing runs has its theorem. What may follow:

- `StableParents` is a hypothesis of the theorems on exact bookings, because a re-issued
  budget may move under another parent while reservations are charged along the old chain
  (`include/budget.hpp:125`). A weaker condition, no move while something is booked below
  the budget, would cover more uses of the interface.
- A decision that names a budget reads what is available of it
  (`include/governor.hpp:392`). `DecideFor` takes that answer from a set, and
  `AvailableIsReservableHolds` says what the answer means; one module with both would
  join the two.
