----------------------------- MODULE Accounting -----------------------------
(***************************************************************************)
(* Energy accounting: the burst budget of a device (BurstBudget), an       *)
(* energy budget per window (EnergyWindowAccount), the power samples an    *)
(* average is taken over (PowerWindow) and the meters of the governor, by  *)
(* workload, for the device and overall (EnergyMeter), with the way those  *)
(* of the workloads survive a restart.                                     *)
(*                                                                         *)
(* Joules, watts and times are integers; the tolerance of 1e-9 J of the    *)
(* comparisons is below their resolution, which a saved record may cut.    *)
(* Callers pass timestamps, which may be older than the clock.             *)
(***************************************************************************)
EXTENDS Integers, Sequences, FiniteSetsExt

CONSTANTS
    Amounts,        \* joules of one call
    Capacities,     \* burst capacities (allowance times window) and energy budgets
    Window,         \* length of the burst window and of the energy window
    Powers,         \* powers of recorded samples
    SampleSpan,     \* capacity of the PowerWindow
    Workloads,
    NoMeter,        \* devices_ has no entry: no sample was ingested
    NoRecord,       \* no record was saved
    Resolution,     \* units of energy in the 1/1000 joule the record keeps
    MaxTime,        \* bound on the clock
    CallLag,        \* how old a caller's timestamp may be when its call runs
    MaxCalls        \* bound on the calls that change something

ASSUME AccountingAssumption ==
    /\ Amounts \subseteq Nat /\ Capacities \subseteq Nat /\ Powers \subseteq Nat
    /\ Window \in Nat /\ SampleSpan \in Nat /\ Resolution \in Nat \ {0}
    /\ NoMeter \notin [total: Nat, by: [{"MEASURED", "DERIVED"} -> Nat]]
    /\ MaxTime \in Nat \ {0} /\ CallLag \in Nat /\ MaxCalls \in Nat

Times == 0 .. MaxTime
\* Two of the five: a load writes DERIVED, the rest are kept apart like MEASURED.
Provenance == {"MEASURED", "DERIVED"}

VARIABLES
    burst,           \* BurstBudget
    account,         \* EnergyWindowAccount
    samples, peak,   \* PowerWindow
    workload_meter,  \* workload_meter_, a map that grows
    device_meter,    \* the meter of the one device in devices_
    total_meter,     \* total_meter_
    saved,           \* the meters' part of the last saved record
    clock,
    bursts,          \* auxiliary: bursts granted under the present limits
    recorded,        \* auxiliary: every sample the power window took
    metered,         \* auxiliary: energy ever accounted, by workload and provenance
    calls            \* auxiliary: calls so far

windows == <<burst, account, samples, peak, bursts, recorded>>
meters == <<workload_meter, device_meter, total_meter, saved, metered>>
vars == <<windows, meters, clock, calls>>

elapsed(now, since) == IF now > since THEN now - since ELSE 0

CallTimes == {t \in 1 .. clock : clock - t <= CallLag}

Called == calls < MaxCalls /\ calls' = calls + 1

-----------------------------------------------------------------------------
(***************************************************************************)
(* BurstBudget and EnergyWindowAccount are the same bucket: on is enabled  *)
(* or enforce, limit the capacity or budget.                               *)
(***************************************************************************)
Bucket == [on: BOOLEAN, limit: Capacities \cup {0}, consumed: Nat, window_start: Times, started: BOOLEAN]

\* set_limits, set_config: the bucket starts afresh.
Fresh(on, limit) ==
    [on |-> on, limit |-> limit, consumed |-> 0, window_start |-> 0, started |-> FALSE]

\* A mutant: the new window keeps the start of the first one.
refill_if_needed_keeps_start(k, now) ==
    IF ~ k.started THEN [k EXCEPT !.window_start = now, !.started = TRUE]
    ELSE IF elapsed(now, k.window_start) >= Window THEN [k EXCEPT !.consumed = 0]
    ELSE k

\* A mutant: the first window starts a whole window back.
refill_if_needed_backdated(k, now) ==
    IF ~ k.started THEN [k EXCEPT !.window_start = now - Window, !.started = TRUE]
    ELSE IF elapsed(now, k.window_start) >= Window
    THEN [k EXCEPT !.window_start = now, !.consumed = 0]
    ELSE k

refill_if_needed(k, now) ==
    IF ~ k.started THEN [k EXCEPT !.window_start = now, !.started = TRUE]
    ELSE IF elapsed(now, k.window_start) >= Window
    THEN [k EXCEPT !.window_start = now, !.consumed = 0]
    ELSE k

Left(k) == IF k.limit > k.consumed THEN k.limit - k.consumed ELSE 0

\* available, can_burst, consumed, exhausted and utilization are const and yet
\* start or refill the window.
ReadBurst(now) ==
    /\ Called /\ burst.on
    /\ burst' = refill_if_needed(burst, now)
    /\ UNCHANGED <<account, samples, peak, bursts, recorded, meters, clock>>

ConsumeBurst(j, now) ==
    LET k == refill_if_needed(burst, now) IN
    /\ Called /\ burst.on
    /\ IF j <= Left(k)
       THEN /\ burst' = [k EXCEPT !.consumed = @ + j]
            /\ bursts' = Append(bursts, [at |-> clock, joules |-> j])
       ELSE burst' = k /\ bursts' = bursts
    /\ UNCHANGED <<account, samples, peak, recorded, meters, clock>>

\* The credit is whole again at once.
set_limits(enabled, capacity) ==
    /\ Called
    /\ burst' = Fresh(enabled, capacity)
    /\ bursts' = <<>>
    /\ UNCHANGED <<account, samples, peak, recorded, meters, clock>>

WindowOver(now) == account.started /\ elapsed(now, account.window_start) >= Window

\* A mutant: the window is not seen to be over before the next consume.
remaining_of_last_window(now) == IF account.on THEN Left(account) ELSE 0

\* Const here, and without effect: the window is refilled by consume only.
remaining(now) ==
    IF ~ account.on THEN 0
    ELSE IF WindowOver(now) THEN account.limit ELSE Left(account)

consumed(now) == IF account.on /\ WindowOver(now) THEN 0 ELSE account.consumed

can_consume(j, now) == ~ account.on \/ j <= remaining(now)

\* An account that is not enforced only adds up.
Consumption(j, now) ==
    LET k == IF account.on THEN refill_if_needed(account, now) ELSE account
        accepts == ~ account.on \/ j <= Left(k)
    IN  [accepts |-> accepts, account |-> IF accepts THEN [k EXCEPT !.consumed = @ + j] ELSE k]

ConsumeEnergy(j, now) ==
    /\ Called
    /\ account' = Consumption(j, now).account
    /\ UNCHANGED <<burst, samples, peak, bursts, recorded, meters, clock>>

set_config(enforce, budget) ==
    /\ Called
    /\ account' = Fresh(enforce, budget)
    /\ UNCHANGED <<burst, samples, peak, bursts, recorded, meters, clock>>

-----------------------------------------------------------------------------
(***************************************************************************)
(* PowerWindow.  Samples come in order of time: an older one throws.       *)
(***************************************************************************)
Sample == [t: Times, p: Powers]

\* A mutant: a sample exactly as old as the capacity goes too.
trim_at_capacity(s, now) ==
    LET outdated == {i \in 1 .. Len(s) - 2 : elapsed(now, s[i].t) >= SampleSpan}
    IN  SubSeq(s, Cardinality(outdated) + 1, Len(s))

\* Outdated samples are dropped from the front while more than two are left.
trim(s, now) ==
    LET outdated == {i \in 1 .. Len(s) - 2 : elapsed(now, s[i].t) > SampleSpan}
    IN  SubSeq(s, Cardinality(outdated) + 1, Len(s))

record(t, p) ==
    /\ Called
    /\ samples # <<>> => t >= samples[Len(samples)].t
    /\ samples' = trim(Append(samples, [t |-> t, p |-> p]), t)
    /\ peak' = IF p > peak THEN p ELSE peak
    /\ recorded' = Append(recorded, [t |-> t, p |-> p])
    /\ UNCHANGED <<burst, account, bursts, meters, clock>>

clear ==
    /\ Called
    /\ samples' = <<>> /\ peak' = 0 /\ recorded' = <<>>
    /\ UNCHANGED <<burst, account, bursts, meters, clock>>

span(s) == IF Len(s) < 2 THEN 0 ELSE elapsed(s[Len(s)].t, s[1].t)

\* A mutant: every interval is measured from the first sample.
twice_integrated_energy_from_start(s) ==
    LET acc[i \in 1 .. Len(s)] ==
            IF i = 1 THEN 0 ELSE acc[i - 1] + (s[i - 1].p + s[i].p) * elapsed(s[i].t, s[1].t)
    IN  acc

\* integrated_energy, trapezoidal, without the factor 0.5: what is accumulated
\* with each sample, in the end that of the last one.
twice_integrated_energy(s) ==
    LET acc[i \in 1 .. Len(s)] ==
            IF i = 1 THEN 0
            ELSE acc[i - 1] + (s[i - 1].p + s[i].p) * elapsed(s[i].t, s[i - 1].t)
    IN  acc

-----------------------------------------------------------------------------
(***************************************************************************)
(* The meters.  A meter is its total and the totals by provenance.         *)
(***************************************************************************)
Meter == [total: Nat, by: [Provenance -> Nat]]

EmptyMeter == [total |-> 0, by |-> [p \in Provenance |-> 0]]

add(meter, j, p) == [total |-> meter.total + j, by |-> [meter.by EXCEPT ![p] = @ + j]]

\* workload_meter_[w], which enters an empty meter when there is none.
MeterOf(w) == IF w \in DOMAIN workload_meter THEN workload_meter[w] ELSE EmptyMeter

\* The energy goes to the workload's meter, to that of every device and to the
\* overall one.
account_energy(w, j, p) ==
    /\ Called
    /\ workload_meter' = [x \in DOMAIN workload_meter \cup {w} |->
           IF x = w THEN add(MeterOf(w), j, p) ELSE workload_meter[x]]
    /\ device_meter' = IF device_meter = NoMeter THEN NoMeter ELSE add(device_meter, j, p)
    /\ total_meter' = add(total_meter, j, p)
    /\ metered' = [metered EXCEPT ![w] = add(@, j, p)]
    /\ UNCHANGED <<windows, saved, clock>>

\* The first sample that is ingested, with or without a power reading, enters
\* the device with an empty meter.
FirstSample ==
    /\ Called /\ device_meter = NoMeter
    /\ device_meter' = EmptyMeter
    /\ UNCHANGED <<windows, workload_meter, total_meter, saved, metered, clock>>

\* A number is written in thousandths, what is below them is cut off.
f64(v) == (v \div Resolution) * Resolution

\* Of the workloads that have a meter, and of a meter only its total.
SaveMeters ==
    /\ Called
    /\ saved' = [w \in DOMAIN workload_meter |-> f64(workload_meter[w].total)]
    /\ UNCHANGED <<windows, workload_meter, device_meter, total_meter, metered, clock>>

\* A mutant: the saved energy is added to what the meter holds.
LoadMeters_adds ==
    /\ Called /\ saved # NoRecord
    /\ workload_meter' = [w \in DOMAIN workload_meter \cup DOMAIN saved |->
           IF w \in DOMAIN saved THEN add(MeterOf(w), saved[w], "DERIVED") ELSE workload_meter[w]]
    /\ UNCHANGED <<windows, device_meter, total_meter, saved, metered, clock>>

\* Into a governor that runs or into a fresh one: the meter of each workload in
\* the record is replaced by one that holds the saved total as DERIVED; those
\* of other workloads, of the device and the overall one stay as they are.
LoadMeters ==
    /\ Called /\ saved # NoRecord
    /\ workload_meter' = [w \in DOMAIN workload_meter \cup DOMAIN saved |->
           IF w \in DOMAIN saved THEN add(EmptyMeter, saved[w], "DERIVED") ELSE workload_meter[w]]
    /\ UNCHANGED <<windows, device_meter, total_meter, saved, metered, clock>>

\* A fresh governor: no device and no samples, default limits, no meters.
Restart ==
    /\ Called
    /\ burst' = Fresh(FALSE, 0) /\ account' = Fresh(FALSE, 0)
    /\ samples' = <<>> /\ peak' = 0 /\ bursts' = <<>> /\ recorded' = <<>>
    /\ workload_meter' = [w \in {} |-> EmptyMeter]
    /\ device_meter' = NoMeter /\ total_meter' = EmptyMeter
    /\ UNCHANGED <<saved, metered, clock>>

-----------------------------------------------------------------------------
Init ==
    /\ burst = Fresh(FALSE, 0) /\ account = Fresh(FALSE, 0)
    /\ samples = <<>> /\ peak = 0 /\ bursts = <<>> /\ recorded = <<>>
    /\ workload_meter = [w \in {} |-> EmptyMeter]
    /\ device_meter = NoMeter /\ total_meter = EmptyMeter
    /\ saved = NoRecord
    /\ metered = [w \in Workloads |-> EmptyMeter]
    /\ clock = 1
    /\ calls = 0

Tick ==
    /\ clock < MaxTime
    /\ clock' = clock + 1
    /\ UNCHANGED <<windows, meters, calls>>

Next ==
    \/ \E now \in CallTimes : ReadBurst(now)
    \/ \E j \in Amounts, now \in CallTimes : ConsumeBurst(j, now) \/ ConsumeEnergy(j, now)
    \/ \E on \in BOOLEAN, limit \in Capacities : set_limits(on, limit) \/ set_config(on, limit)
    \/ \E t \in CallTimes, p \in Powers : record(t, p)
    \/ clear
    \/ \E w \in Workloads, j \in Amounts, p \in Provenance : account_energy(w, j, p)
    \/ FirstSample \/ SaveMeters \/ LoadMeters \/ Restart
    \/ Tick

Spec == Init /\ [][Next]_vars

-----------------------------------------------------------------------------
\* Every variable of the accounts keeps its type.
TypeOK ==
    /\ burst \in Bucket /\ account \in Bucket
    /\ samples \in Seq(Sample) /\ peak \in Powers \cup {0}
    /\ \E W \in SUBSET Workloads : workload_meter \in [W -> Meter]
    /\ device_meter \in Meter \cup {NoMeter} /\ total_meter \in Meter
    /\ saved = NoRecord \/ \E W \in SUBSET Workloads : saved \in [W -> Nat]
    /\ metered \in [Workloads -> Meter]
    /\ clock \in 1 .. MaxTime
    /\ calls \in 0 .. MaxCalls
    /\ bursts \in Seq([at: Times, joules: Amounts])
    /\ recorded \in Seq(Sample)

\* The joules of the grants T of a sequence b: <<i, n>> is the n-th joule of b[i].
Joules(b, T) == UNION {{i} \X (1 .. b[i].joules) : i \in T}

Between(b, from, to) == {i \in 1 .. Len(b) : from <= b[i].at /\ b[i].at <= to}

Granted(from, to) == Cardinality(Joules(bursts, Between(bursts, from, to)))

\* Bursts are bounded over time and not only per window (burst.hpp: "for a
\* bounded window"): whatever queries move the window and however old the
\* timestamps of the calls, no span of the window's length, less the lag of
\* the timestamps, sees more than twice the capacity granted.
BurstBoundedOverTime ==
    \A from \in Times : Granted(from, from + Window - CallLag) <= 2 * burst.limit

\* What the energy account reports is what consume does: an amount is accepted
\* exactly when can_consume said so, and while it is enforced remaining and
\* consumed share out the budget, at the end of a window, before the first
\* call and for a timestamp from before the window too.
AccountAnswersAgree ==
    \A now \in CallTimes :
        /\ \A j \in Amounts : can_consume(j, now) <=> Consumption(j, now).accepts
        /\ account.on => remaining(now) + consumed(now) = account.limit

\* The samples kept are those a trim of the whole record would keep: the ones
\* not older than the capacity before the newest and always the last two, in
\* order; trimming as samples arrive loses none that is still due.
WindowHoldsRecent ==
    LET n == Len(recorded)
        kept == {i \in 1 .. n : i > n - 2 \/ recorded[n].t - recorded[i].t <= SampleSpan}
    IN  /\ samples = SubSeq(recorded, n + 1 - Cardinality(kept), n)
        /\ \A i \in 2 .. Len(samples) : samples[i - 1].t <= samples[i].t

\* The average power over the retained samples lies between the least and the
\* greatest of them, and the peak is not below any of them: integration and
\* span use the same intervals.
AverageWithinSamples ==
    LET ps == {samples[i].p : i \in DOMAIN samples} IN
    /\ \A p \in ps : p <= peak
    /\ span(samples) > 0 =>
          LET energy == twice_integrated_energy(samples)[Len(samples)] IN
          /\ 2 * Min(ps) * span(samples) <= energy
          /\ energy <= 2 * Max(ps) * span(samples)

\* a holds no more energy than b, and no more of it as MEASURED.
NoMoreThan(a, b) == a.total <= b.total /\ a.by["MEASURED"] <= b.by["MEASURED"]

\* "Energy is never presented as measured unless it is" (energy.hpp), across
\* saves, restarts and loads in any order and of records that list some of the
\* workloads: a workload's meter holds no more than was accounted to it, and no
\* more MEASURED energy than was measured; a device's no more than the governor
\* as a whole.
NoEnergyInvented ==
    /\ \A w \in DOMAIN workload_meter : NoMoreThan(workload_meter[w], metered[w])
    /\ device_meter # NoMeter => NoMoreThan(device_meter, total_meter)
=============================================================================
