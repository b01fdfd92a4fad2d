----------------------------- MODULE Telemetry ------------------------------
(***************************************************************************)
(* The governor's live view of one device: how samples get in, and how old *)
(* what a decision reads may be.                                           *)
(*                                                                         *)
(* poll reads the clock, samples the backend without the governor's lock   *)
(* and ingests the sample under it: three steps, between which other calls *)
(* run.  A sample may lack any reading.  Its field taken is auxiliary: the *)
(* time at which the backend really took it.                               *)
(*                                                                         *)
(* Of the PowerWindow only the newest timestamp matters here: it decides   *)
(* whether record throws.  Observation generations are left out; no        *)
(* operation of the governor compares them.                                *)
(***************************************************************************)
EXTENDS Thermal

CONSTANTS
    Pollers,        \* threads that poll
    Temperatures,   \* temperatures a sample may report
    Limits,         \* power limits a sample may report
    NoSample,       \* std::nullopt of DeviceState::latest
    FreshFor, StaleAfter, ExpiredAfter,   \* observation_freshness, _stale, _expired
    MaxTime,        \* bound on the clock
    CallLag         \* how old a caller's timestamp may be when its call runs

Times == 0 .. MaxTime

BackendSample ==
    [power: BOOLEAN, temperature: Temperatures \cup {NoReading},
     power_limit: Limits \cup {NoReading}, taken: Times]

ASSUME TelemetryAssumption ==
    /\ Temperatures \subseteq Nat /\ Limits \subseteq Nat
    /\ FreshFor \in Nat /\ StaleAfter \in Nat /\ ExpiredAfter \in Nat
    /\ FreshFor <= StaleAfter /\ StaleAfter <= ExpiredAfter
    /\ MaxTime \in Nat \ {0} /\ CallLag \in Nat
    /\ NoSample \notin BackendSample

VARIABLES
    latest,          \* DeviceState::latest
    last_observed,   \* DeviceState::last_observed; 0 is "never"
    power_window,    \* timestamp of the newest sample of the power window; 0 if empty
    hardware_cap,    \* DeviceState::hardware_cap
    thermal,         \* DeviceState::thermal
    heated,          \* auxiliary: when the reading thermal rests on was taken
    polls,           \* what each poller holds between its steps
    clock

device == <<latest, last_observed, power_window, hardware_cap, thermal, heated>>
vars == <<device, polls, clock>>

Idle == [step |-> "idle"]

Polls ==
    {Idle} \cup [step: {"stamped"}, now: Times]
           \cup [step: {"sampled"}, now: Times, sample: BackendSample]

\* Every variable of the device state keeps its type.
TypeOK ==
    /\ latest \in BackendSample \cup {NoSample}
    /\ last_observed \in Times
    /\ power_window \in Times
    /\ hardware_cap \in Limits \cup {NoReading}
    /\ thermal \in ThermalGovernorState
    /\ heated \in Times
    /\ polls \in [Pollers -> Polls]
    /\ clock \in 1 .. MaxTime

Init ==
    /\ latest = NoSample
    /\ last_observed = 0
    /\ power_window = 0
    /\ hardware_cap = NoReading
    /\ thermal = reset
    /\ heated = 0
    /\ polls = [p \in Pollers |-> Idle]
    /\ clock = 1

-----------------------------------------------------------------------------
CallTimes == {t \in 1 .. clock : clock - t <= CallLag}

\* PowerWindow::record throws on a timestamp older than its newest.
OutOfOrder(sample, now) == sample.power /\ now < power_window

\* A mutant: a sample that reports no limit leaves the last one in force.
IngestPower_keeps_cap(sample, now) ==
    IF sample.power
    THEN /\ latest' = sample
         /\ last_observed' = now
         /\ power_window' = IF OutOfOrder(sample, now) THEN power_window ELSE now
         /\ hardware_cap' = IF OutOfOrder(sample, now) \/ sample.power_limit = NoReading
                            THEN hardware_cap ELSE sample.power_limit
    ELSE UNCHANGED <<latest, last_observed, power_window, hardware_cap>>

\* latest and last_observed are overwritten before record can throw; the cap
\* is not.
IngestPower(sample, now) ==
    IF sample.power
    THEN /\ latest' = sample
         /\ last_observed' = now
         /\ power_window' = IF OutOfOrder(sample, now) THEN power_window ELSE now
         /\ hardware_cap' = IF OutOfOrder(sample, now) THEN hardware_cap ELSE sample.power_limit
    ELSE UNCHANGED <<latest, last_observed, power_window, hardware_cap>>

\* Without a temperature the thermal state stays; nor does it change when the
\* exception has left the function.
IngestTemperature(sample, now) ==
    IF sample.temperature # NoReading /\ ~ OutOfOrder(sample, now)
    THEN /\ thermal' = observe(thermal, sample.temperature)
         /\ heated' = sample.taken
    ELSE UNCHANGED <<thermal, heated>>

ingest_locked(sample, now) == IngestPower(sample, now) /\ IngestTemperature(sample, now)

-----------------------------------------------------------------------------
PollStamp(p) ==
    /\ polls[p] = Idle
    /\ polls' = [polls EXCEPT ![p] = [step |-> "stamped", now |-> clock]]
    /\ UNCHANGED <<device, clock>>

PollSample(p, sample) ==
    /\ polls[p].step = "stamped"
    /\ sample.taken = clock
    /\ polls' = [polls EXCEPT ![p] = [step |-> "sampled", now |-> polls[p].now, sample |-> sample]]
    /\ UNCHANGED <<device, clock>>

\* A mutant: the sample is stamped when it is ingested.
PollIngest_stamps_late(p) ==
    /\ polls[p].step = "sampled"
    /\ ingest_locked(polls[p].sample, clock)
    /\ polls' = [polls EXCEPT ![p] = Idle]
    /\ UNCHANGED clock

PollIngest(p) ==
    /\ polls[p].step = "sampled"
    /\ ingest_locked(polls[p].sample, polls[p].now)
    /\ polls' = [polls EXCEPT ![p] = Idle]
    /\ UNCHANGED clock

\* The caller took the sample itself, at the time it passes.
observe_backend(sample, now) ==
    /\ sample.taken = now
    /\ ingest_locked(sample, now)
    /\ UNCHANGED <<polls, clock>>

\* The power window and the hardware cap survive.
invalidate_live_telemetry ==
    /\ latest' = NoSample
    /\ last_observed' = 0
    /\ thermal' = reset
    /\ heated' = 0
    /\ UNCHANGED <<power_window, hardware_cap, polls, clock>>

Tick ==
    /\ clock < MaxTime
    /\ clock' = clock + 1
    /\ UNCHANGED <<device, polls>>

Next ==
    \/ \E p \in Pollers : PollStamp(p) \/ PollIngest(p)
    \/ \E p \in Pollers, s \in BackendSample : PollSample(p, s)
    \/ \E s \in BackendSample, now \in CallTimes : observe_backend(s, now)
    \/ invalidate_live_telemetry
    \/ Tick

Spec == Init /\ [][Next]_vars

-----------------------------------------------------------------------------
\* Elapsed time saturates at zero.
Age(now) == IF now > last_observed THEN now - last_observed ELSE 0

freshness_of(now) ==
    IF last_observed = 0 THEN "EXPIRED"
    ELSE IF Age(now) < FreshFor THEN "CURRENT"
    ELSE IF Age(now) < StaleAfter THEN "AGING"
    ELSE IF Age(now) < ExpiredAfter THEN "STALE"
    ELSE "EXPIRED"

\* The decisions of decide_locked act on telemetry that is not stale.
Usable(now) == freshness_of(now) \in {"CURRENT", "AGING"}

\* Telemetry that a decision takes for current or aging was taken less than
\* observation_stale before, up to the lag of the decision's own timestamp,
\* however long a poll spent between its steps, whichever sample came in last
\* and whether or not its ingestion threw.
FreshIsRecent ==
    \A now \in CallTimes :
        Usable(now) => latest # NoSample /\ clock - latest.taken < StaleAfter + CallLag

\* The cap decisions are bounded by is the one the latest sample reports, a
\* cleared one too; only an out-of-order sample, which last_observed shows to
\* be older than the window, leaves the two apart.
CapIsOfLatest ==
    latest # NoSample /\ last_observed = power_window => hardware_cap = latest.power_limit

(***************************************************************************)
(* What makes FreshIsRecent inductive: a timestamp is read before the      *)
(* sample it goes with is taken, and neither lies in the future.           *)
(***************************************************************************)
StampBeforeSample(stamp, sample) ==
    1 <= stamp /\ stamp <= sample.taken /\ sample.taken <= clock

TelemetryInv ==
    /\ TypeOK
    /\ IF latest = NoSample THEN last_observed = 0 ELSE StampBeforeSample(last_observed, latest)
    /\ \A p \in Pollers :
          /\ polls[p].step = "stamped" => 1 <= polls[p].now /\ polls[p].now <= clock
          /\ polls[p].step = "sampled" => StampBeforeSample(polls[p].now, polls[p].sample)

\* "stale power/thermal observations do not drive authoritative decisions"
\* (README.md): the thermal state a decision acts on rests on a reading that
\* is not stale either.
NoStaleThermal ==
    Usable(clock) /\ thermal.state # "UNKNOWN" => clock - heated < StaleAfter + CallLag
=============================================================================
