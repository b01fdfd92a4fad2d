-------------------------- MODULE TelemetryProofs ---------------------------
(***************************************************************************)
(* Proofs about the ingestion of telemetry, for any number of pollers, any *)
(* samples and any thresholds.  TelemetryInv is inductive because a poll   *)
(* reads its timestamp first: whatever runs between its steps, the sample  *)
(* it brings was taken at or after the timestamp it is accepted under.     *)
(* What decide_for makes of such a state is then a matter of its           *)
(* operators: ceilings are minima, and less cap permits less power.        *)
(***************************************************************************)
EXTENDS DecideFor, WellFoundedInduction, TLAPS

\* The classifier stays within its states for every reading.
LEMMA ObserveType ==
    ASSUME NEW th \in ThermalGovernorState, NEW t \in Nat
    PROVE  observe(th, t) \in ThermalGovernorState
<1>1. th.state \in ThermalState /\ th.need_confirm \in 0 .. ConfirmCount
  BY DEF ThermalGovernorState
<1>2. classify_raw(t) \in ThermalState
  BY DEF classify_raw, ThermalState, RawState
<1>3. ObserveHot(th, t) \in ThermalGovernorState
  <2>1. /\ (IF th.state = "THERMALLY_CONSTRAINED" \/ th.need_confirm + 1 >= ConfirmCount
            THEN "THERMALLY_CONSTRAINED" ELSE th.state) \in ThermalState
        /\ (IF th.state = "THERMALLY_CONSTRAINED" \/ th.need_confirm + 1 >= ConfirmCount
            THEN 0 ELSE th.need_confirm + 1) \in 0 .. ConfirmCount
    BY <1>1, ThermalAssumption DEF ThermalState, RawState
  <2> QED  BY <2>1 DEF ObserveHot, ThermalGovernorState
<1>4. ObserveBelowHot(th, t) \in ThermalGovernorState
  <2> DEFINE s == CASE th.state = "THERMALLY_CONSTRAINED" ->
                             IF t < RecoverBelow THEN "RECOVERING" ELSE th.state
                    [] th.state = "RECOVERING" -> IF t <= WarmMax THEN "NORMAL" ELSE th.state
                    [] OTHER -> classify_raw(t)
  <2>1. s \in ThermalState
    <3>1. "RECOVERING" \in ThermalState /\ "NORMAL" \in ThermalState
      BY DEF ThermalState, RawState
    <3> QED  BY <1>1, <1>2, <3>1
  <2>2. 0 \in 0 .. ConfirmCount
    BY ThermalAssumption
  <2>3. ObserveBelowHot(th, t) = [state |-> s, need_confirm |-> 0, last_temp |-> t]
    BY DEF ObserveBelowHot
  <2> HIDE DEF s
  <2> QED  BY <2>1, <2>2, <2>3 DEF ThermalGovernorState
<1> QED  BY <1>3, <1>4 DEF observe

\* A classifier that was reset is one of its states.
LEMMA ResetType == reset \in ThermalGovernorState
BY ThermalAssumption DEF reset, ThermalGovernorState, ThermalState

\* Ingesting a sample under a timestamp read before it was taken keeps the
\* device state typed and its timestamp no later than its sample.
LEMMA IngestStep ==
    ASSUME TelemetryInv, NEW sample \in BackendSample, NEW now \in Times,
           StampBeforeSample(now, sample), ingest_locked(sample, now), clock' = clock
    PROVE  /\ latest' \in BackendSample \cup {NoSample}
           /\ last_observed' \in Times /\ power_window' \in Times /\ heated' \in Times
           /\ hardware_cap' \in Limits \cup {NoReading}
           /\ thermal' \in ThermalGovernorState
           /\ IF latest' = NoSample THEN last_observed' = 0
              ELSE StampBeforeSample(last_observed', latest')
           /\ CapIsOfLatest => CapIsOfLatest'
<1>1. /\ sample.temperature \in Temperatures \cup {NoReading}
      /\ sample.power_limit \in Limits \cup {NoReading}
      /\ sample.taken \in Times
  BY DEF BackendSample
<1>2. NoSample \notin BackendSample /\ sample # NoSample
  BY TelemetryAssumption
<1>3. /\ thermal' \in ThermalGovernorState /\ heated' \in Times
  BY <1>1, ObserveType, TelemetryAssumption
     DEF ingest_locked, IngestTemperature, TelemetryInv, TypeOK
<1>4. now \in Nat /\ power_window \in Nat
  BY TelemetryAssumption DEF Times, TelemetryInv, TypeOK
<1>5. CASE sample.power
  <2>1. latest' = sample /\ last_observed' = now /\ power_window' \in {power_window, now}
    BY <1>5 DEF ingest_locked, IngestPower
  <2>2. hardware_cap' \in {hardware_cap, sample.power_limit}
    BY <1>5 DEF ingest_locked, IngestPower
  <2>3. CapIsOfLatest'
    BY <1>4, <1>5 DEF ingest_locked, IngestPower, OutOfOrder, CapIsOfLatest
  <2>4. StampBeforeSample(last_observed', latest')
    BY <2>1 DEF StampBeforeSample
  <2> QED
    BY <1>1, <1>2, <1>3, <2>1, <2>2, <2>3, <2>4 DEF TelemetryInv, TypeOK
<1>6. CASE ~ sample.power
  <2>1. UNCHANGED <<latest, last_observed, power_window, hardware_cap>>
    BY <1>6 DEF ingest_locked, IngestPower
  <2> QED
    BY <1>3, <2>1 DEF TelemetryInv, TypeOK, CapIsOfLatest, StampBeforeSample
<1> QED  BY <1>5, <1>6

\* The device starts without telemetry and with idle pollers.
LEMMA TelemetryInit == Init => TelemetryInv /\ CapIsOfLatest
<1> SUFFICES ASSUME Init PROVE TelemetryInv /\ CapIsOfLatest
  OBVIOUS
<1>1. TypeOK
  BY ResetType, TelemetryAssumption DEF Init, TypeOK, Times, Polls
<1> QED
  BY <1>1 DEF Init, TelemetryInv, CapIsOfLatest, Idle

\* Every step keeps timestamps before their samples and the cap with its
\* sample.
LEMMA TelemetryStep ==
    TelemetryInv /\ CapIsOfLatest /\ [Next]_vars => TelemetryInv' /\ CapIsOfLatest'
<1> SUFFICES ASSUME TelemetryInv, CapIsOfLatest, [Next]_vars
             PROVE  TelemetryInv' /\ CapIsOfLatest'
  OBVIOUS
<1> DEFINE PollOK(p, x, c) ==
             /\ x \in Polls
             /\ x.step = "stamped" => 1 <= x.now /\ x.now <= c
             /\ x.step = "sampled" =>
                    1 <= x.now /\ x.now <= x.sample.taken /\ x.sample.taken <= c
<1>0. /\ MaxTime \in Nat /\ clock \in 1 .. MaxTime /\ clock \in Times
      /\ polls \in [Pollers -> Polls]
      /\ \A p \in Pollers : PollOK(p, polls[p], clock)
  BY TelemetryAssumption DEF TelemetryInv, TypeOK, Times, StampBeforeSample
<1>a. ASSUME polls' \in [Pollers -> Polls],
             \A p \in Pollers : PollOK(p, polls'[p], clock'),
             UNCHANGED device, clock' \in 1 .. MaxTime, clock <= clock'
      PROVE  TelemetryInv' /\ CapIsOfLatest'
  <2>1. TypeOK'
    BY <1>a DEF TelemetryInv, TypeOK, device
  <2>2. latest # NoSample => latest.taken \in Nat
    BY TelemetryAssumption DEF TelemetryInv, TypeOK, BackendSample, Times
  <2>3. CapIsOfLatest'
    BY <1>a DEF CapIsOfLatest, device
  <2>4. IF latest' = NoSample THEN last_observed' = 0
        ELSE StampBeforeSample(last_observed, latest)'
    BY <1>0, <1>a, <2>2 DEF TelemetryInv, StampBeforeSample, device
  <2> QED
    BY <1>a, <2>1, <2>3, <2>4 DEF TelemetryInv, StampBeforeSample
<1>b. ASSUME NEW p \in Pollers, NEW x, PollOK(p, x, clock), polls' = [polls EXCEPT ![p] = x]
      PROVE  polls' \in [Pollers -> Polls] /\ \A q \in Pollers : PollOK(q, polls'[q], clock)
  BY <1>0, <1>b
<1>c. PollOK(0, Idle, clock)
  BY DEF Polls, Idle
<1>1. ASSUME NEW p \in Pollers, PollStamp(p) PROVE TelemetryInv' /\ CapIsOfLatest'
  <2> DEFINE x == [step |-> "stamped", now |-> clock]
  <2>1. x \in Polls /\ x.step = "stamped" /\ x.now = clock
    BY <1>0 DEF Polls
  <2>2. polls' = [polls EXCEPT ![p] = x] /\ UNCHANGED <<device, clock>>
    BY <1>1 DEF PollStamp
  <2> HIDE DEF x
  <2>3. PollOK(p, x, clock)
    BY <1>0, <2>1
  <2> QED  BY <1>0, <1>a, <1>b, <2>2, <2>3
<1>2. ASSUME NEW p \in Pollers, NEW s \in BackendSample, PollSample(p, s)
      PROVE  TelemetryInv' /\ CapIsOfLatest'
  <2> DEFINE x == [step |-> "sampled", now |-> polls[p].now, sample |-> s]
  <2>0. polls[p] \in Polls /\ polls[p].step = "stamped" /\ PollOK(p, polls[p], clock)
    BY <1>0, <1>2 DEF PollSample
  <2>1. polls[p].now \in Times
    BY <2>0 DEF Polls, Idle
  <2>2. x \in Polls /\ x.step = "sampled" /\ x.now = polls[p].now /\ x.sample = s
    BY <2>1 DEF Polls
  <2>3. polls' = [polls EXCEPT ![p] = x] /\ UNCHANGED <<device, clock>> /\ s.taken = clock
    BY <1>2 DEF PollSample
  <2> HIDE DEF x
  <2>4. PollOK(p, x, clock)
    BY <1>0, <2>0, <2>2, <2>3
  <2> QED  BY <1>0, <1>a, <1>b, <2>3, <2>4
<1>d. ASSUME NEW sample \in BackendSample, NEW now \in Times, StampBeforeSample(now, sample),
             ingest_locked(sample, now), clock' = clock, polls' \in [Pollers -> Polls],
             \A p \in Pollers : PollOK(p, polls'[p], clock)
      PROVE  TelemetryInv' /\ CapIsOfLatest'
  <2>1. /\ latest' \in BackendSample \cup {NoSample}
        /\ last_observed' \in Times /\ power_window' \in Times /\ heated' \in Times
        /\ hardware_cap' \in Limits \cup {NoReading}
        /\ thermal' \in ThermalGovernorState
        /\ IF latest' = NoSample THEN last_observed' = 0
           ELSE StampBeforeSample(last_observed', latest')
        /\ CapIsOfLatest'
    BY <1>d, IngestStep
  <2>2. TypeOK'
    BY <1>0, <1>d, <2>1 DEF TypeOK
  <2> QED  BY <1>d, <2>1, <2>2 DEF TelemetryInv, StampBeforeSample
<1>3. ASSUME NEW p \in Pollers, PollIngest(p) PROVE TelemetryInv' /\ CapIsOfLatest'
  <2>1. polls[p] \in Polls /\ polls[p].step = "sampled" /\ PollOK(p, polls[p], clock)
    BY <1>0, <1>3 DEF PollIngest
  <2>2. polls[p].sample \in BackendSample /\ polls[p].now \in Times
    BY <2>1 DEF Polls, Idle
  <2>3. StampBeforeSample(polls[p].now, polls[p].sample)
    BY <2>1 DEF StampBeforeSample
  <2>4. /\ ingest_locked(polls[p].sample, polls[p].now) /\ clock' = clock
        /\ polls' = [polls EXCEPT ![p] = Idle]
    BY <1>3 DEF PollIngest
  <2> QED  BY <1>b, <1>c, <1>d, <2>2, <2>3, <2>4
<1>4. ASSUME NEW s \in BackendSample, NEW now \in CallTimes, observe_backend(s, now)
      PROVE  TelemetryInv' /\ CapIsOfLatest'
  <2>1. now \in Times /\ 1 <= now /\ now <= clock
    BY <1>0 DEF CallTimes, Times
  <2>2. ingest_locked(s, now) /\ clock' = clock /\ polls' = polls /\ s.taken = now
    BY <1>4 DEF observe_backend
  <2>3. StampBeforeSample(now, s)
    BY <1>0, <2>1, <2>2 DEF StampBeforeSample, Times
  <2> QED  BY <1>0, <1>d, <2>1, <2>2, <2>3
<1>5. CASE invalidate_live_telemetry
  <2>1. TypeOK'
    BY <1>0, <1>5, ResetType DEF invalidate_live_telemetry, TelemetryInv, TypeOK, Times
  <2> QED
    BY <1>5, <2>1 DEF invalidate_live_telemetry, TelemetryInv, CapIsOfLatest, StampBeforeSample
<1>6. CASE Tick
  <2>1. clock' = clock + 1 /\ clock < MaxTime /\ UNCHANGED <<device, polls>>
    BY <1>6 DEF Tick
  <2>2. \A p \in Pollers : PollOK(p, polls'[p], clock')
    <3> SUFFICES ASSUME NEW p \in Pollers PROVE PollOK(p, polls[p], clock + 1)
      BY <2>1
    <3>1. polls[p] \in Polls /\ PollOK(p, polls[p], clock)
      BY <1>0
    <3>2. polls[p].step = "stamped" => polls[p].now \in Nat
      BY <3>1, TelemetryAssumption DEF Polls, Idle, Times
    <3>3. polls[p].step = "sampled" => polls[p].sample.taken \in Nat
      BY <3>1, TelemetryAssumption DEF Polls, Idle, Times, BackendSample
    <3> QED  BY <1>0, <3>1, <3>2, <3>3
  <2> QED  BY <1>0, <1>a, <2>1, <2>2
<1>7. CASE UNCHANGED vars
  BY <1>0, <1>a, <1>7 DEF vars
<1> QED  BY <1>1, <1>2, <1>3, <1>4, <1>5, <1>6, <1>7 DEF Next

\* Whatever runs between the steps of whichever polls, usable telemetry is
\* recent: timestamps never overstate the freshness of a sample.
THEOREM FreshIsRecentHolds == Spec => []FreshIsRecent
<1>1. TelemetryInv => FreshIsRecent
  <2> SUFFICES ASSUME TelemetryInv, NEW now \in CallTimes, Usable(now)
               PROVE  latest # NoSample /\ clock - latest.taken < StaleAfter + CallLag
    BY DEF FreshIsRecent
  <2>1. last_observed # 0 /\ Age(now) < StaleAfter
    BY TelemetryAssumption DEF Usable, freshness_of, Age, CallTimes, TelemetryInv, TypeOK, Times
  <2>2. latest # NoSample /\ StampBeforeSample(last_observed, latest)
    BY <2>1 DEF TelemetryInv
  <2>3. /\ latest.taken \in Nat /\ last_observed \in Nat /\ clock \in Nat /\ now \in Nat
        /\ clock - now <= CallLag /\ CallLag \in Nat /\ StaleAfter \in Nat /\ now <= clock
    BY <2>2, TelemetryAssumption DEF TelemetryInv, TypeOK, BackendSample, Times, CallTimes
  <2> QED  BY <2>1, <2>2, <2>3 DEF Age, StampBeforeSample
<1> QED  BY <1>1, TelemetryInit, TelemetryStep, PTL DEF Spec

\* The device state and what pollers hold between their steps keep their types.
THEOREM TelemetryTyped == Spec => []TypeOK
<1>1. TelemetryInv => TypeOK
  BY DEF TelemetryInv
<1> QED  BY <1>1, TelemetryInit, TelemetryStep, PTL DEF Spec

\* The cap decisions read is that of the latest sample unless that sample came
\* out of order.
THEOREM CapIsOfLatestHolds == Spec => []CapIsOfLatest
BY TelemetryInit, TelemetryStep, PTL DEF Spec

-----------------------------------------------------------------------------
(* Decisions on the device state.                                          *)

\* Any caps that are given have a least one, and Min is it.
LEMMA MinIsLeast ==
    ASSUME NEW S \in SUBSET Nat, S # {}
    PROVE  Min(S) \in S /\ \A y \in S : Min(S) <= y
<1> DEFINE less == {pair \in Nat \X Nat : pair[1] < pair[2]}
<1>1. IsWellFoundedOn(less, Nat)
  BY NatLessThanWellFounded DEF OpToRel
<1>2. PICK x \in S : \A y \in S : ~ (<<y, x>> \in less)
  <2> HIDE DEF less
  <2> QED  BY <1>1, WFMin
<1>3. \A y \in S : ~ (y < x)
  BY <1>2
<1>4. \A y \in S : x <= y
  BY <1>3
<1> QED  BY <1>4 DEF Min

\* Whole watts divide as they should: less to divide never gives more.
LEMMA DivMonotone ==
    ASSUME NEW a \in Nat, NEW b \in Nat, NEW d \in Nat, d > 0, a <= b
    PROVE  a \div d \in Nat /\ b \div d \in Nat /\ a \div d <= b \div d
<1>1. a \div d \in Int /\ b \div d \in Int
  OBVIOUS
<1>2. d * (a \div d) <= a /\ a < d * (a \div d) + d
  OBVIOUS
<1>3. d * (b \div d) <= b /\ b < d * (b \div d) + d
  OBVIOUS
<1>4. \A x, y \in Int : d * x < d * y + d => x <= y
  OBVIOUS
<1> QED  BY <1>1, <1>2, <1>3, <1>4

\* The headroom is a part of the whole at every temperature.
LEMMA HeadroomType ==
    ASSUME NEW t \in Nat
    PROVE  headroom_fraction(t) \in Nat
<1> DEFINE span == HotMax - NormalMax
<1>1. span \in Nat /\ ReductionPercent \in Nat /\ 100 - ReductionPercent \in 0 .. 100
  BY ThermalAssumption
<1>2. ASSUME NEW n \in 0 .. span, NEW k \in 0 .. 100 PROVE n * k <= 100 * span /\ n * k \in Nat
  <2>1. n * k <= n * 100 /\ n * k \in Nat
    BY <1>1, <1>2
  <2> QED  BY <1>1, <1>2, <2>1
<1>3. CASE NormalMax < t /\ t < HotMax
  <2>1. t - NormalMax \in 0 .. span
    BY <1>3, ThermalAssumption
  <2>2. /\ (t - NormalMax) * (100 - ReductionPercent) <= 100 * span
        /\ (t - NormalMax) * (100 - ReductionPercent) \in Nat
    BY <1>1, <1>2, <2>1
  <2>3. headroom_fraction(t) = 100 * span - (t - NormalMax) * (100 - ReductionPercent)
    BY <1>3, ThermalAssumption DEF headroom_fraction
  <2> HIDE DEF span
  <2> QED  BY <1>1, <2>2, <2>3
<1>4. CASE ~ (NormalMax < t /\ t < HotMax)
  BY <1>1, <1>4, ThermalAssumption DEF headroom_fraction
<1> QED  BY <1>3, <1>4

\* A lower cap never permits more power at the same temperature.
LEMMA LessCapPermitsLess ==
    ASSUME NEW cap \in Nat, NEW low \in Nat, low <= cap, NEW t \in Nat
    PROVE  /\ permitted_power(low, t) \in Nat /\ permitted_power(cap, t) \in Nat
           /\ permitted_power(low, t) <= permitted_power(cap, t)
<1> DEFINE h == headroom_fraction(t)
           whole == 100 * (HotMax - NormalMax)
<1>1. h \in Nat /\ whole \in Nat /\ whole > 0 /\ t # NoReading
  BY HeadroomType, ThermalAssumption
<1>2. /\ permitted_power(low, t) = (low * h) \div whole
      /\ permitted_power(cap, t) = (cap * h) \div whole
  BY <1>1 DEF permitted_power
<1> HIDE DEF h, whole
<1>3. low * h \in Nat /\ cap * h \in Nat /\ low * h <= cap * h
  BY <1>1
<1> QED  BY <1>1, <1>2, <1>3, DivMonotone

\* The ceilings that decide_for hands to the rules: the hardware ceiling is a
\* cap that is given and within every one, the thermal ceiling is a number.
LEMMA CeilingsOfInput ==
    ASSUME TypeOK
    PROVE  /\ hardware_ceiling \in Nat \cup {NoReading}
           /\ \A cap \in PolicyCaps \cup ({hardware_cap} \ {NoReading}) :
                  hardware_ceiling \in Nat /\ hardware_ceiling <= cap
           /\ ceiling_temperature \in Nat \cup {NoReading}
           /\ thermal_ceiling \in Nat \cup {NoReading}
<1> DEFINE caps == PolicyCaps \cup ({hardware_cap} \ {NoReading})
<1>1. caps \in SUBSET Nat
  BY TelemetryAssumption, DecideAssumption DEF TypeOK
<1>2. /\ hardware_ceiling \in Nat \cup {NoReading}
      /\ \A cap \in caps : hardware_ceiling \in Nat /\ hardware_ceiling <= cap
  <2>1. hardware_ceiling = IF caps = {} THEN NoReading ELSE Min(caps)
    BY DEF hardware_ceiling
  <2> HIDE DEF caps
  <2> QED  BY <1>1, <2>1, MinIsLeast
<1>3. ceiling_temperature \in Nat \cup {NoReading}
  BY TelemetryAssumption DEF TypeOK, ceiling_temperature, BackendSample, ThermalGovernorState
<1>4. thermal_ceiling \in Nat \cup {NoReading}
  <2>1. CASE hardware_ceiling \in {0, NoReading} \/ ceiling_temperature = NoReading
    BY <2>1 DEF thermal_ceiling, permitted_power
  <2>2. CASE hardware_ceiling \notin {0, NoReading} /\ ceiling_temperature # NoReading
    <3>1. permitted_power(hardware_ceiling, ceiling_temperature) \in Nat
      BY <1>2, <1>3, <2>2, LessCapPermitsLess
    <3> QED  BY <2>2, <3>1 DEF thermal_ceiling
  <2> QED  BY <2>1, <2>2
<1> QED  BY <1>2, <1>3, <1>4

\* A plain ALLOW of the rules is given on telemetry that is not stale and
\* within every ceiling of its input.
LEMMA AllowOfRules ==
    ASSUME TypeOK, NEW q \in DecisionRequest, NEW now \in CallTimes,
           decide_locked(q, now).verdict = "ALLOW"
    PROVE  /\ freshness_of(now) \notin {"STALE", "EXPIRED"}
           /\ \A l \in {hardware_ceiling, q.budget_available, thermal_ceiling} \ {NoReading} :
                  l \in Nat /\ q.power <= l
<1> DEFINE in == decide_input(q, now)
           given == {hardware_ceiling, q.budget_available, thermal_ceiling} \ {NoReading}
<1>1. q.power \in Nat /\ q.budget_available \in Nat \cup {NoReading}
  BY DecideAssumption DEF DecisionRequest
<1>2. given \in SUBSET Nat
  BY <1>1, CeilingsOfInput
<1>3. ~ Engine!Stale(in) /\ ~ Engine!Exceeds(in)
  BY DEF decide_locked, Engine!Rule
<1>4. freshness_of(now) \notin {"STALE", "EXPIRED"}
  BY <1>3 DEF Engine!Stale, decide_input
<1>5. ~ (given # {} /\ q.power > Min(given))
  BY <1>3 DEF Engine!Exceeds, Engine!Given, decide_input, Engine!Min, Min
<1> HIDE DEF given
<1>6. \A l \in given : l \in Nat /\ q.power <= l
  <2> SUFFICES ASSUME NEW l \in given PROVE l \in Nat /\ q.power <= l
    OBVIOUS
  <2>1. given # {}
    OBVIOUS
  <2>2. Min(given) \in given /\ Min(given) <= l
    BY <1>2, <2>1, MinIsLeast
  <2>3. Min(given) \in Nat /\ l \in Nat
    BY <1>2, <2>2
  <2>4. ~ (q.power > Min(given))
    BY <1>5, <2>1
  <2> QED  BY <1>1, <2>2, <2>3, <2>4
<1> QED  BY <1>4, <1>6 DEF given

\* Whatever polls, observations and invalidations did before it, a plain ALLOW
\* is recent and within every cap, for every policy, request and threshold.
THEOREM AllowIsGroundedHolds == Spec => []AllowIsGrounded
<1>1. TelemetryInv /\ CapIsOfLatest /\ FreshIsRecent => AllowIsGrounded
  <2> SUFFICES ASSUME TelemetryInv, CapIsOfLatest, FreshIsRecent,
                      NEW q \in DecisionRequest, NEW now \in CallTimes,
                      decide_locked(q, now).verdict = "ALLOW"
               PROVE  /\ latest # NoSample /\ clock - latest.taken < StaleAfter + CallLag
                      /\ \A cap \in PolicyCaps \cup ({q.budget_available} \ {NoReading}) :
                            q.power <= cap
                      /\ last_observed = power_window /\ latest.power_limit # NoReading =>
                            /\ q.power <= latest.power_limit
                            /\ latest.temperature # NoReading =>
                                  q.power <= permitted_power(latest.power_limit, latest.temperature)
    BY DEF AllowIsGrounded
  <2>1. TypeOK
    BY DEF TelemetryInv
  <2>2. /\ freshness_of(now) \notin {"STALE", "EXPIRED"}
        /\ \A l \in {hardware_ceiling, q.budget_available, thermal_ceiling} \ {NoReading} :
               l \in Nat /\ q.power <= l
    BY <2>1, AllowOfRules
  <2>3. latest # NoSample /\ clock - latest.taken < StaleAfter + CallLag
    BY <2>2 DEF FreshIsRecent, Usable, freshness_of
  <2>4. q.power \in Nat /\ q.budget_available \in Nat \cup {NoReading} /\ NoReading \notin Nat
    BY DecideAssumption, ThermalAssumption DEF DecisionRequest
  <2>5. ASSUME NEW cap \in PolicyCaps \cup ({hardware_cap} \ {NoReading})
        PROVE  /\ hardware_ceiling \in Nat /\ hardware_ceiling <= cap /\ cap \in Nat
               /\ q.power <= hardware_ceiling /\ q.power <= cap
    <3>1. hardware_ceiling \in Nat /\ hardware_ceiling <= cap /\ cap \in Nat
      BY <2>1, CeilingsOfInput, TelemetryAssumption, DecideAssumption DEF TypeOK
    <3>2. q.power <= hardware_ceiling
      BY <2>2, <2>4, <3>1
    <3> QED  BY <2>4, <3>1, <3>2
  <2>6. ASSUME last_observed = power_window, latest.power_limit # NoReading
        PROVE  /\ q.power <= latest.power_limit
               /\ latest.temperature # NoReading =>
                     q.power <= permitted_power(latest.power_limit, latest.temperature)
    <3>1. /\ latest.power_limit \in Nat /\ latest.temperature \in Nat \cup {NoReading}
      BY <2>1, <2>3, <2>6, TelemetryAssumption DEF TypeOK, BackendSample
    <3>2. hardware_cap = latest.power_limit
      BY <2>3, <2>6 DEF CapIsOfLatest
    <3>3. /\ hardware_ceiling \in Nat /\ hardware_ceiling <= latest.power_limit
          /\ q.power <= hardware_ceiling /\ q.power <= latest.power_limit
      BY <2>5, <2>6, <3>2
    <3>4. ASSUME latest.temperature # NoReading
          PROVE  q.power <= permitted_power(latest.power_limit, latest.temperature)
      <4>1. latest.temperature \in Nat /\ ceiling_temperature = latest.temperature
        BY <2>3, <3>1, <3>4 DEF ceiling_temperature
      <4>2. /\ permitted_power(hardware_ceiling, latest.temperature) \in Nat
            /\ permitted_power(latest.power_limit, latest.temperature) \in Nat
            /\ permitted_power(hardware_ceiling, latest.temperature)
                 <= permitted_power(latest.power_limit, latest.temperature)
        BY <3>1, <3>3, <4>1, LessCapPermitsLess
      <4>3. CASE hardware_ceiling = 0
        BY <2>4, <3>3, <4>2, <4>3
      <4>4. CASE hardware_ceiling # 0
        <5>1. thermal_ceiling = permitted_power(hardware_ceiling, latest.temperature)
          BY <2>4, <3>3, <4>1, <4>4 DEF thermal_ceiling
        <5>2. q.power <= thermal_ceiling
          BY <2>2, <2>4, <4>2, <5>1
        <5> QED  BY <2>4, <4>2, <5>1, <5>2
      <4> QED  BY <4>3, <4>4
    <3> QED  BY <3>3, <3>4
  <2>7. \A cap \in PolicyCaps \cup ({q.budget_available} \ {NoReading}) : q.power <= cap
    BY <2>2, <2>5
  <2> QED  BY <2>3, <2>6, <2>7
<1>2. Spec => [](TelemetryInv /\ CapIsOfLatest)
  BY TelemetryInit, TelemetryStep, PTL DEF Spec
<1> QED  BY <1>1, <1>2, FreshIsRecentHolds, PTL
=============================================================================
