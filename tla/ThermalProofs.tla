--------------------------- MODULE ThermalProofs ----------------------------
(***************************************************************************)
(* Proofs about the thermal classifier for any thresholds, confirmation    *)
(* count and readings: its two hysteretic states are what the readings say *)
(* they are, and the power it permits falls with the temperature.          *)
(*                                                                         *)
(* The classifier remembers a count; RunIsCounted says what it counts.     *)
(***************************************************************************)
EXTENDS ThermalGovernor, TLAPS

Constrained == thermal.state = "THERMALLY_CONSTRAINED"

\* need_confirm is the length of the run of hot readings that the history ends
\* with, unless the device is constrained already.
RunIsCounted ==
    LET n == Len(readings)
        run == thermal.need_confirm
    IN  IF Constrained THEN run = 0
        ELSE /\ run <= n
             /\ \A j \in n - run + 1 .. n : readings[j] >= HotMax
             /\ run = n \/ readings[n - run] < HotMax

ThermalInv == TypeOK /\ RunIsCounted /\ ConstrainedIffConfirmed /\ RecoveringIffCooling

-----------------------------------------------------------------------------
(* What a reading does.                                                    *)

\* The thresholds are numbers, and the recovery margin is below hot_max.
LEMMA Thresholds ==
    /\ HotMax \in Nat /\ WarmMax \in Nat /\ NormalMax \in Nat /\ CoolMax \in Nat
    /\ RecoverBelow \in Nat /\ RecoverBelow <= HotMax /\ WarmMax < HotMax /\ NormalMax < WarmMax
    /\ CoolMax < NormalMax
    /\ ConfirmCount \in Nat /\ ConfirmCount >= 1
BY ThermalAssumption DEF RecoverBelow

\* The history after a reading, as far as it is looked at.
LEMMA HistoryGrows ==
    ASSUME TypeOK, NEW t \in Temperatures, Observe(t)
    PROVE  /\ Len(readings) \in Nat /\ Len(readings') = Len(readings) + 1
           /\ readings' \in Seq(Temperatures)
           /\ readings'[Len(readings) + 1] = t
           /\ \A i \in 1 .. Len(readings) : readings'[i] = readings[i] /\ readings[i] \in Nat
<1>1. readings \in Seq(Temperatures) /\ readings' = Append(readings, t)
  BY DEF TypeOK, Observe
<1>2. \A i \in 1 .. Len(readings) : readings[i] \in Nat
  <2>1. \A i \in 1 .. Len(readings) : readings[i] \in Temperatures
    BY <1>1
  <2> QED  BY <2>1, ReadingAssumption
<1> QED  BY <1>1, <1>2

\* The classifier on a hot reading.
LEMMA HotReading ==
    ASSUME TypeOK, NEW t \in Temperatures, Observe(t), t >= HotMax
    PROVE  LET confirmed == Constrained \/ thermal.need_confirm + 1 >= ConfirmCount IN
           /\ thermal'.state = IF confirmed THEN "THERMALLY_CONSTRAINED" ELSE thermal.state
           /\ thermal'.need_confirm = IF confirmed THEN 0 ELSE thermal.need_confirm + 1
           /\ thermal'.last_temp = t
           /\ thermal' \in ThermalGovernorState /\ thermal'.need_confirm < ConfirmCount
<1>1. t \in Nat
  BY ReadingAssumption
<1>2. classify_raw(t) = "THERMALLY_CONSTRAINED"
  BY <1>1, Thresholds DEF classify_raw
<1>3. thermal' = ObserveHot(thermal, t)
  BY <1>2 DEF Observe, observe
<1>4. /\ thermal.state \in ThermalState /\ thermal.need_confirm \in Nat
      /\ thermal.need_confirm < ConfirmCount
  BY Thresholds DEF TypeOK, ThermalGovernorState
<1> DEFINE confirmed == Constrained \/ thermal.need_confirm + 1 >= ConfirmCount
<1>5. thermal' = [state |-> IF confirmed THEN "THERMALLY_CONSTRAINED" ELSE thermal.state,
                  need_confirm |-> IF confirmed THEN 0 ELSE thermal.need_confirm + 1,
                  last_temp |-> t]
  BY <1>3 DEF ObserveHot, Constrained
<1>6. thermal' \in ThermalGovernorState /\ thermal'.need_confirm < ConfirmCount
  BY <1>1, <1>4, <1>5, Thresholds DEF ThermalGovernorState, ThermalState, RawState
<1> QED  BY <1>5, <1>6

\* The classifier on any other reading.
LEMMA OtherReading ==
    ASSUME TypeOK, NEW t \in Temperatures, Observe(t), ~ t >= HotMax
    PROVE  /\ Constrained' <=> Constrained /\ ~ t < RecoverBelow
           /\ thermal'.state = "RECOVERING" <=>
                 \/ Constrained /\ t < RecoverBelow
                 \/ thermal.state = "RECOVERING" /\ ~ t <= WarmMax
           /\ thermal'.need_confirm = 0
           /\ thermal' \in ThermalGovernorState /\ thermal'.need_confirm < ConfirmCount
<1>1. t \in Nat
  BY ReadingAssumption
<1>2. classify_raw(t) \in {"COOL", "NORMAL", "WARM", "HOT"}
  BY <1>1, Thresholds DEF classify_raw
<1>3. thermal' = ObserveBelowHot(thermal, t)
  BY <1>2 DEF Observe, observe
<1> DEFINE raw == classify_raw(t)
           s == CASE Constrained -> IF t < RecoverBelow THEN "RECOVERING" ELSE thermal.state
                  [] thermal.state = "RECOVERING" -> IF t <= WarmMax THEN "NORMAL" ELSE thermal.state
                  [] OTHER -> raw
<1>4. thermal' = [state |-> s, need_confirm |-> 0, last_temp |-> t]
  BY <1>3 DEF ObserveBelowHot, Constrained
<1> HIDE DEF raw
<1>5. raw \in {"COOL", "NORMAL", "WARM", "HOT"} /\ thermal.state \in ThermalState
  BY <1>2 DEF raw, TypeOK, ThermalGovernorState
<1>6. /\ s = "THERMALLY_CONSTRAINED" <=> Constrained /\ ~ t < RecoverBelow
      /\ s = "RECOVERING" <=> \/ Constrained /\ t < RecoverBelow
                              \/ thermal.state = "RECOVERING" /\ ~ t <= WarmMax
      /\ s \in ThermalState
  BY <1>5 DEF Constrained, ThermalState, RawState
<1> HIDE DEF s
<1>7. thermal' \in ThermalGovernorState /\ thermal'.need_confirm < ConfirmCount
  BY <1>1, <1>4, <1>6, Thresholds DEF ThermalGovernorState
<1> QED  BY <1>4, <1>6, <1>7 DEF Constrained

-----------------------------------------------------------------------------
(* What the history says.                                                  *)

\* What the history said of its readings so far it says with one more of them.
LEMMA PastIsKept ==
    ASSUME TypeOK, NEW t \in Temperatures, Observe(t)
    PROVE  \A i \in 0 .. Len(readings) : ConstrainedAfter(i)' <=> ConstrainedAfter(i)
<1> DEFINE n == Len(readings)
<1>1. n \in Nat /\ \A i \in 1 .. n : readings'[i] = readings[i]
  BY HistoryGrows
<1> HIDE DEF n
<1>2. ASSUME NEW i \in 1 .. n PROVE ConfirmedAt(i)' <=> ConfirmedAt(i)
  <2>1. i >= ConfirmCount => \A j \in i - ConfirmCount + 1 .. i : j \in 1 .. n
    BY <1>1, Thresholds
  <2> QED  BY <1>1, <2>1 DEF ConfirmedAt
<1>3. ASSUME NEW i \in 0 .. n PROVE ConstrainedAfter(i)' <=> ConstrainedAfter(i)
  <2>1. \A k \in 1 .. i : k \in 1 .. n /\ \A j \in k + 1 .. i : j \in 1 .. n
    BY <1>1
  <2> QED  BY <1>1, <1>2, <2>1 DEF ConstrainedAfter
<1> QED  BY <1>3 DEF n

\* A constraint goes on, or it is confirmed by the last reading.
LEMMA ConstrainedAfterReading ==
    ASSUME TypeOK, NEW t \in Temperatures, Observe(t), NEW n \in Nat, n = Len(readings)
    PROVE  ConstrainedAfter(n + 1)' <=>
               (ConstrainedAfter(n) /\ t >= RecoverBelow) \/ ConfirmedAt(n + 1)'
<1>1. /\ n \in Nat /\ readings'[n + 1] = t
      /\ \A i \in 1 .. n : readings'[i] = readings[i]
  BY HistoryGrows
<1>2. ConstrainedAfter(n)' <=> ConstrainedAfter(n)
  <2>1. n \in 0 .. Len(readings)
    BY <1>1
  <2> QED  BY <2>1, PastIsKept
<1>3. ASSUME ConstrainedAfter(n), t >= RecoverBelow PROVE ConstrainedAfter(n + 1)'
  <2>1. PICK i \in 1 .. n : ConfirmedAt(i)' /\ \A j \in i + 1 .. n : readings'[j] >= RecoverBelow
    BY <1>2, <1>3 DEF ConstrainedAfter
  <2>2. i \in 1 .. n + 1 /\ \A j \in i + 1 .. n + 1 : j \in i + 1 .. n \/ j = n + 1
    BY <1>1
  <2> QED  BY <1>1, <1>3, <2>1, <2>2 DEF ConstrainedAfter
<1>4. ASSUME ConfirmedAt(n + 1)' PROVE ConstrainedAfter(n + 1)'
  <2>1. n + 1 \in 1 .. n + 1 /\ \A j \in n + 1 + 1 .. n + 1 : FALSE
    BY <1>1
  <2> QED  BY <1>4, <2>1 DEF ConstrainedAfter
<1>5. ASSUME ConstrainedAfter(n + 1)', ~ ConfirmedAt(n + 1)'
      PROVE  ConstrainedAfter(n) /\ t >= RecoverBelow
  <2>1. PICK i \in 1 .. n + 1 :
            ConfirmedAt(i)' /\ \A j \in i + 1 .. n + 1 : readings'[j] >= RecoverBelow
    BY <1>5 DEF ConstrainedAfter
  <2>2. i \in 1 .. n /\ n + 1 \in i + 1 .. n + 1 /\ \A j \in i + 1 .. n : j \in i + 1 .. n + 1
    BY <1>1, <1>5, <2>1
  <2>3. ConstrainedAfter(n)'
    BY <2>1, <2>2 DEF ConstrainedAfter
  <2> QED  BY <1>1, <1>2, <2>1, <2>2, <2>3
<1> QED  BY <1>3, <1>4, <1>5

\* A recovery goes on above warm_max, or it begins with the last reading.
LEMMA RecoveringAfterReading ==
    ASSUME TypeOK, NEW t \in Temperatures, Observe(t), NEW n \in Nat, n = Len(readings)
    PROVE  /\ ~ ConstrainedAfter(n) /\ ~ RecoveringAfter(n) => ~ RecoveringAfter(n + 1)'
           /\ RecoveringAfter(n) =>
                 (RecoveringAfter(n + 1)' <=> ~ ConstrainedAfter(n + 1)' /\ t > WarmMax)
           /\ ConstrainedAfter(n) =>
                 (RecoveringAfter(n + 1)' <=> ~ ConstrainedAfter(n + 1)')
<1> DEFINE Ended(i, m) == /\ ConstrainedAfter(i - 1) /\ readings[i] < RecoverBelow
                          /\ \A j \in i + 1 .. m : readings[j] > WarmMax
           Ended1(i) == /\ ConstrainedAfter(i - 1)' /\ readings'[i] < RecoverBelow
                        /\ \A j \in i + 1 .. n + 1 : readings'[j] > WarmMax
<1>1. /\ readings'[n + 1] = t /\ t \in Nat
      /\ \A i \in 1 .. n : readings'[i] = readings[i]
  BY HistoryGrows, ReadingAssumption
<1>2. \A i \in 0 .. n : ConstrainedAfter(i)' <=> ConstrainedAfter(i)
  BY PastIsKept
<1>3. ASSUME NEW i \in 1 .. n PROVE Ended1(i) <=> Ended(i, n) /\ t > WarmMax
  <2>1. i - 1 \in 0 .. n
    BY <1>3
  <2>2. \A j \in i + 1 .. n : j \in 1 .. n /\ j \in i + 1 .. n + 1
    BY <1>3
  <2>3. n + 1 \in i + 1 .. n + 1 /\ \A j \in i + 1 .. n + 1 : j \in i + 1 .. n \/ j = n + 1
    BY <1>3
  <2>4. (ConstrainedAfter(i - 1)' <=> ConstrainedAfter(i - 1)) /\ readings'[i] = readings[i]
    BY <1>1, <1>2, <2>1
  <2>5. (\A j \in i + 1 .. n + 1 : readings'[j] > WarmMax) <=>
           (\A j \in i + 1 .. n : readings[j] > WarmMax) /\ t > WarmMax
    BY <1>1, <2>2, <2>3
  <2> QED  BY <2>4, <2>5
<1>4. Ended1(n + 1) <=> ConstrainedAfter(n) /\ t < RecoverBelow
  <2>1. n + 1 - 1 = n /\ n \in 0 .. n /\ \A j \in n + 1 + 1 .. n + 1 : FALSE
    OBVIOUS
  <2> QED  BY <1>1, <1>2, <2>1
<1>5. RecoveringAfter(n) <=> ~ ConstrainedAfter(n) /\ \E i \in 1 .. n : Ended(i, n)
  BY DEF RecoveringAfter
<1>6. RecoveringAfter(n + 1)' <=>
         ~ ConstrainedAfter(n + 1)' /\ \E i \in 1 .. n + 1 : Ended1(i)
  BY DEF RecoveringAfter
<1> HIDE DEF Ended, Ended1
<1>7. \A i \in 1 .. n + 1 : i \in 1 .. n \/ i = n + 1
  OBVIOUS
<1>8. n + 1 \in 1 .. n + 1 /\ \A i \in 1 .. n : i \in 1 .. n + 1
  OBVIOUS
<1>9. ConstrainedAfter(n) /\ ~ ConstrainedAfter(n + 1)' => t < RecoverBelow
  BY <1>1, Thresholds, ConstrainedAfterReading
<1> QED  BY <1>3, <1>4, <1>5, <1>6, <1>7, <1>8, <1>9

-----------------------------------------------------------------------------
(* A reading keeps the invariant.                                          *)

\* The count follows the run of hot readings.
LEMMA RunStep ==
    ASSUME TypeOK, RunIsCounted, NEW t \in Temperatures, Observe(t) PROVE RunIsCounted'
<1>1. PICK n \in Nat : n = Len(readings)
  BY HistoryGrows
<1>2. /\ Len(readings') = n + 1 /\ readings'[n + 1] = t /\ t \in Nat
      /\ \A i \in 1 .. n : readings'[i] = readings[i]
  BY <1>1, HistoryGrows, ReadingAssumption
<1>3. thermal.need_confirm \in Nat
  BY Thresholds DEF TypeOK, ThermalGovernorState
<1>4. ASSUME thermal'.need_confirm = 0, t < HotMax \/ Constrained' PROVE RunIsCounted'
  <2>1. \A j \in (n + 1) - 0 + 1 .. n + 1 : FALSE
    OBVIOUS
  <2>2. (n + 1) - 0 = n + 1
    OBVIOUS
  <2> QED  BY <1>2, <1>4, <2>1, <2>2 DEF RunIsCounted
<1>5. CASE ~ t >= HotMax
  <2>1. thermal'.need_confirm = 0 /\ t < HotMax
    BY <1>2, <1>5, OtherReading, Thresholds
  <2> QED  BY <1>4, <2>1
<1>6. CASE t >= HotMax
  <2> DEFINE run == thermal.need_confirm
             confirmed == Constrained \/ run + 1 >= ConfirmCount
  <2>1. /\ thermal'.state = IF confirmed THEN "THERMALLY_CONSTRAINED" ELSE thermal.state
        /\ thermal'.need_confirm = IF confirmed THEN 0 ELSE run + 1
    BY <1>6, HotReading
  <2>2. CASE confirmed
    BY <1>4, <2>1, <2>2 DEF Constrained
  <2>3. CASE ~ confirmed
    <3>1. ~ Constrained /\ ~ Constrained' /\ thermal'.need_confirm = run + 1
      BY <2>1, <2>3 DEF Constrained
    <3>2. /\ run <= n /\ \A j \in n - run + 1 .. n : readings[j] >= HotMax
          /\ run = n \/ readings[n - run] < HotMax
      BY <1>1, <3>1 DEF RunIsCounted
    <3> HIDE DEF run
    <3>3. run \in Nat
      BY <1>3 DEF run
    <3>a. run <= n
      BY <3>2
    <3>4. \A j \in (n + 1) - (run + 1) + 1 .. n + 1 : readings'[j] >= HotMax
      <4>1. \A j \in (n + 1) - (run + 1) + 1 .. n + 1 :
               (j \in n - run + 1 .. n /\ j \in 1 .. n) \/ j = n + 1
        BY <3>2, <3>3
      <4> QED  BY <1>2, <1>6, <3>2, <4>1
    <3>5. run + 1 = n + 1 \/ readings'[(n + 1) - (run + 1)] < HotMax
      <4>1. run = n \/ ((n + 1) - (run + 1) = n - run /\ n - run \in 1 .. n)
        BY <1>1, <3>3, <3>a
      <4> QED  BY <1>2, <3>2, <4>1
    <3>6. run + 1 <= n + 1
      BY <3>2, <3>3
    <3> QED  BY <1>2, <3>1, <3>4, <3>5, <3>6 DEF RunIsCounted
  <2> QED  BY <2>2, <2>3
<1> QED  BY <1>5, <1>6

\* The count reaches constrained_confirm_count when the run of hot readings
\* does, and not before.
LEMMA ConfirmedByReading ==
    ASSUME TypeOK, RunIsCounted, ~ Constrained, NEW t \in Temperatures, Observe(t),
           NEW n \in Nat, n = Len(readings)
    PROVE  ConfirmedAt(n + 1)' <=> t >= HotMax /\ thermal.need_confirm + 1 >= ConfirmCount
<1> DEFINE run == thermal.need_confirm
<1>1. /\ readings'[n + 1] = t /\ t \in Nat
      /\ \A i \in 1 .. n : readings'[i] = readings[i] /\ readings[i] \in Nat
  BY HistoryGrows, ReadingAssumption
<1>2. run \in Nat /\ run < ConfirmCount
  BY Thresholds DEF TypeOK, ThermalGovernorState
<1>3. /\ run <= n /\ \A j \in n - run + 1 .. n : readings[j] >= HotMax
      /\ run = n \/ readings[n - run] < HotMax
  BY DEF RunIsCounted
<1> HIDE DEF run
<1>4. ASSUME t >= HotMax, run + 1 >= ConfirmCount PROVE ConfirmedAt(n + 1)'
  <2>1. run + 1 = ConfirmCount /\ n + 1 >= ConfirmCount
    BY <1>2, <1>3, <1>4, Thresholds
  <2>2. \A j \in (n + 1) - ConfirmCount + 1 .. n + 1 :
           (j \in n - run + 1 .. n /\ j \in 1 .. n) \/ j = n + 1
    BY <1>2, <1>3, <2>1, Thresholds
  <2>3. \A j \in (n + 1) - ConfirmCount + 1 .. n + 1 : readings'[j] >= HotMax
    BY <1>1, <1>3, <1>4, <2>2
  <2> QED  BY <2>1, <2>3 DEF ConfirmedAt
<1>5. ASSUME ConfirmedAt(n + 1)' PROVE t >= HotMax /\ run + 1 >= ConfirmCount
  <2>1. /\ n + 1 >= ConfirmCount
        /\ \A j \in (n + 1) - ConfirmCount + 1 .. n + 1 : readings'[j] >= HotMax
    BY <1>5 DEF ConfirmedAt
  <2>2. n + 1 \in (n + 1) - ConfirmCount + 1 .. n + 1
    BY Thresholds
  <2>3. ASSUME run + 1 < ConfirmCount PROVE FALSE
    <3>1. n - run \in (n + 1) - ConfirmCount + 1 .. n + 1 /\ n - run \in 1 .. n
      BY <1>2, <1>3, <2>1, <2>3, Thresholds
    <3>2. readings[n - run] < HotMax
      BY <1>3, <3>1
    <3>3. readings[n - run] >= HotMax
      BY <1>1, <2>1, <3>1
    <3> QED  BY <1>1, <3>1, <3>2, <3>3, Thresholds
  <2> QED  BY <1>1, <1>2, <2>1, <2>2, <2>3, Thresholds
<1> QED  BY <1>4, <1>5 DEF run

\* A reading moves both sides of ConstrainedIffConfirmed alike.
LEMMA ConstrainedStep ==
    ASSUME ThermalInv, NEW t \in Temperatures, Observe(t) PROVE ConstrainedIffConfirmed'
<1>1. TypeOK /\ RunIsCounted
  BY DEF ThermalInv
<1>2. PICK n \in Nat : n = Len(readings)
  BY <1>1, HistoryGrows
<1>3. Constrained <=> ConstrainedAfter(n)
  BY <1>2 DEF ThermalInv, ConstrainedIffConfirmed, Constrained
<1>4. Len(readings') = n + 1 /\ t \in Nat
  BY <1>1, <1>2, HistoryGrows, ReadingAssumption
<1>5. ConstrainedAfter(n + 1)' <=>
         (ConstrainedAfter(n) /\ t >= RecoverBelow) \/ ConfirmedAt(n + 1)'
  BY <1>1, <1>2, ConstrainedAfterReading
<1>6. Constrained' <=> ConstrainedAfter(n + 1)'
  <2>1. CASE Constrained /\ t >= HotMax
    <3>1. Constrained'
      BY <1>1, <2>1, HotReading DEF Constrained
    <3> QED  BY <1>3, <1>4, <1>5, <2>1, <3>1, Thresholds
  <2>2. CASE Constrained /\ ~ t >= HotMax
    <3>1. Constrained' <=> ~ t < RecoverBelow
      BY <1>1, <2>2, OtherReading
    <3>2. ~ ConfirmedAt(n + 1)'
      <4>1. readings'[n + 1] = t /\ n + 1 \in (n + 1) - ConfirmCount + 1 .. n + 1
        BY <1>1, <1>2, HistoryGrows, Thresholds
      <4> QED  BY <2>2, <4>1 DEF ConfirmedAt
    <3> QED  BY <1>3, <1>4, <1>5, <2>2, <3>1, <3>2, Thresholds
  <2>3. CASE ~ Constrained /\ t >= HotMax
    <3>1. Constrained' <=> thermal.need_confirm + 1 >= ConfirmCount
      BY <1>1, <2>3, HotReading DEF Constrained
    <3>2. ConfirmedAt(n + 1)' <=> thermal.need_confirm + 1 >= ConfirmCount
      BY <1>1, <1>2, <2>3, ConfirmedByReading
    <3> QED  BY <1>3, <1>5, <2>3, <3>1, <3>2
  <2>4. CASE ~ Constrained /\ ~ t >= HotMax
    <3>1. ~ Constrained'
      BY <1>1, <2>4, OtherReading
    <3>2. ~ ConfirmedAt(n + 1)'
      BY <1>1, <1>2, <2>4, ConfirmedByReading
    <3> QED  BY <1>3, <1>5, <2>4, <3>1, <3>2
  <2> QED  BY <2>1, <2>2, <2>3, <2>4
<1> QED  BY <1>4, <1>6 DEF ConstrainedIffConfirmed, Constrained

\* A reading moves both sides of RecoveringIffCooling alike.
LEMMA RecoveringStep ==
    ASSUME ThermalInv, ConstrainedIffConfirmed', NEW t \in Temperatures, Observe(t)
    PROVE  RecoveringIffCooling'
<1> DEFINE recovering == thermal.state = "RECOVERING"
<1>1. TypeOK
  BY DEF ThermalInv
<1>2. PICK n \in Nat : n = Len(readings)
  BY <1>1, HistoryGrows
<1>3. Len(readings') = n + 1 /\ t \in Nat
  BY <1>1, <1>2, HistoryGrows, ReadingAssumption
<1>4. (Constrained <=> ConstrainedAfter(n)) /\ (recovering <=> RecoveringAfter(n))
  BY <1>2 DEF ThermalInv, ConstrainedIffConfirmed, RecoveringIffCooling, Constrained
<1>5. Constrained' <=> ConstrainedAfter(n + 1)'
  BY <1>3 DEF ConstrainedIffConfirmed, Constrained
<1>6. ~ (Constrained /\ recovering) /\ ~ (Constrained' /\ recovering')
  BY DEF Constrained
<1>7. recovering' <=> RecoveringAfter(n + 1)'
  <2>1. CASE t >= HotMax
    <3>1. recovering' <=> recovering /\ ~ Constrained'
      BY <1>1, <2>1, HotReading DEF Constrained
    <3>2. t > WarmMax /\ (Constrained => Constrained')
      BY <1>1, <1>3, <2>1, HotReading, Thresholds DEF Constrained
    <3> HIDE DEF recovering
    <3> QED  BY <1>1, <1>2, <1>4, <1>5, <1>6, <3>1, <3>2, RecoveringAfterReading
  <2>2. CASE ~ t >= HotMax
    <3>1. /\ Constrained' <=> Constrained /\ ~ t < RecoverBelow
          /\ recovering' <=> (Constrained /\ t < RecoverBelow) \/ (recovering /\ ~ t <= WarmMax)
      BY <1>1, <2>2, OtherReading
    <3>2. t > WarmMax <=> ~ t <= WarmMax
      BY <1>3, Thresholds
    <3> HIDE DEF recovering
    <3> QED  BY <1>1, <1>2, <1>4, <1>5, <1>6, <3>1, <3>2, RecoveringAfterReading
  <2> QED  BY <2>1, <2>2
<1> QED  BY <1>3, <1>7 DEF RecoveringIffCooling

\* Readings and resets keep ThermalInv.
LEMMA ThermalInvHolds == Spec => []ThermalInv
<1>1. ASSUME thermal = reset, readings = << >> PROVE ThermalInv
  <2>1. Len(readings) = 0 /\ readings \in Seq(Temperatures)
    BY <1>1
  <2>2. /\ thermal.state = "UNKNOWN" /\ thermal.need_confirm = 0
        /\ thermal \in ThermalGovernorState
    BY <1>1, Thresholds DEF reset, ThermalGovernorState, ThermalState
  <2>3. TypeOK
    BY <2>1, <2>2, Thresholds DEF TypeOK
  <2>4. RunIsCounted
    BY <2>1, <2>2 DEF RunIsCounted, Constrained
  <2>5. ~ ConstrainedAfter(0) /\ ~ RecoveringAfter(0)
    BY DEF ConstrainedAfter, RecoveringAfter
  <2> QED
    BY <2>1, <2>2, <2>3, <2>4, <2>5
       DEF ThermalInv, ConstrainedIffConfirmed, RecoveringIffCooling
<1>2. Init => ThermalInv
  BY <1>1 DEF Init
<1>3. ASSUME ThermalInv, [Next]_vars PROVE ThermalInv'
  <2>1. ASSUME NEW t \in Temperatures, Observe(t) PROVE ThermalInv'
    <3>1. TypeOK /\ RunIsCounted
      BY <1>3 DEF ThermalInv
    <3>2. TypeOK'
      BY <2>1, <3>1, HistoryGrows, HotReading, OtherReading DEF TypeOK
    <3>3. RunIsCounted' /\ ConstrainedIffConfirmed'
      BY <1>3, <2>1, <3>1, RunStep, ConstrainedStep
    <3> QED  BY <1>3, <2>1, <3>2, <3>3, RecoveringStep DEF ThermalInv
  <2>2. CASE Reset
    <3>1. (thermal = reset)' /\ (readings = << >>)'
      BY <2>2 DEF Reset, reset
    <3>2. Len(readings') = 0 /\ readings' \in Seq(Temperatures)
      BY <3>1
    <3>3. /\ thermal'.state = "UNKNOWN" /\ thermal'.need_confirm = 0
          /\ thermal' \in ThermalGovernorState
      BY <3>1, Thresholds DEF reset, ThermalGovernorState, ThermalState
    <3>4. TypeOK'
      BY <3>2, <3>3, Thresholds DEF TypeOK
    <3>5. RunIsCounted'
      BY <3>2, <3>3 DEF RunIsCounted, Constrained
    <3>6. ~ ConstrainedAfter(0)' /\ ~ RecoveringAfter(0)'
      BY DEF ConstrainedAfter, RecoveringAfter
    <3> QED
      BY <3>2, <3>3, <3>4, <3>5, <3>6
         DEF ThermalInv, ConstrainedIffConfirmed, RecoveringIffCooling
  <2>3. CASE UNCHANGED vars
    BY <1>3, <2>3
       DEF vars, ThermalInv, TypeOK, RunIsCounted, Constrained, ConstrainedIffConfirmed,
           RecoveringIffCooling, ConstrainedAfter, RecoveringAfter, ConfirmedAt
  <2> QED  BY <1>3, <2>1, <2>2, <2>3 DEF Next
<1> QED  BY <1>2, <1>3, PTL DEF Spec

-----------------------------------------------------------------------------
(* The permitted power.                                                    *)

\* Whole watts divide as they should: less to divide never gives more.
LEMMA DivMonotone ==
    ASSUME NEW a \in Nat, NEW b \in Nat, NEW d \in Nat, d > 0, a <= b
    PROVE  a \div d <= b \div d
<1>1. a \div d \in Int /\ b \div d \in Int
  OBVIOUS
<1>2. d * (a \div d) <= a /\ b < d * (b \div d) + d
  OBVIOUS
<1>3. \A x, y \in Int : d * x < d * y + d => x <= y
  OBVIOUS
<1> QED  BY <1>1, <1>2, <1>3

\* A factor of both sides goes.
LEMMA DivCancels ==
    ASSUME NEW a \in Nat, NEW b \in Nat, NEW d \in Nat, b > 0, d > 0
    PROVE  (a * d) \div (b * d) = a \div b
<1> DEFINE q == a \div b
<1>1. q \in Int /\ b * q <= a /\ a < b * q + b
  OBVIOUS
<1> HIDE DEF q
<1>2. b * d \in Nat /\ b * d > 0 /\ a * d \in Nat
  OBVIOUS
<1>3. (b * d) * q <= a * d
  <2>1. (b * q) * d <= a * d
    BY <1>1
  <2> QED  BY <1>1, <2>1
<1>4. a * d < (b * d) * q + b * d
  <2>1. a * d < (b * q + b) * d
    BY <1>1
  <2> QED  BY <1>1, <2>1
<1>5. \A m, k \in Nat : k > 0 => \A x \in Int : k * x <= m /\ m < k * x + k => m \div k = x
  <2> SUFFICES ASSUME NEW m \in Nat, NEW k \in Nat, k > 0, NEW x \in Int,
                      k * x <= m, m < k * x + k
               PROVE  m \div k = x
    OBVIOUS
  <2>1. m \div k \in Int /\ k * (m \div k) <= m /\ m < k * (m \div k) + k
    OBVIOUS
  <2>2. \A y, z \in Int : k * y < k * z + k => y <= z
    OBVIOUS
  <2> QED  BY <2>1, <2>2
<1>6. (a * d) \div (b * d) = q
  BY <1>1, <1>2, <1>3, <1>4, <1>5
<1> QED  BY <1>6 DEF q

\* The headroom falls from all of it to constrained_reduction.
LEMMA HotterHasLessHeadroom ==
    ASSUME NEW s \in Nat, NEW t \in Nat, s <= t
    PROVE  /\ headroom_fraction(s) \in Nat /\ headroom_fraction(t) \in Nat
           /\ ReductionPercent * (HotMax - NormalMax) <= headroom_fraction(t)
           /\ headroom_fraction(t) <= headroom_fraction(s)
<1> DEFINE span == HotMax - NormalMax
           cut == 100 - ReductionPercent
           part(x) == 100 * span - x * cut
<1>1. span \in Nat /\ span > 0 /\ cut \in 0 .. 100 /\ ReductionPercent \in 0 .. 100
  BY ThermalAssumption
<1>2. ASSUME NEW x \in 0 .. span, NEW y \in 0 .. span, x <= y
      PROVE  part(y) <= part(x) /\ part(x) \in Nat /\ ReductionPercent * span <= part(x)
  <2> HIDE DEF span, cut
  <2>1. x * cut <= y * cut /\ x * cut <= span * cut /\ x * cut \in Nat /\ y * cut \in Nat
    BY <1>1, <1>2
  <2>2. span * cut = 100 * span - ReductionPercent * span
    BY <1>1 DEF cut
  <2>3. ReductionPercent * span \in Nat
    BY <1>1
  <2> QED  BY <1>1, <2>1, <2>2, <2>3
<1> DEFINE above(u) == IF u <= NormalMax THEN 0 ELSE IF u < HotMax THEN u - NormalMax ELSE span
<1>3. ASSUME NEW u \in Nat PROVE headroom_fraction(u) = part(above(u)) /\ above(u) \in 0 .. span
  <2>1. part(0) = 100 * span /\ part(span) = ReductionPercent * span
    BY <1>1
  <2> QED  BY <1>1, <2>1, ThermalAssumption DEF headroom_fraction
<1>4. above(s) <= above(t)
  BY <1>1, ThermalAssumption
<1>5. above(s) \in 0 .. span /\ above(t) \in 0 .. span
  BY <1>3
<1>6. headroom_fraction(s) = part(above(s)) /\ headroom_fraction(t) = part(above(t))
  BY <1>3
<1> HIDE DEF above, part
<1> QED  BY <1>2, <1>4, <1>5, <1>6

-----------------------------------------------------------------------------
(* The theorems.                                                           *)

\* The classifier of thermal.hpp keeps its types, and observe never counts as
\* far as constrained_confirm_count.
THEOREM ThermalTyped == Spec => []TypeOK
<1>1. ThermalInv => TypeOK
  BY DEF ThermalInv
<1> QED  BY <1>1, ThermalInvHolds, PTL

\* observe constrains a device exactly when the readings confirm it.
THEOREM ConstrainedIffConfirmedHolds == Spec => []ConstrainedIffConfirmed
<1>1. ThermalInv => ConstrainedIffConfirmed
  BY DEF ThermalInv
<1> QED  BY <1>1, ThermalInvHolds, PTL

\* observe has a device recover exactly while the readings say it cools down.
THEOREM RecoveringIffCoolingHolds == Spec => []RecoveringIffCooling
<1>1. ThermalInv => RecoveringIffCooling
  BY DEF ThermalInv
<1> QED  BY <1>1, ThermalInvHolds, PTL

\* permitted_power falls with the temperature and not below the reduced cap,
\* for every cap and all thresholds.
THEOREM HotterPermitsLessHolds == Spec => []HotterPermitsLess
<1>1. ThermalInv => HotterPermitsLess
  <2> SUFFICES ASSUME ThermalInv, NEW i \in 1 .. Len(readings), NEW j \in 1 .. Len(readings),
                      readings[i] <= readings[j]
               PROVE  /\ permitted_power(NominalCap, readings[j]) <=
                            permitted_power(NominalCap, readings[i])
                      /\ permitted_power(NominalCap, readings[j]) >=
                            (ReductionPercent * NominalCap) \div 100
    BY DEF HotterPermitsLess
  <2> DEFINE s == readings[i]
             t == readings[j]
             hs == headroom_fraction(s)
             ht == headroom_fraction(t)
             span == HotMax - NormalMax
             cap == NominalCap
  <2>1. s \in Nat /\ t \in Nat /\ s <= t
    <3>1. s \in Temperatures /\ t \in Temperatures
      BY DEF ThermalInv, TypeOK
    <3> QED  BY <3>1, ReadingAssumption
  <2>2. s # NoReading /\ t # NoReading /\ span \in Nat /\ span > 0 /\ cap \in Nat
        /\ ReductionPercent \in Nat
    BY <2>1, ThermalAssumption, ReadingAssumption
  <2> HIDE DEF s, t
  <2>3. hs \in Nat /\ ht \in Nat /\ ReductionPercent * span <= ht /\ ht <= hs
    BY <2>1, HotterHasLessHeadroom
  <2>4. permitted_power(cap, s) = (cap * hs) \div (100 * span)
    BY <2>2 DEF permitted_power
  <2>5. permitted_power(cap, t) = (cap * ht) \div (100 * span)
    BY <2>2 DEF permitted_power
  <2> HIDE DEF hs, ht, span, cap
  <2>6. cap * ht <= cap * hs /\ cap * ht \in Nat /\ cap * hs \in Nat
    BY <2>2, <2>3
  <2>7. 100 * span \in Nat /\ 100 * span > 0
    BY <2>2
  <2>8. (ReductionPercent * cap) \div 100 = ((ReductionPercent * cap) * span) \div (100 * span)
    <3>1. ReductionPercent * cap \in Nat
      BY <2>2
    <3> QED  BY <2>2, <3>1, DivCancels
  <2>9. (ReductionPercent * cap) * span <= cap * ht /\ (ReductionPercent * cap) * span \in Nat
    <3>1. cap * (ReductionPercent * span) <= cap * ht /\ ReductionPercent * span \in Nat
      BY <2>2, <2>3
    <3>2. (ReductionPercent * cap) * span = cap * (ReductionPercent * span)
      BY <2>2
    <3> QED  BY <2>2, <3>1, <3>2
  <2>10. (cap * ht) \div (100 * span) <= (cap * hs) \div (100 * span)
    BY <2>6, <2>7, DivMonotone
  <2>11. ((ReductionPercent * cap) * span) \div (100 * span) <= (cap * ht) \div (100 * span)
    BY <2>6, <2>7, <2>9, DivMonotone
  <2>12. (ReductionPercent * cap) \div 100 \in Int /\ permitted_power(cap, t) \in Int
    BY <2>2, <2>5, <2>6, <2>7
  <2>13. /\ permitted_power(cap, t) <= permitted_power(cap, s)
         /\ permitted_power(cap, t) >= (ReductionPercent * cap) \div 100
    BY <2>4, <2>5, <2>8, <2>10, <2>11, <2>12
  <2> QED  BY <2>13 DEF s, t, cap
<1> QED  BY <1>1, ThermalInvHolds, PTL
=============================================================================
