-------------------------- MODULE AccountingProofs --------------------------
(***************************************************************************)
(* Proofs about the energy accounts for any amounts, capacities, windows   *)
(* and workloads: the account answers as it acts, no energy is invented by *)
(* saving and loading, and the samples kept are the recent ones.           *)
(***************************************************************************)
EXTENDS Accounting, FiniteSetTheorems, SequenceTheorems, TLAPS

-----------------------------------------------------------------------------
(* Types.                                                                  *)

\* A timestamp of a call is a time, and so is the clock.
LEMMA CallTimeType ==
    ASSUME TypeOK
    PROVE  (\A now \in CallTimes : now \in Times /\ now \in Nat) /\ clock \in Times /\ clock \in Nat
BY AccountingAssumption DEF CallTimes, Times, TypeOK

\* Refilling keeps the limits and at most forgets what was consumed.
LEMMA RefillType ==
    ASSUME NEW k \in Bucket, NEW now \in Times
    PROVE  /\ refill_if_needed(k, now) \in Bucket
           /\ refill_if_needed(k, now).on = k.on /\ refill_if_needed(k, now).limit = k.limit
           /\ refill_if_needed(k, now).consumed \in {0, k.consumed}
<1>1. CASE ~ k.started
  BY <1>1 DEF refill_if_needed, Bucket
<1>2. CASE k.started /\ elapsed(now, k.window_start) >= Window
  BY <1>2 DEF refill_if_needed, Bucket
<1>3. CASE k.started /\ ~ (elapsed(now, k.window_start) >= Window)
  BY <1>3 DEF refill_if_needed, Bucket
<1> QED  BY <1>1, <1>2, <1>3

\* Consuming leaves a bucket.
LEMMA ConsumeType ==
    ASSUME NEW k \in Bucket, NEW j \in Amounts
    PROVE  /\ [k EXCEPT !.consumed = @ + j] \in Bucket
           /\ [k EXCEPT !.consumed = @ + j].consumed = k.consumed + j
           /\ k.consumed \in Nat /\ k.limit \in Nat /\ j \in Nat
<1>1. k.consumed \in Nat /\ k.limit \in Capacities \cup {0}
  BY DEF Bucket
<1>2. j \in Nat
  BY AccountingAssumption
<1>3. Capacities \cup {0} \subseteq Nat
  BY AccountingAssumption
<1> QED  BY <1>1, <1>2, <1>3 DEF Bucket

\* A bucket that starts afresh is a bucket.
LEMMA FreshType ==
    ASSUME NEW on \in BOOLEAN, NEW limit \in Capacities \cup {0}
    PROVE  Fresh(on, limit) \in Bucket
BY AccountingAssumption DEF Fresh, Bucket, Times

\* Adding energy leaves a meter.
LEMMA AddType ==
    ASSUME NEW m \in Meter, NEW j \in Nat, NEW p \in Provenance
    PROVE  /\ add(m, j, p) \in Meter
           /\ add(m, j, p).total = m.total + j
           /\ \A q \in Provenance : add(m, j, p).by[q] = IF q = p THEN m.by[q] + j ELSE m.by[q]
<1>1. m.total \in Nat /\ m.by \in [Provenance -> Nat]
  BY DEF Meter
<1>2. [m.by EXCEPT ![p] = @ + j] \in [Provenance -> Nat]
  BY <1>1
<1> QED  BY <1>1, <1>2 DEF add, Meter

\* What an added meter holds, as facts on numbers.
LEMMA AddFacts ==
    \A m \in Meter, j \in Nat, p \in Provenance :
        /\ add(m, j, p) \in Meter /\ add(m, j, p).total = m.total + j
        /\ add(m, j, p).by["MEASURED"] =
              IF "MEASURED" = p THEN m.by["MEASURED"] + j ELSE m.by["MEASURED"]
        /\ m.total \in Nat /\ m.by["MEASURED"] \in Nat
<1> SUFFICES ASSUME NEW m \in Meter, NEW j \in Nat, NEW p \in Provenance
             PROVE  /\ add(m, j, p) \in Meter /\ add(m, j, p).total = m.total + j
                    /\ add(m, j, p).by["MEASURED"] =
                          IF "MEASURED" = p THEN m.by["MEASURED"] + j ELSE m.by["MEASURED"]
                    /\ m.total \in Nat /\ m.by["MEASURED"] \in Nat
  OBVIOUS
<1>1. "MEASURED" \in Provenance
  BY DEF Provenance
<1>2. m.total \in Nat /\ m.by["MEASURED"] \in Nat
  BY <1>1 DEF Meter
<1> QED  BY <1>1, <1>2, AddType, SMTT(30)

\* The empty meter is a meter, and no meter is NoMeter.
LEMMA EmptyMeterFacts ==
    /\ EmptyMeter \in Meter /\ EmptyMeter.total = 0 /\ EmptyMeter.by["MEASURED"] = 0
    /\ NoMeter \notin Meter
BY AccountingAssumption DEF EmptyMeter, Meter, Provenance

\* What is written of a number is at most the number.
LEMMA CutIsLess == \A v \in Nat : f64(v) \in Nat /\ f64(v) <= v
<1> SUFFICES ASSUME NEW v \in Nat PROVE f64(v) \in Nat /\ f64(v) <= v
  OBVIOUS
<1>1. Resolution \in Nat /\ Resolution > 0
  BY AccountingAssumption
<1>2. v \div Resolution \in Nat /\ Resolution * (v \div Resolution) <= v
  BY <1>1, SMTT(30)
<1> QED  BY <1>1, <1>2 DEF f64

\* The meter that account_energy adds to is there or is empty.
LEMMA MeterOfType ==
    ASSUME TypeOK, NEW w \in Workloads
    PROVE  MeterOf(w) \in Meter
<1>1. PICK W \in SUBSET Workloads : workload_meter \in [W -> Meter]
  BY DEF TypeOK
<1> QED  BY <1>1, EmptyMeterFacts DEF MeterOf

\* A trim drops some samples from the front, all of them outdated.
LEMMA TrimType ==
    ASSUME NEW s \in Seq(Sample), NEW now \in Times,
           NEW m, m = Cardinality({i \in 1 .. Len(s) - 2 : elapsed(now, s[i].t) > SampleSpan})
    PROVE  /\ m \in Nat /\ m <= Len(s) /\ (Len(s) >= 2 => m <= Len(s) - 2) /\ (Len(s) < 2 => m = 0)
           /\ trim(s, now) \in Seq(Sample)
           /\ Len(trim(s, now)) = Len(s) - m
           /\ \A i \in 1 .. Len(s) - m : trim(s, now)[i] = s[m + i]
<1> DEFINE outdated == {i \in 1 .. Len(s) - 2 : elapsed(now, s[i].t) > SampleSpan}
<1>1. outdated \in SUBSET (1 .. Len(s) - 2) /\ Len(s) \in Nat
  OBVIOUS
<1>2. /\ IsFiniteSet(1 .. Len(s) - 2)
      /\ Cardinality(1 .. Len(s) - 2) = IF 1 > Len(s) - 2 THEN 0 ELSE (Len(s) - 2) - 1 + 1
  BY <1>1, FS_Interval, SMTT(30)
<1>3. m \in Nat /\ m <= Cardinality(1 .. Len(s) - 2)
  <2> HIDE DEF outdated
  <2>1. IsFiniteSet(outdated) /\ Cardinality(outdated) <= Cardinality(1 .. Len(s) - 2)
    BY <1>1, <1>2, FS_Subset
  <2> QED  BY <2>1, FS_CardinalityType DEF outdated
<1>4. m <= Len(s) /\ (Len(s) >= 2 => m <= Len(s) - 2) /\ (Len(s) < 2 => m = 0)
  BY <1>1, <1>2, <1>3
<1>5. trim(s, now) = SubSeq(s, m + 1, Len(s))
  BY DEF trim
<1>6. \A i \in m + 1 .. Len(s) : s[i] \in Sample
  BY <1>1, <1>3
<1>7. /\ SubSeq(s, m + 1, Len(s)) \in Seq(Sample)
      /\ Len(SubSeq(s, m + 1, Len(s))) = IF m + 1 <= Len(s) THEN Len(s) - (m + 1) + 1 ELSE 0
      /\ \A i \in 1 .. Len(s) - (m + 1) + 1 : SubSeq(s, m + 1, Len(s))[i] = s[(m + 1) + i - 1]
  <2>1. m + 1 \in Int /\ Len(s) \in Int
    BY <1>1, <1>3
  <2>2. \A a, b \in Int : (\A i \in a .. b : s[i] \in Sample) =>
           /\ SubSeq(s, a, b) \in Seq(Sample)
           /\ Len(SubSeq(s, a, b)) = IF a <= b THEN b - a + 1 ELSE 0
           /\ \A i \in 1 .. b - a + 1 : SubSeq(s, a, b)[i] = s[a + i - 1]
    <3> SUFFICES ASSUME NEW a \in Int, NEW b \in Int, \A i \in a .. b : s[i] \in Sample
                 PROVE  /\ SubSeq(s, a, b) \in Seq(Sample)
                        /\ Len(SubSeq(s, a, b)) = IF a <= b THEN b - a + 1 ELSE 0
                        /\ \A i \in 1 .. b - a + 1 : SubSeq(s, a, b)[i] = s[a + i - 1]
      OBVIOUS
    <3> QED  BY SubSeqProperties
  <2> HIDE DEF outdated
  <2> QED  BY <1>6, <2>1, <2>2, Zenon
<1>8. Len(s) - (m + 1) + 1 = Len(s) - m
  BY <1>1, <1>3
<1>9. \A i \in 1 .. Len(s) - m : (m + 1) + i - 1 = m + i
  BY <1>1, <1>3
<1> HIDE DEF outdated
<1>10. Len(trim(s, now)) = Len(s) - m
  BY <1>1, <1>3, <1>4, <1>5, <1>7
<1>11. \A i \in 1 .. Len(s) - m : trim(s, now)[i] = s[m + i]
  <2> SUFFICES ASSUME NEW i \in 1 .. Len(s) - m PROVE trim(s, now)[i] = s[m + i]
    OBVIOUS
  <2>1. i \in 1 .. Len(s) - (m + 1) + 1 /\ (m + 1) + i - 1 = m + i
    BY <1>8, <1>9
  <2> HIDE DEF outdated
  <2> QED  BY <1>5, <1>7, <2>1
<1> QED  BY <1>3, <1>4, <1>5, <1>7, <1>10, <1>11

\* Every action keeps TypeOK.
LEMMA TypeStep == TypeOK /\ [Next]_vars => TypeOK'
<1> SUFFICES ASSUME TypeOK, [Next]_vars PROVE TypeOK'
  OBVIOUS
<1>1. (\A now \in CallTimes : now \in Times /\ now \in Nat) /\ clock \in Times
  BY CallTimeType
<1>2. Called => calls' \in 0 .. MaxCalls
  BY AccountingAssumption DEF Called, TypeOK
<1>3. Fresh(FALSE, 0) \in Bucket
  BY FreshType
<1>4. EmptyMeter \in Meter
  BY DEF EmptyMeter, Meter
<1>5. ASSUME NEW now \in CallTimes, ReadBurst(now) PROVE TypeOK'
  <2>1. burst' \in Bucket
    BY <1>1, <1>5, RefillType DEF ReadBurst, TypeOK
  <2> QED  BY <1>2, <1>5, <2>1 DEF ReadBurst, TypeOK, meters
<1>6. ASSUME NEW j \in Amounts, NEW now \in CallTimes, ConsumeBurst(j, now) PROVE TypeOK'
  <2> DEFINE k == refill_if_needed(burst, now)
  <2>1. k \in Bucket
    BY <1>1, RefillType DEF TypeOK
  <2> HIDE DEF k
  <2>2. [k EXCEPT !.consumed = @ + j] \in Bucket
    BY <2>1, ConsumeType
  <2>3. Append(bursts, [at |-> clock, joules |-> j]) \in Seq([at: Times, joules: Amounts])
    <3>1. [at |-> clock, joules |-> j] \in [at: Times, joules: Amounts]
      BY <1>1
    <3> QED  BY <3>1 DEF TypeOK
  <2>4. burst' \in Bucket /\ bursts' \in Seq([at: Times, joules: Amounts])
    BY <1>6, <2>1, <2>2, <2>3 DEF ConsumeBurst, TypeOK, k
  <2> QED  BY <1>2, <1>6, <2>4 DEF ConsumeBurst, TypeOK, meters
<1>7. ASSUME NEW j \in Amounts, NEW now \in CallTimes, ConsumeEnergy(j, now) PROVE TypeOK'
  <2> DEFINE k == IF account.on THEN refill_if_needed(account, now) ELSE account
  <2>1. k \in Bucket
    BY <1>1, RefillType DEF TypeOK
  <2>2. Consumption(j, now).account \in {k, [k EXCEPT !.consumed = @ + j]}
    BY DEF Consumption
  <2> HIDE DEF k
  <2>3. [k EXCEPT !.consumed = @ + j] \in Bucket
    BY <2>1, ConsumeType
  <2>4. account' \in Bucket
    BY <1>7, <2>1, <2>2, <2>3 DEF ConsumeEnergy
  <2> QED  BY <1>2, <1>7, <2>4 DEF ConsumeEnergy, TypeOK, meters
<1>8. ASSUME NEW on \in BOOLEAN, NEW limit \in Capacities, set_limits(on, limit) PROVE TypeOK'
  <2>1. Fresh(on, limit) \in Bucket
    BY FreshType
  <2> QED  BY <1>2, <1>8, <2>1 DEF set_limits, TypeOK, meters
<1>9. ASSUME NEW on \in BOOLEAN, NEW limit \in Capacities, set_config(on, limit) PROVE TypeOK'
  <2>1. Fresh(on, limit) \in Bucket
    BY FreshType
  <2> QED  BY <1>2, <1>9, <2>1 DEF set_config, TypeOK, meters
<1>10. ASSUME NEW t \in CallTimes, NEW p \in Powers, record(t, p) PROVE TypeOK'
  <2>1. [t |-> t, p |-> p] \in Sample
    BY <1>1 DEF Sample
  <2>2. Append(samples, [t |-> t, p |-> p]) \in Seq(Sample) /\ recorded' \in Seq(Sample)
    BY <1>10, <2>1 DEF record, TypeOK
  <2>3. samples' \in Seq(Sample)
    BY <1>1, <1>10, <2>2, TrimType DEF record
  <2> QED  BY <1>2, <1>10, <2>2, <2>3 DEF record, TypeOK, meters
<1>11. ASSUME clear PROVE TypeOK'
  BY <1>2, <1>11 DEF clear, TypeOK, meters
<1>12. ASSUME NEW w \in Workloads, NEW j \in Amounts, NEW p \in Provenance, account_energy(w, j, p)
       PROVE  TypeOK'
  <2>1. j \in Nat
    BY AccountingAssumption
  <2>2. /\ add(MeterOf(w), j, p) \in Meter /\ add(total_meter, j, p) \in Meter
        /\ add(metered[w], j, p) \in Meter
    BY <2>1, MeterOfType, AddFacts DEF TypeOK
  <2>3. PICK W \in SUBSET Workloads : workload_meter \in [W -> Meter]
    BY DEF TypeOK
  <2>4. workload_meter' \in [W \cup {w} -> Meter] /\ W \cup {w} \in SUBSET Workloads
    BY <1>12, <2>2, <2>3 DEF account_energy
  <2>5. \E V \in SUBSET Workloads : workload_meter' \in [V -> Meter]
    BY <2>4
  <2>6. device_meter' \in Meter \cup {NoMeter}
    BY <1>12, <2>1, AddFacts DEF account_energy, TypeOK
  <2>7. total_meter' \in Meter /\ metered' \in [Workloads -> Meter]
    BY <1>12, <2>2 DEF account_energy, TypeOK
  <2> QED  BY <1>2, <1>12, <2>5, <2>6, <2>7 DEF account_energy, TypeOK, windows
<1>18. ASSUME FirstSample PROVE TypeOK'
  BY <1>2, <1>4, <1>18 DEF FirstSample, TypeOK, windows
<1>13. ASSUME SaveMeters PROVE TypeOK'
  <2>1. PICK W \in SUBSET Workloads : workload_meter \in [W -> Meter]
    BY DEF TypeOK
  <2>2. \A w \in W : workload_meter[w].total \in Nat
    BY <2>1 DEF Meter
  <2>3. saved' \in [W -> Nat]
    BY <1>13, <2>1, <2>2, CutIsLess DEF SaveMeters
  <2>4. \E V \in SUBSET Workloads : saved' \in [V -> Nat]
    BY <2>3
  <2> QED  BY <1>2, <1>13, <2>4 DEF SaveMeters, TypeOK, windows
<1>14. ASSUME LoadMeters PROVE TypeOK'
  <2>1. PICK W \in SUBSET Workloads : workload_meter \in [W -> Meter]
    BY DEF TypeOK
  <2>2. PICK V \in SUBSET Workloads : saved \in [V -> Nat]
    BY <1>14 DEF TypeOK, LoadMeters
  <2>3. \A w \in V : add(EmptyMeter, saved[w], "DERIVED") \in Meter
    BY <1>4, <2>2, AddFacts DEF Provenance
  <2>4. workload_meter' \in [W \cup V -> Meter] /\ W \cup V \in SUBSET Workloads
    BY <1>14, <2>1, <2>2, <2>3 DEF LoadMeters
  <2>5. \E U \in SUBSET Workloads : workload_meter' \in [U -> Meter]
    BY <2>4
  <2> QED  BY <1>2, <1>14, <2>5 DEF LoadMeters, TypeOK, windows
<1>15. ASSUME Restart PROVE TypeOK'
  <2>1. <<>> \in Seq(Sample) /\ <<>> \in Seq([at: Times, joules: Amounts])
    OBVIOUS
  <2>2. burst' \in Bucket /\ account' \in Bucket /\ calls' \in 0 .. MaxCalls
    BY <1>2, <1>3, <1>15 DEF Restart
  <2>3. /\ \E W \in SUBSET Workloads : workload_meter' \in [W -> Meter]
        /\ device_meter' \in Meter \cup {NoMeter} /\ total_meter' \in Meter
    <3>1. workload_meter' \in [{} -> Meter] /\ {} \in SUBSET Workloads
      BY <1>15 DEF Restart
    <3> QED  BY <1>4, <1>15, <3>1 DEF Restart
  <2> QED  BY <1>15, <2>1, <2>2, <2>3 DEF Restart, TypeOK
<1>16. ASSUME Tick PROVE TypeOK'
  BY <1>16, AccountingAssumption DEF Tick, TypeOK, windows, meters
<1>17. ASSUME UNCHANGED vars PROVE TypeOK'
  BY <1>17 DEF vars, TypeOK, windows, meters
<1> QED
  BY <1>5, <1>6, <1>7, <1>8, <1>9, <1>10, <1>11, <1>12, <1>13, <1>14, <1>15, <1>16, <1>17, <1>18
     DEF Next

\* The accounts start well typed.
LEMMA TypeInit == Init => TypeOK
<1>1. Fresh(FALSE, 0) \in Bucket
  BY FreshType
<1>2. EmptyMeter \in Meter
  BY DEF EmptyMeter, Meter
<1>3. <<>> \in Seq(Sample) /\ <<>> \in Seq([at: Times, joules: Amounts])
  OBVIOUS
<1>4. Init => burst \in Bucket /\ account \in Bucket
  BY <1>1 DEF Init
<1>5. Init => /\ \E W \in SUBSET Workloads : workload_meter \in [W -> Meter]
              /\ device_meter \in Meter \cup {NoMeter} /\ total_meter \in Meter
              /\ metered \in [Workloads -> Meter]
  <2>1. Init => workload_meter \in [{} -> Meter] /\ {} \in SUBSET Workloads
    BY DEF Init
  <2> QED  BY <1>2, <2>1 DEF Init
<1>6. Init => saved = NoRecord /\ peak \in Powers \cup {0}
  BY DEF Init
<1>7. Init => clock \in 1 .. MaxTime /\ calls \in 0 .. MaxCalls
  BY AccountingAssumption DEF Init
<1>8. Init => /\ samples \in Seq(Sample) /\ recorded \in Seq(Sample)
              /\ bursts \in Seq([at: Times, joules: Amounts])
  BY <1>3 DEF Init
<1> QED  BY <1>4, <1>5, <1>6, <1>7, <1>8 DEF TypeOK

\* Every variable of the accounts keeps its type.
THEOREM AccountingTyped == Spec => []TypeOK
BY TypeInit, TypeStep, PTL DEF Spec

-----------------------------------------------------------------------------
(* The energy account.                                                     *)

\* An account that is enforced is never overdrawn.
WithinBudget == account.on => account.consumed <= account.limit

\* What an account answers agrees with what it does.
LEMMA AnswersOfAccount == TypeOK /\ WithinBudget => AccountAnswersAgree
<1> SUFFICES ASSUME TypeOK, WithinBudget, NEW now \in CallTimes
             PROVE  /\ \A j \in Amounts : can_consume(j, now) <=> Consumption(j, now).accepts
                    /\ account.on => remaining(now) + consumed(now) = account.limit
  BY DEF AccountAnswersAgree
<1>1. account \in Bucket /\ account.consumed \in Nat /\ account.limit \in Nat
  <2>1. account \in Bucket
    BY DEF TypeOK
  <2>2. account.consumed \in Nat /\ account.limit \in Capacities \cup {0}
    BY <2>1 DEF Bucket
  <2>3. Capacities \cup {0} \subseteq Nat
    BY AccountingAssumption
  <2> QED  BY <2>1, <2>2, <2>3
<1>2. account.on => remaining(now) + consumed(now) = account.limit
  <2> SUFFICES ASSUME account.on PROVE remaining(now) + consumed(now) = account.limit
    OBVIOUS
  <2>1. CASE WindowOver(now)
    BY <1>1, <2>1 DEF remaining, consumed
  <2>2. CASE ~ WindowOver(now)
    BY <1>1, <2>2 DEF remaining, consumed, Left, WithinBudget
  <2> QED  BY <2>1, <2>2
<1>3. ASSUME NEW j \in Amounts PROVE can_consume(j, now) <=> Consumption(j, now).accepts
  <2>1. CASE ~ account.on
    BY <2>1 DEF can_consume, Consumption
  <2>2. CASE account.on
    <3>1. Left(refill_if_needed(account, now)) = remaining(now)
      <4>1. CASE ~ account.started
        BY <1>1, <2>2, <4>1 DEF refill_if_needed, remaining, WindowOver, Left, Bucket
      <4>2. CASE WindowOver(now)
        BY <1>1, <2>2, <4>2 DEF refill_if_needed, remaining, WindowOver, Left, Bucket
      <4>3. CASE account.started /\ ~ WindowOver(now)
        BY <1>1, <2>2, <4>3 DEF refill_if_needed, remaining, WindowOver, Left, Bucket
      <4> QED  BY <4>1, <4>2, <4>3
    <3> QED  BY <2>2, <3>1 DEF can_consume, Consumption
  <2> QED  BY <2>1, <2>2
<1> QED  BY <1>2, <1>3

\* No call overdraws an account that is enforced.
LEMMA WithinBudgetStep == TypeOK /\ WithinBudget /\ [Next]_vars => WithinBudget'
<1> SUFFICES ASSUME TypeOK, WithinBudget, [Next]_vars PROVE WithinBudget'
  OBVIOUS
<1>1. ASSUME UNCHANGED account PROVE WithinBudget'
  BY <1>1 DEF WithinBudget
<1>2. ASSUME NEW on \in BOOLEAN, NEW limit \in Capacities \cup {0}, account' = Fresh(on, limit)
      PROVE  WithinBudget'
  <2>1. limit \in Nat
    BY AccountingAssumption
  <2> QED  BY <1>2, <2>1 DEF Fresh, WithinBudget
<1>3. ASSUME NEW j \in Amounts, NEW now \in CallTimes, ConsumeEnergy(j, now) PROVE WithinBudget'
  <2> DEFINE k == refill_if_needed(account, now)
  <2>1. account \in Bucket /\ now \in Times
    BY CallTimeType DEF TypeOK
  <2>2. k \in Bucket /\ k.on = account.on /\ k.limit = account.limit /\ k.consumed \in {0, account.consumed}
    BY <2>1, RefillType
  <2>3. CASE ~ account.on
    <3>1. account' = [account EXCEPT !.consumed = @ + j]
      BY <1>3, <2>3 DEF ConsumeEnergy, Consumption
    <3> QED  BY <2>1, <2>3, <3>1 DEF WithinBudget, Bucket
  <2>4. CASE account.on
    <3>1. \/ j <= Left(k) /\ account' = [k EXCEPT !.consumed = @ + j]
          \/ account' = k
      BY <1>3, <2>4 DEF ConsumeEnergy, Consumption
    <3> HIDE DEF k
    <3>2. k.consumed \in Nat /\ k.limit \in Nat /\ j \in Nat
          /\ [k EXCEPT !.consumed = @ + j].consumed = k.consumed + j
      BY <2>2, ConsumeType
    <3>3. k.consumed <= k.limit
      BY <2>2, <2>4, <3>2 DEF WithinBudget
    <3>4. CASE account' = k
      BY <3>3, <3>4 DEF WithinBudget
    <3>5. CASE j <= Left(k) /\ account' = [k EXCEPT !.consumed = @ + j]
      <4>1. account'.limit = k.limit /\ account'.consumed = k.consumed + j
        BY <2>2, <3>2, <3>5 DEF Bucket
      <4>2. k.consumed + j <= k.limit
        BY <3>2, <3>3, <3>5 DEF Left
      <4> QED  BY <4>1, <4>2 DEF WithinBudget
    <3> QED  BY <3>1, <3>4, <3>5
  <2> QED  BY <2>3, <2>4
<1>4. ASSUME Restart PROVE WithinBudget'
  BY <1>2, <1>4 DEF Restart
<1>5. ASSUME NEW on \in BOOLEAN, NEW limit \in Capacities, set_config(on, limit)
      PROVE  WithinBudget'
  BY <1>2, <1>5 DEF set_config
<1> QED
  BY <1>1, <1>3, <1>4, <1>5
     DEF Next, ReadBurst, ConsumeBurst, set_limits, record, clear, account_energy, FirstSample,
         SaveMeters, LoadMeters, Tick, vars, windows

\* The account accepts an amount exactly when can_consume says so, and while it
\* is enforced remaining and consumed share out the budget.
THEOREM AccountAnswersAgreeHolds == Spec => []AccountAnswersAgree
<1>1. Init => WithinBudget
  BY DEF Init, Fresh, WithinBudget
<1>2. Spec => []WithinBudget
  BY <1>1, WithinBudgetStep, AccountingTyped, PTL DEF Spec
<1> QED  BY <1>2, AccountingTyped, AnswersOfAccount, PTL

-----------------------------------------------------------------------------
(* The meters.                                                             *)

\* What is saved of a meter was accounted.
SavedWasMetered ==
    saved # NoRecord => \A w \in DOMAIN saved : saved[w] <= metered[w].total

\* The same energy added to two meters keeps their order.
LEMMA AddKeepsOrder ==
    ASSUME NEW a \in Meter, NEW b \in Meter, NEW j \in Nat, NEW p \in Provenance, NoMoreThan(a, b)
    PROVE  NoMoreThan(add(a, j, p), add(b, j, p)) /\ NoMoreThan(a, add(b, j, p))
<1>1. /\ a.total \in Nat /\ b.total \in Nat /\ a.by["MEASURED"] \in Nat /\ b.by["MEASURED"] \in Nat
      /\ a.total <= b.total /\ a.by["MEASURED"] <= b.by["MEASURED"]
  BY AddFacts DEF NoMoreThan
<1>2. /\ add(a, j, p).total = a.total + j /\ add(b, j, p).total = b.total + j
      /\ "MEASURED" = p => /\ add(a, j, p).by["MEASURED"] = a.by["MEASURED"] + j
                           /\ add(b, j, p).by["MEASURED"] = b.by["MEASURED"] + j
      /\ "MEASURED" # p => /\ add(a, j, p).by["MEASURED"] = a.by["MEASURED"]
                           /\ add(b, j, p).by["MEASURED"] = b.by["MEASURED"]
  BY AddFacts
<1> QED  BY <1>1, <1>2 DEF NoMoreThan

\* An empty meter holds no more than any.
LEMMA EmptyIsLeast == \A m \in Meter : NoMoreThan(EmptyMeter, m)
<1> SUFFICES ASSUME NEW m \in Meter PROVE NoMoreThan(EmptyMeter, m)
  OBVIOUS
<1>1. m.total \in Nat /\ m.by["MEASURED"] \in Nat
  BY DEF Meter, Provenance
<1> QED  BY <1>1, EmptyMeterFacts DEF NoMoreThan

\* No step of accounting, saving, loading or restarting invents energy.
LEMMA MetersStep ==
    TypeOK /\ SavedWasMetered /\ NoEnergyInvented /\ [Next]_vars
        => SavedWasMetered' /\ NoEnergyInvented'
<1> SUFFICES ASSUME TypeOK, SavedWasMetered, NoEnergyInvented, [Next]_vars
             PROVE  SavedWasMetered' /\ NoEnergyInvented'
  OBVIOUS
<1>1. PICK W \in SUBSET Workloads : workload_meter \in [W -> Meter]
  BY DEF TypeOK
<1>2. /\ DOMAIN workload_meter = W
      /\ metered \in [Workloads -> Meter] /\ total_meter \in Meter
      /\ device_meter \in Meter \cup {NoMeter}
      /\ \A w \in W : workload_meter[w] \in Meter /\ NoMoreThan(workload_meter[w], metered[w])
      /\ device_meter # NoMeter => NoMoreThan(device_meter, total_meter)
  BY <1>1 DEF TypeOK, NoEnergyInvented
<1>3. \A w \in Workloads : metered[w] \in Meter /\ metered[w].total \in Nat
  BY <1>2 DEF Meter
<1>4. ASSUME UNCHANGED meters PROVE SavedWasMetered' /\ NoEnergyInvented'
  BY <1>4 DEF meters, SavedWasMetered, NoEnergyInvented, NoMoreThan
<1>5. ASSUME NEW v \in Workloads, NEW j \in Amounts, NEW p \in Provenance, account_energy(v, j, p)
      PROVE  SavedWasMetered' /\ NoEnergyInvented'
  <2>1. j \in Nat
    BY AccountingAssumption
  <2>2. /\ DOMAIN workload_meter' = W \cup {v} /\ saved' = saved
        /\ \A w \in W \cup {v} : workload_meter'[w] =
              IF w = v THEN add(MeterOf(v), j, p) ELSE workload_meter[w]
        /\ \A w \in Workloads : metered'[w] = IF w = v THEN add(metered[w], j, p) ELSE metered[w]
    BY <1>2, <1>5 DEF account_energy
  <2>3. MeterOf(v) \in Meter /\ NoMoreThan(MeterOf(v), metered[v])
    BY <1>2, <1>3, MeterOfType, EmptyIsLeast DEF MeterOf
  <2>4. NoMoreThan(add(MeterOf(v), j, p), add(metered[v], j, p))
    BY <1>3, <2>1, <2>3, AddKeepsOrder
  <2>5. \A w \in DOMAIN workload_meter' : NoMoreThan(workload_meter'[w], metered'[w])
    BY <1>2, <2>2, <2>4
  <2>6. device_meter' # NoMeter => NoMoreThan(device_meter', total_meter')
    <3> SUFFICES ASSUME device_meter' # NoMeter PROVE NoMoreThan(device_meter', total_meter')
      OBVIOUS
    <3>1. /\ device_meter \in Meter /\ device_meter' = add(device_meter, j, p)
          /\ total_meter' = add(total_meter, j, p) /\ NoMoreThan(device_meter, total_meter)
      BY <1>2, <1>5 DEF account_energy
    <3>2. NoMoreThan(add(device_meter, j, p), add(total_meter, j, p))
      BY <1>2, <2>1, <3>1, AddKeepsOrder
    <3> QED  BY <3>1, <3>2
  <2>7. NoEnergyInvented'
    BY <2>5, <2>6 DEF NoEnergyInvented, NoMoreThan
  <2>8. ASSUME saved # NoRecord, NEW w \in DOMAIN saved PROVE saved[w] <= metered'[w].total
    <3>1. PICK V \in SUBSET Workloads : saved \in [V -> Nat]
      BY <2>8 DEF TypeOK
    <3>2. saved[w] \in Nat /\ w \in Workloads /\ saved[w] <= metered[w].total
      BY <2>8, <3>1 DEF SavedWasMetered
    <3>3. metered'[w].total = metered[w].total + j \/ metered'[w] = metered[w]
      BY <1>3, <2>1, <2>2, <3>2, AddFacts
    <3> QED  BY <1>3, <2>1, <3>2, <3>3
  <2> QED  BY <2>2, <2>7, <2>8 DEF SavedWasMetered
<1>9. ASSUME FirstSample PROVE SavedWasMetered' /\ NoEnergyInvented'
  <2>1. /\ device_meter' = EmptyMeter
        /\ UNCHANGED <<workload_meter, total_meter, saved, metered>>
    BY <1>9 DEF FirstSample
  <2>2. NoMoreThan(EmptyMeter, total_meter)
    BY <1>2, EmptyIsLeast
  <2> QED  BY <2>1, <2>2 DEF SavedWasMetered, NoEnergyInvented, NoMoreThan
<1>6. ASSUME SaveMeters PROVE SavedWasMetered' /\ NoEnergyInvented'
  <2>1. /\ saved' = [w \in W |-> f64(workload_meter[w].total)]
        /\ UNCHANGED <<workload_meter, device_meter, total_meter, metered>>
    BY <1>2, <1>6 DEF SaveMeters
  <2>2. ASSUME NEW w \in W PROVE saved'[w] <= metered[w].total
    <3>1. /\ workload_meter[w].total \in Nat /\ metered[w].total \in Nat
          /\ workload_meter[w].total <= metered[w].total
      BY <1>2, <1>3 DEF Meter, NoMoreThan
    <3>2. f64(workload_meter[w].total) \in Nat
          /\ f64(workload_meter[w].total) <= workload_meter[w].total
      BY <3>1, CutIsLess
    <3> QED  BY <2>1, <3>1, <3>2
  <2>3. SavedWasMetered'
    BY <2>1, <2>2 DEF SavedWasMetered
  <2>4. NoEnergyInvented'
    BY <2>1 DEF NoEnergyInvented, NoMoreThan
  <2> QED  BY <2>3, <2>4
<1>7. ASSUME LoadMeters PROVE SavedWasMetered' /\ NoEnergyInvented'
  <2>0. saved # NoRecord /\ UNCHANGED <<device_meter, total_meter, saved, metered>>
    BY <1>7 DEF LoadMeters
  <2>1. PICK V \in SUBSET Workloads : saved \in [V -> Nat]
    BY <2>0 DEF TypeOK
  <2>2. /\ DOMAIN workload_meter' = W \cup V
        /\ \A w \in W \cup V : workload_meter'[w] =
              IF w \in V THEN add(EmptyMeter, saved[w], "DERIVED") ELSE workload_meter[w]
    BY <1>2, <1>7, <2>1 DEF LoadMeters
  <2>3. ASSUME NEW w \in V PROVE NoMoreThan(add(EmptyMeter, saved[w], "DERIVED"), metered[w])
    <3>1. saved[w] \in Nat /\ saved[w] <= metered[w].total
      BY <2>0, <2>1 DEF SavedWasMetered
    <3>2. /\ add(EmptyMeter, saved[w], "DERIVED").total = 0 + saved[w]
          /\ add(EmptyMeter, saved[w], "DERIVED").by["MEASURED"] = 0
      <4>1. "DERIVED" \in Provenance /\ "MEASURED" # "DERIVED"
        BY DEF Provenance
      <4> QED  BY <3>1, <4>1, AddFacts, EmptyMeterFacts, SMTT(30)
    <3>3. metered[w].by["MEASURED"] \in Nat /\ metered[w].total \in Nat
      BY <1>3 DEF Meter, Provenance
    <3> QED  BY <3>1, <3>2, <3>3 DEF NoMoreThan
  <2>4. \A w \in DOMAIN workload_meter' : NoMoreThan(workload_meter'[w], metered[w])
    BY <1>2, <2>2, <2>3
  <2>5. NoEnergyInvented'
    BY <1>2, <2>0, <2>4 DEF NoEnergyInvented, NoMoreThan
  <2>6. SavedWasMetered'
    BY <2>0 DEF SavedWasMetered
  <2> QED  BY <2>5, <2>6
<1>8. ASSUME Restart PROVE SavedWasMetered' /\ NoEnergyInvented'
  <2>1. /\ UNCHANGED <<saved, metered>> /\ workload_meter' = [w \in {} |-> EmptyMeter]
        /\ device_meter' = NoMeter
    BY <1>8 DEF Restart
  <2>2. DOMAIN workload_meter' = {}
    BY <2>1
  <2> QED  BY <2>1, <2>2 DEF SavedWasMetered, NoEnergyInvented
<1> QED
  BY <1>4, <1>5, <1>6, <1>7, <1>8, <1>9
     DEF Next, ReadBurst, ConsumeBurst, ConsumeEnergy, set_limits, set_config, record, clear, Tick, vars

\* Through saves, restarts and loads in any order a meter never holds more than
\* was accounted to its workload, nor more MEASURED energy than was measured, and
\* the device's meter never more than the overall one.
THEOREM NoEnergyInventedHolds == Spec => []NoEnergyInvented
<1>1. Init => SavedWasMetered /\ NoEnergyInvented
  BY DEF Init, SavedWasMetered, NoEnergyInvented
<1> QED  BY <1>1, MetersStep, AccountingTyped, PTL DEF Spec

-----------------------------------------------------------------------------
(* The power window.                                                       *)

\* The samples s are the recent end of the record rec: exactly those that are
\* among the last two or not outdated, and the record is in order of time.
Recent(rec, s) ==
    /\ Len(s) <= Len(rec)
    /\ \A j \in 1 .. Len(s) : s[j] = rec[(Len(rec) - Len(s)) + j]
    /\ \A i \in 1 .. Len(rec) :
          i > Len(rec) - Len(s) <=>
              (i > Len(rec) - 2 \/ rec[Len(rec)].t - rec[i].t <= SampleSpan)
    /\ \A i, j \in 1 .. Len(rec) : i <= j => rec[i].t <= rec[j].t

\* Among natural numbers there is always a least one.
LEMMA LeastNumber ==
    ASSUME NEW S \in SUBSET Nat, S # {} PROVE \E x \in S : \A y \in S : x <= y
<1> DEFINE less == {pair \in Nat \X Nat : pair[1] < pair[2]}
<1>1. IsWellFoundedOn(less, Nat)
  BY NatLessThanWellFounded DEF OpToRel
<1>2. PICK x \in S : \A y \in S : ~ (<<y, x>> \in less)
  <2> HIDE DEF less
  <2> QED  BY <1>1, WFMin
<1>3. \A y \in S : ~ (y < x)
  BY <1>2
<1> QED  BY <1>3

\* A set of positions that has with each position the ones before it is an
\* initial segment, as long as it has elements.
LEMMA InitialSegment ==
    ASSUME NEW N \in Int, NEW D \in SUBSET (1 .. N),
           \A i \in D : \A j \in 1 .. i : j \in D
    PROVE  D = 1 .. Cardinality(D)
<1> DEFINE Outside == {k \in Nat \ {0} : k \notin D}
<1>1. \E k \in Nat \ {0} : k \notin D
  <2>1. CASE N < 0
    <3>1. 1 \notin D
      BY <2>1
    <3> QED  BY <3>1
  <2>2. CASE N >= 0
    <3>1. N + 1 \in Nat \ {0} /\ N + 1 \notin D
      BY <2>2
    <3> QED  BY <3>1
  <2> QED  BY <2>1, <2>2
<1>2. Outside \in SUBSET Nat /\ Outside # {}
  BY <1>1
<1>3. PICK k \in Outside : \A l \in Outside : k <= l
  <2> HIDE DEF Outside
  <2> QED  BY <1>2, LeastNumber
<1>4. k \in Nat \ {0} /\ k \notin D
  BY <1>3
<1>5. \A i \in 1 .. k - 1 : i \in D
  <2> SUFFICES ASSUME NEW i \in 1 .. k - 1, i \notin D PROVE FALSE
    OBVIOUS
  <2>1. i \in Nat \ {0} /\ ~ (k <= i)
    BY <1>4
  <2> QED  BY <1>3, <2>1
<1>6. \A i \in D : i \in 1 .. k - 1
  <2> SUFFICES ASSUME NEW i \in D PROVE i \in 1 .. k - 1
    OBVIOUS
  <2>1. i \in Nat /\ i >= 1 /\ ~ (k \in 1 .. i)
    BY <1>4
  <2> QED  BY <1>4, <2>1
<1>7. D = 1 .. k - 1
  BY <1>5, <1>6
<1>8. Cardinality(1 .. k - 1) = k - 1
  <2>1. 1 \in Int /\ k - 1 \in Int /\ (1 > k - 1 => k - 1 = 0) /\ k - 1 - 1 + 1 = k - 1
    BY <1>4
  <2>2. Cardinality(1 .. k - 1) = IF 1 > k - 1 THEN 0 ELSE (k - 1) - 1 + 1
    BY <2>1, FS_Interval
  <2> QED  BY <1>4, <2>2
<1> QED  BY <1>7, <1>8

\* A recent end of the record, as a sequence.
LEMMA RecentIsSuffix ==
    ASSUME NEW rec \in Seq(Sample), NEW s \in Seq(Sample), Recent(rec, s),
           NEW kept, kept = {i \in 1 .. Len(rec) :
                                i > Len(rec) - 2 \/ rec[Len(rec)].t - rec[i].t <= SampleSpan}
    PROVE  /\ s = SubSeq(rec, Len(rec) + 1 - Cardinality(kept), Len(rec))
           /\ \A i \in 2 .. Len(s) : s[i - 1].t <= s[i].t
<1> SUFFICES ASSUME NEW n, n = Len(rec), NEW l, l = Len(s)
             PROVE  /\ s = SubSeq(rec, n + 1 - Cardinality(kept), n)
                    /\ \A i \in 2 .. l : s[i - 1].t <= s[i].t
  OBVIOUS
<1>1. /\ n \in Nat /\ l \in Nat /\ l <= n
      /\ \A j \in 1 .. l : s[j] = rec[(n - l) + j]
      /\ \A i \in 1 .. n : i > n - l <=> (i > n - 2 \/ rec[n].t - rec[i].t <= SampleSpan)
      /\ \A i, j \in 1 .. n : i <= j => rec[i].t <= rec[j].t
  BY DEF Recent
<1>2. kept = (n - l) + 1 .. n
  BY <1>1
<1>3. Cardinality(kept) = l
  <2>1. Cardinality((n - l) + 1 .. n) = IF (n - l) + 1 > n THEN 0 ELSE n - ((n - l) + 1) + 1
    <3>1. (n - l) + 1 \in Int /\ n \in Int
      BY <1>1
    <3> QED  BY <3>1, FS_Interval
  <2>2. (IF (n - l) + 1 > n THEN 0 ELSE n - ((n - l) + 1) + 1) = l
    <3>1. n \in Nat /\ l \in Nat
      BY <1>1
    <3> QED  BY <3>1
  <2> QED  BY <1>2, <2>1, <2>2
<1>4. s = SubSeq(rec, (n - l) + 1, n)
  <2>1. (n - l) + 1 \in Int
    BY <1>1
  <2> SUFFICES ASSUME NEW a \in Int, a = (n - l) + 1 PROVE s = SubSeq(rec, a, n)
    BY <2>1
  <2>2. a \in Nat /\ n \in Int /\ \A i \in a .. n : i \in 1 .. n
    BY <1>1
  <2>3. \A i \in a .. n : rec[i] \in Sample
    BY <2>2
  <2>4. /\ SubSeq(rec, a, n) \in Seq(Sample)
        /\ Len(SubSeq(rec, a, n)) = IF a <= n THEN n - a + 1 ELSE 0
        /\ \A i \in 1 .. n - a + 1 : SubSeq(rec, a, n)[i] = rec[a + i - 1]
    BY <2>2, <2>3, SubSeqProperties
  <2>5. Len(SubSeq(rec, a, n)) = l /\ n - a + 1 = l
    BY <1>1, <2>4
  <2>6. \A i \in 1 .. l : a + i - 1 = (n - l) + i
    BY <1>1
  <2>7. \A i \in 1 .. l : SubSeq(rec, a, n)[i] = s[i]
    BY <1>1, <2>4, <2>5, <2>6, SMTT(30)
  <2> QED  BY <2>4, <2>5, <2>7, SeqEqual
<1>5. n + 1 - Cardinality(kept) = (n - l) + 1
  BY <1>1, <1>3
<1>6. \A i \in 2 .. l : s[i - 1].t <= s[i].t
  <2> SUFFICES ASSUME NEW i \in 2 .. l PROVE s[i - 1].t <= s[i].t
    OBVIOUS
  <2>1. /\ i - 1 \in 1 .. l /\ i \in 1 .. l /\ (n - l) + (i - 1) \in 1 .. n /\ (n - l) + i \in 1 .. n
        /\ (n - l) + (i - 1) <= (n - l) + i
    BY <1>1
  <2> QED  BY <1>1, <2>1
<1> QED  BY <1>4, <1>5, <1>6

\* A sample that is not older than the last keeps the window recent: trimming
\* it drops exactly the samples that have become outdated.
LEMMA TrimKeepsRecent ==
    ASSUME NEW rec \in Seq(Sample), NEW s \in Seq(Sample), Recent(rec, s), NEW x \in Sample,
           s # <<>> => x.t >= s[Len(s)].t
    PROVE  Recent(Append(rec, x), trim(Append(s, x), x.t))
<1>1. SUFFICES ASSUME NEW n, n = Len(rec), NEW l, l = Len(s),
                      NEW r2, r2 = Append(rec, x), NEW s2, s2 = Append(s, x),
                    NEW s3, s3 = trim(s2, x.t),
                    NEW D, D = {i \in 1 .. Len(s2) - 2 : elapsed(x.t, s2[i].t) > SampleSpan},
                    NEW m, m = Cardinality(D)
             PROVE  Recent(r2, s3)
  OBVIOUS
<1>2. /\ n \in Nat /\ l \in Nat /\ l <= n
      /\ \A j \in 1 .. l : s[j] = rec[(n - l) + j]
      /\ \A i \in 1 .. n : i > n - l <=> (i > n - 2 \/ rec[n].t - rec[i].t <= SampleSpan)
      /\ \A i, j \in 1 .. n : i <= j => rec[i].t <= rec[j].t
  BY <1>1 DEF Recent
<1>3. n \in Nat /\ l \in Nat /\ l <= n
  BY <1>2
<1>4. /\ r2 \in Seq(Sample) /\ Len(r2) = n + 1 /\ r2[n + 1] = x
      /\ \A i \in 1 .. n : r2[i] = rec[i]
      /\ s2 \in Seq(Sample) /\ Len(s2) = l + 1 /\ s2[l + 1] = x
      /\ \A i \in 1 .. l : s2[i] = s[i]
  BY <1>1
<1>5. x.t \in Times /\ x.t \in Nat /\ SampleSpan \in Nat /\ \A i \in 1 .. n + 1 : r2[i].t \in Nat
  <2>1. \A i \in 1 .. n + 1 : r2[i] \in Sample
    BY <1>4
  <2>2. \A y \in Sample : y.t \in Times /\ y.t \in Nat
    BY AccountingAssumption DEF Sample, Times
  <2> QED  BY <2>1, <2>2, AccountingAssumption
\* The record stays in order.
<1>6. \A i \in 1 .. n : rec[i].t <= x.t
  <2> SUFFICES ASSUME NEW i \in 1 .. n PROVE rec[i].t <= x.t
    OBVIOUS
  <2>1. n \in 1 .. n /\ n > n - 2 /\ i <= n
    BY <1>2
  <2>2. l >= 1 /\ l \in 1 .. l
    BY <1>2, <2>1
  <2>3. s # <<>> /\ s[l] = rec[n]
    <3>1. (n - l) + l = n
      BY <1>2
    <3>2. s[l] = rec[n]
      BY <1>2, <2>2, <3>1
    <3> QED  BY <1>1, <2>2, <3>2
  <2>4. rec[n].t <= x.t
    <3>1. x.t >= s[l].t
      BY <1>1, <2>3
    <3> QED  BY <2>3, <3>1
  <2>5. rec[i].t <= rec[n].t
    BY <1>2, <2>1
  <2>6. rec[i].t \in Nat /\ rec[n].t \in Nat
    <3>1. i \in 1 .. n + 1 /\ n \in 1 .. n + 1
      BY <1>3, <2>1
    <3> QED  BY <1>4, <1>5, <2>1, <3>1
  <2> QED  BY <1>5, <2>4, <2>5, <2>6
<1>7. \A i, j \in 1 .. n + 1 : i <= j => r2[i].t <= r2[j].t
  <2> SUFFICES ASSUME NEW i \in 1 .. n + 1, NEW j \in 1 .. n + 1, i <= j PROVE r2[i].t <= r2[j].t
    OBVIOUS
  <2>1. CASE j = n + 1
    <3>1. CASE i = n + 1
      BY <1>5, <2>1, <3>1
    <3>2. CASE i # n + 1
      <4>1. i \in 1 .. n
        BY <1>2, <3>2
      <4> QED  BY <1>4, <1>6, <2>1, <4>1
    <3> QED  BY <3>1, <3>2
  <2>2. CASE j # n + 1
    <3>1. i \in 1 .. n /\ j \in 1 .. n
      BY <1>2, <2>2
    <3> QED  BY <1>2, <1>4, <3>1
  <2> QED  BY <2>1, <2>2
\* Where each sample of the window is in the record.
<1>8. \A i \in 1 .. l + 1 : s2[i] = r2[(n - l) + i] /\ (n - l) + i \in 1 .. n + 1
  <2> SUFFICES ASSUME NEW i \in 1 .. l + 1
               PROVE  s2[i] = r2[(n - l) + i] /\ (n - l) + i \in 1 .. n + 1
    OBVIOUS
  <2>1. CASE i = l + 1
    <3>1. (n - l) + i = n + 1 /\ n + 1 \in 1 .. n + 1
      BY <1>2, <2>1
    <3> QED  BY <1>4, <2>1, <3>1
  <2>2. CASE i # l + 1
    <3>1. i \in 1 .. l /\ (n - l) + i \in 1 .. n /\ (n - l) + i \in 1 .. n + 1
      BY <1>2, <2>2
    <3> QED  BY <1>2, <1>4, <3>1
  <2> QED  BY <2>1, <2>2
\* What is outdated comes first.
<1>9. \A i \in 1 .. l - 1 : i \in D <=> x.t - r2[(n - l) + i].t > SampleSpan
  <2> SUFFICES ASSUME NEW i \in 1 .. l - 1
               PROVE  i \in D <=> x.t - r2[(n - l) + i].t > SampleSpan
    OBVIOUS
  <2>1. /\ i \in 1 .. l + 1 /\ i \in 1 .. Len(s2) - 2 /\ (n - l) + i \in 1 .. n
        /\ n + 1 \in 1 .. n + 1 /\ (n - l) + i \in 1 .. n + 1
    BY <1>2, <1>4
  <2>2. s2[i].t = r2[(n - l) + i].t /\ r2[(n - l) + i].t \in Nat /\ r2[(n - l) + i].t <= x.t
    BY <1>4, <1>5, <1>6, <1>8, <2>1
  <2>3. elapsed(x.t, s2[i].t) = x.t - r2[(n - l) + i].t
    <3> QED  BY <1>5, <2>2 DEF elapsed
  <2> QED  BY <1>1, <2>1, <2>3
<1>10. D \in SUBSET (1 .. l - 1) /\ l - 1 \in Int
  BY <1>1, <1>2, <1>4
<1>11. D = 1 .. m
  <2>1. ASSUME NEW i \in D, NEW j \in 1 .. i PROVE j \in D
    <3>1. /\ i \in 1 .. l - 1 /\ j \in 1 .. l - 1 /\ (n - l) + i \in 1 .. n + 1 /\ (n - l) + j \in 1 .. n + 1
          /\ (n - l) + j <= (n - l) + i
      BY <1>2, <1>10
    <3>2. /\ r2[(n - l) + j].t <= r2[(n - l) + i].t
          /\ r2[(n - l) + j].t \in Nat /\ r2[(n - l) + i].t \in Nat
      BY <1>5, <1>7, <3>1
    <3>3. x.t - r2[(n - l) + i].t > SampleSpan
      BY <1>9, <3>1
    <3>4. x.t - r2[(n - l) + j].t > SampleSpan
      BY <1>5, <3>2, <3>3
    <3> QED  BY <1>9, <3>1, <3>4
  <2> QED  BY <1>1, <1>10, <2>1, InitialSegment
<1>12. /\ m \in Nat /\ (l >= 1 => m <= l - 1) /\ (l < 1 => m = 0)
       /\ s3 \in Seq(Sample) /\ Len(s3) = (l + 1) - m
       /\ \A i \in 1 .. (l + 1) - m : s3[i] = s2[m + i]
  <2>1. /\ m \in Nat /\ m <= Len(s2) /\ (Len(s2) >= 2 => m <= Len(s2) - 2) /\ (Len(s2) < 2 => m = 0)
        /\ s3 \in Seq(Sample)
        /\ Len(s3) = Len(s2) - m
        /\ \A i \in 1 .. Len(s2) - m : s3[i] = s2[m + i]
    <3>1. m = Cardinality({i \in 1 .. Len(s2) - 2 : elapsed(x.t, s2[i].t) > SampleSpan})
      BY <1>1
    <3>2. s2 \in Seq(Sample) /\ x.t \in Times
      BY <1>4, <1>5
    <3>3. /\ m \in Nat /\ m <= Len(s2) /\ (Len(s2) >= 2 => m <= Len(s2) - 2) /\ (Len(s2) < 2 => m = 0)
          /\ trim(s2, x.t) \in Seq(Sample)
          /\ Len(trim(s2, x.t)) = Len(s2) - m
          /\ \A i \in 1 .. Len(s2) - m : trim(s2, x.t)[i] = s2[m + i]
      BY <3>1, <3>2, TrimType, SMTT(30)
    <3> QED  BY <1>1, <3>3
  <2> QED  BY <1>2, <1>4, <2>1
<1>13. m \in Nat /\ (l >= 1 => m <= l - 1) /\ (l < 1 => m = 0)
  BY <1>12
<1>14. SUFFICES ASSUME NEW k, k = Len(s3) PROVE Recent(r2, s3)
  OBVIOUS
<1>15. k = (l + 1) - m
  BY <1>12, <1>14
<1>16. k \in Nat /\ k <= n + 1 /\ (n + 1) - k = (n - l) + m
  BY <1>3, <1>13, <1>15
<1>17. \A j \in 1 .. k : s3[j] = r2[((n + 1) - k) + j]
  <2> SUFFICES ASSUME NEW j \in 1 .. k PROVE s3[j] = r2[((n + 1) - k) + j]
    OBVIOUS
  <2>1. /\ j \in 1 .. (l + 1) - m /\ m + j \in 1 .. l + 1
        /\ (n - l) + (m + j) = ((n + 1) - k) + j
    BY <1>16, <1>3, <1>13, <1>15
  <2> QED  BY <1>8, <1>12, <2>1
<1>18. \A i \in 1 .. n + 1 : i > (n + 1) - k <=>
          (i > (n + 1) - 2 \/ r2[n + 1].t - r2[i].t <= SampleSpan)
  <2> SUFFICES ASSUME NEW i \in 1 .. n + 1
               PROVE  i > (n - l) + m <=> (i > n - 1 \/ x.t - r2[i].t <= SampleSpan)
    BY <1>4, <1>16, <1>3
  <2>1. CASE i > n - 1
    <3>1. n >= 1 => l >= 1
      <4>1. n >= 1 => n \in 1 .. n /\ n > n - 2
        BY <1>2
      <4> QED  BY <1>2, <4>1
    <3>2. i > (n - l) + m
      BY <1>3, <1>13, <2>1, <3>1
    <3> QED  BY <2>1, <3>2
  <2>2. CASE ~ (i > n - 1)
    <3>1. i \in 1 .. n /\ i <= n - 1 /\ n \in 1 .. n
      BY <1>2, <2>2
    <3>2. r2[i] = rec[i] /\ r2[n] = rec[n] /\ rec[i].t \in Nat /\ rec[n].t \in Nat /\ rec[n].t <= x.t
      BY <1>2, <1>4, <1>5, <1>6, <3>1, SMTT(30)
    <3>3. CASE i <= n - l
      <4>1. ~ (rec[n].t - rec[i].t <= SampleSpan)
        BY <1>2, <3>1, <3>3
      <4>2. ~ (x.t - r2[i].t <= SampleSpan)
        BY <1>5, <3>2, <4>1, SMTT(30)
      <4>3. ~ (i > (n - l) + m)
        BY <1>3, <1>13, <3>1, <3>3
      <4> QED  BY <2>2, <4>2, <4>3
    <3>4. CASE i > n - l
      <4> SUFFICES ASSUME NEW q \in Int, q = i - (n - l)
                   PROVE  i > (n - l) + m <=> (i > n - 1 \/ x.t - r2[i].t <= SampleSpan)
        BY <1>3, <3>1
      <4>1. q \in 1 .. l - 1 /\ (n - l) + q = i
        BY <1>3, <3>1, <3>4
      <4>2. q \in D <=> x.t - r2[i].t > SampleSpan
        BY <1>9, <4>1
      <4>3. q \in D <=> q <= m
        BY <1>11, <1>13, <4>1
      <4>4. i > (n - l) + m <=> ~ (q <= m)
        BY <1>3, <1>13, <3>1, <4>1
      <4>5. x.t - r2[i].t > SampleSpan <=> ~ (x.t - r2[i].t <= SampleSpan)
        BY <1>5, <3>2, SMTT(30)
      <4> QED  BY <2>2, <4>2, <4>3, <4>4, <4>5
    <3> QED  BY <1>3, <3>1, <3>3, <3>4
  <2> QED  BY <2>1, <2>2
<1> QED
  <2>1. Len(r2) = n + 1 /\ Len(s3) = k
    BY <1>4, <1>14
  <2> QED  BY <1>7, <1>16, <1>17, <1>18, <2>1 DEF Recent

\* The window is recent whatever is called.
LEMMA RecentStep ==
    TypeOK /\ Recent(recorded, samples) /\ [Next]_vars => Recent(recorded, samples)'
<1> SUFFICES ASSUME TypeOK, Recent(recorded, samples), [Next]_vars
             PROVE  Recent(recorded', samples')
  OBVIOUS
<1>1. ASSUME UNCHANGED <<recorded, samples>> PROVE Recent(recorded', samples')
  BY <1>1
<1>2. Recent(<<>>, <<>>)
  <2>1. Len(<<>>) = 0 /\ 1 .. 0 = {}
    OBVIOUS
  <2> QED  BY <2>1 DEF Recent
<1>3. ASSUME NEW t \in CallTimes, NEW p \in Powers, record(t, p)
      PROVE  Recent(recorded', samples')
  <2> SUFFICES ASSUME NEW x, x = [t |-> t, p |-> p] PROVE Recent(recorded', samples')
    OBVIOUS
  <2>1. x \in Sample /\ x.t = t
    BY CallTimeType DEF Sample
  <2>2. /\ recorded \in Seq(Sample) /\ samples \in Seq(Sample)
        /\ recorded' = Append(recorded, x) /\ samples' = trim(Append(samples, x), x.t)
        /\ samples # <<>> => x.t >= samples[Len(samples)].t
    BY <1>3, <2>1 DEF record, TypeOK
  <2> QED  BY <2>1, <2>2, TrimKeepsRecent
<1>4. ASSUME recorded' = <<>>, samples' = <<>> PROVE Recent(recorded', samples')
  BY <1>2, <1>4
<1> QED
  BY <1>1, <1>3, <1>4
     DEF Next, ReadBurst, ConsumeBurst, ConsumeEnergy, set_limits, set_config, clear, account_energy,
         FirstSample, SaveMeters, LoadMeters, Restart, Tick, vars, windows

\* The window is always the recent end of the record.
LEMMA SamplesRecent == Spec => []Recent(recorded, samples)
<1>1. Init => Recent(recorded, samples)
  <2>1. Len(<<>>) = 0 /\ 1 .. 0 = {}
    OBVIOUS
  <2> QED  BY <2>1 DEF Init, Recent
<1> QED  BY <1>1, RecentStep, AccountingTyped, PTL DEF Spec

\* Trimming as samples arrive keeps the samples that are due and no others.
THEOREM WindowHoldsRecentHolds == Spec => []WindowHoldsRecent
<1>1. TypeOK /\ Recent(recorded, samples) => WindowHoldsRecent
  <2> SUFFICES ASSUME TypeOK, Recent(recorded, samples) PROVE WindowHoldsRecent
    OBVIOUS
  <2>1. recorded \in Seq(Sample) /\ samples \in Seq(Sample)
    BY DEF TypeOK
  <2> QED  BY <2>1, RecentIsSuffix DEF WindowHoldsRecent
<1> QED  BY <1>1, SamplesRecent, AccountingTyped, PTL

-----------------------------------------------------------------------------
(* The burst budget.                                                       *)

Grant == [at: Times, joules: Amounts]

\* The grants b, seen from the bucket k: those up to p are more than a window
\* older than the present window, those up to q older than it, and the window
\* before and the present one stayed within the limit each.
Split(k, b, p, q) ==
    /\ p <= q
    /\ Cardinality(Joules(b, p + 1 .. q)) <= k.limit
    /\ Cardinality(Joules(b, q + 1 .. Len(b))) <= k.consumed
    /\ \A i \in 1 .. p : b[i].at + Window < k.window_start + CallLag
    /\ \A i \in 1 .. q : b[i].at < k.window_start + CallLag
    /\ \A i \in 1 .. Len(b) : b[i].at < (k.window_start + Window) + CallLag

\* The bucket k at time now accounts for the grants b.
Accounted(k, b, now) ==
    /\ k.consumed <= k.limit
    /\ k.window_start <= now
    /\ ~ k.started => b = <<>> /\ k.consumed = 0
    /\ \A i \in 1 .. Len(b) : b[i].joules <= k.limit
    /\ \E p, q \in 0 .. Len(b) : Split(k, b, p, q)

\* No span of the window's length, less the lag, sees more than 2 * limit.
Bounded(b, limit) ==
    \A from \in Times : Cardinality(Joules(b, Between(b, from, from + Window - CallLag))) <= 2 * limit

\* The joules of grants that are bounded are finitely many.
LEMMA JoulesFinite ==
    ASSUME NEW b, NEW n \in Nat, NEW limit \in Nat, NEW T \in SUBSET (1 .. n),
           \A i \in 1 .. n : b[i].joules \in Nat /\ b[i].joules <= limit
    PROVE  IsFiniteSet(Joules(b, T)) /\ Cardinality(Joules(b, T)) \in Nat
<1>1. IsFiniteSet(1 .. n) /\ IsFiniteSet(1 .. limit)
  BY FS_Interval
<1>2. IsFiniteSet((1 .. n) \X (1 .. limit))
  BY <1>1, FS_Product
<1>3. Joules(b, T) \in SUBSET ((1 .. n) \X (1 .. limit))
  <2> SUFFICES ASSUME NEW i \in T, NEW y \in {i} \X (1 .. b[i].joules)
               PROVE  y \in (1 .. n) \X (1 .. limit)
    BY DEF Joules
  <2>1. i \in 1 .. n /\ b[i].joules \in Nat /\ b[i].joules <= limit
    OBVIOUS
  <2>2. 1 .. b[i].joules \subseteq 1 .. limit
    BY <2>1
  <2> QED  BY <2>1, <2>2
<1> QED  BY <1>2, <1>3, FS_Subset, FS_CardinalityType

\* Fewer grants have fewer joules, and two sets of grants no more than the two
\* together.
LEMMA JoulesCover ==
    ASSUME NEW b, NEW n \in Nat, NEW limit \in Nat,
           NEW T \in SUBSET (1 .. n), NEW U \in SUBSET (1 .. n), NEW V \in SUBSET (1 .. n),
           T \subseteq U \cup V,
           \A i \in 1 .. n : b[i].joules \in Nat /\ b[i].joules <= limit
    PROVE  Cardinality(Joules(b, T)) <= Cardinality(Joules(b, U)) + Cardinality(Joules(b, V))
<1> SUFFICES ASSUME NEW JT, JT = Joules(b, T), NEW JU, JU = Joules(b, U), NEW JV, JV = Joules(b, V)
             PROVE  Cardinality(JT) <= Cardinality(JU) + Cardinality(JV)
  OBVIOUS
<1>1. IsFiniteSet(JU) /\ Cardinality(JU) \in Nat /\ IsFiniteSet(JV) /\ Cardinality(JV) \in Nat
  BY JoulesFinite
<1>2. JT \in SUBSET (JU \cup JV)
  BY DEF Joules
<1>3. /\ IsFiniteSet(JU \cup JV)
      /\ Cardinality(JU \cup JV) = Cardinality(JU) + Cardinality(JV) - Cardinality(JU \cap JV)
  BY <1>1, FS_Union
<1>4. Cardinality(JU \cap JV) \in Nat
  <2>1. JU \cap JV \in SUBSET JU
    OBVIOUS
  <2> QED  BY <1>1, <2>1, FS_Subset, FS_CardinalityType
<1>5. Cardinality(JT) <= Cardinality(JU \cup JV) /\ Cardinality(JT) \in Nat
  BY <1>2, <1>3, FS_Subset, FS_CardinalityType
<1> QED  BY <1>1, <1>3, <1>4, <1>5

\* One grant has its joules.
LEMMA JoulesOfOne ==
    ASSUME NEW b, NEW i, b[i].joules \in Nat
    PROVE  Cardinality(Joules(b, {i})) = b[i].joules
<1>1. \A m \in Nat : Cardinality({i} \X (1 .. m)) = m
  <2> SUFFICES ASSUME NEW m \in Nat PROVE Cardinality({i} \X (1 .. m)) = m
    OBVIOUS
  <2>1. IsFiniteSet(1 .. m) /\ Cardinality(1 .. m) = m
    <3>1. 1 \in Int /\ m \in Int
      OBVIOUS
    <3>2. IsFiniteSet(1 .. m) /\ Cardinality(1 .. m) = IF 1 > m THEN 0 ELSE m - 1 + 1
      BY <3>1, FS_Interval
    <3> QED  BY <3>2
  <2>2. IsFiniteSet({i}) /\ Cardinality({i}) = 1
    BY FS_Singleton
  <2>3. Cardinality({i} \X (1 .. m)) = Cardinality({i}) * Cardinality(1 .. m)
    BY <2>1, <2>2, FS_Product
  <2> QED  BY <2>1, <2>2, <2>3
<1>2. Joules(b, {i}) = {i} \X (1 .. b[i].joules)
  BY DEF Joules
<1> QED  BY <1>1, <1>2

\* A window that starts where the last one ended or later leaves its grants
\* behind it.
LEMMA LaterWindow ==
    \A at, w, start, now, lag \in Nat : now >= start + w =>
        /\ at < start + lag => at + w < now + lag
        /\ at < (start + w) + lag => at < now + lag /\ at < (now + w) + lag
OBVIOUS

\* The numbers of a bucket and of grants.
LEMMA BucketNumbers ==
    /\ \A k \in Bucket : k.consumed \in Nat /\ k.limit \in Nat /\ k.window_start \in Nat
    /\ \A b \in Seq(Grant) : Len(b) \in Nat /\ \A i \in 1 .. Len(b) : b[i].at \in Nat /\ b[i].joules \in Nat
    /\ Window \in Nat /\ CallLag \in Nat /\ Times \subseteq Nat
<1>1. Times \subseteq Nat /\ Capacities \cup {0} \subseteq Nat /\ Amounts \subseteq Nat
  BY AccountingAssumption DEF Times
<1>2. \A k \in Bucket : k.consumed \in Nat /\ k.limit \in Nat /\ k.window_start \in Nat
  BY <1>1 DEF Bucket
<1>3. \A b \in Seq(Grant) : Len(b) \in Nat /\ \A i \in 1 .. Len(b) : b[i].at \in Nat /\ b[i].joules \in Nat
  <2> SUFFICES ASSUME NEW b \in Seq(Grant), NEW i \in 1 .. Len(b)
               PROVE  b[i].at \in Nat /\ b[i].joules \in Nat
    OBVIOUS
  <2>1. b[i] \in Grant
    OBVIOUS
  <2> QED  BY <1>1, <2>1 DEF Grant
<1> QED  BY <1>1, <1>2, <1>3, AccountingAssumption

\* A refill closes the present window, which is then the one before: by the
\* order of calls, what was granted before it is more than a window back.
LEMMA RefillAccounts ==
    ASSUME NEW k \in Bucket, NEW b \in Seq(Grant), NEW c \in Times, NEW now \in Times, now <= c,
           Accounted(k, b, c), Window # 0,
           NEW k2, k2 = refill_if_needed(k, now)
    PROVE  Accounted(k2, b, c) /\ k2.started /\ elapsed(now, k2.window_start) < Window
<1>0. /\ k.window_start \in Nat /\ now \in Nat /\ c \in Nat
      /\ Window \in Nat /\ CallLag \in Nat /\ Window > 0
  BY BucketNumbers
<1>1. /\ k.consumed \in Nat /\ k.limit \in Nat /\ k.window_start \in Nat /\ now \in Nat /\ c \in Nat
      /\ Len(b) \in Nat /\ Window \in Nat /\ CallLag \in Nat /\ Window > 0
      /\ \A i \in 1 .. Len(b) : b[i].at \in Nat /\ b[i].joules \in Nat
  BY <1>0, BucketNumbers
<1>2. CASE ~ k.started
  <2>1. /\ k2.consumed = 0 /\ k2.limit = k.limit /\ k2.window_start = now /\ k2.started
        /\ b = <<>>
    BY <1>2 DEF refill_if_needed, Bucket, Accounted
  <2>2. Len(b) = 0 /\ 1 .. 0 = {} /\ 0 + 1 .. 0 = {}
    BY <2>1
  <2>3. Joules(b, {}) = {}
    BY DEF Joules
  <2>4. Cardinality(Joules(b, {})) = 0
    BY <2>3, FS_EmptySet
  <2>5. Split(k2, b, 0, 0)
    BY <1>1, <2>1, <2>2, <2>4 DEF Split
  <2>6. Accounted(k2, b, c)
    <3>1. 0 \in 0 .. Len(b)
      BY <2>2
    <3>2. \A i \in 1 .. Len(b) : b[i].joules <= k2.limit
      BY <2>2
    <3> QED  BY <1>1, <2>1, <2>5, <3>1, <3>2 DEF Accounted
  <2> QED  BY <1>1, <2>1, <2>6 DEF elapsed
<1>3. CASE k.started /\ ~ (elapsed(now, k.window_start) >= Window)
  <2>1. k2 = k
    BY <1>3 DEF refill_if_needed
  <2>2. elapsed(now, k.window_start) < Window
    BY <1>1, <1>3 DEF elapsed
  <2> QED  BY <1>3, <2>1, <2>2
<1>4. CASE k.started /\ elapsed(now, k.window_start) >= Window
  <2>1. k2.consumed = 0 /\ k2.limit = k.limit /\ k2.window_start = now /\ k2.started
    BY <1>4 DEF refill_if_needed, Bucket
  <2>2. now >= k.window_start + Window
    BY <1>1, <1>4 DEF elapsed
  <2>3. PICK p, q \in 0 .. Len(b) : Split(k, b, p, q)
    BY DEF Accounted
  <2>4. /\ Cardinality(Joules(b, q + 1 .. Len(b))) <= k.consumed
        /\ \A i \in 1 .. q : b[i].at < k.window_start + CallLag
        /\ \A i \in 1 .. Len(b) : b[i].at < (k.window_start + Window) + CallLag
    BY <2>3 DEF Split
  <2>5. /\ k.consumed <= k.limit
        /\ \A i \in 1 .. Len(b) : b[i].joules <= k.limit
    BY DEF Accounted
  <2>6. Cardinality(Joules(b, q + 1 .. Len(b))) <= k2.limit
    <3>1. Cardinality(Joules(b, q + 1 .. Len(b))) \in Nat
      <4>1. q + 1 .. Len(b) \in SUBSET (1 .. Len(b))
        BY <1>1
      <4> QED  BY <1>1, <2>5, <4>1, JoulesFinite
    <3> QED  BY <1>1, <2>1, <2>4, <2>5, <3>1
  <2>7. Cardinality(Joules(b, Len(b) + 1 .. Len(b))) <= k2.consumed
    <3>1. Len(b) + 1 .. Len(b) = {}
      BY <1>1
    <3>2. Joules(b, {}) = {}
      BY DEF Joules
    <3>3. Cardinality(Joules(b, Len(b) + 1 .. Len(b))) = 0
      BY <3>1, <3>2, FS_EmptySet
    <3> QED  BY <2>1, <3>3
  <2>8. \A i \in 1 .. q : b[i].at + Window < k2.window_start + CallLag
    <3> SUFFICES ASSUME NEW i \in 1 .. q PROVE b[i].at + Window < now + CallLag
      BY <2>1
    <3>1. b[i].at \in Nat /\ b[i].at < k.window_start + CallLag
      BY <1>1, <2>4
    <3>2. now \in Nat /\ Window \in Nat /\ CallLag \in Nat /\ k.window_start \in Nat
      BY <1>1
    <3> QED  BY <2>2, <3>1, <3>2, LaterWindow
  <2>9. \A i \in 1 .. Len(b) : /\ b[i].at < k2.window_start + CallLag
                               /\ b[i].at < (k2.window_start + Window) + CallLag
    <3> SUFFICES ASSUME NEW i \in 1 .. Len(b)
                 PROVE  b[i].at < now + CallLag /\ b[i].at < (now + Window) + CallLag
      BY <2>1
    <3>1. b[i].at \in Nat /\ b[i].at < (k.window_start + Window) + CallLag
      BY <1>1, <2>4
    <3>2. now \in Nat /\ Window \in Nat /\ CallLag \in Nat /\ k.window_start \in Nat
      BY <1>1
    <3> QED  BY <2>2, <3>1, <3>2, LaterWindow
  <2>10. Split(k2, b, q, Len(b))
    BY <2>6, <2>7, <2>8, <2>9 DEF Split
  <2>11. Accounted(k2, b, c)
    <3>1. Len(b) \in 0 .. Len(b)
      BY <1>1
    <3> QED  BY <1>1, <2>1, <2>5, <2>10, <3>1 DEF Accounted
  <2> QED  BY <1>1, <2>1, <2>11 DEF elapsed
<1> QED  BY <1>2, <1>3, <1>4

\* Two windows within the limit are within twice the limit.
LEMMA TwiceTheLimit ==
    \A limit, x, y, z \in Nat : x <= y + z /\ y <= limit /\ z <= limit => x <= 2 * limit
OBVIOUS

\* The bucket k2 and the grants b2 are k and b after a grant of j at time c.
Granting(k, b, c, j, k2, b2) ==
    /\ k2.consumed = k.consumed + j /\ k2.limit = k.limit
    /\ k2.window_start = k.window_start /\ k2.started
    /\ Len(b2) = Len(b) + 1 /\ b2[Len(b) + 1].at = c /\ b2[Len(b) + 1].joules = j
    /\ \A i \in 1 .. Len(b) : b2[i] = b[i]

\* A grant within what is left: a span that sees it sees no grant from before
\* the window before, since that grant is too old.
LEMMA GrantAccounts ==
    ASSUME NEW k \in Bucket, NEW b \in Seq(Grant), NEW c \in Times, NEW now \in Times,
           now <= c, c - now <= CallLag, elapsed(now, k.window_start) < Window,
           Accounted(k, b, c), Bounded(b, k.limit),
           NEW j \in Amounts, j <= Left(k),
           NEW k2, NEW b2, Granting(k, b, c, j, k2, b2)
    PROVE  Accounted(k2, b2, c) /\ Bounded(b2, k2.limit)
<1> SUFFICES ASSUME NEW n, n = Len(b) PROVE Accounted(k2, b2, c) /\ Bounded(b2, k2.limit)
  OBVIOUS
<1>1. /\ k.consumed \in Nat /\ k.limit \in Nat /\ k.window_start \in Nat /\ now \in Nat /\ c \in Nat
      /\ n \in Nat /\ Window \in Nat /\ CallLag \in Nat /\ j \in Nat
  BY BucketNumbers, AccountingAssumption
<1>2. \A i \in 1 .. n : b[i].at \in Nat /\ b[i].joules \in Nat
  BY BucketNumbers
<1>3. /\ k2.consumed = k.consumed + j /\ k2.limit = k.limit /\ k2.window_start = k.window_start
      /\ k2.started
  BY DEF Granting
<1>4. k.consumed + j <= k.limit /\ j <= k.limit /\ k.window_start <= c
  BY <1>1 DEF Left, Accounted
<1>5. /\ Len(b2) = n + 1 /\ b2[n + 1].at = c /\ b2[n + 1].joules = j
      /\ \A i \in 1 .. n : b2[i] = b[i]
  BY DEF Granting
<1>6. \A i \in 1 .. n + 1 : b2[i].at \in Nat /\ b2[i].joules \in Nat /\ b2[i].joules <= k.limit
  <2> SUFFICES ASSUME NEW i \in 1 .. n + 1
               PROVE  b2[i].at \in Nat /\ b2[i].joules \in Nat /\ b2[i].joules <= k.limit
    OBVIOUS
  <2>1. CASE i = n + 1
    BY <1>1, <1>4, <1>5, <2>1
  <2>2. CASE i # n + 1
    <3>1. i \in 1 .. n
      BY <1>1, <2>2
    <3> QED  BY <1>2, <1>5, <3>1 DEF Accounted
  <2> QED  BY <2>1, <2>2
\* The joules of the earlier grants stay what they were.
<1>7. \A T \in SUBSET (1 .. n) : Joules(b2, T) = Joules(b, T)
  <2> SUFFICES ASSUME NEW T \in SUBSET (1 .. n) PROVE Joules(b2, T) = Joules(b, T)
    OBVIOUS
  <2>1. \A i \in T : b2[i] = b[i]
    BY <1>5
  <2> QED  BY <2>1 DEF Joules
<1>8. PICK p, q \in 0 .. n : Split(k, b, p, q)
  BY DEF Accounted
<1>9. /\ p <= q
      /\ Cardinality(Joules(b, p + 1 .. q)) <= k.limit
      /\ Cardinality(Joules(b, q + 1 .. n)) <= k.consumed
      /\ \A i \in 1 .. p : b[i].at + Window < k.window_start + CallLag
      /\ \A i \in 1 .. q : b[i].at < k.window_start + CallLag
      /\ \A i \in 1 .. n : b[i].at < (k.window_start + Window) + CallLag
  BY <1>8 DEF Split
<1>10. /\ p + 1 .. q \in SUBSET (1 .. n) /\ q + 1 .. n \in SUBSET (1 .. n)
       /\ p + 1 .. q \in SUBSET (1 .. n + 1) /\ q + 1 .. n \in SUBSET (1 .. n + 1)
       /\ q + 1 .. n + 1 \in SUBSET (1 .. n + 1) /\ {n + 1} \in SUBSET (1 .. n + 1)
       /\ q + 1 .. n + 1 \subseteq (q + 1 .. n) \cup {n + 1}
  <2>1. p \in Nat /\ q \in Nat /\ p <= n /\ q <= n /\ n \in Nat
    BY <1>1
  <2>2. p + 1 .. q \in SUBSET (1 .. n) /\ q + 1 .. n \in SUBSET (1 .. n)
    BY <2>1
  <2>3. 1 .. n \subseteq 1 .. n + 1
    BY <2>1
  <2>4. q + 1 .. n + 1 \in SUBSET (1 .. n + 1) /\ {n + 1} \in SUBSET (1 .. n + 1)
    BY <2>1
  <2>5. q + 1 .. n + 1 \subseteq (q + 1 .. n) \cup {n + 1}
    BY <2>1
  <2> QED  BY <2>2, <2>3, <2>4, <2>5
<1>11. Cardinality(Joules(b2, q + 1 .. n + 1)) <= k2.consumed
  <2>1. Cardinality(Joules(b2, {n + 1})) = j
    BY <1>1, <1>5, JoulesOfOne
  <2>2. Cardinality(Joules(b2, q + 1 .. n + 1))
           <= Cardinality(Joules(b2, q + 1 .. n)) + Cardinality(Joules(b2, {n + 1}))
    <3>1. n + 1 \in Nat
      BY <1>1
    <3> QED  BY <1>1, <1>6, <1>10, <3>1, JoulesCover
  <2>3. Cardinality(Joules(b2, q + 1 .. n)) <= k.consumed
    BY <1>7, <1>9, <1>10
  <2>4. Cardinality(Joules(b2, q + 1 .. n)) \in Nat /\ Cardinality(Joules(b2, q + 1 .. n + 1)) \in Nat
    <3>1. n + 1 \in Nat
      BY <1>1
    <3> QED  BY <1>1, <1>6, <1>10, <3>1, JoulesFinite
  <2> QED  BY <1>1, <1>3, <2>1, <2>2, <2>3, <2>4, SMTT(30)
<1>12. c < (k.window_start + Window) + CallLag
  BY <1>1, SMTT(30) DEF elapsed
<1>13. Split(k2, b2, p, q)
  <2>1. Cardinality(Joules(b2, p + 1 .. q)) <= k2.limit
    BY <1>3, <1>7, <1>9, <1>10
  <2>2. \A i \in 1 .. p : b2[i].at + Window < k2.window_start + CallLag
    <3>1. \A i \in 1 .. p : i \in 1 .. n
      BY <1>1
    <3> QED  BY <1>3, <1>5, <1>9, <3>1
  <2>3. \A i \in 1 .. q : b2[i].at < k2.window_start + CallLag
    <3>1. \A i \in 1 .. q : i \in 1 .. n
      BY <1>1
    <3> QED  BY <1>3, <1>5, <1>9, <3>1
  <2>4. \A i \in 1 .. n + 1 : b2[i].at < (k2.window_start + Window) + CallLag
    <3> SUFFICES ASSUME NEW i \in 1 .. n + 1 PROVE b2[i].at < (k.window_start + Window) + CallLag
      BY <1>3
    <3>1. i = n + 1 \/ i \in 1 .. n
      BY <1>1
    <3> QED  BY <1>5, <1>9, <1>12, <3>1
  <2> QED  BY <1>5, <1>9, <1>11, <2>1, <2>2, <2>3, <2>4 DEF Split
<1>14. Accounted(k2, b2, c)
  <2>1. p \in 0 .. n + 1 /\ q \in 0 .. n + 1
    BY <1>1
  <2>2. k2.consumed <= k2.limit /\ k2.window_start <= c
    BY <1>3, <1>4
  <2>3. \A i \in 1 .. Len(b2) : b2[i].joules <= k2.limit
    BY <1>3, <1>5, <1>6
  <2> QED  BY <1>3, <1>5, <1>13, <2>1, <2>2, <2>3 DEF Accounted
<1>15. ASSUME NEW from \in Times
       PROVE  Cardinality(Joules(b2, Between(b2, from, from + Window - CallLag))) <= 2 * k.limit
  <2> SUFFICES ASSUME NEW to \in Int, to = from + Window - CallLag
               PROVE  Cardinality(Joules(b2, Between(b2, from, to))) <= 2 * k.limit
    BY <1>1, BucketNumbers, SMTT(30)
  <2>1. from \in Nat
    BY BucketNumbers
  <2>2. CASE from <= c /\ c <= to
    <3>1. Between(b2, from, to) \subseteq (p + 1 .. q) \cup (q + 1 .. n + 1)
      <4> SUFFICES ASSUME NEW i \in Between(b2, from, to) PROVE i \in p + 1 .. n + 1
        BY <1>1
      <4>1. i \in 1 .. n + 1 /\ from <= b2[i].at
        BY <1>5 DEF Between
      <4>2. ASSUME i \in 1 .. p PROVE FALSE
        <5>1. i \in 1 .. n
          BY <1>1, <4>2
        <5>2. b[i].at + Window < k.window_start + CallLag /\ b[i].at \in Nat /\ from <= b[i].at
          BY <1>2, <1>5, <1>9, <4>1, <4>2, <5>1
        <5>3. \A at, w \in Nat : from <= at /\ w <= c /\ c <= from + Window - CallLag
                                => ~ (at + Window < w + CallLag)
          BY <1>1, <2>1
        <5> QED  BY <1>1, <1>4, <2>2, <5>2, <5>3
      <4> QED  BY <1>1, <4>1, <4>2
    <3>2. Between(b2, from, to) \in SUBSET (1 .. n + 1) /\ n + 1 \in Nat
      BY <1>1, <1>5 DEF Between
    <3>3. Cardinality(Joules(b2, Between(b2, from, to)))
             <= Cardinality(Joules(b2, p + 1 .. q)) + Cardinality(Joules(b2, q + 1 .. n + 1))
      <4> SUFFICES ASSUME NEW T \in SUBSET (1 .. n + 1), T = Between(b2, from, to)
                   PROVE  Cardinality(Joules(b2, T)) <= Cardinality(Joules(b2, p + 1 .. q))
                                                        + Cardinality(Joules(b2, q + 1 .. n + 1))
        BY <3>2
      <4> QED  BY <1>1, <1>6, <1>10, <3>1, <3>2, JoulesCover
    <3>4. /\ Cardinality(Joules(b2, p + 1 .. q)) \in Nat /\ Cardinality(Joules(b2, q + 1 .. n + 1)) \in Nat
          /\ Cardinality(Joules(b2, Between(b2, from, to))) \in Nat
      BY <1>1, <1>6, <1>10, <3>2, JoulesFinite
    <3>5. Cardinality(Joules(b2, p + 1 .. q)) <= k.limit
      BY <1>7, <1>9, <1>10
    <3>6. \A x \in Nat : x <= k2.consumed => x <= k.limit
      BY <1>1, <1>3, <1>4, SMTT(30)
    <3>7. Cardinality(Joules(b2, q + 1 .. n + 1)) <= k.limit
      BY <1>11, <3>4, <3>6
    <3> QED  BY <1>1, <3>3, <3>4, <3>5, <3>7, TwiceTheLimit
  <2>3. CASE ~ (from <= c /\ c <= to)
    <3>1. Between(b2, from, to) = Between(b, from, to)
      <4> SUFFICES ASSUME NEW i
                   PROVE  i \in Between(b2, from, to) <=> i \in Between(b, from, to)
        OBVIOUS
      <4>1. CASE i = n + 1
        <5>1. i \notin 1 .. n /\ i \in 1 .. n + 1
          BY <1>1, <4>1, SMTT(30)
        <5> QED  BY <1>5, <2>3, <4>1, <5>1 DEF Between
      <4>2. CASE i # n + 1
        <5>1. i \in 1 .. n + 1 <=> i \in 1 .. n
          BY <1>1, <4>2, SMTT(30)
        <5> QED  BY <1>5, <5>1 DEF Between
      <4> QED  BY <4>1, <4>2
    <3>2. Between(b, from, to) \in SUBSET (1 .. n)
      BY DEF Between
    <3>3. Joules(b2, Between(b2, from, to)) = Joules(b, Between(b, from, to))
      BY <1>7, <3>1, <3>2
    <3> QED  BY <3>3 DEF Bounded
  <2> QED  BY <2>2, <2>3
<1> QED  BY <1>3, <1>14, <1>15 DEF Bounded

\* The bucket accounts for the grants made under its limits, and they are
\* bounded.
BurstInv == Accounted(burst, bursts, clock) /\ Bounded(bursts, burst.limit)

\* A bucket that starts afresh accounts for no grants.
LEMMA FreshAccounts ==
    ASSUME NEW on \in BOOLEAN, NEW limit \in Capacities \cup {0}, NEW c \in Times
    PROVE  Accounted(Fresh(on, limit), <<>>, c) /\ Bounded(<<>>, Fresh(on, limit).limit)
<1> SUFFICES ASSUME NEW k, k = Fresh(on, limit)
             PROVE  Accounted(k, <<>>, c) /\ Bounded(<<>>, k.limit)
  OBVIOUS
<1>1. /\ k.consumed = 0 /\ k.window_start = 0 /\ k.limit = limit /\ limit \in Nat /\ c \in Nat
      /\ Window \in Nat /\ CallLag \in Nat
  <2>1. k.consumed = 0 /\ k.window_start = 0 /\ k.limit = limit
    BY DEF Fresh
  <2>2. Capacities \cup {0} \subseteq Nat
    BY AccountingAssumption
  <2>3. Window \in Nat /\ CallLag \in Nat /\ Times \subseteq Nat
    BY BucketNumbers
  <2> QED  BY <2>1, <2>2, <2>3
<1>2. Len(<<>>) = 0 /\ 1 .. 0 = {} /\ 0 + 1 .. 0 = {} /\ 0 \in 0 .. 0
  OBVIOUS
<1>3. Cardinality(Joules(<<>>, {})) = 0
  <2>1. Joules(<<>>, {}) = {}
    BY DEF Joules
  <2> QED  BY <2>1, FS_EmptySet
<1>4. Split(k, <<>>, 0, 0)
  BY <1>1, <1>2, <1>3 DEF Split
<1>5. Accounted(k, <<>>, c)
  BY <1>1, <1>2, <1>4 DEF Accounted
<1>6. \A from, to : Between(<<>>, from, to) = {}
  BY <1>2 DEF Between
<1>7. 0 <= 2 * k.limit
  BY <1>1
<1>8. Bounded(<<>>, k.limit)
  BY <1>3, <1>6, <1>7 DEF Bounded
<1> QED  BY <1>5, <1>8

\* Every call and the passing of time keep the account of the grants.
LEMMA BurstStep ==
    ASSUME Window # 0
    PROVE  TypeOK /\ BurstInv /\ [Next]_vars => BurstInv'
<1> SUFFICES ASSUME TypeOK, BurstInv, [Next]_vars
             PROVE  Accounted(burst', bursts', clock') /\ Bounded(bursts', burst'.limit)
  BY DEF BurstInv
<1>1. burst \in Bucket /\ bursts \in Seq(Grant) /\ clock \in Times /\ clock \in Nat
  BY CallTimeType DEF TypeOK, Grant
<1>2. \A now \in CallTimes : now \in Times /\ now <= clock /\ clock - now <= CallLag
  BY CallTimeType DEF CallTimes
<1>3. Accounted(burst, bursts, clock) /\ Bounded(bursts, burst.limit)
  BY DEF BurstInv
<1>4. ASSUME UNCHANGED <<burst, bursts, clock>>
      PROVE  Accounted(burst', bursts', clock') /\ Bounded(bursts', burst'.limit)
  BY <1>3, <1>4
<1>5. ASSUME NEW now \in CallTimes, ReadBurst(now)
      PROVE  Accounted(burst', bursts', clock') /\ Bounded(bursts', burst'.limit)
  <2>1. burst' = refill_if_needed(burst, now) /\ bursts' = bursts /\ clock' = clock
    BY <1>5 DEF ReadBurst
  <2>2. burst'.limit = burst.limit
    BY <1>1, <1>2, <2>1, RefillType
  <2>3. Accounted(burst', bursts, clock)
    BY <1>1, <1>2, <1>3, <2>1, RefillAccounts
  <2> QED  BY <1>3, <2>1, <2>2, <2>3
<1>6. ASSUME NEW j \in Amounts, NEW now \in CallTimes, ConsumeBurst(j, now)
      PROVE  Accounted(burst', bursts', clock') /\ Bounded(bursts', burst'.limit)
  <2> SUFFICES ASSUME NEW k, k = refill_if_needed(burst, now)
               PROVE  Accounted(burst', bursts', clock') /\ Bounded(bursts', burst'.limit)
    OBVIOUS
  <2>1. /\ clock' = clock
        /\ \/ /\ j <= Left(k) /\ burst' = [k EXCEPT !.consumed = @ + j]
              /\ bursts' = Append(bursts, [at |-> clock, joules |-> j])
           \/ burst' = k /\ bursts' = bursts
    BY <1>6 DEF ConsumeBurst
  <2>2. k \in Bucket /\ k.limit = burst.limit
    BY <1>1, <1>2, RefillType
  <2>3. Accounted(k, bursts, clock) /\ k.started /\ elapsed(now, k.window_start) < Window
    BY <1>1, <1>2, <1>3, RefillAccounts
  <2>4. CASE burst' = k /\ bursts' = bursts
    BY <1>3, <2>1, <2>2, <2>3, <2>4
  <2>5. CASE /\ j <= Left(k) /\ burst' = [k EXCEPT !.consumed = @ + j]
             /\ bursts' = Append(bursts, [at |-> clock, joules |-> j])
    <3>1. /\ burst'.consumed = k.consumed + j /\ burst'.limit = k.limit
          /\ burst'.window_start = k.window_start /\ burst'.started
      BY <2>2, <2>3, <2>5 DEF Bucket
    <3>2. /\ Len(bursts') = Len(bursts) + 1
          /\ bursts'[Len(bursts) + 1].at = clock /\ bursts'[Len(bursts) + 1].joules = j
          /\ \A i \in 1 .. Len(bursts) : bursts'[i] = bursts[i]
      <4>1. [at |-> clock, joules |-> j] \in Grant
        BY <1>1 DEF Grant
      <4> QED  BY <1>1, <2>5, <4>1
    <3>3. Granting(k, bursts, clock, j, burst', bursts')
      BY <3>1, <3>2 DEF Granting
    <3>4. now \in Times /\ now <= clock /\ clock - now <= CallLag
      BY <1>2
    <3>5. Bounded(bursts, k.limit) /\ j <= Left(k)
      BY <1>3, <2>2, <2>5
    <3>6. Accounted(burst', bursts', clock) /\ Bounded(bursts', burst'.limit)
      BY <1>1, <2>2, <2>3, <3>3, <3>4, <3>5, GrantAccounts
    <3> QED  BY <2>1, <3>6
  <2> QED  BY <2>1, <2>4, <2>5
<1>7. ASSUME NEW on \in BOOLEAN, NEW limit \in Capacities \cup {0},
             burst' = Fresh(on, limit), bursts' = <<>>, clock' = clock
      PROVE  Accounted(burst', bursts', clock') /\ Bounded(bursts', burst'.limit)
  BY <1>1, <1>7, FreshAccounts
<1>8. ASSUME NEW on \in BOOLEAN, NEW limit \in Capacities, set_limits(on, limit)
      PROVE  Accounted(burst', bursts', clock') /\ Bounded(bursts', burst'.limit)
  BY <1>7, <1>8 DEF set_limits
<1>9. ASSUME Restart PROVE Accounted(burst', bursts', clock') /\ Bounded(bursts', burst'.limit)
  BY <1>7, <1>9 DEF Restart
<1>10. ASSUME Tick PROVE Accounted(burst', bursts', clock') /\ Bounded(bursts', burst'.limit)
  <2>1. burst' = burst /\ bursts' = bursts /\ clock' = clock + 1
    BY <1>10 DEF Tick, windows
  <2>2. burst.window_start <= clock => burst.window_start <= clock + 1
    BY <1>1, BucketNumbers
  <2>3. Accounted(burst, bursts, clock + 1)
    BY <1>3, <2>2 DEF Accounted
  <2> QED  BY <1>3, <2>1, <2>3
<1> QED
  BY <1>4, <1>5, <1>6, <1>8, <1>9, <1>10
     DEF Next, ConsumeEnergy, set_config, record, clear, account_energy, FirstSample, SaveMeters, LoadMeters,
         vars, windows

\* Bursts are bounded over time, for a window that has a length (the capacity
\* is allowance times window, so a window without one grants nothing): no span
\* of the window's length, less the lag of the timestamps, sees more than twice
\* the capacity, whatever reads and grants move the window in between.
THEOREM BurstBoundedOverTimeHolds ==
    ASSUME Window # 0
    PROVE  Spec => []BurstBoundedOverTime
<1>1. Init => BurstInv
  <2>1. Init => clock \in Times
    BY AccountingAssumption DEF Init, Times
  <2>2. FALSE \in BOOLEAN /\ 0 \in Capacities \cup {0}
    OBVIOUS
  <2>3. clock \in Times =>
          Accounted(Fresh(FALSE, 0), <<>>, clock) /\ Bounded(<<>>, Fresh(FALSE, 0).limit)
    BY <2>2, FreshAccounts
  <2>4. Init => burst = Fresh(FALSE, 0) /\ bursts = <<>>
    BY DEF Init
  <2> QED  BY <2>1, <2>3, <2>4 DEF BurstInv
<1>2. BurstInv => BurstBoundedOverTime
  BY DEF BurstInv, Bounded, BurstBoundedOverTime, Granted
<1> QED  BY <1>1, <1>2, BurstStep, AccountingTyped, PTL DEF Spec

-----------------------------------------------------------------------------
(* The average power.                                                      *)

\* Running totals of any increments exist: the shortest list of increments
\* without them would be a shorter one with an increment more.
LEMMA RunningTotal ==
    ASSUME NEW N \in Nat, NEW d \in [1 .. N -> Nat]
    PROVE  \E f \in [1 .. N -> Nat] : \A i \in 1 .. N : f[i] = IF i = 1 THEN 0 ELSE f[i - 1] + d[i]
<1> DEFINE Total(f, k) == f \in [1 .. k -> Nat]
                          /\ \A i \in 1 .. k : f[i] = IF i = 1 THEN 0 ELSE f[i - 1] + d[i]
           Missing == {k \in 0 .. N : ~ \E f : Total(f, k)}
<1>1. Missing \in SUBSET Nat
  OBVIOUS
<1>2. ASSUME Missing # {} PROVE FALSE
  <2> HIDE DEF Total
  <2>1. PICK k \in Missing : \A l \in Missing : k <= l
    BY <1>1, <1>2, LeastNumber
  <2>2. k \in 0 .. N /\ ~ \E f : Total(f, k)
    BY <2>1
  <2>3. k # 0
    <3>1. 1 .. 0 = {}
      OBVIOUS
    <3>2. Total([i \in 1 .. 0 |-> 0], 0)
      BY <3>1 DEF Total
    <3> QED  BY <2>2, <3>2
  <2>4. k - 1 \in 0 .. N /\ k - 1 \notin Missing /\ k \in 1 .. N
    BY <2>1, <2>2, <2>3
  <2>5. PICK f : Total(f, k - 1)
    BY <2>4
  <2>6. /\ f \in [1 .. k - 1 -> Nat]
        /\ \A i \in 1 .. k - 1 : f[i] = IF i = 1 THEN 0 ELSE f[i - 1] + d[i]
    BY <2>5 DEF Total
  <2> DEFINE last == IF k = 1 THEN 0 ELSE f[k - 1] + d[k]
             g == [i \in 1 .. k |-> IF i = k THEN last ELSE f[i]]
  <2>7. last \in Nat
    <3>1. d[k] \in Nat
      BY <2>4
    <3>2. k # 1 => k - 1 \in 1 .. k - 1
      BY <2>4
    <3> QED  BY <2>6, <3>1, <3>2
  <2>8. \A i \in 1 .. k : i # k => i \in 1 .. k - 1
    BY <2>4
  <2>9. g \in [1 .. k -> Nat]
    <3> HIDE DEF last
    <3> QED  BY <2>6, <2>7, <2>8
  <2>10. \A i \in 1 .. k : g[i] = IF i = 1 THEN 0 ELSE g[i - 1] + d[i]
    <3> SUFFICES ASSUME NEW i \in 1 .. k PROVE g[i] = IF i = 1 THEN 0 ELSE g[i - 1] + d[i]
      OBVIOUS
    <3>1. i # 1 => i - 1 \in 1 .. k /\ i - 1 # k
      BY <2>4
    <3>2. i # 1 => g[i - 1] = f[i - 1]
      BY <3>1
    <3>3. CASE i = k
      <4>1. g[i] = last
        BY <3>3
      <4> HIDE DEF g
      <4> QED  BY <3>2, <3>3, <4>1
    <3>4. CASE i # k
      <4>1. i \in 1 .. k - 1 /\ g[i] = f[i]
        BY <2>8, <3>4
      <4> HIDE DEF g
      <4> QED  BY <2>6, <3>2, <4>1
    <3> QED  BY <3>3, <3>4
  <2>11. Total(g, k)
    <3> HIDE DEF g
    <3> QED  BY <2>9, <2>10 DEF Total
  <2> QED  BY <2>2, <2>11
<1>3. N \in 0 .. N
  OBVIOUS
<1>4. PICK f : Total(f, N)
  <2>1. N \notin Missing
    <3> HIDE DEF Missing
    <3> QED  BY <1>2
  <2> HIDE DEF Total
  <2> QED  BY <1>3, <2>1
<1> QED  BY <1>4

\* What two neighbouring samples add to the energy, twice.
Trapezium(s, i) == (s[i - 1].p + s[i].p) * elapsed(s[i].t, s[i - 1].t)

\* The numbers of a sample.
LEMMA SampleNumbers ==
    ASSUME NEW s \in Seq(Sample)
    PROVE  Len(s) \in Nat /\ \A i \in 1 .. Len(s) : s[i].t \in Nat /\ s[i].p \in Nat
<1> SUFFICES ASSUME NEW i \in 1 .. Len(s) PROVE s[i].t \in Nat /\ s[i].p \in Nat
  OBVIOUS
<1>1. s[i] \in Sample
  OBVIOUS
<1>2. Times \subseteq Nat /\ Powers \subseteq Nat
  BY AccountingAssumption DEF Times
<1> QED  BY <1>1, <1>2 DEF Sample

\* The energy accumulated is what its definition says it is.
LEMMA EnergySteps ==
    ASSUME NEW s \in Seq(Sample), NEW n, n = Len(s), NEW e, e = twice_integrated_energy(s)
    PROVE  \A i \in 1 .. n : e[i] = IF i = 1 THEN 0 ELSE e[i - 1] + Trapezium(s, i)
<1> DEFINE Made(g) == g = [i \in 1 .. n |-> IF i = 1 THEN 0 ELSE g[i - 1] + Trapezium(s, i)]
           d == [i \in 1 .. n |-> IF i = 1 THEN 0 ELSE Trapezium(s, i)]
<1>1. n \in Nat /\ \A i \in 1 .. n : s[i].t \in Nat /\ s[i].p \in Nat
  BY SampleNumbers
<1>2. \A i \in 2 .. n : Trapezium(s, i) \in Nat
  <2> SUFFICES ASSUME NEW i \in 2 .. n PROVE Trapezium(s, i) \in Nat
    OBVIOUS
  <2>1. i - 1 \in 1 .. n /\ i \in 1 .. n
    BY <1>1
  <2>2. /\ s[i - 1].p \in Nat /\ s[i].p \in Nat
        /\ s[i - 1].t \in Nat /\ s[i].t \in Nat
    BY <1>1, <2>1
  <2>3. elapsed(s[i].t, s[i - 1].t) \in Nat
    BY <2>2 DEF elapsed
  <2>4. s[i - 1].p + s[i].p \in Nat
    BY <2>2
  <2>5. \A x, y \in Nat : x * y \in Nat
    OBVIOUS
  <2> QED  BY <2>3, <2>4, <2>5 DEF Trapezium
<1>3. d \in [1 .. n -> Nat]
  <2>1. \A i \in 1 .. n : i = 1 \/ i \in 2 .. n
    BY <1>1
  <2> QED  BY <1>2, <2>1
<1>4. PICK f \in [1 .. n -> Nat] : \A i \in 1 .. n : f[i] = IF i = 1 THEN 0 ELSE f[i - 1] + d[i]
  <2> HIDE DEF d
  <2> QED  BY <1>1, <1>3, RunningTotal
<1>5. Made(f)
  BY <1>4
<1>6. e = CHOOSE g : Made(g)
  BY DEF twice_integrated_energy, Trapezium
<1>7. Made(e)
  <2> HIDE DEF Made
  <2> QED  BY <1>5, <1>6
<1>8. e = [i \in 1 .. n |-> IF i = 1 THEN 0 ELSE e[i - 1] + Trapezium(s, i)]
  BY <1>7
<1> HIDE DEF Made
<1> QED  BY <1>8

\* Under powers of at least lo (at most hi) an interval d adds at least lo (at
\* most hi) times its length to the energy.
LEMMA TrapeziumBounds ==
    ASSUME NEW a \in Nat, NEW b \in Nat, NEW d \in Nat, NEW since \in Nat, NEW acc \in Int,
           NEW lo \in Nat, lo <= a, lo <= b, NEW hi \in Nat, a <= hi, b <= hi,
           2 * lo * since <= acc, acc <= 2 * hi * since
    PROVE  /\ 2 * lo * (since + d) <= acc + (a + b) * d
           /\ acc + (a + b) * d <= 2 * hi * (since + d)
           /\ acc + (a + b) * d \in Int
<1>1. lo * d <= a * d /\ lo * d <= b * d /\ a * d <= hi * d /\ b * d <= hi * d
  <2>1. \A x, y, z \in Nat : x <= y => x * z <= y * z
    OBVIOUS
  <2> QED  BY <2>1
<1>2. (a + b) * d = a * d + b * d
  OBVIOUS
<1>3. \A x \in Nat : 2 * x * (since + d) = 2 * x * since + 2 * (x * d)
  OBVIOUS
<1>4. /\ lo * d \in Int /\ a * d \in Int /\ b * d \in Int /\ hi * d \in Int
      /\ 2 * lo * since \in Int /\ 2 * hi * since \in Int
  OBVIOUS
<1>5. \A l, x, y, h, low, high \in Int :
         l <= x /\ l <= y /\ x <= h /\ y <= h /\ low <= acc /\ acc <= high
         => low + 2 * l <= acc + (x + y) /\ acc + (x + y) <= high + 2 * h /\ acc + (x + y) \in Int
  OBVIOUS
<1> QED  BY <1>1, <1>2, <1>3, <1>4, <1>5

\* Twice an energy, over the time d, is between that of the powers lo and hi.
Within(energy, lo, hi, d) == energy \in Int /\ 2 * lo * d <= energy /\ energy <= 2 * hi * d

\* The interval from t1 to t2 between powers a and b, when the energy acc since
\* t0 is within lo and hi.
Interval(a, b, t0, t1, t2, lo, hi, acc) ==
    /\ a \in Nat /\ b \in Nat /\ lo \in Nat /\ hi \in Nat
    /\ lo <= a /\ lo <= b /\ a <= hi /\ b <= hi
    /\ t0 \in Nat /\ t1 \in Nat /\ t2 \in Nat /\ t0 <= t1 /\ t1 <= t2
    /\ Within(acc, lo, hi, t1 - t0)

\* An interval keeps the energy within lo and hi.
LEMMA IntervalBounds ==
    ASSUME NEW a, NEW b, NEW t0, NEW t1, NEW t2, NEW lo, NEW hi, NEW acc,
           Interval(a, b, t0, t1, t2, lo, hi, acc)
    PROVE  t0 <= t2 /\ Within(acc + (a + b) * elapsed(t2, t1), lo, hi, t2 - t0)
<1>0. /\ a \in Nat /\ b \in Nat /\ lo \in Nat /\ hi \in Nat /\ acc \in Int
      /\ lo <= a /\ lo <= b /\ a <= hi /\ b <= hi
      /\ t0 \in Nat /\ t1 \in Nat /\ t2 \in Nat /\ t0 <= t1 /\ t1 <= t2
  BY DEF Interval, Within
<1>1. /\ t1 - t0 \in Nat /\ t2 - t1 \in Nat /\ (t1 - t0) + (t2 - t1) = t2 - t0 /\ t0 <= t2
  BY <1>0
<1>2. elapsed(t2, t1) = t2 - t1
  BY <1>0 DEF elapsed
<1>3. /\ 2 * lo * ((t1 - t0) + (t2 - t1)) <= acc + (a + b) * (t2 - t1)
      /\ acc + (a + b) * (t2 - t1) <= 2 * hi * ((t1 - t0) + (t2 - t1))
      /\ acc + (a + b) * (t2 - t1) \in Int
  <2>1. 2 * lo * (t1 - t0) <= acc /\ acc <= 2 * hi * (t1 - t0)
    BY DEF Interval, Within
  <2> QED  BY <1>0, <1>1, <2>1, TrapeziumBounds
<1> QED  BY <1>1, <1>2, <1>3 DEF Within

\* Integration and span use the same intervals: for samples in order of time
\* the energy up to a sample lies between the least and the greatest power
\* times the time since the first.  The first sample for which it did not
\* would follow one for which it does.
LEMMA EnergyBounds ==
    ASSUME NEW s \in Seq(Sample), NEW n, n = Len(s), NEW e, e = twice_integrated_energy(s),
           \A i \in 2 .. n : s[i - 1].t <= s[i].t,
           NEW lo \in Nat, NEW hi \in Nat, \A i \in 1 .. n : lo <= s[i].p /\ s[i].p <= hi
    PROVE  \A i \in 1 .. n : s[1].t <= s[i].t /\ Within(e[i], lo, hi, s[i].t - s[1].t)
<1> DEFINE Good(i) == s[1].t <= s[i].t /\ Within(e[i], lo, hi, s[i].t - s[1].t)
           Bad == {i \in 1 .. n : ~ Good(i)}
<1>1. n \in Nat /\ \A i \in 1 .. n : s[i].t \in Nat /\ s[i].p \in Nat
  BY SampleNumbers
<1>2. \A i \in 1 .. n : e[i] = IF i = 1 THEN 0 ELSE e[i - 1] + Trapezium(s, i)
  BY EnergySteps
<1>3. ASSUME 1 \in 1 .. n PROVE Good(1)
  <2>1. s[1].t \in Nat /\ e[1] = 0
    BY <1>1, <1>2, <1>3
  <2>2. s[1].t - s[1].t = 0
    BY <2>1
  <2>3. 2 * lo * 0 = 0 /\ 2 * hi * 0 = 0
    OBVIOUS
  <2> QED  BY <2>1, <2>2, <2>3 DEF Within
<1>4. ASSUME NEW i \in 2 .. n, Good(i - 1) PROVE Good(i)
  <2>1. i \in 1 .. n /\ i - 1 \in 1 .. n /\ i # 1 /\ 1 \in 1 .. n
    BY <1>1
  <2>2. e[i] = e[i - 1] + Trapezium(s, i)
    BY <1>2, <2>1
  <2>3. Interval(s[i - 1].p, s[i].p, s[1].t, s[i - 1].t, s[i].t, lo, hi, e[i - 1])
    BY <1>1, <1>4, <2>1 DEF Interval
  <2>4. s[1].t <= s[i].t /\ Within(e[i - 1] + Trapezium(s, i), lo, hi, s[i].t - s[1].t)
    BY <2>3, IntervalBounds DEF Trapezium
  <2> QED  BY <2>2, <2>4
<1>5. ASSUME Bad # {} PROVE FALSE
  <2> HIDE DEF Good
  <2>1. Bad \in SUBSET Nat
    BY <1>1
  <2>2. PICK i \in Bad : \A l \in Bad : i <= l
    BY <1>5, <2>1, LeastNumber
  <2>3. i \in 1 .. n /\ ~ Good(i)
    BY <2>2
  <2>4. i # 1
    BY <1>3, <2>3
  <2>5. i \in 2 .. n /\ i - 1 \in 1 .. n /\ ~ (i <= i - 1)
    BY <1>1, <2>3, <2>4
  <2>6. Good(i - 1)
    BY <2>2, <2>5
  <2> QED  BY <1>4, <2>3, <2>5, <2>6
<1>6. \A i \in 1 .. n : Good(i)
  <2> HIDE DEF Good
  <2> QED  BY <1>5
<1> QED  BY <1>6

\* The least and the greatest of finitely many numbers.
LEMMA Extremes ==
    ASSUME NEW S \in SUBSET Nat, S # {}, NEW top \in Nat, \A x \in S : x <= top
    PROVE  /\ Min(S) \in S /\ \A x \in S : Min(S) <= x
           /\ Max(S) \in S /\ \A x \in S : x <= Max(S)
<1>1. \E x \in S : \A y \in S : x <= y
  BY LeastNumber
<1>2. \E x \in S : \A y \in S : x >= y
  <2> DEFINE Gaps == {top - x : x \in S}
  <2>1. Gaps \in SUBSET Nat /\ Gaps # {}
    <3>1. \A x \in S : top - x \in Nat
      OBVIOUS
    <3> QED  BY <3>1
  <2>2. PICK g \in Gaps : \A h \in Gaps : g <= h
    <3> HIDE DEF Gaps
    <3> QED  BY <2>1, LeastNumber
  <2>3. PICK x \in S : g = top - x
    BY <2>2
  <2>4. \A y \in S : top - x <= top - y
    BY <2>2, <2>3
  <2>5. \A y \in S : x >= y
    BY <2>4
  <2> QED  BY <2>5
<1>3. Min(S) \in S /\ \A x \in S : Min(S) <= x
  BY <1>1 DEF Min
<1>4. Max(S) \in S /\ \A x \in S : Max(S) >= x
  BY <1>2 DEF Max
<1> QED  BY <1>3, <1>4

\* The peak covers the samples that are kept, and those that were recorded.
Peaked == \A i \in 1 .. Len(recorded) : recorded[i].p <= peak

\* The average of samples in order of time lies between their extremes.
LEMMA AverageOfOrdered ==
    ASSUME TypeOK, Recent(recorded, samples), Peaked PROVE AverageWithinSamples
<1> DEFINE ps == {samples[i].p : i \in DOMAIN samples}
<1>1. /\ recorded \in Seq(Sample) /\ samples \in Seq(Sample) /\ peak \in Nat
      /\ DOMAIN samples = 1 .. Len(samples)
  BY AccountingAssumption DEF TypeOK
<1>2. Len(samples) \in Nat /\ \A i \in 1 .. Len(samples) : samples[i].t \in Nat /\ samples[i].p \in Nat
  BY <1>1, SampleNumbers
<1>3. \A i \in 2 .. Len(samples) : samples[i - 1].t <= samples[i].t
  BY <1>1, RecentIsSuffix
<1>4. \A i \in 1 .. Len(samples) : samples[i].p <= peak
  <2> SUFFICES ASSUME NEW i \in 1 .. Len(samples) PROVE samples[i].p <= peak
    OBVIOUS
  <2>1. samples[i] = recorded[(Len(recorded) - Len(samples)) + i] /\ Len(samples) <= Len(recorded)
    BY DEF Recent
  <2>2. (Len(recorded) - Len(samples)) + i \in 1 .. Len(recorded)
    BY <1>1, <1>2, <2>1
  <2> QED  BY <2>1, <2>2 DEF Peaked
<1>5. ps \in SUBSET Nat /\ \A p \in ps : p <= peak
  BY <1>1, <1>2, <1>4
<1>6. ASSUME span(samples) > 0
      PROVE  /\ 2 * Min(ps) * span(samples) <= twice_integrated_energy(samples)[Len(samples)]
             /\ twice_integrated_energy(samples)[Len(samples)] <= 2 * Max(ps) * span(samples)
  <2> SUFFICES ASSUME NEW n, n = Len(samples), NEW e, e = twice_integrated_energy(samples),
                      NEW lo, lo = Min(ps), NEW hi, hi = Max(ps)
               PROVE  2 * lo * span(samples) <= e[n] /\ e[n] <= 2 * hi * span(samples)
    OBVIOUS
  <2>1. n >= 2 /\ n \in 1 .. n /\ 1 \in 1 .. n
    BY <1>2, <1>6 DEF span
  <2>2. ps # {}
    BY <1>1, <2>1
  <2>3. lo \in ps /\ hi \in ps /\ \A p \in ps : lo <= p /\ p <= hi
    <3> HIDE DEF ps
    <3> QED  BY <1>1, <1>5, <2>2, Extremes
  <2>4. lo \in Nat /\ hi \in Nat /\ \A i \in 1 .. n : lo <= samples[i].p /\ samples[i].p <= hi
    BY <1>1, <1>5, <2>3
  <2> HIDE DEF ps
  <2>5. /\ samples[1].t <= samples[n].t
        /\ 2 * lo * (samples[n].t - samples[1].t) <= e[n]
        /\ e[n] <= 2 * hi * (samples[n].t - samples[1].t)
    <3>1. samples[1].t <= samples[n].t /\ Within(e[n], lo, hi, samples[n].t - samples[1].t)
      BY <1>1, <1>3, <2>1, <2>4, EnergyBounds
    <3> QED  BY <3>1 DEF Within
  <2>6. span(samples) = samples[n].t - samples[1].t
    BY <1>2, <2>1, <2>5 DEF span, elapsed
  <2> QED  BY <2>5, <2>6
<1> HIDE DEF ps
<1> QED  BY <1>5, <1>6 DEF AverageWithinSamples, ps

\* The peak covers the record whatever is called.
LEMMA PeakedStep == TypeOK /\ Peaked /\ [Next]_vars => Peaked'
<1> SUFFICES ASSUME TypeOK, Peaked, [Next]_vars PROVE Peaked'
  OBVIOUS
<1>1. ASSUME UNCHANGED <<recorded, peak>> PROVE Peaked'
  BY <1>1 DEF Peaked
<1>2. ASSUME recorded' = <<>> PROVE Peaked'
  BY <1>2 DEF Peaked
<1>3. ASSUME NEW t \in CallTimes, NEW p \in Powers, record(t, p) PROVE Peaked'
  <2> SUFFICES ASSUME NEW x, x = [t |-> t, p |-> p], NEW i \in 1 .. Len(recorded')
               PROVE  recorded'[i].p <= peak'
    BY DEF Peaked
  <2>1. x \in Sample /\ x.p = p
    BY CallTimeType DEF Sample
  <2>2. /\ recorded \in Seq(Sample) /\ recorded' = Append(recorded, x)
        /\ peak \in Nat /\ p \in Nat /\ peak' = IF p > peak THEN p ELSE peak
    BY <1>3, AccountingAssumption DEF record, TypeOK
  <2>3. p <= peak' /\ peak <= peak' /\ peak' \in Nat
    BY <2>2
  <2>4. CASE i = Len(recorded) + 1
    BY <2>1, <2>2, <2>3, <2>4
  <2>5. CASE i # Len(recorded) + 1
    <3>1. i \in 1 .. Len(recorded) /\ recorded'[i] = recorded[i]
      BY <2>1, <2>2, <2>5
    <3>2. recorded[i].p \in Nat /\ recorded[i].p <= peak
      BY <2>2, <3>1, SampleNumbers DEF Peaked
    <3> QED  BY <2>2, <2>3, <3>1, <3>2
  <2> QED  BY <2>4, <2>5
<1> QED
  BY <1>1, <1>2, <1>3
     DEF Next, ReadBurst, ConsumeBurst, ConsumeEnergy, set_limits, set_config, clear, account_energy,
         FirstSample, SaveMeters, LoadMeters, Restart, Tick, vars, windows

\* The average power over the retained samples lies between the least and the
\* greatest of them and the peak is not below any, for any samples and however
\* many of them were dropped.
THEOREM AverageWithinSamplesHolds == Spec => []AverageWithinSamples
<1>1. Init => Peaked
  BY DEF Init, Peaked
<1>2. Spec => []Peaked
  BY <1>1, PeakedStep, AccountingTyped, PTL DEF Spec
<1> QED  BY <1>2, SamplesRecent, AccountingTyped, AverageOfOrdered, PTL
=============================================================================
