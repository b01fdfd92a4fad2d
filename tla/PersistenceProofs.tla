------------------------- MODULE PersistenceProofs --------------------------
(***************************************************************************)
(* Proofs about saving, crashing and loading, for every tree of budgets,   *)
(* every set of reservations, every resolution of the record and any       *)
(* number of saves, calls and crashes.                                     *)
(*                                                                         *)
(* DiskInv says what is on disk at each step of a save.  A load books one  *)
(* reservation after the other; what it has booked is a function of how    *)
(* many it has restored (Booking), and what holds of every value of that   *)
(* function is shown for the least number for which it might not.          *)
(***************************************************************************)
EXTENDS Persistence, ReservedExactProofs

\* The records that are around: on disk, in the temporary file and with the
\* thread that saves or loads.
DiskInv ==
    /\ PersistenceTypeOK
    /\ path \in Record /\ acked <= path.seq /\ path.seq <= saves
    /\ io # Idle /\ io.step \in {"encoded", "opened", "written", "renamed"} =>
           io.record.seq = saves
    /\ io # Idle /\ io.step = "written" => tmp = io.record
    /\ io # Idle /\ io.step = "renamed" => path = io.record

InProgress == [step: {"encoded", "opened", "written", "renamed", "read"}, record: Record]

-----------------------------------------------------------------------------
(* Numbers.                                                                *)

\* A finite set of numbers that is not empty has a greatest: if not, take the
\* smallest such set and leave one element out.
LEMMA GreatestId ==
    ASSUME NEW S \in SUBSET Nat, IsFiniteSet(S), S # {}
    PROVE  \E n \in S : \A m \in S : m <= n
<1> DEFINE Unbounded(T) == T \in SUBSET Nat /\ IsFiniteSet(T) /\ T # {}
                           /\ ~ \E n \in T : \A m \in T : m <= n
           Sizes == {k \in Nat : \E T \in SUBSET Nat : Unbounded(T) /\ Cardinality(T) = k}
<1>1. SUFFICES ASSUME Unbounded(S) PROVE FALSE
  OBVIOUS
<1>2. Cardinality(S) \in Sizes
  BY <1>1, FS_CardinalityType
<1>3. PICK k \in Sizes : \A l \in Sizes : k <= l
  BY <1>2, LeastWatts
<1>4. PICK T \in SUBSET Nat : Unbounded(T) /\ Cardinality(T) = k
  BY <1>3
<1>5. PICK e \in T : TRUE
  BY <1>4
<1> DEFINE U == T \ {e}
<1>6. IsFiniteSet(U) /\ Cardinality(U) = k - 1 /\ U \in SUBSET Nat
  BY <1>4, <1>5, FS_RemoveElement
<1>7. CASE U = {}
  <2>1. T = {e}
    BY <1>5, <1>7
  <2> QED  BY <1>4, <1>5, <2>1
<1>8. CASE U # {}
  <2>1. Cardinality(U) \in Nat /\ k \in Nat
    BY <1>3, <1>6, FS_CardinalityType
  <2>2. ~ Unbounded(U)
    <3>1. Unbounded(U) => Cardinality(U) \in Sizes
      BY <1>6, <2>1
    <3> HIDE DEF Sizes, Unbounded, U
    <3> QED  BY <1>3, <1>6, <2>1, <3>1
  <2>3. PICK n \in U : \A m \in U : m <= n
    BY <1>6, <1>8, <2>2
  <2>4. \A m \in T : m \in U \/ m = e
    OBVIOUS
  <2>5. n \in Nat /\ e \in Nat /\ n \in T
    BY <1>4, <1>5, <2>3
  <2>6. CASE e <= n
    BY <1>4, <2>3, <2>4, <2>5, <2>6
  <2>7. CASE n < e
    <3>1. \A m \in T : m <= e
      BY <1>4, <2>3, <2>4, <2>5, <2>7
    <3> QED  BY <1>4, <1>5, <3>1
  <2> QED  BY <2>5, <2>6, <2>7
<1> QED  BY <1>7, <1>8

\* LastId is the greatest id.
LEMMA LastIdIsLast == LastId \in ReservationIds /\ LastId \in Nat
                      /\ \A r \in ReservationIds : r \in 1 .. LastId
<1>1. ReservationIds \in SUBSET Nat /\ IsFiniteSet(ReservationIds) /\ ReservationIds # {}
  BY PersistenceAssumption, ReservationAssumption
<1>2. \E n \in ReservationIds : \A r \in ReservationIds : r <= n
  BY <1>1, GreatestId
<1>3. LastId \in ReservationIds /\ \A r \in ReservationIds : r <= LastId
  BY <1>2 DEF LastId
<1> QED  BY <1>3, PersistenceAssumption

\* The record keeps no more than there is.
LEMMA CutIsLess == ASSUME NEW v \in Nat PROVE f64(v) \in 0 .. v
<1>1. Resolution \in Nat /\ Resolution > 0
  BY PersistenceAssumption
<1>2. v \div Resolution \in Nat /\ Resolution * (v \div Resolution) <= v
  BY <1>1
<1> QED  BY <1>1, <1>2 DEF f64

-----------------------------------------------------------------------------
(* What a load books.                                                      *)

\* What is reserved on each budget.
Amounts == [BudgetIds -> Nat]

\* A table that is given by its first entry and by how each entry follows from
\* the one before exists, however long: the shortest one that does not would
\* be a shorter one with an entry more.
LEMMA TableExists ==
    ASSUME NEW a \in Amounts, NEW step \in [1 .. LastId -> [Amounts -> Amounts]]
    PROVE  \E f \in [0 .. LastId -> Amounts] :
               f[0] = a /\ \A n \in 1 .. LastId : f[n] = step[n][f[n - 1]]
<1> DEFINE N == LastId
           S == Amounts
<1> N \in Nat /\ a \in S /\ step \in [1 .. N -> [S -> S]]
  BY LastIdIsLast
<1> HIDE DEF N, S
<1> DEFINE Table(f, k) == f \in [0 .. k -> S] /\ f[0] = a
                          /\ \A n \in 1 .. k : f[n] = step[n][f[n - 1]]
           Missing == {k \in 0 .. N : ~ \E f : Table(f, k)}
<1>1. Missing \in SUBSET Nat
  OBVIOUS
<1>2. ASSUME Missing # {} PROVE FALSE
  <2> HIDE DEF Table
  <2>1. PICK k \in Missing : \A l \in Missing : k <= l
    BY <1>1, <1>2, LeastWatts
  <2>2. k \in 0 .. N /\ ~ \E f : Table(f, k)
    BY <2>1
  <2>3. k # 0
    <3>1. Table([i \in 0 .. 0 |-> a], 0)
      BY DEF Table
    <3> QED  BY <2>2, <3>1
  <2>4. k - 1 \in 0 .. N /\ k - 1 \notin Missing
    BY <2>1, <2>2, <2>3
  <2>5. PICK f : Table(f, k - 1)
    BY <2>4
  <2> DEFINE g == [i \in 0 .. k |-> IF i = k THEN step[k][f[k - 1]] ELSE f[i]]
  <2>6. /\ f \in [0 .. k - 1 -> S] /\ f[0] = a
        /\ \A n \in 1 .. k - 1 : f[n] = step[n][f[n - 1]]
    BY <2>5 DEF Table
  <2>7. k \in 1 .. N /\ step[k] \in [S -> S] /\ f[k - 1] \in S
    <3>1. k \in 1 .. N /\ k - 1 \in 0 .. k - 1
      BY <2>2, <2>3
    <3> QED  BY <2>6, <3>1
  <2>8. step[k][f[k - 1]] \in S
    BY <2>7
  <2>9. g \in [0 .. k -> S] /\ g[0] = a
    BY <2>6, <2>7, <2>8
  <2>10. \A n \in 1 .. k : g[n] = step[n][g[n - 1]]
    <3> SUFFICES ASSUME NEW n \in 1 .. k PROVE g[n] = step[n][g[n - 1]]
      OBVIOUS
    <3>1. n - 1 \in 0 .. k - 1 /\ n - 1 \in 0 .. k /\ n - 1 # k /\ n \in 0 .. k
      BY <2>7
    <3>2. g[n - 1] = f[n - 1]
      BY <3>1
    <3>3. CASE n = k
      <4>1. g[n] = step[k][f[k - 1]]
        BY <3>1, <3>3
      <4> HIDE DEF g
      <4> QED  BY <3>2, <3>3, <4>1
    <3>4. CASE n # k
      <4>1. n \in 1 .. k - 1 /\ g[n] = f[n]
        BY <2>7, <3>1, <3>4
      <4> HIDE DEF g
      <4> QED  BY <2>6, <3>2, <4>1
    <3> QED  BY <3>3, <3>4
  <2>11. Table(g, k)
    <3> HIDE DEF g
    <3> QED  BY <2>9, <2>10 DEF Table
  <2> QED  BY <2>2, <2>11
<1>3. N \in 0 .. N
  OBVIOUS
<1>4. \E f : Table(f, N)
  BY <1>2, <1>3
<1> QED  BY <1>4 DEF N, S

\* A claim leaves a table of watts.
LEMMA ReclaimType ==
    ASSUME NEW res \in Reservation, NEW b \in Amounts
    PROVE  Reclaim(res, b) \in Amounts
<1>1. res.reserved_power \in Nat
  BY ReservationAssumption DEF Reservation
<1> QED  BY <1>1 DEF Reclaim, Amounts

\* Booking is what its definition says it is.
LEMMA BookingSteps ==
    ASSUME TypeOK, NEW s \in Record, NEW R \in SUBSET ReservationIds
    PROVE  /\ Booking(s, R) \in [0 .. LastId -> Amounts]
           /\ Booking(s, R)[0] = reserved
           /\ \A n \in 1 .. LastId :
                 Booking(s, R)[n] = IF n \in R /\ Reclaims(s.reservations[n])
                                    THEN Reclaim(s.reservations[n], Booking(s, R)[n - 1])
                                    ELSE Booking(s, R)[n - 1]
<1> DEFINE S == Amounts
           claims(n) == n \in R /\ Reclaims(s.reservations[n])
           after(n, b) == IF claims(n) THEN Reclaim(s.reservations[n], b) ELSE b
           step == [n \in 1 .. LastId |-> [b \in S |-> after(n, b)]]
           Made(g) == g = [n \in 0 .. LastId |-> IF n = 0 THEN reserved ELSE after(n, g[n - 1])]
<1>1. LastId \in Nat /\ reserved \in S
  BY LastIdIsLast DEF TypeOK, BudgetTypeOK, Amounts
<1>2. ASSUME NEW n \in 1 .. LastId, NEW b \in S PROVE after(n, b) \in S
  <2>1. n \in R => s.reservations[n] \in Reservation
    BY DEF Record
  <2> QED  BY <1>2, <2>1, ReclaimType
<1> HIDE DEF after
<1>3. step \in [1 .. LastId -> [S -> S]]
  BY <1>2
<1>4. PICK f \in [0 .. LastId -> S] : f[0] = reserved /\ \A n \in 1 .. LastId : f[n] = step[n][f[n - 1]]
  <2> HIDE DEF step
  <2> QED  BY <1>1, <1>3, TableExists
<1>5. \A n \in 1 .. LastId : n - 1 \in 0 .. LastId
  BY <1>1
<1>6. \A n \in 1 .. LastId : f[n] = after(n, f[n - 1])
  BY <1>4, <1>5
<1>7. Made(f)
  <2>1. \A n \in 0 .. LastId : n = 0 \/ n \in 1 .. LastId
    BY <1>1
  <2> QED  BY <1>4, <1>6, <2>1
<1>8. Booking(s, R) = CHOOSE g : Made(g)
  BY DEF Booking, after
<1>9. Made(Booking(s, R))
  <2> HIDE DEF Made
  <2> QED  BY <1>7, <1>8
<1> DEFINE g == Booking(s, R)
<1> HIDE DEF g
<1>10. g = [n \in 0 .. LastId |-> IF n = 0 THEN reserved ELSE after(n, g[n - 1])]
  BY <1>9 DEF g
<1>11. g[0] = reserved /\ \A n \in 1 .. LastId : g[n] = after(n, g[n - 1])
  BY <1>1, <1>10
<1>12. \A n \in 0 .. LastId : g[n] \in S
  <2> DEFINE Bad == {n \in 0 .. LastId : g[n] \notin S}
  <2>1. Bad \in SUBSET Nat
    BY <1>1
  <2>2. ASSUME Bad # {} PROVE FALSE
    <3>1. PICK n \in Bad : \A m \in Bad : n <= m
      BY <2>1, <2>2, LeastWatts
    <3>2. n # 0 /\ n \in 0 .. LastId /\ g[n] \notin S
      BY <1>1, <1>11, <3>1
    <3> HIDE DEF S, Bad
    <3>5. n \in Nat /\ n - 1 \in 0 .. LastId /\ n \in 1 .. LastId /\ ~ (n <= n - 1)
      BY <1>1, <3>2
    <3>6. n - 1 \notin Bad
      BY <3>1, <3>5
    <3>3. n - 1 \in 0 .. LastId /\ n - 1 \notin Bad /\ n \in 1 .. LastId
      BY <3>5, <3>6
    <3>4. g[n - 1] \in S
      BY <3>3 DEF Bad
    <3> QED  BY <1>2, <1>11, <3>2, <3>3, <3>4
  <2> QED  BY <2>2
<1>13. g \in [0 .. LastId -> S]
  <2> HIDE DEF S
  <2> QED  BY <1>10, <1>12
<1> QED  BY <1>11, <1>13 DEF g, after

-----------------------------------------------------------------------------
(* What is on disk.                                                        *)

\* What a save encodes is a record, whatever its number.
LEMMA EncodeRecord ==
    ASSUME TypeOK, NEW k \in 1 .. MaxSaves
    PROVE  [encode_state EXCEPT !.seq = k] \in Record /\ [encode_state EXCEPT !.seq = k].seq = k
<1> DEFINE c == [b \in BudgetIds |-> [cfg[b] EXCEPT !.hard_max = f64(@)]]
           m == [r \in ReservationIds |->
                   [reservations[r] EXCEPT !.requested_power = f64(@), !.reserved_power = f64(@)]]
<1>1. c \in [BudgetIds -> PowerBudget]
  <2> SUFFICES ASSUME NEW b \in BudgetIds PROVE [cfg[b] EXCEPT !.hard_max = f64(@)] \in PowerBudget
    OBVIOUS
  <2>1. cfg[b] \in PowerBudget
    BY DEF TypeOK, BudgetTypeOK
  <2>2. f64(cfg[b].hard_max) \in Nat
    BY <2>1, CutIsLess DEF PowerBudget
  <2> QED  BY <2>1, <2>2 DEF PowerBudget
<1>2. m \in [ReservationIds -> Reservation]
  <2> SUFFICES ASSUME NEW r \in ReservationIds
               PROVE  [reservations[r] EXCEPT !.requested_power = f64(@), !.reserved_power = f64(@)]
                         \in Reservation
    OBVIOUS
  <2>1. reservations[r] \in Reservation
    BY DEF TypeOK
  <2>2. /\ reservations[r].requested_power \in 0 .. MaxPower
        /\ reservations[r].reserved_power \in 0 .. MaxPower
    BY <2>1 DEF Reservation
  <2>3. /\ f64(reservations[r].requested_power) \in 0 .. MaxPower
        /\ f64(reservations[r].reserved_power) \in 0 .. MaxPower
    BY <2>2, CutIsLess, ReservationAssumption
  <2> QED  BY <2>1, <2>3 DEF Reservation
<1>3. LimitsKept \in BOOLEAN
  BY DEF LimitsKept
<1>4. policy \in PolicyGenerations /\ installed \in SUBSET BudgetIds
  BY DEF TypeOK, BudgetTypeOK
<1>5. encode_state = [seq |-> saves + 1, fits |-> LimitsKept, policy |-> policy,
                      installed |-> installed, cfg |-> c, reservations |-> m]
  BY DEF encode_state
<1> HIDE DEF c, m
<1>6. [encode_state EXCEPT !.seq = k] = [seq |-> k, fits |-> LimitsKept, policy |-> policy,
                                         installed |-> installed, cfg |-> c, reservations |-> m]
  BY <1>5
<1> QED  BY <1>1, <1>2, <1>3, <1>4, <1>6 DEF Record

\* A save numbers its record after the ones before it.
LEMMA EncodeType ==
    ASSUME TypeOK, saves \in 0 .. MaxSaves, saves < MaxSaves
    PROVE  encode_state \in Record /\ encode_state.seq = saves + 1
<1>1. saves + 1 \in 1 .. MaxSaves
  BY PersistenceAssumption
<1>2. [encode_state EXCEPT !.seq = saves + 1] = encode_state /\ encode_state.seq = saves + 1
  <2> DEFINE c == [b \in BudgetIds |-> [cfg[b] EXCEPT !.hard_max = f64(@)]]
             m == [r \in ReservationIds |->
                     [reservations[r] EXCEPT !.requested_power = f64(@), !.reserved_power = f64(@)]]
  <2>1. encode_state = [seq |-> saves + 1, fits |-> LimitsKept, policy |-> policy,
                        installed |-> installed, cfg |-> c, reservations |-> m]
    BY DEF encode_state
  <2> HIDE DEF c, m
  <2> QED  BY <2>1
<1> QED  BY <1>1, <1>2, EncodeRecord

\* A call is a step of the governor.
LEMMA CallIsNext == Call => Next
BY DEF Call, Next

\* plan with the id that the allocator gives is a step of the governor.
LEMMA PlanIsNext ==
    ASSUME NEW b \in PlanBudgets, NEW power \in Powers, NEW pol \in PlannedPolicies,
           NEW now \in CallTimes, plan(b, power, pol, now)
    PROVE  [Next]_vars
<1>1. b \in BudgetIds
  BY PersistenceAssumption
<1> QED  BY <1>1 DEF plan, Next

\* Loading leaves a well-typed governor.
LEMMA LoadType ==
    ASSUME TypeOK, NEW s \in Record, decode_state(s), UNCHANGED clock
    PROVE  TypeOK'
<1>1. PICK B \in SUBSET BudgetIds : InstallBudgets(s, B)
  BY DEF decode_state
<1> DEFINE R == IF Installable(s) = s.installed /\ validate_budget_hierarchy THEN Restorable(s) ELSE {}
<1>2. R \in SUBSET ReservationIds
  BY DEF Restorable, Listed
<1>3. RestoreReservations(s, R) /\ policy' = s.policy
  BY DEF decode_state
<1> HIDE DEF R
<1>4. reserved' \in [BudgetIds -> Nat]
  <2>1. LastId \in 0 .. LastId
    BY LastIdIsLast
  <2>2. Booking(s, R) \in [0 .. LastId -> Amounts]
    BY <1>2, BookingSteps
  <2> QED  BY <1>3, <2>1, <2>2 DEF RestoreReservations, Amounts
<1>5. /\ s.cfg \in [BudgetIds -> PowerBudget] /\ s.reservations \in [ReservationIds -> Reservation]
      /\ s.policy \in PolicyGenerations /\ s.installed \in SUBSET BudgetIds
  BY DEF Record
<1>6. /\ installed' \subseteq BudgetIds /\ cfg' \in [BudgetIds -> PowerBudget]
      /\ used' \in [BudgetIds -> Nat]
  BY <1>1, <1>5 DEF InstallBudgets, TypeOK, BudgetTypeOK
<1>7. reservations' \in [ReservationIds -> Reservation]
  BY <1>3, <1>5 DEF RestoreReservations, TypeOK
<1>8. index' \in [ReservationIds -> ReservationState \cup {"NONE"}]
  <2>1. \A r \in ReservationIds : s.reservations[r].state \in ReservationState \cup {"NONE"}
    BY <1>5 DEF Reservation
  <2> QED  BY <1>3, <2>1 DEF RestoreReservations, TypeOK
<1> QED  BY <1>3, <1>4, <1>5, <1>6, <1>7, <1>8 DEF TypeOK, BudgetTypeOK

\* The first save leaves its record on disk.
LEMMA DiskInit == PersistenceInit => DiskInv
<1> SUFFICES ASSUME PersistenceInit PROVE DiskInv
  OBVIOUS
<1>1. TypeOK
  BY TypeInit DEF PersistenceInit
<1>2. path \in Record /\ path.seq = 1
  <2>1. 1 \in 1 .. MaxSaves
    BY PersistenceAssumption
  <2> QED  BY <1>1, <2>1, EncodeRecord DEF PersistenceInit
<1> QED  BY <1>1, <1>2, PersistenceAssumption
            DEF PersistenceInit, DiskInv, PersistenceTypeOK, Idle

\* The thread is idle or has a record in its hands.
LEMMA InHand ==
    ASSUME PersistenceTypeOK
    PROVE  /\ io = Idle \/ io \in InProgress
           /\ io.step \in {"encoded", "opened", "written", "renamed", "read"} =>
                  io \in InProgress /\ io.record \in Record /\ io # Idle
           /\ io \in InProgress => io # Idle
BY DEF PersistenceTypeOK, InProgress, Idle

\* Every step of the thread, of callers and of the machine keeps DiskInv.
LEMMA DiskStep == DiskInv /\ [PersistenceNext]_allVars => DiskInv'
<1> SUFFICES ASSUME DiskInv, [PersistenceNext]_allVars PROVE DiskInv'
  OBVIOUS
<1>1. PersistenceTypeOK /\ TypeOK
  BY DEF DiskInv, PersistenceTypeOK
<1>2. /\ io = Idle \/ io \in InProgress
      /\ io.step \in {"encoded", "opened", "written", "renamed", "read"} =>
             io \in InProgress /\ io.record \in Record /\ io # Idle
  BY <1>1, InHand
<1>3. saves \in Nat /\ acked \in Nat /\ path \in Record /\ path.seq \in Nat
  BY PersistenceAssumption DEF DiskInv, PersistenceTypeOK, Record
\* The governor may change, the thread and the disk do not.
<1>4. ASSUME TypeOK', UNCHANGED <<diskVars, io, saves, acked>>, next_id' \in Nat,
             calls' \in 0 .. MaxCalls, restarts' \in 0 .. MaxRestarts
      PROVE  DiskInv'
  BY <1>4 DEF DiskInv, PersistenceTypeOK, diskVars
\* The thread or the disk changes, the governor does not.
<1>5. ASSUME UNCHANGED vars PROVE TypeOK'
  BY <1>1, <1>5, TypeStep
<1>6. ASSUME SaveEncode PROVE DiskInv'
  <2>1. encode_state \in Record /\ encode_state.seq = saves + 1
    BY <1>6, <1>1, EncodeType DEF SaveEncode, PersistenceTypeOK
  <2>2. /\ io' = [step |-> "encoded", record |-> encode_state]
        /\ saves' = saves + 1 /\ saves' \in 0 .. MaxSaves
        /\ UNCHANGED <<vars, diskVars, next_id, acked, counters>>
    BY <1>6, <1>1, PersistenceAssumption DEF SaveEncode, PersistenceTypeOK
  <2>3. io' \in InProgress /\ io'.step = "encoded" /\ io'.record.seq = saves'
    BY <2>1, <2>2 DEF InProgress
  <2> QED
    BY <1>1, <1>3, <1>5, <2>2, <2>3 DEF DiskInv, PersistenceTypeOK, InProgress, diskVars, counters
<1>7. ASSUME SaveOpen PROVE DiskInv'
  <2>1. io \in InProgress /\ io.record.seq = saves /\ TypeOK'
    BY <1>7, <1>2, <1>5 DEF SaveOpen, DiskInv
  <2>2. io' = Idle \/ io' = [io EXCEPT !.step = "opened"]
    BY <1>7 DEF SaveOpen
  <2>3. io' = Idle \/ (io' \in InProgress /\ io'.step = "opened" /\ io'.record = io.record)
    BY <2>1, <2>2 DEF InProgress
  <2> QED
    BY <1>7, <1>1, <1>3, <2>1, <2>3 DEF SaveOpen, DiskInv, PersistenceTypeOK, InProgress, counters
<1>8. ASSUME SaveWrite PROVE DiskInv'
  <2>1. io \in InProgress /\ io.record.seq = saves /\ TypeOK' /\ io.record \in Record
    BY <1>8, <1>2, <1>5 DEF SaveWrite, DiskInv
  <2>2. \/ io' = Idle /\ tmp' = tmp
        \/ io' = [io EXCEPT !.step = "written"] /\ tmp' = io.record
    BY <1>8 DEF SaveWrite
  <2>3. \/ io' = Idle /\ tmp' = tmp
        \/ /\ io' \in InProgress /\ io'.step = "written" /\ io'.record = io.record
           /\ tmp' = io.record
    BY <2>1, <2>2 DEF InProgress
  <2> QED
    BY <1>8, <1>1, <1>3, <2>1, <2>3 DEF SaveWrite, DiskInv, PersistenceTypeOK, InProgress, counters
<1>9. ASSUME SaveRename PROVE DiskInv'
  <2>1. /\ io \in InProgress /\ io.record.seq = saves /\ TypeOK' /\ io.record \in Record
        /\ tmp = io.record
    BY <1>9, <1>2, <1>5 DEF SaveRename, DiskInv
  <2>2. \/ io' = Idle /\ path' = path
        \/ io' = [io EXCEPT !.step = "renamed"] /\ path' = tmp
    BY <1>9 DEF SaveRename
  <2>3. \/ io' = Idle /\ path' = path
        \/ /\ io' \in InProgress /\ io'.step = "renamed" /\ io'.record = io.record
           /\ path' = io.record
    BY <2>1, <2>2 DEF InProgress
  <2>4. acked <= saves
    BY <1>3 DEF DiskInv
  <2> QED
    BY <1>9, <1>1, <1>3, <2>1, <2>3, <2>4
       DEF SaveRename, DiskInv, PersistenceTypeOK, InProgress, counters
<1>10. ASSUME SaveReturn PROVE DiskInv'
  <2>1. /\ io \in InProgress /\ io.record.seq = saves /\ TypeOK' /\ path = io.record
        /\ UNCHANGED <<vars, diskVars, next_id, saves, counters>> /\ acked' = io.record.seq /\ io' = Idle
    BY <1>10, <1>2, <1>5 DEF SaveReturn, DiskInv
  <2> QED
    BY <1>1, <1>3, <2>1 DEF DiskInv, PersistenceTypeOK, InProgress, Idle, counters, diskVars
<1>11. ASSUME LoadRead PROVE DiskInv'
  <2>1. /\ io' = [step |-> "read", record |-> path] /\ TypeOK'
        /\ UNCHANGED <<vars, diskVars, next_id, saves, acked, counters>>
    BY <1>11, <1>5 DEF LoadRead
  <2>2. io' \in InProgress /\ io'.step = "read"
    BY <1>3, <2>1 DEF InProgress
  <2> QED
    BY <1>1, <1>3, <2>1, <2>2 DEF DiskInv, PersistenceTypeOK, InProgress, counters, diskVars
<1>12. ASSUME LoadApply PROVE DiskInv'
  <2>1. /\ io.record \in Record /\ io' = Idle
        /\ UNCHANGED <<clock, diskVars, next_id, saves, acked, counters>>
    BY <1>12, <1>2 DEF LoadApply
  <2>2. PICK s \in {io.record} : decode_state(s)
    BY <1>12 DEF LoadApply
  <2>3. TypeOK'
    BY <1>1, <2>1, <2>2, LoadType
  <2> QED
    BY <1>1, <1>3, <2>1, <2>3 DEF DiskInv, PersistenceTypeOK, Idle, counters, diskVars
<1>13. ASSUME NEW b \in PlanBudgets, NEW power \in Powers, NEW pol \in PlannedPolicies,
              NEW now \in CallTimes, plan(b, power, pol, now)
       PROVE  DiskInv'
  <2>1. TypeOK'
    BY <1>13, <1>1, PlanIsNext, TypeStep
  <2> QED  BY <1>13, <1>1, <1>4, <2>1, PersistenceAssumption DEF plan, PersistenceTypeOK
<1>14. ASSUME Call PROVE DiskInv'
  <2>1. TypeOK'
    BY <1>14, <1>1, CallIsNext, TypeStep
  <2>2. /\ UNCHANGED <<diskVars, io, next_id, saves, acked, restarts>>
        /\ calls < MaxCalls /\ calls' = calls + 1
    BY <1>14 DEF Call
  <2> QED  BY <1>1, <1>4, <2>1, <2>2, PersistenceAssumption DEF PersistenceTypeOK
<1>15. ASSUME Restart PROVE DiskInv'
  <2>1. TypeOK'
    BY <1>15, <1>1, ReservationAssumption, BudgetAssumption
       DEF Restart, TypeOK, BudgetTypeOK, NoDefinition, PowerBudget, Generations,
           NoReservation, Reservation, PolicyGenerations, ReservationState
  <2> QED
    BY <1>15, <1>1, <1>3, <2>1, PersistenceAssumption
       DEF Restart, DiskInv, PersistenceTypeOK, Idle, diskVars
<1>16. ASSUME UNCHANGED allVars PROVE DiskInv'
  <2>1. UNCHANGED vars
    BY <1>16 DEF allVars
  <2> QED
    BY <1>16, <1>1, <1>4, <1>5, <2>1 DEF allVars, counters, PersistenceTypeOK
<1> QED
  BY <1>6, <1>7, <1>8, <1>9, <1>10, <1>11, <1>12, <1>13, <1>14, <1>15, <1>16 DEF PersistenceNext

\* What DiskInv says of the disk holds throughout.
LEMMA DiskAlways == PersistenceSpec => []DiskInv
BY DiskInit, DiskStep, PTL DEF PersistenceSpec

\* Every variable of the governor, the disk and the thread keeps its type
\* through saves, loads, calls and crashes.
THEOREM PersistenceTyped == PersistenceSpec => []PersistenceTypeOK
<1>1. DiskInv => PersistenceTypeOK
  BY DEF DiskInv
<1> QED  BY <1>1, DiskAlways, PTL

\* Once save has returned true, no crash and no failed step of a later save
\* leaves a missing, a torn or an older record under the name (persist_write).
THEOREM AckedSaveSurvivesHolds == PersistenceSpec => []AckedSaveSurvives
<1>1. DiskInv => AckedSaveSurvives
  <2> SUFFICES ASSUME DiskInv PROVE AckedSaveSurvives
    OBVIOUS
  <2>1. path \in Record /\ acked <= path.seq /\ acked \in Nat /\ path.seq \in Nat
    BY PersistenceAssumption DEF DiskInv, PersistenceTypeOK, Record
  <2> QED  BY <2>1, FileAssumption DEF AckedSaveSurvives
<1> QED  BY <1>1, DiskAlways, PTL

-----------------------------------------------------------------------------
(* What a load may not do.                                                 *)

\* A call changes neither the budget nor the power nor the policy of a
\* reservation that is there.
LEMMA IdentityStep ==
    ASSUME TypeOK, [Next]_vars, NEW x \in ReservationIds, reservations[x].state # "NONE"
    PROVE  Identity(x)' = Identity(x)
<1> DEFINE Kept == /\ reservations'[x].budget = reservations[x].budget
                   /\ reservations'[x].requested_power = reservations[x].requested_power
                   /\ reservations'[x].policy_generation = reservations[x].policy_generation
<1> SUFFICES Kept
  BY DEF Identity
<1>1. reservations[x] \in Reservation /\ reservations \in [ReservationIds -> Reservation]
  BY DEF TypeOK
<1>2. ASSUME UNCHANGED reservations PROVE Kept
  BY <1>2
<1>3. ASSUME NEW r \in ReservationIds, NEW s,
             reservations' = [reservations EXCEPT ![r].state = s]
      PROVE  Kept
  BY <1>1, <1>3 DEF Reservation
<1>4. ASSUME NEW r \in ReservationIds, NEW b \in BudgetIds, NEW power \in Powers,
             NEW pol \in PlannedPolicies, NEW now \in CallTimes,
             plan_reservation(r, b, power, pol, now)
      PROVE  Kept
  BY <1>1, <1>4 DEF plan_reservation
<1>5. ASSUME NEW r \in ReservationIds, NEW gen \in Generations, NEW now \in CallTimes,
             reserve_reservation(r, gen, now)
      PROVE  Kept
  <2>1. CASE Expire(r)
    BY <1>3, <2>1 DEF Expire
  <2>2. CASE reservations' = [reservations EXCEPT
                 ![r].state = "RESERVED", ![r].budget_generation = gen,
                 ![r].reserved_power = reservations[r].requested_power]
    BY <1>1, <2>2 DEF Reservation
  <2> QED  BY <1>5, <2>1, <2>2 DEF reserve_reservation
<1>6. ASSUME NEW r \in ReservationIds, NEW now \in CallTimes, admit_reservation(r, now)
      PROVE  Kept
  BY <1>3, <1>6 DEF admit_reservation, Expire
<1>7. ASSUME NEW r \in ReservationIds, NEW gen \in Generations, NEW now \in CallTimes,
             activate_reservation(r, gen, now)
      PROVE  Kept
  BY <1>3, <1>7 DEF activate_reservation, Expire
<1>8. ASSUME NEW r \in ReservationIds, NEW gen \in Generations, release_reservation(r, gen)
      PROVE  Kept
  BY <1>3, <1>8 DEF release_reservation
<1>9. ASSUME NEW r \in ReservationIds, NEW pol \in PolicyGenerations, validate_reservation(r, pol)
      PROVE  Kept
  BY <1>3, <1>9 DEF validate_reservation
<1> HIDE DEF Kept
<1> QED
  BY <1>2, <1>4, <1>5, <1>6, <1>7, <1>8, <1>9 DEF Next, install_budget, install_policy, Tick, vars

\* The reservation behind an id is the same for as long as the process lives:
\* neither a load nor an id handed out again replaces it (decode_state).
THEOREM IdentityIsStableHolds == PersistenceSpec => IdentityIsStable
<1>1. DiskInv /\ [PersistenceNext]_allVars =>
        [restarts' = restarts => \A r \in ReservationIds :
            reservations[r].state # "NONE" => Identity(r)' = Identity(r)]_allVars
  <2> SUFFICES ASSUME DiskInv, PersistenceNext, restarts' = restarts,
                      NEW x \in ReservationIds, reservations[x].state # "NONE"
               PROVE  Identity(x)' = Identity(x)
    OBVIOUS
  <2>1. PersistenceTypeOK /\ TypeOK
    BY DEF DiskInv, PersistenceTypeOK
  <2>2. ASSUME [Next]_vars PROVE Identity(x)' = Identity(x)
    BY <2>1, <2>2, IdentityStep
  <2>3. ASSUME LoadApply PROVE Identity(x)' = Identity(x)
    <3>1. PICK s \in {io.record} : decode_state(s)
      BY <2>3 DEF LoadApply
    <3>2. \A r \in Restorable(s) : r \in ReservationIds /\ reservations[r].state = "NONE"
      BY PersistenceAssumption DEF Restorable, Listed
    <3>3. \E R \in {Restorable(s), {}} : RestoreReservations(s, R)
      BY <3>1 DEF decode_state
    <3>4. reservations'[x] = reservations[x]
      BY <3>2, <3>3 DEF RestoreReservations
    <3> QED  BY <3>4 DEF Identity
  <2>4. ~ Restart
    BY <2>1, PersistenceAssumption DEF Restart, PersistenceTypeOK
  <2> QED
    BY <2>2, <2>3, <2>4, CallIsNext, PlanIsNext
       DEF PersistenceNext, SaveEncode, SaveOpen, SaveWrite, SaveRename, SaveReturn, LoadRead
<1> QED  BY <1>1, DiskAlways, PTL DEF PersistenceSpec, IdentityIsStable

\* However many reservations a load has restored, each budget is where it was
\* or within the limit in force.
LEMMA BookingWithinLimits ==
    ASSUME TypeOK, TypeOK', UNCHANGED used, NEW s \in Record, NEW R \in SUBSET ReservationIds,
           NEW x \in BudgetIds, NEW k \in 0 .. LastId
    PROVE  \/ Booking(s, R)[k][x] = reserved[x]
           \/ Booking(s, R)[k][x] + used'[x] <= cfg'[x].hard_max
<1> DEFINE g == Booking(s, R)
           Good(n) == g[n][x] = reserved[x] \/ g[n][x] + used'[x] <= cfg'[x].hard_max
           Bad == {n \in 0 .. LastId : ~ Good(n)}
<1>1. /\ g \in [0 .. LastId -> Amounts] /\ g[0] = reserved
      /\ \A n \in 1 .. LastId : g[n] = IF n \in R /\ Reclaims(s.reservations[n])
                                       THEN Reclaim(s.reservations[n], g[n - 1]) ELSE g[n - 1]
  BY BookingSteps
<1> HIDE DEF g
<1>2. Bad \in SUBSET Nat
  BY LastIdIsLast
<1>3. ASSUME Bad # {} PROVE FALSE
  <2>1. PICK n \in Bad : \A m \in Bad : n <= m
    BY <1>2, <1>3, LeastWatts
  <2>2. n \in 0 .. LastId /\ n # 0 /\ ~ Good(n)
    BY <1>1, <2>1
  <2> HIDE DEF Good, Bad
  <2>3. n \in Nat /\ n - 1 \in 0 .. LastId /\ n \in 1 .. LastId /\ ~ (n <= n - 1)
    BY <2>2, LastIdIsLast
  <2>4. Good(n - 1)
    BY <2>1, <2>3 DEF Bad
  <2>5. CASE g[n] = g[n - 1]
    BY <2>2, <2>4, <2>5 DEF Good
  <2>6. CASE n \in R /\ g[n] = Reclaim(s.reservations[n], g[n - 1])
    <3> DEFINE res == s.reservations[n]
    <3>1. res \in Reservation
      BY <2>6 DEF Record
    <3>2. \/ g[n][x] = g[n - 1][x]
          \/ /\ g[n][x] = g[n - 1][x] + res.reserved_power
             /\ g[n - 1][x] + used'[x] + res.reserved_power <= cfg'[x].hard_max
      <4> HIDE DEF res
      <4>1. g[n] = Reclaim(res, g[n - 1])
        BY <2>6 DEF res
      <4> QED  BY <4>1 DEF Reclaim
    <3>3. g[n - 1][x] \in Nat /\ res.reserved_power \in Nat /\ used'[x] \in Nat
      <4>1. g[n - 1] \in Amounts
        BY <1>1, <2>3
      <4>2. g[n - 1][x] \in Nat
        BY <4>1 DEF Amounts
      <4>3. res.reserved_power \in Nat
        BY <3>1, ReservationAssumption DEF Reservation
      <4>4. used'[x] \in Nat
        BY DEF TypeOK, BudgetTypeOK
      <4> QED  BY <4>2, <4>3, <4>4
    <3> HIDE DEF res
    <3>4. CASE g[n][x] = g[n - 1][x]
      BY <2>2, <2>4, <3>4 DEF Good
    <3>5. CASE /\ g[n][x] = g[n - 1][x] + res.reserved_power
               /\ g[n - 1][x] + used'[x] + res.reserved_power <= cfg'[x].hard_max
      <4>1. g[n][x] + used'[x] = g[n - 1][x] + used'[x] + res.reserved_power
        BY <3>3, <3>5
      <4> QED  BY <2>2, <3>5, <4>1 DEF Good
    <3> QED  BY <3>2, <3>4, <3>5
  <2> QED  BY <1>1, <2>3, <2>5, <2>6
<1> QED  BY <1>3 DEF g

\* Neither calls nor loads nor crashes raise what is booked on a budget above
\* the limit in force afterwards.
THEOREM CapacityGateAcrossLoadsHolds == PersistenceSpec => CapacityGateAcrossLoads
<1>1. DiskInv /\ DiskInv' /\ [PersistenceNext]_allVars =>
        [\A b \in BudgetIds : booked(b)' > booked(b) => booked(b)' <= cfg'[b].hard_max]_allVars
  <2> SUFFICES ASSUME DiskInv, DiskInv', PersistenceNext, NEW x \in BudgetIds,
                      booked(x)' > booked(x)
               PROVE  booked(x)' <= cfg'[x].hard_max
    OBVIOUS
  <2>1. TypeOK /\ TypeOK' /\ PersistenceTypeOK
    BY DEF DiskInv, PersistenceTypeOK
  <2>2. ASSUME [Next]_vars PROVE booked(x)' <= cfg'[x].hard_max
    BY <2>1, <2>2, CapacityStep
  <2>3. ASSUME LoadApply PROVE booked(x)' <= cfg'[x].hard_max
    <3>1. PICK s \in {io.record} : decode_state(s)
      BY <2>3 DEF LoadApply
    <3>2. s \in Record
      BY <2>1, <2>3, <3>1, InHand DEF LoadApply
    <3>3. PICK R \in {Restorable(s), {}} : RestoreReservations(s, R)
      BY <3>1 DEF decode_state
    <3>4. R \in SUBSET ReservationIds
      BY <3>3 DEF Restorable, Listed
    <3>5. UNCHANGED used
      BY <3>1 DEF decode_state, InstallBudgets
    <3>6. reserved'[x] = Booking(s, R)[LastId][x]
      BY <3>3 DEF RestoreReservations
    <3>7. LastId \in 0 .. LastId
      BY LastIdIsLast
    <3>8. reserved'[x] = reserved[x] \/ reserved'[x] + used'[x] <= cfg'[x].hard_max
      BY <2>1, <3>2, <3>4, <3>5, <3>6, <3>7, BookingWithinLimits
    <3>9. reserved[x] + used[x] \in Nat
      BY <2>1 DEF TypeOK, BudgetTypeOK
    <3> QED  BY <3>5, <3>8, <3>9 DEF booked
  <2>4. ASSUME Restart PROVE FALSE
    <3>1. booked(x)' = 0
      BY <2>4 DEF Restart, booked
    <3>2. booked(x) \in Nat
      BY <2>1 DEF booked, TypeOK, BudgetTypeOK
    <3> QED  BY <3>1, <3>2
  <2> QED
    BY <2>2, <2>3, <2>4, CallIsNext, PlanIsNext
       DEF PersistenceNext, SaveEncode, SaveOpen, SaveWrite, SaveRename, SaveReturn, LoadRead
<1> QED  BY <1>1, DiskAlways, PTL DEF PersistenceSpec, CapacityGateAcrossLoads

-----------------------------------------------------------------------------
(* No budget carries watts that nobody holds.  As for exact counters, the  *)
(* budgets keep their parents.                                             *)

\* The states in which a reservation is charged somewhere, of a record.
Charges(res) ==
    \/ res.state \in {"RESERVED", "ADMITTED", "ACTIVE"}
    \/ res.state = "EXPIRED" /\ res.reserved_power > 0

\* What a record says of the reservations it lists: the budgets they are charged
\* to are listed too, and nothing is held before it is reserved.
SoundRecord(s) ==
    /\ \A b \in s.installed : s.cfg[b].parent \in ParentsOf[b]
    /\ \A r \in ReservationIds :
          /\ s.reservations[r].state \in {"NONE", "PLANNED", "VALIDATED"} =>
                 s.reservations[r].reserved_power = 0
          /\ Charges(s.reservations[r]) => s.reservations[r].budget \in s.installed

LedgerKept ==
    /\ ParentsAsOffered
    /\ UnreservedHoldsNothing
    /\ ChargedChainsInstalled
    /\ NoPhantomReservation

RecoveryInv ==
    /\ DiskInv
    /\ LedgerKept
    /\ SoundRecord(path)
    /\ io # Idle => SoundRecord(io.record)

\* A record of a sound ledger is sound.
LEMMA EncodeSound ==
    ASSUME TypeOK, LedgerKept, NEW k
    PROVE  SoundRecord([encode_state EXCEPT !.seq = k]) /\ SoundRecord(encode_state)
<1>1. ASSUME NEW e, e.installed = installed,
             \A b \in BudgetIds : e.cfg[b].parent = cfg[b].parent,
             \A r \in ReservationIds :
                 /\ e.reservations[r].state = reservations[r].state
                 /\ e.reservations[r].budget = reservations[r].budget
                 /\ e.reservations[r].reserved_power \in 0 .. reservations[r].reserved_power
      PROVE  SoundRecord(e)
  <2>1. \A b \in e.installed : e.cfg[b].parent \in ParentsOf[b]
    BY <1>1 DEF LedgerKept, ParentsAsOffered, TypeOK, BudgetTypeOK
  <2>2. ASSUME NEW r \in ReservationIds
        PROVE  /\ e.reservations[r].state \in {"NONE", "PLANNED", "VALIDATED"} =>
                      e.reservations[r].reserved_power = 0
               /\ Charges(e.reservations[r]) => e.reservations[r].budget \in e.installed
    <3>1. reservations[r].reserved_power \in Nat
      BY ReservationAssumption DEF TypeOK, Reservation
    <3>2. Charges(e.reservations[r]) => Charged(r)
      BY <1>1, <3>1 DEF Charges, Charged
    <3>3. Charged(r) => reservations[r].budget \in installed
      BY ChainStart DEF LedgerKept, ChargedChainsInstalled
    <3>4. e.reservations[r].state \in {"NONE", "PLANNED", "VALIDATED"} =>
              reservations[r].reserved_power = 0
      BY <1>1 DEF LedgerKept, UnreservedHoldsNothing
    <3>5. e.reservations[r].reserved_power \in 0 .. reservations[r].reserved_power
      BY <1>1
    <3> QED  BY <1>1, <3>1, <3>2, <3>3, <3>4, <3>5
  <2> QED  BY <2>1, <2>2 DEF SoundRecord
<1> DEFINE c == [b \in BudgetIds |-> [cfg[b] EXCEPT !.hard_max = f64(@)]]
           m == [r \in ReservationIds |->
                   [reservations[r] EXCEPT !.requested_power = f64(@), !.reserved_power = f64(@)]]
<1>2. \A b \in BudgetIds : c[b].parent = cfg[b].parent
  BY DEF TypeOK, BudgetTypeOK, PowerBudget
<1>3. ASSUME NEW r \in ReservationIds
      PROVE  /\ m[r].state = reservations[r].state
             /\ m[r].budget = reservations[r].budget
             /\ m[r].reserved_power \in 0 .. reservations[r].reserved_power
  <2>1. reservations[r] \in Reservation /\ reservations[r].reserved_power \in Nat
    BY ReservationAssumption DEF TypeOK, Reservation
  <2>2. f64(reservations[r].reserved_power) \in 0 .. reservations[r].reserved_power
    BY <2>1, CutIsLess
  <2> QED  BY <2>1, <2>2 DEF Reservation
<1>4. encode_state = [seq |-> saves + 1, fits |-> LimitsKept, policy |-> policy,
                      installed |-> installed, cfg |-> c, reservations |-> m]
  BY DEF encode_state
<1> HIDE DEF c, m
<1>5. [encode_state EXCEPT !.seq = k] = [seq |-> k, fits |-> LimitsKept, policy |-> policy,
                                         installed |-> installed, cfg |-> c, reservations |-> m]
  BY <1>4
<1>6. SoundRecord(encode_state)
  BY <1>1, <1>2, <1>3, <1>4
<1>7. SoundRecord([encode_state EXCEPT !.seq = k])
  <2> DEFINE e == [encode_state EXCEPT !.seq = k]
  <2>1. e.installed = installed /\ e.cfg = c /\ e.reservations = m
    BY <1>5
  <2> HIDE DEF e
  <2>2. SoundRecord(e)
    BY <1>1, <1>2, <1>3, <2>1
  <2> QED  BY <2>2 DEF e
<1> QED  BY <1>6, <1>7

\* No call books watts that nobody holds.
LEMMA LedgerKeptByCalls ==
    ASSUME StableParents, TypeOK, LedgerKept, [Next]_vars
    PROVE  LedgerKept'
<1> SUFFICES ASSUME NEW debt, debt = [b \in BudgetIds |-> Cardinality(HeldWatts(b)) - reserved[b]]
             PROVE  LedgerKept'
  OBVIOUS
<1>1. \A b \in BudgetIds : Cardinality(HeldWatts(b)) \in Nat
  BY HoldersFinite, HeldWattsAreWatts, WattsFinite
<1>2. debt \in [BudgetIds -> Nat]
  BY <1>1 DEF LedgerKept, NoPhantomReservation, TypeOK, BudgetTypeOK
<1>3. ReservedShort(debt)
  BY <1>1 DEF ReservedShort, TypeOK, BudgetTypeOK
<1>4. ShortInv(debt)
  BY <1>3 DEF ShortInv, LedgerKept
<1>5. ShortInv(debt)'
  BY <1>2, <1>4, ShortStep
<1>6. NoPhantomReservation'
  BY <1>2, <1>5 DEF ShortInv, ReservedShort, NoPhantomReservation, TypeOK, BudgetTypeOK
<1> QED  BY <1>5, <1>6 DEF ShortInv, LedgerKept

\* What a load leaves: the parents of what was installed, the reservations that
\* were there, and installed chains for whatever is charged.
LEMMA LoadChains ==
    ASSUME StableParents, TypeOK, TypeOK', LedgerKept, NEW s \in Record, SoundRecord(s),
           NEW B \in SUBSET BudgetIds, InstallBudgets(s, B),
           NEW R \in {Restorable(s), {}}, RestoreReservations(s, R),
           R # {} => Installable(s) = s.installed /\ validate_budget_hierarchy
    PROVE  /\ ParentsAsOffered' /\ UnreservedHoldsNothing' /\ ChargedChainsInstalled'
           /\ \A r \in ReservationIds \ R :
                 /\ reservations'[r] = reservations[r]
                 /\ Charged(r) => \A x : x = reservations[r].budget => chain(x)' = chain(x)
           /\ \A r \in R : /\ r \in ReservationIds
                           /\ reservations'[r] = s.reservations[r]
                           /\ reservations[r].state = "NONE"
<1>1. /\ B \subseteq s.installed /\ installed' = installed \cup B
      /\ \A b \in BudgetIds : cfg'[b] = IF b \in B THEN s.cfg[b] ELSE cfg[b]
  BY DEF InstallBudgets, Installable
<1>2. \A b \in B : s.cfg[b].parent \in ParentsOf[b]
  BY <1>1 DEF SoundRecord
<1>3. ParentsAsOffered'
  BY <1>1, <1>2 DEF ParentsAsOffered, LedgerKept, TypeOK, BudgetTypeOK
<1>4. \A x \in installed : cfg'[x].parent = cfg[x].parent
  BY <1>1, <1>2 DEF StableParents, LedgerKept, ParentsAsOffered, TypeOK, BudgetTypeOK
<1>5. \A r \in ReservationIds : reservations'[r] = IF r \in R THEN s.reservations[r] ELSE reservations[r]
  BY DEF RestoreReservations
<1>6. \A r \in R : r \in ReservationIds /\ reservations[r].state = "NONE"
  BY PersistenceAssumption DEF Restorable, Listed
<1>7. UnreservedHoldsNothing'
  BY <1>5 DEF UnreservedHoldsNothing, LedgerKept, SoundRecord
<1>8. ASSUME NEW r \in ReservationIds, Charged(r), NEW x, x = reservations[r].budget
      PROVE  x \in BudgetIds /\ chain(x)' = chain(x) /\ chain(x) \subseteq installed
  <2>1. x \in BudgetIds /\ chain(x) \subseteq installed
    BY <1>8 DEF LedgerKept, ChargedChainsInstalled
  <2>2. installed \subseteq installed'
    BY <1>1
  <2> QED  BY <1>4, <2>1, <2>2, ChainStable
<1>9. ASSUME NEW r \in R, Charges(s.reservations[r]), NEW x, x = s.reservations[r].budget
      PROVE  x \in BudgetIds /\ chain(x)' \subseteq installed'
  <2>1. R # {}
    OBVIOUS
  <2>2. B = s.installed /\ validate_budget_hierarchy
    BY <2>1 DEF InstallBudgets
  <2>3. x \in installed' /\ installed' \in SUBSET BudgetIds
    BY <1>1, <1>6, <1>9, <2>2 DEF SoundRecord, TypeOK, BudgetTypeOK
  <2>4. ParentClosed(installed)'
    BY <2>2, BudgetAssumption DEF validate_budget_hierarchy, ParentClosed, Parent
  <2>5. ASSUME NEW S, S = installed' PROVE chain(x)' \subseteq S
    BY <2>3, <2>4, <2>5 DEF chain, ParentClosed
  <2> QED  BY <2>3, <2>5
<1>10. ChargedChainsInstalled'
  <2> SUFFICES ASSUME NEW r \in ReservationIds, Charged(r)', NEW x, x = reservations'[r].budget
               PROVE  x \in BudgetIds /\ chain(x)' \subseteq installed'
    BY DEF ChargedChainsInstalled
  <2>1. CASE r \in R
    <3>1. reservations'[r] = s.reservations[r]
      BY <1>5, <2>1
    <3>2. Charges(s.reservations[r])
      BY <3>1 DEF Charged, Charges
    <3> QED  BY <1>9, <2>1, <3>1, <3>2
  <2>2. CASE r \notin R
    <3>1. reservations'[r] = reservations[r]
      BY <1>5, <2>2
    <3>2. Charged(r)
      BY <3>1 DEF Charged
    <3>3. x \in BudgetIds /\ chain(x)' = chain(x) /\ chain(x) \subseteq installed
      BY <1>8, <3>1, <3>2
    <3> QED  BY <1>1, <3>3
  <2> QED  BY <2>1, <2>2
<1> QED  BY <1>3, <1>5, <1>6, <1>7, <1>8, <1>10

\* A load books no more on a budget than is held there afterwards, counting
\* only the reservations it has restored so far.
LEMMA BookingIsHeld ==
    ASSUME TypeOK, TypeOK', NEW s \in Record, NEW R \in SUBSET ReservationIds,
           NEW x \in BudgetIds, NEW H, H = Holders(x)', NEW P, P = Held',
           \A r \in R : reservations'[r] = s.reservations[r],
           reserved[x] <= Cardinality(WattsOf(H \ R, P))
    PROVE  Booking(s, R)[LastId][x] <= Cardinality(WattsOf(H, P))
<1> DEFINE g == Booking(s, R)
           K(n) == {r \in H : r \notin R \/ r <= n}
           Good(n) == g[n][x] <= Cardinality(WattsOf(K(n), P))
           Bad == {n \in 0 .. LastId : ~ Good(n)}
<1>1. /\ g \in [0 .. LastId -> Amounts] /\ g[0] = reserved
      /\ \A n \in 1 .. LastId : g[n] = IF n \in R /\ Reclaims(s.reservations[n])
                                       THEN Reclaim(s.reservations[n], g[n - 1]) ELSE g[n - 1]
  BY BookingSteps
<1> HIDE DEF g
<1>2. H \in SUBSET ReservationIds /\ \A r \in H : r \in Nat /\ r \in 1 .. LastId
  BY LastIdIsLast DEF Holders
<1>3. \A n : IsFiniteSet(K(n)) /\ Cardinality(WattsOf(K(n), P)) \in Nat
  <2> SUFFICES ASSUME NEW n PROVE IsFiniteSet(K(n)) /\ Cardinality(WattsOf(K(n), P)) \in Nat
    OBVIOUS
  <2>1. K(n) \in SUBSET ReservationIds
    BY <1>2
  <2>2. IsFiniteSet(K(n))
    BY <2>1, FS_Subset, ReservationAssumption
  <2> HIDE DEF K
  <2> QED  BY <2>2, WattsFinite
<1>4. Good(0)
  <2>1. K(0) = H \ R
    BY <1>2
  <2> QED  BY <1>1, <2>1
<1>5. K(LastId) = H
  BY <1>2
<1>6. Bad \in SUBSET Nat
  BY LastIdIsLast
<1>7. ASSUME Bad # {} PROVE FALSE
  <2>1. PICK n \in Bad : \A m \in Bad : n <= m
    BY <1>6, <1>7, LeastWatts
  <2>2. n \in 0 .. LastId /\ n # 0 /\ ~ Good(n)
    BY <1>4, <2>1
  <2> HIDE DEF Bad, Good, K
  <2>3. n \in Nat /\ n - 1 \in 0 .. LastId /\ n \in 1 .. LastId /\ ~ (n <= n - 1)
    BY <2>2, LastIdIsLast
  <2>4. Good(n - 1)
    BY <2>1, <2>3 DEF Bad
  <2>5. g[n - 1][x] \in Nat /\ g[n][x] \in Nat
    <3>1. g[n - 1] \in Amounts /\ g[n] \in Amounts
      BY <1>1, <2>2, <2>3
    <3> QED  BY <3>1 DEF Amounts
  <2>6. CASE n \in R /\ n \in H
    <3>1. n \notin K(n - 1)
      BY <2>3, <2>6 DEF K
    <3>2. K(n) = K(n - 1) \cup {n}
      <4>1. \A r \in H : r <= n <=> (r <= n - 1 \/ r = n)
        BY <1>2, <2>3
      <4> QED  BY <2>6, <4>1 DEF K
    <3>3. P[n] = s.reservations[n].reserved_power /\ P[n] \in 0 .. MaxPower
      BY <2>6 DEF Held, TypeOK, Reservation
    <3>4. Cardinality(WattsOf(K(n - 1) \cup {n}, P)) = Cardinality(WattsOf(K(n - 1), P)) + P[n]
      BY <1>3, <3>1, <3>3, WattsAdd
    <3>5. g[n][x] <= g[n - 1][x] + P[n]
      <4>1. P[n] \in Nat
        BY <3>3, ReservationAssumption
      <4>2. g[n] = g[n - 1] \/ g[n] = Reclaim(s.reservations[n], g[n - 1])
        BY <1>1, <2>3
      <4>3. g[n][x] = g[n - 1][x] \/ g[n][x] = g[n - 1][x] + s.reservations[n].reserved_power
        BY <4>2 DEF Reclaim
      <4> QED  BY <2>5, <3>3, <4>1, <4>3
    <3>6. P[n] \in Nat /\ Cardinality(WattsOf(K(n - 1), P)) \in Nat
      BY <1>3, <3>3, ReservationAssumption
    <3>7. g[n - 1][x] <= Cardinality(WattsOf(K(n - 1), P))
      BY <2>4 DEF Good
    <3>8. g[n][x] <= Cardinality(WattsOf(K(n), P))
      BY <2>5, <3>2, <3>4, <3>5, <3>6, <3>7
    <3> QED  BY <2>2, <3>8 DEF Good
  <2>7. CASE ~ (n \in R /\ n \in H)
    <3>1. K(n) = K(n - 1)
      BY <1>2, <2>3, <2>7 DEF K
    <3>2. g[n][x] = g[n - 1][x]
      <4>1. CASE g[n] = g[n - 1]
        BY <4>1
      <4>2. CASE n \in R /\ Reclaims(s.reservations[n])
                 /\ g[n] = Reclaim(s.reservations[n], g[n - 1])
        <5>1. n \notin H /\ n \in ReservationIds /\ reservations'[n] = s.reservations[n]
          BY <2>7, <4>2
        <5>2. x \notin chain(reservations[n].budget)'
          BY <4>2, <5>1 DEF Holders, Reclaims
        <5>3. ASSUME NEW y, y = s.reservations[n].budget PROVE x \notin chain(y)'
          BY <5>1, <5>2, <5>3
        <5>4. ASSUME NEW res, res = s.reservations[n] PROVE Reclaim(res, g[n - 1])[x] = g[n - 1][x]
          BY <5>3, <5>4 DEF Reclaim
        <5> QED  BY <4>2, <5>4
      <4> QED  BY <1>1, <2>3, <4>1, <4>2
    <3> QED  BY <2>2, <2>4, <3>1, <3>2 DEF Good
  <2> QED  BY <2>6, <2>7
<1>8. LastId \in 0 .. LastId
  BY LastIdIsLast
<1>9. Good(LastId)
  BY <1>7, <1>8
<1> QED  BY <1>5, <1>9 DEF g

\* No load, of a part of a record or on top of live reservations, leaves a
\* budget with watts that nobody holds.
LEMMA LedgerKeptByLoad ==
    ASSUME StableParents, TypeOK, TypeOK', LedgerKept, NEW s \in Record, SoundRecord(s),
           decode_state(s)
    PROVE  LedgerKept'
<1>1. PICK B \in SUBSET BudgetIds : InstallBudgets(s, B)
  BY DEF decode_state
<1>2. PICK R \in {Restorable(s), {}} :
         /\ RestoreReservations(s, R)
         /\ R # {} => Installable(s) = s.installed /\ validate_budget_hierarchy
  BY DEF decode_state
<1>3. R \in SUBSET ReservationIds
  BY DEF Restorable, Listed
<1>4. /\ ParentsAsOffered' /\ UnreservedHoldsNothing' /\ ChargedChainsInstalled'
      /\ \A r \in ReservationIds \ R :
            /\ reservations'[r] = reservations[r]
            /\ Charged(r) => \A x : x = reservations[r].budget => chain(x)' = chain(x)
      /\ \A r \in R : /\ r \in ReservationIds
                      /\ reservations'[r] = s.reservations[r]
                      /\ reservations[r].state = "NONE"
  BY <1>1, <1>2, LoadChains
<1>5. ASSUME NEW x \in BudgetIds PROVE reserved'[x] <= Cardinality(HeldWatts(x)')
  <2> SUFFICES ASSUME NEW H, H = Holders(x)', NEW P, P = Held'
               PROVE  reserved'[x] <= Cardinality(HeldWatts(x)')
    OBVIOUS
  <2>1. HeldWatts(x)' = WattsOf(H, P)
    <3>1. \A p \in Holders(x)' \X (1 .. MaxPower) :
              Held'[p[1]] = reservations'[p[1]].reserved_power
      BY DEF Held, Holders
    <3> QED  BY <3>1 DEF HeldWatts, WattsOf
  <2>2. \A r \in ReservationIds : reservations[r].reserved_power > 0
            /\ reservations[r].state # "RELEASED" => Charged(r) /\ reservations[r].state # "NONE"
    BY DEF Charged, LedgerKept, UnreservedHoldsNothing, TypeOK, Reservation, ReservationState, LiveStates
  <2>3. H \ R = Holders(x)
    <3>1. ASSUME NEW r \in Holders(x) PROVE r \in H /\ r \notin R
      <4>1. r \in ReservationIds /\ Charged(r) /\ reservations[r].state # "NONE"
        BY <2>2 DEF Holders
      <4>2. r \notin R /\ reservations'[r] = reservations[r]
        BY <1>4, <4>1
      <4>3. ASSUME NEW b, b = reservations[r].budget PROVE chain(b)' = chain(b)
        BY <1>4, <4>1, <4>2, <4>3
      <4> QED  BY <4>1, <4>2, <4>3 DEF Holders
    <3>2. ASSUME NEW r \in H, r \notin R PROVE r \in Holders(x)
      <4>1. r \in ReservationIds /\ reservations'[r] = reservations[r]
        BY <1>4, <3>2 DEF Holders
      <4>2. reservations[r].reserved_power > 0 /\ reservations[r].state # "RELEASED"
        BY <4>1 DEF Holders
      <4>3. Charged(r)
        BY <2>2, <4>1, <4>2
      <4>4. ASSUME NEW b, b = reservations[r].budget PROVE chain(b)' = chain(b)
        BY <1>4, <3>2, <4>1, <4>3, <4>4
      <4> QED  BY <4>1, <4>2, <4>4 DEF Holders
    <3> QED  BY <3>1, <3>2
  <2>4. \A r \in Holders(x) : P[r] = Held[r]
    BY <1>4, <2>3 DEF Held, Holders
  <2>5. WattsOf(H \ R, P) = HeldWatts(x)
    <3>1. WattsOf(Holders(x), P) = WattsOf(Holders(x), Held)
      BY <2>4 DEF WattsOf
    <3> QED  BY <2>3, <3>1, HeldWattsAreWatts
  <2>6. reserved[x] <= Cardinality(WattsOf(H \ R, P))
    BY <2>5 DEF LedgerKept, NoPhantomReservation
  <2>7. Booking(s, R)[LastId][x] <= Cardinality(WattsOf(H, P))
    BY <1>3, <1>4, <2>6, BookingIsHeld
  <2>8. reserved'[x] = Booking(s, R)[LastId][x]
    BY <1>2 DEF RestoreReservations
  <2> QED  BY <2>1, <2>7, <2>8
<1> QED  BY <1>4, <1>5 DEF LedgerKept, NoPhantomReservation

\* A ledger in which nothing is installed, reserved or planned is kept.
LEMMA EmptyLedgerKept ==
    ASSUME installed = {}, reserved = [b \in BudgetIds |-> 0],
           reservations = [r \in ReservationIds |-> NoReservation]
    PROVE  LedgerKept
<1>1. ParentsAsOffered /\ UnreservedHoldsNothing /\ ChargedChainsInstalled
  BY DEF NoReservation, ParentsAsOffered, UnreservedHoldsNothing, ChargedChainsInstalled, Charged
<1>2. \A b \in BudgetIds : Holders(b) = {}
  BY DEF NoReservation, Holders
<1>3. NoPhantomReservation
  BY <1>2, NoHoldersNoWatts DEF NoPhantomReservation
<1> QED  BY <1>1, <1>3 DEF LedgerKept

\* RecoveryInv holds once the first save has returned.
LEMMA RecoveryInit == PersistenceInit => RecoveryInv
<1> SUFFICES ASSUME PersistenceInit PROVE RecoveryInv
  OBVIOUS
<1>1. TypeOK /\ DiskInv
  BY TypeInit, DiskInit DEF PersistenceInit
<1>2. LedgerKept
  BY EmptyLedgerKept DEF PersistenceInit, Init, BudgetInit
<1>3. SoundRecord(path)
  BY <1>1, <1>2, EncodeSound DEF PersistenceInit
<1>4. io = Idle
  BY DEF PersistenceInit
<1> QED  BY <1>1, <1>2, <1>3, <1>4 DEF RecoveryInv

\* Every step keeps RecoveryInv when budgets keep their parents.
LEMMA RecoveryStep ==
    ASSUME StableParents PROVE RecoveryInv /\ [PersistenceNext]_allVars => RecoveryInv'
<1> SUFFICES ASSUME RecoveryInv, [PersistenceNext]_allVars PROVE RecoveryInv'
  OBVIOUS
<1>1. DiskInv /\ DiskInv' /\ LedgerKept /\ SoundRecord(path)
  BY DiskStep DEF RecoveryInv
<1>2. PersistenceTypeOK /\ TypeOK /\ TypeOK'
  BY <1>1 DEF DiskInv, PersistenceTypeOK
<1>3. ASSUME [Next]_vars PROVE LedgerKept'
  BY <1>1, <1>2, <1>3, LedgerKeptByCalls
<1>4. ASSUME UNCHANGED vars PROVE LedgerKept'
  BY <1>3, <1>4
<1>5. ASSUME LedgerKept', UNCHANGED path, io' = io \/ io' = Idle PROVE RecoveryInv'
  <2>1. SoundRecord(path)'
    BY <1>1, <1>5 DEF SoundRecord
  <2>2. io' # Idle => SoundRecord(io'.record)
    BY <1>5 DEF RecoveryInv
  <2> QED  BY <1>1, <1>5, <2>1, <2>2 DEF RecoveryInv, SoundRecord, Idle
<1>6. ASSUME SaveEncode PROVE RecoveryInv'
  <2>1. UNCHANGED <<vars, path>> /\ io' = [step |-> "encoded", record |-> encode_state]
    BY <1>6 DEF SaveEncode, diskVars
  <2>2. SoundRecord(encode_state)
    BY <1>1, <1>2, EncodeSound
  <2>3. io'.record = encode_state
    BY <2>1
  <2>4. SoundRecord(path)' /\ SoundRecord(io.record)'
    BY <1>1, <2>1, <2>2, <2>3 DEF SoundRecord
  <2>5. LedgerKept'
    BY <1>4, <2>1
  <2> QED  BY <1>1, <2>4, <2>5 DEF RecoveryInv
<1>7. ASSUME UNCHANGED vars, io # Idle, io' # Idle => io'.record = io.record,
             path' = path \/ path' = io.record
      PROVE  RecoveryInv'
  <2>1. LedgerKept'
    BY <1>4, <1>7
  <2>2. SoundRecord(io.record)
    BY <1>7 DEF RecoveryInv
  <2>3. SoundRecord(path)'
    BY <1>1, <1>7, <2>2 DEF SoundRecord
  <2>4. io' # Idle => SoundRecord(io.record)'
    BY <1>7, <2>2 DEF SoundRecord
  <2> QED  BY <1>1, <2>1, <2>3, <2>4 DEF RecoveryInv, Idle
<1>8. io.step \in {"encoded", "opened", "written", "renamed", "read"} =>
          io \in InProgress /\ io.record \in Record /\ io # Idle
  BY <1>2, InHand
<1>9. ASSUME SaveOpen PROVE RecoveryInv'
  <2>1. io \in InProgress /\ io # Idle /\ UNCHANGED <<vars, path>>
    BY <1>8, <1>9 DEF SaveOpen
  <2>2. io' # Idle => io'.record = io.record
    BY <1>9, <2>1 DEF SaveOpen, InProgress
  <2> QED  BY <1>7, <2>1, <2>2
<1>10. ASSUME SaveWrite PROVE RecoveryInv'
  <2>1. io \in InProgress /\ io # Idle /\ UNCHANGED <<vars, path>>
    BY <1>8, <1>10 DEF SaveWrite
  <2>2. io' # Idle => io'.record = io.record
    BY <1>10, <2>1 DEF SaveWrite, InProgress
  <2> QED  BY <1>7, <2>1, <2>2
<1>11. ASSUME SaveRename PROVE RecoveryInv'
  <2>1. io \in InProgress /\ io # Idle /\ UNCHANGED vars
    BY <1>8, <1>11 DEF SaveRename
  <2>2. io' # Idle => io'.record = io.record
    BY <1>11, <2>1 DEF SaveRename, InProgress
  <2>3. tmp = io.record
    BY <1>1, <1>11, <2>1 DEF SaveRename, DiskInv
  <2>4. path' = path \/ path' = io.record
    BY <1>11, <2>3 DEF SaveRename
  <2> QED  BY <1>7, <2>1, <2>2, <2>4
<1>12. ASSUME SaveReturn PROVE RecoveryInv'
  <2>1. UNCHANGED <<vars, path>> /\ io' = Idle
    BY <1>12 DEF SaveReturn, diskVars
  <2> QED  BY <1>4, <1>5, <2>1
<1>13. ASSUME LoadRead PROVE RecoveryInv'
  <2>1. UNCHANGED <<vars, path>> /\ io' = [step |-> "read", record |-> path]
    BY <1>13 DEF LoadRead, diskVars
  <2>2. io'.record = path
    BY <2>1
  <2>3. SoundRecord(path)' /\ SoundRecord(io.record)'
    BY <1>1, <2>1, <2>2 DEF SoundRecord
  <2> QED  BY <1>1, <1>4, <2>1, <2>3 DEF RecoveryInv
<1>14. ASSUME LoadApply PROVE RecoveryInv'
  <2>1. io.record \in Record /\ io # Idle /\ UNCHANGED path /\ io' = Idle
    BY <1>8, <1>14 DEF LoadApply, diskVars
  <2>2. PICK s \in {io.record} : decode_state(s)
    BY <1>14 DEF LoadApply
  <2>3. s \in Record /\ SoundRecord(s)
    BY <2>1, <2>2 DEF RecoveryInv
  <2>4. LedgerKept'
    BY <1>1, <1>2, <2>2, <2>3, LedgerKeptByLoad
  <2> QED  BY <1>5, <2>1, <2>4
<1>15. ASSUME NEW b \in PlanBudgets, NEW power \in Powers, NEW pol \in PlannedPolicies,
              NEW now \in CallTimes, plan(b, power, pol, now)
       PROVE  RecoveryInv'
  <2>1. UNCHANGED <<path, io>>
    BY <1>15 DEF plan, diskVars
  <2> QED  BY <1>3, <1>5, <1>15, <2>1, PlanIsNext
<1>16. ASSUME Call PROVE RecoveryInv'
  <2>1. UNCHANGED <<path, io>>
    BY <1>16 DEF Call, diskVars
  <2> QED  BY <1>3, <1>5, <1>16, <2>1, CallIsNext
<1>17. ASSUME Restart PROVE RecoveryInv'
  <2>1. UNCHANGED path /\ io' = Idle
    BY <1>17 DEF Restart, diskVars
  <2>2. /\ installed' = {} /\ reserved' = [b \in BudgetIds |-> 0]
        /\ reservations' = [r \in ReservationIds |-> NoReservation]
    BY <1>17 DEF Restart
  <2>3. ParentsAsOffered' /\ UnreservedHoldsNothing' /\ ChargedChainsInstalled'
    BY <2>2 DEF NoReservation, ParentsAsOffered, UnreservedHoldsNothing, ChargedChainsInstalled, Charged
  <2>4. \A b \in BudgetIds : HeldWatts(b)' = {}
    BY <2>2 DEF NoReservation, Holders, HeldWatts
  <2>5. NoPhantomReservation'
    BY <2>2, <2>4, FS_EmptySet DEF NoPhantomReservation
  <2> QED  BY <1>5, <2>1, <2>3, <2>5 DEF LedgerKept
<1>18. ASSUME UNCHANGED allVars PROVE RecoveryInv'
  <2>1. UNCHANGED <<vars, path, io>>
    BY <1>18 DEF allVars, diskVars
  <2> QED  BY <1>4, <1>5, <2>1
<1> QED
  BY <1>6, <1>9, <1>10, <1>11, <1>12, <1>13, <1>14, <1>15, <1>16, <1>17, <1>18 DEF PersistenceNext

\* Whatever a load restores, in part or on top of live reservations, after any
\* crash: no budget is charged with watts that no reservation holds.
THEOREM NoPhantomReservationHolds ==
    ASSUME StableParents PROVE PersistenceSpec => []NoPhantomReservation
<1>1. RecoveryInv => NoPhantomReservation
  BY DEF RecoveryInv, LedgerKept
<1>2. PersistenceSpec => []RecoveryInv
  BY RecoveryInit, RecoveryStep, PTL DEF PersistenceSpec
<1> QED  BY <1>1, <1>2, PTL
-----------------------------------------------------------------------------
(***************************************************************************)
(* What a round trip keeps.  A record is described by itself: its own      *)
(* parent links, its own holders.  That is what the governor had when it   *)
(* was encoded and what it has when it was loaded into a new one, so that  *)
(* no assumption on parents is needed.                                     *)
(***************************************************************************)
RecordParent(s, b) == IF b \in s.installed THEN s.cfg[b].parent ELSE NoBudget

\* The chain of a budget in a record.
RecordChain(s, b) ==
    LET Closed == {S \in SUBSET BudgetIds : b \in S /\
                      \A y \in S : RecordParent(s, y) \in BudgetIds => RecordParent(s, y) \in S}
    IN  {x \in BudgetIds : \A S \in Closed : x \in S}

\* The reservations of a record that claim watts of a budget when it is loaded.
RecordHolders(s, b) ==
    {r \in ReservationIds : Reclaims(s.reservations[r]) /\ b \in RecordChain(s, s.reservations[r].budget)}

RecordPower(s) == [r \in ReservationIds |-> s.reservations[r].reserved_power]

\* The claims of a record whose ledger was within its limits are within the
\* limits it lists, although both were cut.
ClaimsFit(s) ==
    s.fits => \A b \in BudgetIds :
                  Cardinality(WattsOf(RecordHolders(s, b), RecordPower(s))) <= s.cfg[b].hard_max

\* Reservations res over the installed budgets inst: an id that was not given is
\* blank, nothing is held before it is reserved, and what is reserved is
\* reserved on a budget that exists.
Entries(res, inst) ==
    \A r \in ReservationIds :
        /\ res[r].state = "NONE" => res[r] = NoReservation
        /\ res[r].state \in {"PLANNED", "VALIDATED"} => res[r].reserved_power = 0
        /\ res[r].state \in {"RESERVED", "ADMITTED", "ACTIVE"} => res[r].budget \in inst

KeptRecord(s) == Entries(s.reservations, s.installed) /\ ClaimsFit(s)

\* Nothing is booked on a budget that does not exist.
BookedIsInstalled == \A b \in BudgetIds \ installed : reserved[b] = 0 /\ used[b] = 0

RoundTripInv ==
    /\ DiskInv
    /\ Entries(reservations, installed)
    /\ BookedIsInstalled
    /\ KeptRecord(path)
    /\ io # Idle => KeptRecord(io.record)

\* A record that lists the governor's budgets with their parents has its chains,
\* before a step and after it.
LEMMA RecordChainNow ==
    ASSUME NEW s, s.installed = installed, \A b \in installed : s.cfg[b].parent = cfg[b].parent
    PROVE  \A b : RecordChain(s, b) = chain(b)
<1>1. \A y : RecordParent(s, y) = Parent(y)
  BY DEF RecordParent, Parent
<1> QED  BY <1>1 DEF RecordChain, chain, ParentClosed

\* The same of the state after a load.
LEMMA RecordChainThen ==
    ASSUME NEW s, s.installed = installed', \A b \in installed' : s.cfg[b].parent = cfg'[b].parent
    PROVE  \A b : RecordChain(s, b) = chain(b)'
<1>1. \A y : RecordParent(s, y) = Parent(y)'
  BY DEF RecordParent, Parent
<1> QED  BY <1>1 DEF RecordChain, chain, ParentClosed

-----------------------------------------------------------------------------
(* Amounts and limits are cut separately and fit nevertheless.             *)

\* What is kept of an amount is a multiple of the resolution.
LEMMA CutIsMultiple == \A v \in Nat : \E q \in Nat : f64(v) = q * Resolution
<1>1. Resolution \in Nat /\ Resolution > 0
  BY PersistenceAssumption
<1>2. \A v \in Nat : v \div Resolution \in Nat
  BY <1>1
<1> QED  BY <1>2 DEF f64

\* No multiple lies between an amount and what is kept of it.
LEMMA CutIsLargest == \A v, q \in Nat : q * Resolution <= v => q * Resolution <= f64(v)
<1> SUFFICES ASSUME NEW v \in Nat, NEW q \in Nat, q * Resolution <= v
             PROVE  q * Resolution <= f64(v)
  OBVIOUS
<1>1. Resolution \in Nat /\ Resolution > 0
  BY PersistenceAssumption
<1>2. \A a, b, c \in Nat : a <= b => a * c <= b * c
  OBVIOUS
<1>3. PICK d \in Nat : d = v \div Resolution
  BY <1>1
<1>4. v < (d + 1) * Resolution
  BY <1>1, <1>3
<1>5. q <= d
  <2> SUFFICES ASSUME d + 1 <= q PROVE FALSE
    OBVIOUS
  <2>1. (d + 1) * Resolution <= q * Resolution
    BY <1>1, <1>2
  <2>2. (d + 1) * Resolution \in Nat /\ q * Resolution \in Nat
    BY <1>1
  <2> QED  BY <1>4, <2>1, <2>2
<1>6. q * Resolution <= d * Resolution
  BY <1>1, <1>2, <1>5
<1> QED  BY <1>3, <1>6 DEF f64

\* Amounts that are multiples of the resolution add up to one: the smallest set
\* of reservations of which that were not so could do without one of them.
LEMMA SumOfMultiples ==
    ASSUME NEW H \in SUBSET ReservationIds, NEW f,
           \A r \in H : f[r] \in 0 .. MaxPower /\ \E q \in Nat : f[r] = q * Resolution
    PROVE  \E q \in Nat : Cardinality(WattsOf(H, f)) = q * Resolution
<1> DEFINE Even(T) == \E q \in Nat : Cardinality(WattsOf(T, f)) = q * Resolution
           Sizes == {k \in Nat : \E T \in SUBSET H : ~ Even(T) /\ Cardinality(T) = k}
<1>0. Resolution \in Nat
  BY PersistenceAssumption
<1>1. \A T \in SUBSET H : IsFiniteSet(T) /\ Cardinality(T) \in Nat
  <2>1. IsFiniteSet(H)
    BY FS_Subset, ReservationAssumption
  <2> QED  BY <2>1, FS_Subset, FS_CardinalityType
<1>2. SUFFICES ASSUME ~ Even(H) PROVE FALSE
  OBVIOUS
<1>3. Cardinality(H) \in Sizes
  BY <1>1, <1>2
<1>4. PICK k \in Sizes : \A l \in Sizes : k <= l
  BY <1>3, LeastWatts
<1>5. PICK T \in SUBSET H : ~ Even(T) /\ Cardinality(T) = k
  BY <1>4
<1>6. T # {}
  <2>1. ASSUME T = {} PROVE FALSE
    <3>1. WattsOf(T, f) = {}
      BY <2>1 DEF WattsOf
    <3>2. Cardinality(WattsOf(T, f)) = 0 * Resolution
      BY <1>0, <3>1, FS_EmptySet
    <3> QED  BY <1>5, <3>2
  <2> QED  BY <2>1
<1>7. PICK e \in T : TRUE
  BY <1>6
<1> DEFINE U == T \ {e}
<1>8. U \in SUBSET H /\ e \notin U /\ U \cup {e} = T /\ e \in H
  BY <1>5, <1>7
<1>9. Cardinality(U) = k - 1 /\ k \in Nat /\ Cardinality(U) \in Nat
  BY <1>1, <1>4, <1>5, <1>7, <1>8, FS_RemoveElement
<1>10. Even(U)
  <2>1. ~ Even(U) => Cardinality(U) \in Sizes
    BY <1>8, <1>9
  <2> HIDE DEF Even, Sizes, U
  <2> QED  BY <1>4, <1>9, <2>1
<1>11. Cardinality(WattsOf(U \cup {e}, f)) = Cardinality(WattsOf(U, f)) + f[e]
  <2>1. IsFiniteSet(U) /\ f[e] \in 0 .. MaxPower
    BY <1>1, <1>8
  <2> HIDE DEF U
  <2> QED  BY <1>8, <2>1, WattsAdd
<1>12. PICK m \in Nat : Cardinality(WattsOf(U, f)) = m * Resolution
  BY <1>10
<1>13. PICK n \in Nat : f[e] = n * Resolution
  BY <1>8
<1>14. Cardinality(WattsOf(T, f)) = (m + n) * Resolution
  <2>1. Cardinality(WattsOf(T, f)) = m * Resolution + n * Resolution
    BY <1>8, <1>11, <1>12, <1>13
  <2>2. m * Resolution + n * Resolution = (m + n) * Resolution
    BY <1>0
  <2> QED  BY <2>1, <2>2
<1> QED  BY <1>5, <1>14

\* Cut amounts of some of the reservations fit a cut limit if the amounts of all
\* of them fit the limit.
LEMMA CutSumFits ==
    ASSUME NEW H \in SUBSET ReservationIds, NEW G \in SUBSET H, NEW f, NEW g, NEW limit \in Nat,
           \A r \in H : f[r] \in 0 .. MaxPower, \A r \in G : g[r] = f64(f[r]),
           Cardinality(WattsOf(H, f)) <= limit
    PROVE  Cardinality(WattsOf(G, g)) <= f64(limit)
<1>1. \A r \in G : f[r] \in Nat /\ g[r] \in 0 .. f[r] /\ g[r] \in 0 .. MaxPower /\ g[r] = f64(f[r])
  BY CutIsLess, ReservationAssumption
<1>2. WattsOf(G, g) \in SUBSET WattsOf(H, f)
  <2> SUFFICES ASSUME NEW p \in WattsOf(G, g) PROVE p \in WattsOf(H, f)
    OBVIOUS
  <2>1. PICK r \in G, w \in 1 .. MaxPower : p = <<r, w>> /\ w <= g[r]
    BY DEF WattsOf
  <2>2. r \in H /\ w <= f[r]
    <3>1. w \in Nat /\ g[r] \in Nat /\ f[r] \in Nat /\ g[r] <= f[r]
      BY <1>1, ReservationAssumption
    <3> QED  BY <2>1, <3>1
  <2> QED  BY <2>1, <2>2 DEF WattsOf
<1>3. IsFiniteSet(H) /\ IsFiniteSet(G)
  <2>1. G \in SUBSET ReservationIds
    OBVIOUS
  <2> QED  BY <2>1, FS_Subset, ReservationAssumption
<1>4. /\ IsFiniteSet(WattsOf(H, f)) /\ Cardinality(WattsOf(H, f)) \in Nat
      /\ Cardinality(WattsOf(G, g)) \in Nat
  BY <1>3, WattsFinite
<1>5. Cardinality(WattsOf(G, g)) <= Cardinality(WattsOf(H, f))
  BY <1>2, <1>4, FS_Subset
<1>6. PICK q \in Nat : Cardinality(WattsOf(G, g)) = q * Resolution
  <2>1. \A r \in G : g[r] \in 0 .. MaxPower /\ \E q \in Nat : g[r] = q * Resolution
    BY <1>1, CutIsMultiple
  <2>2. G \in SUBSET ReservationIds
    OBVIOUS
  <2> QED  BY <2>1, <2>2, SumOfMultiples
<1>7. q * Resolution <= limit
  BY <1>4, <1>5, <1>6
<1> QED  BY <1>6, <1>7, CutIsLargest

\* A record of the governor is kept: it is blank where nothing was planned, and
\* its claims fit if the live reservations fitted.
LEMMA EncodeKept ==
    ASSUME TypeOK, Entries(reservations, installed), NEW k
    PROVE  KeptRecord([encode_state EXCEPT !.seq = k]) /\ KeptRecord(encode_state)
<1>0. f64(0) = 0
  BY CutIsLess
<1>1. ASSUME NEW e, e.installed = installed, e.fits = LimitsKept,
             \A b \in BudgetIds : /\ e.cfg[b].parent = cfg[b].parent
                                  /\ e.cfg[b].hard_max = f64(cfg[b].hard_max),
             \A r \in ReservationIds :
                 /\ e.reservations[r].state = reservations[r].state
                 /\ e.reservations[r].budget = reservations[r].budget
                 /\ e.reservations[r].reserved_power = f64(reservations[r].reserved_power)
                 /\ reservations[r] = NoReservation => e.reservations[r] = NoReservation
      PROVE  KeptRecord(e)
  <2>1. Entries(e.reservations, e.installed)
    BY <1>0, <1>1 DEF Entries
  <2>2. \A b : RecordChain(e, b) = chain(b)
    <3>1. \A b \in installed : e.cfg[b].parent = cfg[b].parent
      BY <1>1 DEF TypeOK, BudgetTypeOK
    <3> QED  BY <1>1, <3>1, RecordChainNow
  <2>3. ASSUME e.fits, NEW b \in BudgetIds
        PROVE  Cardinality(WattsOf(RecordHolders(e, b), RecordPower(e))) <= e.cfg[b].hard_max
    <3> SUFFICES Cardinality(WattsOf(RecordHolders(e, b), RecordPower(e))) <= f64(cfg[b].hard_max)
      BY <1>1
    <3> SUFFICES ASSUME NEW H, H = {r \in Holders(b) : reservations[r].state \in LiveStates},
                        NEW G, G = RecordHolders(e, b), NEW f, f = Held, NEW g, g = RecordPower(e),
                        NEW limit, limit = cfg[b].hard_max
                 PROVE  Cardinality(WattsOf(G, g)) <= f64(limit)
      OBVIOUS
    <3>1. H \in SUBSET ReservationIds
      BY DEF Holders
    <3>2. LiveWatts(b) = WattsOf(H, f)
      <4>1. \A p \in H \X (1 .. MaxPower) : Held[p[1]] = reservations[p[1]].reserved_power
        BY <3>1 DEF Held
      <4> QED  BY <4>1 DEF LiveWatts, HeldWatts, WattsOf
    <3>3. limit \in Nat
      BY DEF TypeOK, BudgetTypeOK, PowerBudget
    <3>4. Cardinality(WattsOf(H, f)) <= limit
      BY <1>1, <2>3, <3>2 DEF LimitsKept
    <3>5. \A r \in H : f[r] \in 0 .. MaxPower
      BY <3>1 DEF Held, TypeOK, Reservation
    <3>6. ASSUME NEW r \in G PROVE r \in H /\ g[r] = f64(f[r])
      <4>1. r \in ReservationIds /\ Reclaims(e.reservations[r])
            /\ b \in RecordChain(e, e.reservations[r].budget)
        BY DEF RecordHolders
      <4>2. b \in chain(reservations[r].budget)
        BY <1>1, <2>2, <4>1
      <4>3. reservations[r].reserved_power \in Nat
        BY <4>1, ReservationAssumption DEF TypeOK, Reservation
      <4>4. e.reservations[r].reserved_power = f64(reservations[r].reserved_power)
            /\ e.reservations[r].state = reservations[r].state
        BY <1>1, <4>1
      <4>5. reservations[r].reserved_power > 0
            /\ reservations[r].state \in {"RESERVED", "ADMITTED", "ACTIVE"}
        <5>1. e.reservations[r].reserved_power > 0
              /\ e.reservations[r].state \in {"RESERVED", "ADMITTED", "ACTIVE"}
          BY <4>1 DEF Reclaims
        <5>2. f64(reservations[r].reserved_power) \in 0 .. reservations[r].reserved_power
          BY <4>3, CutIsLess
        <5> QED  BY <4>3, <4>4, <5>1, <5>2
      <4>6. r \in H
        BY <4>1, <4>2, <4>5 DEF Holders, LiveStates
      <4> QED  BY <4>1, <4>4, <4>6 DEF RecordPower, Held
    <3>7. G \in SUBSET H /\ \A r \in G : g[r] = f64(f[r])
      BY <3>6
    <3> QED  BY <3>1, <3>3, <3>4, <3>5, <3>7, CutSumFits
  <2> QED  BY <2>1, <2>3 DEF KeptRecord, ClaimsFit
<1> DEFINE c == [b \in BudgetIds |-> [cfg[b] EXCEPT !.hard_max = f64(@)]]
           m == [r \in ReservationIds |->
                   [reservations[r] EXCEPT !.requested_power = f64(@), !.reserved_power = f64(@)]]
<1>2. \A b \in BudgetIds : c[b].parent = cfg[b].parent /\ c[b].hard_max = f64(cfg[b].hard_max)
  BY DEF TypeOK, BudgetTypeOK, PowerBudget
<1>3. ASSUME NEW r \in ReservationIds
      PROVE  /\ m[r].state = reservations[r].state
             /\ m[r].budget = reservations[r].budget
             /\ m[r].reserved_power = f64(reservations[r].reserved_power)
             /\ reservations[r] = NoReservation => m[r] = NoReservation
  <2>1. reservations[r] \in Reservation
    BY DEF TypeOK
  <2>2. ASSUME NEW n, n = reservations[r], n = NoReservation
        PROVE  [n EXCEPT !.requested_power = f64(@), !.reserved_power = f64(@)] = NoReservation
    <3>1. n \in Reservation /\ n.requested_power = 0 /\ n.reserved_power = 0
      BY <2>1, <2>2 DEF NoReservation
    <3>2. [n EXCEPT !.requested_power = f64(@), !.reserved_power = f64(@)]
          = [n EXCEPT !.requested_power = 0, !.reserved_power = 0]
      BY <1>0, <3>1
    <3>3. [n EXCEPT !.requested_power = 0, !.reserved_power = 0] = n
      BY <3>1 DEF Reservation
    <3> QED  BY <2>2, <3>2, <3>3
  <2> QED  BY <2>1, <2>2 DEF Reservation
<1>4. encode_state = [seq |-> saves + 1, fits |-> LimitsKept, policy |-> policy,
                      installed |-> installed, cfg |-> c, reservations |-> m]
  BY DEF encode_state
<1> HIDE DEF c, m
<1>5. [encode_state EXCEPT !.seq = k] = [seq |-> k, fits |-> LimitsKept, policy |-> policy,
                                         installed |-> installed, cfg |-> c, reservations |-> m]
  BY <1>4
<1>6. KeptRecord(encode_state)
  <2> DEFINE e == encode_state
  <2>1. e.installed = installed /\ e.cfg = c /\ e.reservations = m /\ e.fits = LimitsKept
    BY <1>4
  <2> HIDE DEF e
  <2>2. KeptRecord(e)
    BY <1>1, <1>2, <1>3, <2>1
  <2> QED  BY <2>2 DEF e
<1>7. KeptRecord([encode_state EXCEPT !.seq = k])
  <2> DEFINE e == [encode_state EXCEPT !.seq = k]
  <2>1. e.installed = installed /\ e.cfg = c /\ e.reservations = m /\ e.fits = LimitsKept
    BY <1>5
  <2> HIDE DEF e
  <2>2. KeptRecord(e)
    BY <1>1, <1>2, <1>3, <2>1
  <2> QED  BY <2>2 DEF e
<1> QED  BY <1>6, <1>7

-----------------------------------------------------------------------------
(* What makes a round trip exact is kept by every step.                    *)

\* Along a chain that is checked first, nothing is booked on a budget that is
\* not installed.
LEMMA BookedAlong ==
    ASSUME NEW b, NEW f, NEW amount, chain(b) \subseteq installed
    PROVE  /\ \A x \in BudgetIds \ installed : AddAlong(f, b, amount)[x] = f[x]
           /\ \A x \in BudgetIds \ installed : SubtractAlong(f, b, amount)[x] = f[x]
BY DEF AddAlong, SubtractAlong

\* Every call of the reservation interface keeps the entries.
LEMMA EntriesByCalls ==
    ASSUME TypeOK, Entries(reservations, installed), BookedIsInstalled, [Next]_vars
    PROVE  Entries(reservations, installed)' /\ BookedIsInstalled'
<1>0. reservations \in [ReservationIds -> Reservation] /\ \A r \in ReservationIds : reservations[r] \in Reservation
  BY DEF TypeOK
<1>1. ASSUME UNCHANGED <<installed, reservations, reserved, used>>
      PROVE  Entries(reservations, installed)' /\ BookedIsInstalled'
  BY <1>1 DEF Entries, BookedIsInstalled
<1>2. ASSUME installed' = installed,
             \A x \in BudgetIds \ installed : reserved'[x] = reserved[x] /\ used'[x] = used[x]
      PROVE  BookedIsInstalled'
  BY <1>2 DEF BookedIsInstalled
<1>3. ASSUME NEW r \in ReservationIds, NEW st, installed' = installed,
             reservations' = [reservations EXCEPT ![r].state = st],
             \/ st \in {"RELEASED", "EXPIRED"}
             \/ st = "VALIDATED" /\ reservations[r].state = "PLANNED"
             \/ st \in {"ADMITTED", "ACTIVE"} /\ reservations[r].state \in {"RESERVED", "ADMITTED"}
      PROVE  Entries(reservations, installed)'
  <2> SUFFICES ASSUME NEW x \in ReservationIds, NEW n, n = reservations'[x]
               PROVE  /\ n.state = "NONE" => n = NoReservation
                      /\ n.state \in {"PLANNED", "VALIDATED"} => n.reserved_power = 0
                      /\ n.state \in {"RESERVED", "ADMITTED", "ACTIVE"} => n.budget \in installed
    BY <1>3 DEF Entries
  <2>1. CASE x # r
    <3>1. n = reservations[x]
      BY <1>0, <1>3, <2>1
    <3> QED  BY <3>1 DEF Entries
  <2>2. CASE x = r
    <3>1. /\ n.state = st /\ n.reserved_power = reservations[r].reserved_power
          /\ n.budget = reservations[r].budget
      BY <1>0, <1>3, <2>2 DEF Reservation
    <3> QED  BY <1>3, <3>1 DEF Entries
  <2> QED  BY <2>1, <2>2
<1>4. ASSUME NEW b \in BudgetIds, NEW d \in Definitions(b), install_budget(b, d)
      PROVE  Entries(reservations, installed)' /\ BookedIsInstalled'
  <2>1. Entries(reservations, installed)'
    BY <1>4 DEF install_budget, Install, Entries
  <2>2. BookedIsInstalled'
    BY <1>4 DEF install_budget, Install, BookedIsInstalled, TypeOK, BudgetTypeOK
  <2> QED  BY <2>1, <2>2
<1>5. ASSUME NEW r \in ReservationIds, NEW b \in BudgetIds, NEW power \in Powers,
             NEW pol \in PlannedPolicies, NEW now \in CallTimes,
             plan_reservation(r, b, power, pol, now)
      PROVE  Entries(reservations, installed)' /\ BookedIsInstalled'
  <2>1. UNCHANGED <<installed, reserved, used>>
    BY <1>5 DEF plan_reservation, budgetVars
  <2>2. ASSUME NEW x \in ReservationIds
        PROVE  \/ reservations'[x] = reservations[x]
               \/ reservations'[x].state = "PLANNED" /\ reservations'[x].reserved_power = 0
    BY <1>0, <1>5 DEF plan_reservation
  <2>3. Entries(reservations, installed)'
    BY <2>1, <2>2 DEF Entries
  <2> QED  BY <1>2, <2>1, <2>3
<1>6. ASSUME NEW r \in ReservationIds, NEW pol \in PolicyGenerations, validate_reservation(r, pol)
      PROVE  Entries(reservations, installed)' /\ BookedIsInstalled'
  <2>1. UNCHANGED <<installed, reserved, used>> /\ reservations[r].state = "PLANNED"
        /\ reservations' = [reservations EXCEPT ![r].state = "VALIDATED"]
    BY <1>6 DEF validate_reservation, budgetVars
  <2> QED  BY <1>2, <1>3, <2>1
<1>7. ASSUME NEW r \in ReservationIds, Expire(r)
      PROVE  Entries(reservations, installed)' /\ BookedIsInstalled'
  <2>1. UNCHANGED <<installed, reserved, used>>
        /\ reservations' = [reservations EXCEPT ![r].state = "EXPIRED"]
    BY <1>7 DEF Expire, budgetVars
  <2> QED  BY <1>2, <1>3, <2>1
<1>8. ASSUME NEW r \in ReservationIds, NEW gen \in Generations, NEW now \in CallTimes,
             reserve_reservation(r, gen, now)
      PROVE  Entries(reservations, installed)' /\ BookedIsInstalled'
  <2>1. CASE Expire(r)
    BY <1>7, <2>1
  <2>2. CASE ~ Expire(r)
    <3>1. /\ ReserveAccepts(reservations[r].budget, reservations[r].requested_power, gen)
          /\ ReserveEffect(reservations[r].budget, reservations[r].requested_power)
          /\ reservations' = [reservations EXCEPT
                 ![r].state = "RESERVED", ![r].budget_generation = gen,
                 ![r].reserved_power = reservations[r].requested_power]
      BY <1>8, <2>2 DEF reserve_reservation
    <3>2. chain(reservations[r].budget) \subseteq installed /\ reservations[r].budget \in installed
      BY <3>1 DEF ReserveAccepts, CurrentGeneration, chain_has_capacity
    <3>3. UNCHANGED <<installed, used>>
          /\ reserved' = AddAlong(reserved, reservations[r].budget, reservations[r].requested_power)
      BY <3>1 DEF ReserveEffect
    <3>4. \A x \in BudgetIds \ installed : reserved'[x] = reserved[x]
      BY <3>2, <3>3, BookedAlong
    <3>5. ASSUME NEW x \in ReservationIds
          PROVE  \/ reservations'[x] = reservations[x]
                 \/ reservations'[x].state = "RESERVED" /\ reservations'[x].budget \in installed
      <4>1. CASE x # r
        BY <1>0, <3>1, <4>1
      <4>2. CASE x = r
        <5>1. ASSUME NEW n, n = reservations'[r]
              PROVE  n.state = "RESERVED" /\ n.budget = reservations[r].budget
          BY <1>0, <3>1, <5>1 DEF Reservation
        <5> QED  BY <3>2, <4>2, <5>1
      <4> QED  BY <4>1, <4>2
    <3>6. Entries(reservations, installed)'
      BY <3>3, <3>5 DEF Entries
    <3> QED  BY <1>2, <3>3, <3>4, <3>6
  <2> QED  BY <2>1, <2>2
<1>9. ASSUME NEW r \in ReservationIds, NEW now \in CallTimes, admit_reservation(r, now)
      PROVE  Entries(reservations, installed)' /\ BookedIsInstalled'
  <2>1. CASE Expire(r)
    BY <1>7, <2>1
  <2>2. CASE ~ Expire(r)
    <3>1. /\ UNCHANGED <<installed, reserved, used>> /\ reservations[r].state = "RESERVED"
          /\ reservations' = [reservations EXCEPT ![r].state = "ADMITTED"]
      BY <1>9, <2>2 DEF admit_reservation, budgetVars
    <3> QED  BY <1>2, <1>3, <3>1
  <2> QED  BY <2>1, <2>2
<1>10. ASSUME NEW r \in ReservationIds, NEW gen \in Generations, NEW now \in CallTimes,
             activate_reservation(r, gen, now)
      PROVE  Entries(reservations, installed)' /\ BookedIsInstalled'
  <2>1. CASE Expire(r)
    BY <1>7, <2>1
  <2>2. CASE ~ Expire(r)
    <3>1. /\ ActivateAccepts(reservations[r].budget, reservations[r].requested_power, gen)
          /\ ActivateEffect(reservations[r].budget, reservations[r].requested_power)
          /\ reservations[r].state \in {"RESERVED", "ADMITTED"}
          /\ reservations' = [reservations EXCEPT ![r].state = "ACTIVE"]
      BY <1>10, <2>2 DEF activate_reservation
    <3>2. chain(reservations[r].budget) \subseteq installed
      BY <3>1 DEF ActivateAccepts, chain_has_capacity
    <3>3. UNCHANGED <<installed, reserved>>
          /\ used' = AddAlong(used, reservations[r].budget, reservations[r].requested_power)
      BY <3>1 DEF ActivateEffect
    <3>4. \A x \in BudgetIds \ installed : used'[x] = used[x]
      BY <3>2, <3>3, BookedAlong
    <3> QED  BY <1>2, <1>3, <3>1, <3>3, <3>4
  <2> QED  BY <2>1, <2>2
<1>11. ASSUME NEW r \in ReservationIds, NEW gen \in Generations, release_reservation(r, gen)
      PROVE  Entries(reservations, installed)' /\ BookedIsInstalled'
  <2>1. /\ ReleaseAccepts(reservations[r].budget, reservations[r].reserved_power, gen)
        /\ reserved' = SubtractAlong(reserved, reservations[r].budget, reservations[r].reserved_power)
        /\ \/ used' = SubtractAlong(used, reservations[r].budget, reservations[r].reserved_power)
           \/ used' = used
        /\ installed' = installed
        /\ reservations' = [reservations EXCEPT ![r].state = "RELEASED"]
    BY <1>11 DEF release_reservation, ReleaseEffect, TryDeactivate
  <2>2. chain(reservations[r].budget) \subseteq installed
    BY <2>1 DEF ReleaseAccepts, CoversAlong
  <2>3. \A x \in BudgetIds \ installed : reserved'[x] = reserved[x] /\ used'[x] = used[x]
    BY <2>1, <2>2, BookedAlong
  <2> QED  BY <1>2, <1>3, <2>1, <2>3
<1> QED
  BY <1>1, <1>4, <1>5, <1>6, <1>8, <1>9, <1>10, <1>11
     DEF Next, install_policy, Tick, vars, budgetVars

\* A load books nothing on a budget that is not installed afterwards.
LEMMA BookingElsewhere ==
    ASSUME TypeOK, NEW s \in Record, NEW R \in SUBSET ReservationIds,
           NEW x \in BudgetIds, x \notin installed'
    PROVE  Booking(s, R)[LastId][x] = reserved[x]
<1> DEFINE g == Booking(s, R)
           Bad == {n \in 0 .. LastId : g[n][x] # reserved[x]}
<1>1. /\ g \in [0 .. LastId -> Amounts] /\ g[0] = reserved
      /\ \A n \in 1 .. LastId : g[n] = IF n \in R /\ Reclaims(s.reservations[n])
                                       THEN Reclaim(s.reservations[n], g[n - 1]) ELSE g[n - 1]
  BY BookingSteps
<1> HIDE DEF g
<1>2. Bad \in SUBSET Nat
  BY LastIdIsLast
<1>3. ASSUME Bad # {} PROVE FALSE
  <2>1. PICK n \in Bad : \A m \in Bad : n <= m
    BY <1>2, <1>3, LeastWatts
  <2>2. n \in 0 .. LastId /\ n # 0 /\ g[n][x] # reserved[x]
    BY <1>1, <2>1
  <2> HIDE DEF Bad
  <2>3. n \in Nat /\ n - 1 \in 0 .. LastId /\ n \in 1 .. LastId /\ ~ (n <= n - 1)
    BY <2>2, LastIdIsLast
  <2>4. g[n - 1][x] = reserved[x]
    BY <2>1, <2>3 DEF Bad
  <2>5. ASSUME NEW res, NEW a \in Amounts PROVE Reclaim(res, a)[x] = a[x]
    BY DEF Reclaim
  <2>6. g[n - 1] \in Amounts
    BY <1>1, <2>3
  <2>7. g[n][x] = g[n - 1][x]
    BY <1>1, <2>3, <2>5, <2>6
  <2> QED  BY <2>2, <2>4, <2>7
<1>4. LastId \in 0 .. LastId
  BY LastIdIsLast
<1> QED  BY <1>3, <1>4 DEF g

\* A load, in part or as a whole, keeps the entries.
LEMMA EntriesByLoad ==
    ASSUME TypeOK, Entries(reservations, installed), BookedIsInstalled,
           NEW s \in Record, Entries(s.reservations, s.installed), decode_state(s)
    PROVE  Entries(reservations, installed)' /\ BookedIsInstalled'
<1>1. PICK B \in SUBSET BudgetIds : InstallBudgets(s, B)
  BY DEF decode_state
<1>2. PICK R \in {Restorable(s), {}} :
         /\ RestoreReservations(s, R)
         /\ R # {} => Installable(s) = s.installed
  BY DEF decode_state
<1>3. R \in SUBSET ReservationIds
  BY DEF Restorable, Listed
<1>4. installed' = installed \cup B /\ used' = used /\ (R # {} => B = s.installed)
  BY <1>1, <1>2 DEF InstallBudgets
<1>5. \A r \in ReservationIds : reservations'[r] = IF r \in R THEN s.reservations[r] ELSE reservations[r]
  BY <1>2 DEF RestoreReservations
<1>6. Entries(reservations, installed)'
  <2> SUFFICES ASSUME NEW x \in ReservationIds, NEW n, n = reservations'[x]
               PROVE  /\ n.state = "NONE" => n = NoReservation
                      /\ n.state \in {"PLANNED", "VALIDATED"} => n.reserved_power = 0
                      /\ n.state \in {"RESERVED", "ADMITTED", "ACTIVE"} => n.budget \in installed'
    BY DEF Entries
  <2>1. CASE x \in R
    <3>1. n = s.reservations[x] /\ s.installed \subseteq installed'
      BY <1>4, <1>5, <2>1
    <3> QED  BY <3>1 DEF Entries
  <2>2. CASE x \notin R
    <3>1. n = reservations[x] /\ installed \subseteq installed'
      BY <1>4, <1>5, <2>2
    <3> QED  BY <3>1 DEF Entries
  <2> QED  BY <2>1, <2>2
<1>7. BookedIsInstalled'
  <2> SUFFICES ASSUME NEW x \in BudgetIds, x \notin installed' PROVE reserved'[x] = 0 /\ used'[x] = 0
    BY DEF BookedIsInstalled
  <2>1. reserved[x] = 0 /\ used[x] = 0
    BY <1>4 DEF BookedIsInstalled
  <2>2. reserved'[x] = Booking(s, R)[LastId][x]
    BY <1>2 DEF RestoreReservations
  <2>3. Booking(s, R)[LastId][x] = reserved[x]
    BY <1>3, BookingElsewhere
  <2> QED  BY <1>4, <2>1, <2>2, <2>3
<1> QED  BY <1>6, <1>7

\* Where the records on disk and in hand come from.
LEMMA RecordsAround ==
    ASSUME DiskInv, [PersistenceNext]_allVars
    PROVE  /\ path' = path \/ (io # Idle /\ path' = io.record)
           /\ io' # Idle => \/ io'.record = path
                            \/ io # Idle /\ io'.record = io.record
                            \/ io'.record = encode_state
<1>1. PersistenceTypeOK
  BY DEF DiskInv
<1>2. io.step \in {"encoded", "opened", "written", "renamed", "read"} =>
          io \in InProgress /\ io # Idle
  BY <1>1, InHand
<1>3. CASE SaveEncode
  <2>1. path' = path /\ io' = [step |-> "encoded", record |-> encode_state]
    BY <1>3 DEF SaveEncode, diskVars
  <2>2. io'.record = encode_state
    BY <2>1
  <2> QED  BY <2>1, <2>2
<1>4. CASE SaveOpen
  BY <1>2, <1>4 DEF SaveOpen, InProgress
<1>5. CASE SaveWrite
  BY <1>2, <1>5 DEF SaveWrite, InProgress
<1>6. CASE SaveRename
  <2>1. io \in InProgress /\ io # Idle /\ tmp = io.record
    BY <1>2, <1>6 DEF SaveRename, DiskInv
  <2> QED  BY <1>6, <2>1 DEF SaveRename, InProgress
<1>7. CASE SaveReturn \/ LoadApply \/ Restart
  BY <1>7 DEF SaveReturn, LoadApply, Restart, diskVars
<1>8. CASE LoadRead
  <2>1. path' = path /\ io' = [step |-> "read", record |-> path]
    BY <1>8 DEF LoadRead, diskVars
  <2>2. io'.record = path
    BY <2>1
  <2> QED  BY <2>1, <2>2
<1>9. CASE UNCHANGED <<path, io>>
  BY <1>9
<1> QED
  BY <1>3, <1>4, <1>5, <1>6, <1>7, <1>8, <1>9
     DEF PersistenceNext, plan, Call, diskVars, allVars

\* RoundTripInv holds once the first save has returned.
LEMMA RoundTripInit == PersistenceInit => RoundTripInv
<1> SUFFICES ASSUME PersistenceInit PROVE RoundTripInv
  OBVIOUS
<1>1. TypeOK /\ DiskInv
  BY TypeInit, DiskInit DEF PersistenceInit
<1>2. Entries(reservations, installed) /\ BookedIsInstalled
  BY DEF PersistenceInit, Init, BudgetInit, Entries, BookedIsInstalled, NoReservation
<1>3. KeptRecord(path)
  BY <1>1, <1>2, EncodeKept DEF PersistenceInit
<1>4. io = Idle
  BY DEF PersistenceInit
<1> QED  BY <1>1, <1>2, <1>3, <1>4 DEF RoundTripInv

\* Every step keeps RoundTripInv.
LEMMA RoundTripStep == RoundTripInv /\ [PersistenceNext]_allVars => RoundTripInv'
<1> SUFFICES ASSUME RoundTripInv, [PersistenceNext]_allVars PROVE RoundTripInv'
  OBVIOUS
<1>1. /\ DiskInv /\ DiskInv' /\ Entries(reservations, installed) /\ BookedIsInstalled
      /\ KeptRecord(path) /\ (io # Idle => KeptRecord(io.record))
  BY DiskStep DEF RoundTripInv
<1>2. PersistenceTypeOK /\ TypeOK
  BY <1>1 DEF DiskInv, PersistenceTypeOK
<1>3. KeptRecord(encode_state)
  BY <1>1, <1>2, EncodeKept
<1>4. /\ path' = path \/ (io # Idle /\ path' = io.record)
      /\ io' # Idle => \/ io'.record = path
                       \/ io # Idle /\ io'.record = io.record
                       \/ io'.record = encode_state
  BY <1>1, RecordsAround
<1>5. KeptRecord(path') /\ (io' # Idle => KeptRecord(io'.record))
  BY <1>1, <1>3, <1>4
<1>6. ASSUME [Next]_vars PROVE Entries(reservations, installed)' /\ BookedIsInstalled'
  BY <1>1, <1>2, <1>6, EntriesByCalls
<1>7. ASSUME LoadApply PROVE Entries(reservations, installed)' /\ BookedIsInstalled'
  <2>1. io.record \in Record /\ io # Idle
    BY <1>2, <1>7, InHand DEF LoadApply
  <2>2. PICK s \in {io.record} : decode_state(s)
    BY <1>7 DEF LoadApply
  <2>3. s \in Record /\ Entries(s.reservations, s.installed)
    BY <1>1, <2>1, <2>2 DEF KeptRecord
  <2> QED  BY <1>1, <1>2, <2>2, <2>3, EntriesByLoad
<1>8. ASSUME Restart PROVE Entries(reservations, installed)' /\ BookedIsInstalled'
  BY <1>8 DEF Restart, Entries, BookedIsInstalled, NoReservation
<1>9. Entries(reservations, installed)' /\ BookedIsInstalled'
  BY <1>6, <1>7, <1>8, CallIsNext, PlanIsNext
     DEF PersistenceNext, SaveEncode, SaveOpen, SaveWrite, SaveRename, SaveReturn, LoadRead, allVars
<1> QED  BY <1>1, <1>5, <1>9 DEF RoundTripInv, Idle

\* What the proof of a round trip starts from: a record that is kept and
\* coherent, and a governor that has its budgets and nothing booked.
Reloading(s) ==
    /\ s \in Record /\ KeptRecord(s) /\ Coherent(s)
    /\ installed' = s.installed
    /\ \A b \in s.installed : cfg'[b] = s.cfg[b]
    /\ reserved = [b \in BudgetIds |-> 0] /\ used' = [b \in BudgetIds |-> 0]

\* A claim of a coherent record is granted as long as what is booked and the
\* claim together are within the limits of the record.
LEMMA ClaimGranted ==
    ASSUME NEW s, Reloading(s), NEW r \in ReservationIds, Reclaims(s.reservations[r]),
           NEW a \in Amounts,
           \A y \in BudgetIds : r \in RecordHolders(s, y) =>
               a[y] + s.reservations[r].reserved_power <= s.cfg[y].hard_max
    PROVE  \A x \in BudgetIds : Reclaim(s.reservations[r], a)[x] =
               IF r \in RecordHolders(s, x) THEN a[x] + s.reservations[r].reserved_power ELSE a[x]
<1> SUFFICES ASSUME NEW res, res = s.reservations[r]
             PROVE  \A x \in BudgetIds : Reclaim(res, a)[x] =
               IF r \in RecordHolders(s, x) THEN a[x] + res.reserved_power ELSE a[x]
  OBVIOUS
<1> SUFFICES ASSUME NEW C, C = chain(res.budget)'
             PROVE  \A x \in BudgetIds : Reclaim(res, a)[x] =
               IF r \in RecordHolders(s, x) THEN a[x] + res.reserved_power ELSE a[x]
  OBVIOUS
<1>1. /\ s \in Record /\ KeptRecord(s) /\ Coherent(s) /\ installed' = s.installed
      /\ \A b \in s.installed : cfg'[b] = s.cfg[b]
      /\ used' = [b \in BudgetIds |-> 0]
  BY DEF Reloading
<1>2. s.installed \in SUBSET BudgetIds /\ res \in Reservation /\ res.reserved_power \in Nat
  BY <1>1, ReservationAssumption DEF Record, Reservation
<1>3. res.budget \in s.installed
  BY <1>1 DEF KeptRecord, Entries, Reclaims
<1>4. C = RecordChain(s, res.budget)
  <2>1. \A b \in installed' : s.cfg[b].parent = cfg'[b].parent
    BY <1>1
  <2> QED  BY <1>1, <2>1, RecordChainThen
<1>5. C \in SUBSET s.installed
  <2>1. \A y \in s.installed : RecordParent(s, y) \in BudgetIds => RecordParent(s, y) \in s.installed
    BY <1>1, BudgetAssumption DEF Coherent, RecordParent
  <2> QED  BY <1>2, <1>3, <1>4, <2>1 DEF RecordChain
<1>6. \A x \in BudgetIds : x \in C <=> r \in RecordHolders(s, x)
  BY <1>4 DEF RecordHolders
<1>7. /\ res.budget \in installed'
      /\ cfg'[res.budget].generation = res.budget_generation
      /\ cfg'[res.budget].authoritative
  BY <1>1, <1>3 DEF Coherent
<1>8. \A x \in C : x \in installed' /\ a[x] + used'[x] + res.reserved_power <= cfg'[x].hard_max
  <2> SUFFICES ASSUME NEW x \in C
               PROVE  x \in installed' /\ a[x] + used'[x] + res.reserved_power <= cfg'[x].hard_max
    OBVIOUS
  <2>1. x \in s.installed /\ x \in BudgetIds
    BY <1>2, <1>5
  <2>2. cfg'[x] = s.cfg[x] /\ used'[x] = 0
    BY <1>1, <2>1
  <2>3. a[x] + res.reserved_power <= s.cfg[x].hard_max
    BY <1>6, <2>1
  <2>4. a[x] \in Nat
    BY <2>1 DEF Amounts
  <2>5. a[x] + used'[x] + res.reserved_power = a[x] + res.reserved_power
    BY <1>2, <2>2, <2>4
  <2> QED  BY <1>1, <2>1, <2>2, <2>3, <2>5
<1>9. Reclaim(res, a) = [x \in BudgetIds |-> IF x \in C THEN a[x] + res.reserved_power ELSE a[x]]
  BY <1>7, <1>8 DEF Reclaim
<1> QED  BY <1>6, <1>9

\* However many reservations of a coherent record have been restored, exactly
\* their watts are booked.
LEMMA BookingExact ==
    ASSUME TypeOK, NEW s, Reloading(s), NEW b \in BudgetIds
    PROVE  Booking(s, Listed(s))[LastId][b] = Cardinality(WattsOf(RecordHolders(s, b), RecordPower(s)))
<1> DEFINE R == Listed(s)
           P == RecordPower(s)
           g == Booking(s, R)
           H(x) == RecordHolders(s, x)
           K(n, x) == {r \in H(x) : r <= n}
           Good(n) == \A x \in BudgetIds : g[n][x] = Cardinality(WattsOf(K(n, x), P))
           Bad == {n \in 0 .. LastId : ~ Good(n)}
<1>0. s \in Record /\ R \in SUBSET ReservationIds /\ reserved = [x \in BudgetIds |-> 0]
  BY DEF Reloading, Listed
<1>1. /\ g \in [0 .. LastId -> Amounts] /\ g[0] = reserved
      /\ \A n \in 1 .. LastId : g[n] = IF n \in R /\ Reclaims(s.reservations[n])
                                       THEN Reclaim(s.reservations[n], g[n - 1]) ELSE g[n - 1]
  BY <1>0, BookingSteps
<1> HIDE DEF g
<1>2. \A x : H(x) \in SUBSET ReservationIds /\ \A r \in H(x) : r \in Nat /\ r \in 1 .. LastId
  BY LastIdIsLast DEF RecordHolders
<1>3. \A r \in ReservationIds : P[r] \in 0 .. MaxPower /\ P[r] \in Nat
                                /\ P[r] = s.reservations[r].reserved_power
  BY <1>0, ReservationAssumption DEF RecordPower, Record, Reservation
<1>4. \A r \in ReservationIds : Reclaims(s.reservations[r]) => r \in R
  BY DEF Listed, Reclaims
<1>5. \A x : \A r \in H(x) : Reclaims(s.reservations[r])
  BY DEF RecordHolders
<1> HIDE DEF R, P, H
<1>6. \A n, x : IsFiniteSet(K(n, x)) /\ Cardinality(WattsOf(K(n, x), P)) \in Nat
  <2> SUFFICES ASSUME NEW n, NEW x
               PROVE  IsFiniteSet(K(n, x)) /\ Cardinality(WattsOf(K(n, x), P)) \in Nat
    OBVIOUS
  <2>1. K(n, x) \in SUBSET ReservationIds
    BY <1>2
  <2>2. IsFiniteSet(K(n, x))
    BY <2>1, FS_Subset, ReservationAssumption
  <2> HIDE DEF K
  <2> QED  BY <2>2, WattsFinite
<1>7. Good(0)
  <2> SUFFICES ASSUME NEW x \in BudgetIds PROVE g[0][x] = Cardinality(WattsOf(K(0, x), P))
    OBVIOUS
  <2>1. K(0, x) = {}
    BY <1>2
  <2>2. WattsOf({}, P) = {}
    BY DEF WattsOf
  <2>3. g[0][x] = 0
    BY <1>0, <1>1
  <2> QED  BY <2>1, <2>2, <2>3, FS_EmptySet
<1>8. \A x : K(LastId, x) = H(x)
  BY <1>2
<1>9. Bad \in SUBSET Nat
  BY LastIdIsLast
<1>10. ASSUME Bad # {} PROVE FALSE
  <2>1. PICK n \in Bad : \A m \in Bad : n <= m
    BY <1>9, <1>10, LeastWatts
  <2>2. n \in 0 .. LastId /\ n # 0 /\ ~ Good(n)
    BY <1>7, <2>1
  <2> HIDE DEF Bad, Good
  <2>3. n \in Nat /\ n - 1 \in 0 .. LastId /\ n \in 1 .. LastId /\ ~ (n <= n - 1)
    BY <2>2, LastIdIsLast
  <2>4. Good(n - 1)
    BY <2>1, <2>3 DEF Bad
  <2>5. \A x \in BudgetIds : g[n - 1][x] = Cardinality(WattsOf(K(n - 1, x), P))
    BY <2>4 DEF Good
  <2>6. g[n - 1] \in Amounts
    BY <1>1, <2>3
  <2>7. \A x : n \notin K(n - 1, x)
    BY <2>3
  <2>8. \A x : n \notin H(x) => K(n, x) = K(n - 1, x)
    <3> SUFFICES ASSUME NEW x, n \notin H(x) PROVE K(n, x) = K(n - 1, x)
      OBVIOUS
    <3>1. \A r \in H(x) : r <= n <=> r <= n - 1
      BY <1>2, <2>3
    <3> QED  BY <3>1
  <2>9. \A x : n \in H(x) => K(n, x) = K(n - 1, x) \cup {n}
    <3> SUFFICES ASSUME NEW x, n \in H(x) PROVE K(n, x) = K(n - 1, x) \cup {n}
      OBVIOUS
    <3>1. \A r \in H(x) : r <= n <=> (r <= n - 1 \/ r = n)
      BY <1>2, <2>3
    <3> QED  BY <3>1
  <2>10. ASSUME NEW x \in BudgetIds, n \in H(x)
         PROVE  /\ Cardinality(WattsOf(K(n, x), P)) = g[n - 1][x] + P[n]
                /\ Cardinality(WattsOf(K(n, x), P)) <= s.cfg[x].hard_max
    <3>1. n \in ReservationIds
      BY <1>2, <2>10
    <3>2. Cardinality(WattsOf(K(n - 1, x) \cup {n}, P)) = Cardinality(WattsOf(K(n - 1, x), P)) + P[n]
      <4> SUFFICES ASSUME NEW T, T = K(n - 1, x), NEW e, e = n
                   PROVE  Cardinality(WattsOf(T \cup {e}, P)) = Cardinality(WattsOf(T, P)) + P[e]
        OBVIOUS
      <4>1. IsFiniteSet(T)
        BY <1>6
      <4>2. e \notin T /\ P[e] \in 0 .. MaxPower
        BY <1>3, <2>7, <3>1
      <4> QED  BY ONLY <4>1, <4>2, WattsAdd
    <3>3. Cardinality(WattsOf(K(n, x), P)) = g[n - 1][x] + P[n]
      BY <2>5, <2>9, <2>10, <3>2
    <3>4. WattsOf(K(n, x), P) \in SUBSET WattsOf(K(LastId, x), P)
      BY <1>8 DEF WattsOf
    <3>5. IsFiniteSet(WattsOf(K(LastId, x), P)) /\ Cardinality(WattsOf(K(LastId, x), P)) \in Nat
      BY <1>6, WattsFinite
    <3>6. Cardinality(WattsOf(K(n, x), P)) <= Cardinality(WattsOf(K(LastId, x), P))
      BY <3>4, <3>5, FS_Subset
    <3>7. Cardinality(WattsOf(K(LastId, x), P)) <= s.cfg[x].hard_max
      BY <1>8 DEF Reloading, KeptRecord, ClaimsFit, Coherent, H, P
    <3>8. s.cfg[x].hard_max \in Nat /\ Cardinality(WattsOf(K(n, x), P)) \in Nat
      BY <1>0, <1>6 DEF Record, PowerBudget
    <3>9. \A u, v, w \in Nat : u <= v /\ v <= w => u <= w
      OBVIOUS
    <3>10. Cardinality(WattsOf(K(n, x), P)) <= s.cfg[x].hard_max
      BY <3>5, <3>6, <3>7, <3>8, <3>9
    <3> QED  BY <3>3, <3>10
  <2>11. CASE n \in R /\ Reclaims(s.reservations[n])
    <3>1. n \in ReservationIds /\ g[n] = Reclaim(s.reservations[n], g[n - 1])
      BY <1>0, <1>1, <2>3, <2>11
    <3>2. \A y \in BudgetIds : n \in H(y) => g[n - 1][y] + s.reservations[n].reserved_power <= s.cfg[y].hard_max
      BY <1>3, <2>10, <3>1
    <3>3. \A x \in BudgetIds : Reclaim(s.reservations[n], g[n - 1])[x] =
               IF n \in H(x) THEN g[n - 1][x] + s.reservations[n].reserved_power ELSE g[n - 1][x]
      BY <2>6, <2>11, <3>1, <3>2, ClaimGranted DEF H
    <3>4. ASSUME NEW x \in BudgetIds PROVE g[n][x] = Cardinality(WattsOf(K(n, x), P))
      <4>1. CASE n \in H(x)
        BY <1>3, <2>10, <3>1, <3>3, <4>1
      <4>2. CASE n \notin H(x)
        BY <2>5, <2>8, <3>1, <3>3, <4>2
      <4> QED  BY <4>1, <4>2
    <3> QED  BY <2>2, <3>4 DEF Good
  <2>12. CASE ~ (n \in R /\ Reclaims(s.reservations[n]))
    <3>1. g[n] = g[n - 1]
      BY <1>1, <2>3, <2>12
    <3>2. \A x : n \notin H(x)
      BY <1>2, <1>4, <1>5, <2>12
    <3>3. \A x \in BudgetIds : g[n][x] = Cardinality(WattsOf(K(n, x), P))
      BY <2>5, <2>8, <3>1, <3>2
    <3> QED  BY <2>2, <3>3 DEF Good
  <2> QED  BY <2>11, <2>12
<1>11. LastId \in 0 .. LastId
  BY LastIdIsLast
<1>12. Good(LastId)
  BY <1>10, <1>11
<1>13. g[LastId][b] = Cardinality(WattsOf(H(b), P))
  BY <1>8, <1>12
<1> QED  BY <1>13 DEF g, R, P, H

\* A coherent record that is loaded into a new governor brings back every
\* reservation and books exactly the watts of those that hold capacity, for
\* every tree of budgets and every resolution, and whatever parents budgets had
\* before.
THEOREM RoundTripHolds == PersistenceSpec => RoundTrip
<1>1. RoundTripInv /\ [PersistenceNext]_allVars =>
        [io.step = "read" /\ io' = Idle /\ Fresh /\ restarts' = restarts
            /\ Coherent(io.record) =>
            /\ reservations' = io.record.reservations
            /\ \A b \in BudgetIds : reserved'[b] = Cardinality(LiveWatts(b)')]_allVars
  <2> SUFFICES ASSUME RoundTripInv, PersistenceNext, io.step = "read", io' = Idle, Fresh,
                      restarts' = restarts, Coherent(io.record)
               PROVE  /\ reservations' = io.record.reservations
                      /\ \A b \in BudgetIds : reserved'[b] = Cardinality(LiveWatts(b)')
    OBVIOUS
  <2>1. PersistenceTypeOK /\ TypeOK
    BY DEF RoundTripInv, DiskInv, PersistenceTypeOK
  <2>2. io.record \in Record /\ io # Idle /\ KeptRecord(io.record)
    BY <2>1, InHand DEF RoundTripInv
  <2>3. LoadApply
    <3>1. ~ Restart
      BY <2>1, PersistenceAssumption DEF Restart, PersistenceTypeOK
    <3>2. UNCHANGED io => FALSE
      BY <2>2
    <3> QED
      BY <2>2, <3>1, <3>2 DEF PersistenceNext, SaveEncode, SaveOpen, SaveWrite, SaveRename, SaveReturn,
         LoadRead, plan, Call
  <2>4. PICK s \in {io.record} : decode_state(s)
    BY <2>3 DEF LoadApply
  <2>5. s = io.record /\ s \in Record /\ KeptRecord(s) /\ Coherent(s)
    BY <2>2, <2>4
  <2>6. PICK B \in SUBSET BudgetIds : InstallBudgets(s, B)
    BY <2>4 DEF decode_state
  <2>7. /\ Installable(s) = s.installed /\ installed' = s.installed /\ used' = used
        /\ \A b \in s.installed : cfg'[b] = s.cfg[b]
    <3>1. Installable(s) = s.installed
      BY DEF Installable, InstallAccepts, Fresh
    <3>2. s.installed \in SUBSET BudgetIds
      BY <2>5 DEF Record
    <3> QED  BY <2>6, <3>1, <3>2 DEF InstallBudgets, Fresh
  <2>8. validate_budget_hierarchy
    BY <2>5, <2>7 DEF validate_budget_hierarchy, Coherent
  <2>9. Restorable(s) = Listed(s)
    BY DEF Restorable, Listed, Fresh
  <2>10. RestoreReservations(s, Listed(s))
    BY <2>4, <2>7, <2>8, <2>9 DEF decode_state
  <2>11. reservations' = s.reservations
    <3>1. \A r \in ReservationIds : reservations'[r] = s.reservations[r]
      <4> SUFFICES ASSUME NEW r \in ReservationIds PROVE reservations'[r] = s.reservations[r]
        OBVIOUS
      <4>1. CASE r \in Listed(s)
        BY <2>10, <4>1 DEF RestoreReservations
      <4>2. CASE r \notin Listed(s)
        <5>1. reservations'[r] = reservations[r]
          BY <2>10, <4>2 DEF RestoreReservations
        <5>2. reservations[r] = NoReservation
          BY DEF Fresh, RoundTripInv, Entries
        <5>3. s.reservations[r] = NoReservation
          BY <2>5, <4>2 DEF Listed, KeptRecord, Entries
        <5> QED  BY <5>1, <5>2, <5>3
      <4> QED  BY <4>1, <4>2
    <3>2. DOMAIN reservations' = ReservationIds /\ reservations' = [r \in ReservationIds |-> reservations'[r]]
      BY <2>10 DEF RestoreReservations
    <3>3. s.reservations \in [ReservationIds -> Reservation]
      BY <2>5 DEF Record
    <3> QED  BY <3>1, <3>2, <3>3
  <2>12. Reloading(s)
    <3>1. reserved = [b \in BudgetIds |-> 0] /\ used = [b \in BudgetIds |-> 0]
      BY <2>1 DEF Fresh, RoundTripInv, BookedIsInstalled, TypeOK, BudgetTypeOK
    <3> QED  BY <2>5, <2>7, <3>1 DEF Reloading
  <2>13. ASSUME NEW b \in BudgetIds PROVE reserved'[b] = Cardinality(LiveWatts(b)')
    <3>1. reserved'[b] = Cardinality(WattsOf(RecordHolders(s, b), RecordPower(s)))
      BY <2>1, <2>10, <2>12, BookingExact DEF RestoreReservations
    <3>2. \A x : RecordChain(s, x) = chain(x)'
      BY <2>7, RecordChainThen
    <3>3. ASSUME NEW r \in ReservationIds
          PROVE  r \in RecordHolders(s, b) <=> r \in Holders(b)' /\ reservations'[r].state \in LiveStates
      <4>1. reservations'[r] = s.reservations[r] /\ s.reservations[r] \in Reservation
        BY <2>5, <2>11 DEF Record
      <4>2. \A x : x = s.reservations[r].budget => RecordChain(s, x) = chain(x)'
        BY <3>2
      <4>3. b \in RecordChain(s, s.reservations[r].budget) <=> b \in chain(reservations[r].budget)'
        BY <4>1, <4>2
      <4>4. s.reservations[r].state \in {"PLANNED", "VALIDATED"} => s.reservations[r].reserved_power = 0
        BY <2>5 DEF KeptRecord, Entries
      <4> QED
        BY <4>1, <4>3, <4>4 DEF RecordHolders, Holders, Reclaims, LiveStates
    <3>4. LiveWatts(b)' = WattsOf(RecordHolders(s, b), RecordPower(s))
      <4>1. RecordHolders(s, b) = {r \in Holders(b)' : reservations'[r].state \in LiveStates}
        BY <3>3 DEF RecordHolders, Holders
      <4>2. \A r \in ReservationIds : RecordPower(s)[r] = reservations'[r].reserved_power
        BY <2>11 DEF RecordPower
      <4>3. \A r \in RecordHolders(s, b) : r \in ReservationIds
        BY DEF RecordHolders
      <4> SUFFICES ASSUME NEW G, G = RecordHolders(s, b), NEW P, P = RecordPower(s)
                   PROVE  LiveWatts(b)' = WattsOf(G, P)
        OBVIOUS
      <4> QED  BY <4>1, <4>2, <4>3 DEF LiveWatts, HeldWatts, WattsOf
    <3> QED  BY <3>1, <3>4
  <2> QED  BY <2>5, <2>11, <2>13
<1>2. PersistenceSpec => []RoundTripInv
  BY RoundTripInit, RoundTripStep, PTL DEF PersistenceSpec
<1> QED  BY <1>1, <1>2, PTL DEF PersistenceSpec, RoundTrip
=============================================================================
