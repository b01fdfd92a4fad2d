------------------------- MODULE CoordinatorProofs --------------------------
(***************************************************************************)
(* Proofs about the coordinator for any number of workers, connections,    *)
(* budgets, reservations, requests and epochs.                             *)
(*                                                                         *)
(* CoordinatorInv says what a connection, its worker and its thread agree  *)
(* on between steps (Dialogue), which boots may still pass the fence       *)
(* (BootsOnce, RequestAuthority), whom a reservation was granted to        *)
(* (Ownership) and that every reservation was asked for (IdsSuffice).      *)
(***************************************************************************)
EXTENDS Coordinator, ReservationsProofs

Busy == {"ingest", "plan", "reserve", "act"}
Observations == {"OBSERVE", "THERMAL"}

\* The wire is used by one side at a time, and only between requests is a
\* worker ready.
DialogueOf(c) ==
    /\ thread[c].step # "idle" => wire[c] = Nothing
    /\ client[c].state = "new" => thread[c].step = "none"
    /\ client[c].state = "ready" => thread[c].step = "idle" /\ wire[c] = Nothing
    /\ thread[c].step \in Busy => client[c].state \in {"waiting", "gone"}
    /\ wire[c].kind \in Kinds => client[c].state \in {"waiting", "gone"}
    /\ client[c].state = "registering" /\ wire[c].kind = "ANSWER" => wire[c].id = 0
    /\ wire[c].kind \in {"ACTIVATE", "RELEASE"} => wire[c].reservation # 0
    /\ thread[c].step = "act" => thread[c].request \in Request /\ thread[c].request.reservation # 0
    /\ client[c].obs_gen <= requests + 1

Dialogue == \A c \in Connections : DialogueOf(c)

\* A boot registers once, under one worker, and is never current again once it
\* has been replaced.
BootsOnce ==
    /\ \A c \in Connections : thread[c].step \in {"none", "register"} =>
           BootOf[c] \notin retired /\ \A w \in Workers : workers[w] # BootOf[c]
    /\ \A w \in Workers : workers[w] \notin retired
    /\ \A c \in Connections, w \in Workers : workers[w] = BootOf[c] => w = WorkerOf[c]

\* A request that was stale when it was sent is stale for good; any other one
\* carries the boot of its own process and a generation that process has used.
RequestAuthority ==
    \A c \in Connections : wire[c].kind \in Kinds =>
        IF wire[c].stale
        THEN wire[c].epoch < epoch \/ wire[c].boot \in retired
        ELSE /\ wire[c].boot = BootOf[c]
             /\ wire[c].kind \in Observations /\ client[c].state # "gone" =>
                    wire[c].obs_gen < client[c].obs_gen

\* A planned reservation has an owner; the one a thread is about to reserve is
\* its own.
Ownership ==
    /\ clock = 1
    /\ \A r \in ReservationIds : reservations[r].state # "NONE" => owner[r] \in Connections
    /\ \A c \in Connections : thread[c].step = "reserve" =>
           /\ thread[c].id \in ReservationIds /\ owner[thread[c].id] = c
           /\ reservations[thread[c].id].state # "NONE"

Granted == {"RESERVED", "ADMITTED", "ACTIVE"}

\* GrantReachesOwner for an admitted reservation too.
GrantedReaches ==
    \A r \in ReservationIds :
        reservations[r].state \in Granted =>
            \/ client[owner[r]].state = "gone"
            \/ r \in client[owner[r]].ids
            \/ wire[owner[r]].kind = "ANSWER" /\ wire[owner[r]].id = r

\* AckedIsGranted, with the owner that makes an id one worker's alone.
ToldAreOwn ==
    \A c \in Connections : \A r \in Told(c) :
        /\ r \in ReservationIds /\ reservations[r].state # "NONE" /\ owner[r] = c
        /\ reservations[r].budget_generation = first

\* Every reservation, planned or about to be, takes a request of its own, so
\* that an id is left for it.
Planned == {r \in ReservationIds : reservations[r].state # "NONE"}
Pending == {c \in Connections : thread[c].step = "plan" \/ wire[c].kind = "RESERVE"}

IdsSuffice ==
    /\ IsFiniteSet(Pending)
    /\ Cardinality(Planned) + Cardinality(Pending) <= requests

CoordinatorInv ==
    /\ CoordinatorTypeOK
    /\ Dialogue
    /\ BootsOnce
    /\ RequestAuthority
    /\ StaleRequestsHaveNoEffect
    /\ FreshBootNotMuted
    /\ Ownership
    /\ GrantedReaches
    /\ ToldAreOwn
    /\ IdsSuffice

-----------------------------------------------------------------------------
(* The calls into the governor.                                            *)

\* A thread that is about to plan finds an id that is not in use.
LEMMA IdLeft ==
    ASSUME CoordinatorInv, NEW c \in Connections, thread[c].step = "plan"
    PROVE  NextId \in ReservationIds /\ reservations[NextId].state = "NONE"
<1>1. c \in Pending /\ IsFiniteSet(Pending)
  BY DEF Pending, CoordinatorInv, IdsSuffice
<1>2. Cardinality(Pending) \in Nat /\ Cardinality(Pending) # 0
  BY <1>1, FS_CardinalityType, FS_EmptySet
<1>3. Planned \in SUBSET ReservationIds /\ IsFiniteSet(ReservationIds)
  BY ReservationAssumption DEF Planned
<1>4. IsFiniteSet(Planned) /\ Cardinality(Planned) \in Nat /\ Cardinality(ReservationIds) \in Nat
  BY <1>3, FS_Subset, FS_CardinalityType
<1>5. Cardinality(Planned) < Cardinality(ReservationIds)
  <2>1. /\ Cardinality(Planned) + Cardinality(Pending) <= requests
        /\ requests \in 0 .. MaxRequests
    BY DEF CoordinatorInv, IdsSuffice, CoordinatorTypeOK
  <2> QED  BY <1>2, <1>4, <2>1, CoordinatorAssumption
<1>6. Unplanned # {} /\ Unplanned \in SUBSET Nat
  <2>1. Planned # ReservationIds
    BY <1>4, <1>5
  <2> QED  BY <2>1, CoordinatorAssumption DEF Planned, Unplanned
<1>7. \E r \in Unplanned : \A q \in Unplanned : r <= q
  BY <1>6, LeastWatts
<1>8. NextId \in Unplanned
  BY <1>7 DEF NextId
<1> QED  BY <1>8 DEF Unplanned

\* A reservation that the coordinator works on was made at time 1 and has not
\* expired for the times it passes, and a generation that the governor accepts
\* is one that budgets may have.
LEMMA CallsAreSpecified ==
    ASSUME CoordinatorInv, NEW r \in ReservationIds
    PROVE  /\ 0 \in CallTimes /\ 1 \in CallTimes
           /\ reserve_reservation(r, first, 1) => Next
           /\ activate_reservation(r, first, 0) => Next
           /\ release_reservation(r, first) => Next
<1>1. TypeOK /\ clock = 1
  BY DEF CoordinatorInv, CoordinatorTypeOK, Ownership
<1>2. 0 \in CallTimes /\ 1 \in CallTimes
  BY <1>1, CoordinatorAssumption, ReservationAssumption DEF CallTimes
<1>3. \A b : CurrentGeneration(b, first) => first \in Generations
  BY <1>1 DEF CurrentGeneration, TypeOK, BudgetTypeOK, PowerBudget
<1>4. reservations[r].created \in 0 .. MaxTime
  BY <1>1 DEF TypeOK, Reservation
<1>5. ~ expired(r, 0) /\ ~ expired(r, 1)
  BY <1>4, ReservationAssumption DEF expired
<1>6. ASSUME reserve_reservation(r, first, 1) PROVE Next
  <2>1. first \in Generations
    BY <1>3, <1>5, <1>6 DEF reserve_reservation, ReserveAccepts
  <2> QED  BY <1>2, <1>6, <2>1 DEF Next
<1>7. ASSUME activate_reservation(r, first, 0) PROVE Next
  <2>1. first \in Generations
    BY <1>3, <1>5, <1>7 DEF activate_reservation, ActivateAccepts
  <2> QED  BY <1>2, <1>7, <2>1 DEF Next
<1>8. ASSUME release_reservation(r, first) PROVE Next
  <2>1. first \in Generations
    BY <1>3, <1>8 DEF release_reservation, ReleaseAccepts
  <2> QED  BY <1>8, <2>1 DEF Next
<1> QED  BY <1>2, <1>6, <1>7, <1>8

\* The reservation that an ACTIVATE or RELEASE works on is one that exists.
LEMMA ActsOnPlanned ==
    ASSUME CoordinatorInv, NEW c \in Connections, at(c, "act"),
           thread[c].request.reservation \notin Unplanned
    PROVE  /\ thread[c].request.reservation \in ReservationIds
           /\ reservations[thread[c].request.reservation].state # "NONE"
<1>1. thread[c].request \in Request /\ thread[c].request.reservation # 0
  BY DEF CoordinatorInv, Dialogue, DialogueOf, at
<1> QED  BY <1>1 DEF Request, Unplanned

\* Every step of the coordinator, its threads and its workers is one step of
\* the reservation interface or leaves the governor alone.
LEMMA StepIsSpecified ==
    ASSUME CoordinatorInv, [CoordinatorNext]_allVars PROVE [Next]_vars
<1>1. ASSUME NEW c \in Connections, NEW b \in BudgetIds, NEW power \in Powers,
             ServerPlan(c, b, power)
      PROVE  Next
  <2>1. NextId \in ReservationIds
    BY <1>1, IdLeft DEF ServerPlan, at
  <2>2. first \in PlannedPolicies /\ 1 \in CallTimes
    BY <2>1, CallsAreSpecified, CoordinatorAssumption DEF first
  <2>3. plan_reservation(NextId, b, power, first, 1)
    BY <1>1 DEF ServerPlan
  <2> HIDE DEF first, NextId
  <2> QED  BY <2>1, <2>2, <2>3 DEF Next
<1>2. ASSUME NEW c \in Connections, ServerReserve(c) PROVE [Next]_vars
  <2>1. thread[c].id \in ReservationIds
    BY <1>2 DEF ServerReserve, at, CoordinatorInv, Ownership
  <2> QED  BY <1>2, <2>1, CallsAreSpecified DEF ServerReserve
<1>3. ASSUME NEW c \in Connections, ServerAct(c) PROVE [Next]_vars
  <2>1. thread[c].request.reservation \in ReservationIds
    BY <1>3, ActsOnPlanned DEF ServerAct
  <2> QED  BY <1>3, <2>1, CallsAreSpecified DEF ServerAct
<1>4. ASSUME NEW b \in BudgetIds, NEW d \in Definitions(b), InstallBudget(b, d) PROVE Next
  BY <1>4 DEF InstallBudget, Next
<1>5. ASSUME NEW c \in Connections,
             \/ Connect(c) \/ ClientReceives(c) \/ Lost(c)
             \/ ServerRegister(c) \/ ServerGreet(c) \/ ServerReceive(c) \/ ServerIngest(c)
             \/ ServerThrows(c) \/ ServerClose(c)
      PROVE  UNCHANGED vars
  BY <1>5 DEF Connect, ClientReceives, Registered, Answered, Disconnected, Lost, ServerRegister,
              ServerGreet, ServerReceive, ServerIngest, ServerThrows, ServerClose
<1>6. ASSUME NEW c \in Connections, NEW kind \in Kinds, NEW boot \in Boots, NEW ep \in 1 .. epoch,
             NEW r \in ReservationIds \cup {0}, Send(c, kind, boot, ep, r)
      PROVE  UNCHANGED vars
  BY <1>6 DEF Send
<1>7. ASSUME RollEpoch \/ Quit \/ UNCHANGED allVars PROVE UNCHANGED vars
  BY <1>7 DEF RollEpoch, Quit, allVars
<1> QED
  BY <1>1, <1>2, <1>3, <1>4, <1>5, <1>6, <1>7 DEF CoordinatorNext, ServerStep

-----------------------------------------------------------------------------
(* Types.                                                                  *)

ClientState ==
    [state: {"new", "registering", "ready", "waiting", "gone"}, epoch: 0 .. MaxEpoch,
     obs_gen: 1 .. MaxRequests + 1, ids: SUBSET ReservationIds]

ThreadState == [step: Steps, request: {Nothing} \cup Request, id: ReservationIds \cup {0}]

Messages == {Nothing} \cup Request \cup Answer

\* What CoordinatorTypeOK says, with names for the types of the records.
LEMMA CoordinatorTypes ==
    /\ CoordinatorTypeOK =>
          /\ TypeOK /\ up \in BOOLEAN /\ epoch \in 1 .. MaxEpoch /\ epoch \in Nat
          /\ workers \in [Workers -> Boots \cup {NoBoot}]
          /\ obs_hwm \in [Workers -> 0 .. MaxRequests + 1]
          /\ client \in [Connections -> ClientState]
          /\ wire \in [Connections -> Messages]
          /\ thread \in [Connections -> ThreadState]
          /\ owner \in [ReservationIds -> Connections \cup {NoBoot}]
          /\ retired \subseteq Boots /\ requests \in 0 .. MaxRequests /\ requests \in Nat
    /\ MaxRequests \in Nat /\ MaxEpoch \in Nat /\ MaxEpoch > 0
    /\ WorkerOf \in [Connections -> Workers]
    /\ \A c \in Connections : BootOf[c] \in Boots
BY CoordinatorAssumption DEF CoordinatorTypeOK, ClientState, ThreadState, Messages, Boots

\* An answer is a message, and leaves the other connections alone.
LEMMA AnswerEffect ==
    ASSUME NEW c \in Connections, NEW ep \in 0 .. MaxEpoch, NEW id \in ReservationIds \cup {0},
           wire \in [Connections -> Messages], answer(c, ep, id)
    PROVE  /\ wire' \in [Connections -> Messages]
           /\ wire'[c] = IF client[c].state = "gone" THEN Nothing
                         ELSE [kind |-> "ANSWER", epoch |-> ep, id |-> id]
           /\ \A d \in Connections \ {c} : wire'[d] = wire[d]
<1>1. [kind |-> "ANSWER", epoch |-> ep, id |-> id] \in Messages /\ Nothing \in Messages
  BY DEF Messages, Answer
<1> QED  BY <1>1 DEF answer

\* A thread that has answered waits for the next request.
LEMMA FinishEffect ==
    ASSUME NEW c \in Connections, thread \in [Connections -> ThreadState], finish(c)
    PROVE  /\ thread' \in [Connections -> ThreadState]
           /\ thread'[c] = [step |-> "idle", request |-> Nothing, id |-> 0]
           /\ \A d \in Connections \ {c} : thread'[d] = thread[d]
<1>1. [step |-> "idle", request |-> Nothing, id |-> 0] \in ThreadState
  BY DEF ThreadState, Steps
<1> QED  BY <1>1 DEF finish

\* A thread that goes on keeps its request.
LEMMA GotoEffect ==
    ASSUME NEW c \in Connections, thread \in [Connections -> ThreadState], NEW step \in Steps,
           goto(c, step)
    PROVE  /\ thread' \in [Connections -> ThreadState]
           /\ thread'[c].step = step /\ thread'[c].request = thread[c].request
           /\ \A d \in Connections \ {c} : thread'[d] = thread[d]
<1>1. [thread[c] EXCEPT !.step = step] \in ThreadState
  BY DEF ThreadState
<1>2. thread' = [thread EXCEPT ![c] = [thread[c] EXCEPT !.step = step]]
  BY DEF goto
<1> QED  BY <1>1, <1>2 DEF ThreadState

\* What ServerReceive does, as facts about the state after it: a request that
\* passes the fence is handed to the governor's caller, any other is answered.
LEMMA ReceiveEffect ==
    ASSUME CoordinatorTypeOK, NEW c \in Connections, ServerReceive(c)
    PROVE  /\ thread[c].step = "idle" /\ wire[c] \in Request /\ wire[c].kind \in Kinds
           /\ wire' \in [Connections -> Messages]
           /\ thread' \in [Connections -> ThreadState]
           /\ \A d \in Connections \ {c} : wire'[d] = wire[d] /\ thread'[d] = thread[d]
           /\ \/ /\ wire'[c] = Nothing
                 /\ thread'[c] = [step |-> CallFor(wire[c]), request |-> wire[c], id |-> 0]
                 /\ CallFor(wire[c]) = "plan" => wire[c].kind = "RESERVE"
                 /\ CallFor(wire[c]) \in {"ingest", "plan", "act"}
                 /\ CallFor(wire[c]) = "act" => wire[c].kind \in {"ACTIVATE", "RELEASE"}
                 /\ IF wire[c].kind \in Observations THEN fence_obs(c, wire[c])
                    ELSE fence_epoch_boot(wire[c])
              \/ /\ thread'[c] = [step |-> "idle", request |-> Nothing, id |-> 0]
                 /\ wire'[c] = IF client[c].state = "gone" THEN Nothing
                               ELSE [kind |-> "ANSWER", epoch |-> 0, id |-> 0]
           /\ \/ obs_hwm' = obs_hwm
              \/ /\ wire[c].kind \in Observations /\ fence_obs(c, wire[c])
                 /\ obs_hwm' = [obs_hwm EXCEPT ![WorkerOf[c]] = wire[c].obs_gen]
           /\ UNCHANGED <<vars, up, epoch, workers, retired, client, owner, requests>>
<1> DEFINE q == wire[c]
           passes == IF q.kind \in Observations THEN fence_obs(c, q) ELSE fence_epoch_boot(q)
<1>1. /\ wire \in [Connections -> Messages] /\ thread \in [Connections -> ThreadState]
      /\ 0 \in 0 .. MaxEpoch
  BY CoordinatorTypes
<1>2. thread[c].step = "idle" /\ q.kind \in Kinds
  BY DEF ServerReceive, at
<1>3. q \in Request
  BY <1>1, <1>2 DEF Messages, Nothing, Answer, Kinds
<1>4. UNCHANGED <<vars, up, epoch, workers, retired, client, owner, requests>>
  BY DEF ServerReceive
<1>5. \/ obs_hwm' = obs_hwm
      \/ /\ q.kind \in Observations /\ fence_obs(c, q)
         /\ obs_hwm' = [obs_hwm EXCEPT ![WorkerOf[c]] = q.obs_gen]
  BY DEF ServerReceive, Observations
<1>6. CASE passes /\ q.kind \notin {"THERMAL", "OTHER"}
  <2>1. /\ thread' = [thread EXCEPT ![c] = [step |-> CallFor(q), request |-> q, id |-> 0]]
        /\ wire' = [wire EXCEPT ![c] = Nothing]
    BY <1>6 DEF ServerReceive, Observations
  <2>2. /\ CallFor(q) \in {"ingest", "plan", "act"}
        /\ CallFor(q) = "act" => q.kind \in {"ACTIVATE", "RELEASE"}
        /\ CallFor(q) = "plan" => q.kind = "RESERVE"
    BY <1>2, <1>6 DEF CallFor, Kinds
  <2>3. [step |-> CallFor(q), request |-> q, id |-> 0] \in ThreadState
    BY <1>3, <2>2 DEF ThreadState, Steps
  <2>4. wire' \in [Connections -> Messages] /\ thread' \in [Connections -> ThreadState]
    BY <1>1, <2>1, <2>3 DEF Messages
  <2>5. /\ wire'[c] = Nothing
        /\ thread'[c] = [step |-> CallFor(q), request |-> q, id |-> 0]
        /\ \A d \in Connections \ {c} : wire'[d] = wire[d] /\ thread'[d] = thread[d]
    BY <1>1, <2>1
  <2> QED  BY <1>2, <1>3, <1>4, <1>5, <1>6, <2>2, <2>4, <2>5
<1>7. CASE ~ (passes /\ q.kind \notin {"THERMAL", "OTHER"})
  <2>1. answer(c, 0, 0) /\ finish(c)
    BY <1>7 DEF ServerReceive, Observations
  <2> HIDE DEF passes
  <2> QED  BY <1>1, <1>2, <1>3, <1>4, <1>5, <2>1, AnswerEffect, FinishEffect
<1> QED  BY <1>6, <1>7

\* What a worker process does to its own record and to the wire.
LEMMA ClientEffect ==
    ASSUME CoordinatorTypeOK, Dialogue, NEW c \in Connections,
           \/ Connect(c) \/ Registered(c) \/ Answered(c) \/ Lost(c) \/ Disconnected(c)
           \/ \E kind \in Kinds, boot \in Boots, ep \in 1 .. epoch, r \in ReservationIds \cup {0} :
                 Send(c, kind, boot, ep, r)
    PROVE  /\ client' \in [Connections -> ClientState]
           /\ wire' \in [Connections -> Messages]
           /\ thread' \in [Connections -> ThreadState]
           /\ requests' \in 0 .. MaxRequests /\ requests <= requests'
           /\ \A d \in Connections \ {c} :
                  client'[d] = client[d] /\ wire'[d] = wire[d] /\ thread'[d] = thread[d]
           /\ thread'[c].request = thread[c].request
           /\ UNCHANGED <<vars, shared, owner>>
           /\ client[c].obs_gen <= client'[c].obs_gen \/ client'[c].state = "gone"
<1>1. /\ client \in [Connections -> ClientState] /\ wire \in [Connections -> Messages]
      /\ thread \in [Connections -> ThreadState] /\ requests \in 0 .. MaxRequests
      /\ MaxRequests \in Nat /\ MaxEpoch \in Nat /\ epoch \in 1 .. MaxEpoch
      /\ client[c] \in ClientState /\ wire[c] \in Messages /\ Nothing \in Messages
  BY CoordinatorTypes DEF Messages
<1>2. client[c].obs_gen \in 1 .. MaxRequests + 1 /\ client[c].obs_gen <= requests + 1
  BY <1>1 DEF ClientState, Dialogue, DialogueOf
<1>3. CASE Connect(c)
  <2>1. [client[c] EXCEPT !.state = "registering"] \in ClientState
    BY <1>1 DEF ClientState
  <2>2. client' = [client EXCEPT ![c] = [client[c] EXCEPT !.state = "registering"]]
    BY <1>3 DEF Connect
  <2>3. /\ thread' \in [Connections -> ThreadState]
        /\ thread'[c].request = thread[c].request
        /\ \A d \in Connections \ {c} : thread'[d] = thread[d]
    <3>1. goto(c, "register") /\ "register" \in Steps
      BY <1>3 DEF Connect, goto, Steps
    <3> QED  BY <1>1, <3>1, GotoEffect
  <2>4. UNCHANGED <<vars, shared, wire, owner, requests>>
    BY <1>3 DEF Connect
  <2>5. client'[c].obs_gen = client[c].obs_gen
    BY <1>1, <2>2 DEF ClientState
  <2>6. /\ client' \in [Connections -> ClientState]
        /\ \A d \in Connections \ {c} : client'[d] = client[d]
    BY <1>1, <2>1, <2>2
  <2>7. wire' = wire /\ requests' = requests /\ UNCHANGED <<vars, shared, owner>>
    BY <2>4
  <2> QED  BY <1>1, <1>2, <2>3, <2>5, <2>6, <2>7
<1>4. CASE Registered(c)
  <2>1. wire[c] \in Answer
    BY <1>1, <1>4 DEF Registered, Messages, Nothing, Request, Kinds
  <2>2. [client[c] EXCEPT !.state = "ready", !.epoch = wire[c].epoch] \in ClientState
    BY <1>1, <2>1 DEF ClientState, Answer
  <2>3. client' = [client EXCEPT ![c] =
                      [client[c] EXCEPT !.state = "ready", !.epoch = wire[c].epoch]]
    BY <1>1, <1>4 DEF Registered
  <2>4. wire' = [wire EXCEPT ![c] = Nothing] /\ UNCHANGED <<vars, shared, thread, owner, requests>>
    BY <1>4 DEF Registered
  <2>5. client'[c].obs_gen = client[c].obs_gen
    BY <1>1, <2>3 DEF ClientState
  <2> QED  BY <1>1, <1>2, <2>2, <2>3, <2>4, <2>5
<1>5. CASE Answered(c)
  <2> DEFINE now == client[c].ids \cup ({wire[c].id} \ {0})
  <2>1. wire[c] \in Answer
    BY <1>1, <1>5 DEF Answered, Messages, Nothing, Request, Kinds
  <2>2. now \in SUBSET ReservationIds
    BY <1>1, <2>1 DEF ClientState, Answer
  <2>3. client' = [client EXCEPT ![c] = [client[c] EXCEPT !.state = "ready", !.ids = now]]
    BY <1>1, <1>5 DEF Answered
  <2> HIDE DEF now
  <2>4. [client[c] EXCEPT !.state = "ready", !.ids = now] \in ClientState
    BY <1>1, <2>2 DEF ClientState
  <2>5. wire' = [wire EXCEPT ![c] = Nothing] /\ UNCHANGED <<vars, shared, thread, owner, requests>>
    BY <1>5 DEF Answered
  <2>6. client'[c].obs_gen = client[c].obs_gen
    BY <1>1, <2>3 DEF ClientState
  <2> QED  BY <1>1, <1>2, <2>3, <2>4, <2>5, <2>6
<1>6. CASE Lost(c) \/ Disconnected(c)
  <2>1. Gone \in ClientState /\ Gone.state = "gone"
    BY <1>1 DEF Gone, ClientState, first
  <2>2. client' = [client EXCEPT ![c] = Gone] /\ UNCHANGED <<vars, shared, wire, thread, owner, requests>>
    BY <1>6 DEF Lost, Disconnected
  <2> HIDE DEF Gone
  <2> QED  BY <1>1, <2>1, <2>2
<1>7. ASSUME NEW kind \in Kinds, NEW boot \in Boots, NEW ep \in 1 .. epoch,
             NEW r \in ReservationIds \cup {0}, Send(c, kind, boot, ep, r)
      PROVE  /\ client' \in [Connections -> ClientState]
             /\ wire' \in [Connections -> Messages]
             /\ requests' \in 0 .. MaxRequests /\ requests <= requests'
             /\ \A d \in Connections \ {c} :
                    client'[d] = client[d] /\ wire'[d] = wire[d] /\ thread'[d] = thread[d]
             /\ UNCHANGED <<vars, shared, owner, thread>>
             /\ client[c].obs_gen <= client'[c].obs_gen
  <2> DEFINE gen == IF kind \in Observations THEN client[c].obs_gen + 1 ELSE client[c].obs_gen
             sent == IF kind \in Observations THEN client[c].obs_gen ELSE 0
             m == [kind |-> kind, boot |-> boot, epoch |-> ep, reservation |-> r,
                   obs_gen |-> sent, stale |-> Stale(boot, ep)]
  <2>1. requests' = requests + 1 /\ requests < MaxRequests
    BY <1>7 DEF Send
  <2>2. gen \in 1 .. MaxRequests + 1 /\ sent \in 0 .. MaxRequests + 1 /\ client[c].obs_gen <= gen
    BY <1>1, <1>2, <2>1
  <2>3. client' = [client EXCEPT ![c] = [client[c] EXCEPT !.state = "waiting", !.obs_gen = gen]]
    BY <1>1, <1>7 DEF Send, Observations
  <2>4. wire' = [wire EXCEPT ![c] = m]
    BY <1>7 DEF Send, Observations
  <2>5. ep \in 1 .. MaxEpoch
    BY <1>1
  <2>6. Stale(boot, ep) \in BOOLEAN
    BY DEF Stale
  <2> HIDE DEF gen, sent
  <2>7. m \in Messages
    BY <2>2, <2>5, <2>6 DEF Messages, Request
  <2> HIDE DEF m
  <2>8. [client[c] EXCEPT !.state = "waiting", !.obs_gen = gen] \in ClientState
    BY <1>1, <2>2 DEF ClientState
  <2>9. client'[c].obs_gen = gen
    BY <1>1, <2>3 DEF ClientState
  <2>10. UNCHANGED <<vars, shared, owner, thread>>
    BY <1>7 DEF Send
  <2>11. client' \in [Connections -> ClientState] /\ wire' \in [Connections -> Messages]
    BY <1>1, <2>3, <2>4, <2>7, <2>8
  <2>12. \A d \in Connections \ {c} :
            client'[d] = client[d] /\ wire'[d] = wire[d] /\ thread'[d] = thread[d]
    BY <1>1, <2>3, <2>4, <2>10
  <2>13. requests' \in 0 .. MaxRequests /\ requests <= requests'
    BY <1>1, <2>1
  <2> QED  BY <2>2, <2>9, <2>10, <2>11, <2>12, <2>13
<1> QED  BY <1>1, <1>3, <1>4, <1>5, <1>6, <1>7

\* What the two calls of a RESERVE do to the thread and to the wire.
LEMMA PlanEffect ==
    ASSUME CoordinatorInv, NEW c \in Connections, NEW b \in BudgetIds, NEW power \in Powers,
           ServerPlan(c, b, power)
    PROVE  /\ thread[c].step = "plan" /\ NextId \in ReservationIds
           /\ reservations[NextId].state = "NONE" /\ reservations'[NextId].state = "PLANNED"
           /\ \A r \in ReservationIds \ {NextId} :
                  reservations'[r] = reservations[r] /\ owner'[r] = owner[r]
           /\ owner'[NextId] = c
           /\ owner' \in [ReservationIds -> Connections \cup {NoBoot}]
           /\ thread' \in [Connections -> ThreadState]
           /\ thread'[c].step = "reserve" /\ thread'[c].id = NextId
           /\ thread'[c].request = thread[c].request
           /\ \A d \in Connections \ {c} : thread'[d] = thread[d]
           /\ UNCHANGED <<clock, shared, client, wire, requests>>
<1>1. thread[c].step = "plan" /\ NextId \in ReservationIds /\ reservations[NextId].state = "NONE"
  BY IdLeft DEF ServerPlan, at
<1>2. /\ thread \in [Connections -> ThreadState] /\ thread[c] \in ThreadState
      /\ owner \in [ReservationIds -> Connections \cup {NoBoot}]
      /\ reservations \in [ReservationIds -> Reservation]
  BY CoordinatorTypes DEF CoordinatorInv, TypeOK
<1> DEFINE n == NextId
<1>3. /\ plan_reservation(n, b, power, first, 1)
      /\ owner' = [owner EXCEPT ![n] = c]
      /\ thread' = [thread EXCEPT ![c] = [thread[c] EXCEPT !.step = "reserve", !.id = n]]
      /\ UNCHANGED <<shared, client, wire, requests>>
  BY <1>2 DEF ServerPlan
<1> HIDE DEF n
<1>4. n = NextId /\ n \in ReservationIds
  BY <1>1 DEF n
<1>5. [thread[c] EXCEPT !.step = "reserve", !.id = n] \in ThreadState
  BY <1>2, <1>4 DEF ThreadState, Steps
<1>6. /\ thread' \in [Connections -> ThreadState]
      /\ thread'[c].step = "reserve" /\ thread'[c].id = n
      /\ thread'[c].request = thread[c].request
      /\ \A d \in Connections \ {c} : thread'[d] = thread[d]
  BY <1>2, <1>3, <1>5 DEF ThreadState
<1>7. /\ reservations'[n].state = "PLANNED" /\ UNCHANGED clock
      /\ \A r \in ReservationIds \ {n} : reservations'[r] = reservations[r] /\ owner'[r] = owner[r]
      /\ owner'[n] = c /\ owner' \in [ReservationIds -> Connections \cup {NoBoot}]
  BY <1>2, <1>3, <1>4 DEF plan_reservation
<1> QED  BY <1>1, <1>3, <1>4, <1>6, <1>7

\* The calls that may change a reservation leave an unplanned one alone and the
\* others at most as far as they are granted; only reserve grants.
LEMMA CallEffect ==
    ASSUME TypeOK, NEW r \in ReservationIds, reservations[r].state # "NONE",
           \/ reserve_reservation(r, first, 1)
           \/ activate_reservation(r, first, 0)
           \/ release_reservation(r, first)
           \/ UNCHANGED vars
    PROVE  /\ clock' = clock
           /\ reservations'[r].state # "NONE"
           /\ \A x \in ReservationIds \ {r} : reservations'[x] = reservations[x]
           /\ reservations[r].budget_generation = first =>
                 reservations'[r].budget_generation = first
           /\ activate_reservation(r, first, 0) \/ release_reservation(r, first) \/ UNCHANGED vars =>
                 (reservations'[r].state \in Granted => reservations[r].state \in Granted)
<1>1. reservations \in [ReservationIds -> Reservation] /\ reservations[r] \in Reservation
  BY DEF TypeOK
<1>2. ASSUME UNCHANGED vars PROVE reservations' = reservations /\ clock' = clock
  BY <1>2 DEF vars
<1>3. ASSUME release_reservation(r, first)
      PROVE  /\ clock' = clock /\ reservations'[r].state \notin Granted \cup {"NONE"}
             /\ reservations'[r].budget_generation = reservations[r].budget_generation
             /\ \A x \in ReservationIds \ {r} : reservations'[x] = reservations[x]
  BY <1>1, <1>3 DEF release_reservation, Reservation, Granted
<1>4. ASSUME activate_reservation(r, first, 0)
      PROVE  /\ clock' = clock /\ reservations'[r].state # "NONE"
             /\ reservations'[r].budget_generation = reservations[r].budget_generation
             /\ \A x \in ReservationIds \ {r} : reservations'[x] = reservations[x]
             /\ reservations'[r].state \in Granted => reservations[r].state \in Granted
  BY <1>1, <1>4 DEF activate_reservation, Expire, Reservation, Granted
<1>5. ASSUME reserve_reservation(r, first, 1)
      PROVE  /\ clock' = clock /\ reservations'[r].state # "NONE"
             /\ reservations[r].budget_generation = first =>
                   reservations'[r].budget_generation = first
             /\ \A x \in ReservationIds \ {r} : reservations'[x] = reservations[x]
  BY <1>1, <1>5 DEF reserve_reservation, Expire, Reservation
<1> QED  BY <1>2, <1>3, <1>4, <1>5

\* A thread that answers a registration or a call: the wire was its to use, and
\* only the id of a reservation that it has just reserved goes out.
LEMMA ReplyEffect ==
    ASSUME CoordinatorInv, NEW c \in Connections,
           ServerGreet(c) \/ ServerIngest(c) \/ ServerReserve(c) \/ ServerAct(c)
    PROVE  /\ thread[c].step \in {"greet", "ingest", "reserve", "act"} /\ wire[c] = Nothing
           /\ wire' \in [Connections -> Messages] /\ thread' \in [Connections -> ThreadState]
           /\ thread'[c] = [step |-> "idle", request |-> Nothing, id |-> 0]
           /\ \A d \in Connections \ {c} : wire'[d] = wire[d] /\ thread'[d] = thread[d]
           /\ \E ep \in 0 .. MaxEpoch, id \in ReservationIds \cup {0} :
                 /\ wire'[c] = IF client[c].state = "gone" THEN Nothing
                               ELSE [kind |-> "ANSWER", epoch |-> ep, id |-> id]
                 /\ thread[c].step = "greet" => id = 0
           /\ UNCHANGED <<shared, client, owner, requests>>
<1>1. /\ wire \in [Connections -> Messages] /\ thread \in [Connections -> ThreadState]
      /\ 0 \in 0 .. MaxEpoch /\ epoch \in 0 .. MaxEpoch
      /\ thread[c].id \in ReservationIds \cup {0}
  BY CoordinatorTypes DEF CoordinatorInv, ThreadState
<1>2. thread[c].step \in {"greet", "ingest", "reserve", "act"}
  BY DEF ServerGreet, ServerIngest, ServerReserve, ServerAct, at
<1>3. wire[c] = Nothing
  BY <1>2 DEF CoordinatorInv, Dialogue, DialogueOf
<1>4. finish(c) /\ UNCHANGED <<shared, client, owner, requests>>
  BY DEF ServerGreet, ServerIngest, ServerReserve, ServerAct
<1>a. /\ thread' \in [Connections -> ThreadState]
      /\ thread'[c] = [step |-> "idle", request |-> Nothing, id |-> 0]
      /\ \A d \in Connections \ {c} : thread'[d] = thread[d]
  BY <1>1, <1>4, FinishEffect
<1>b. ASSUME NEW ep \in 0 .. MaxEpoch, NEW id \in ReservationIds \cup {0}, answer(c, ep, id),
             thread[c].step = "greet" => id = 0
      PROVE  /\ wire' \in [Connections -> Messages]
             /\ \A d \in Connections \ {c} : wire'[d] = wire[d]
             /\ \E e \in 0 .. MaxEpoch, i \in ReservationIds \cup {0} :
                   /\ wire'[c] = IF client[c].state = "gone" THEN Nothing
                                 ELSE [kind |-> "ANSWER", epoch |-> e, id |-> i]
                   /\ thread[c].step = "greet" => i = 0
  <2>1. /\ wire' \in [Connections -> Messages]
        /\ wire'[c] = IF client[c].state = "gone" THEN Nothing
                      ELSE [kind |-> "ANSWER", epoch |-> ep, id |-> id]
        /\ \A d \in Connections \ {c} : wire'[d] = wire[d]
    BY <1>1, <1>b, AnswerEffect
  <2> QED  BY <1>b, <2>1
<1>5. CASE ServerGreet(c)
  <2>1. answer(c, epoch, 0)
    BY <1>5 DEF ServerGreet
  <2> QED  BY <1>1, <1>2, <1>3, <1>4, <1>a, <1>b, <2>1
<1>6. CASE ServerIngest(c) \/ ServerReserve(c) \/ ServerAct(c)
  <2>1. thread[c].step # "greet"
    BY <1>6 DEF ServerIngest, ServerReserve, ServerAct, at
  <2>2. answer(c, 0, 0) \/ answer(c, 0, thread[c].id)
    BY <1>6 DEF ServerIngest, ServerReserve, ServerAct
  <2> QED  BY <1>1, <1>2, <1>3, <1>4, <1>a, <1>b, <2>1, <2>2
<1> QED  BY <1>5, <1>6

\* A process that registers replaces the one before it.
LEMMA RegisterEffect ==
    ASSUME CoordinatorTypeOK, NEW c \in Connections, ServerRegister(c)
    PROVE  /\ thread[c].step = "register"
           /\ thread' \in [Connections -> ThreadState]
           /\ thread'[c].step = "greet" /\ thread'[c].request = thread[c].request
           /\ \A d \in Connections \ {c} : thread'[d] = thread[d]
           /\ workers' \in [Workers -> Boots \cup {NoBoot}]
           /\ workers'[WorkerOf[c]] = BootOf[c]
           /\ \A w \in Workers \ {WorkerOf[c]} : workers'[w] = workers[w] /\ obs_hwm'[w] = obs_hwm[w]
           /\ obs_hwm' \in [Workers -> 0 .. MaxRequests + 1] /\ obs_hwm'[WorkerOf[c]] = 0
           /\ retired' = retired \cup ({workers[WorkerOf[c]]} \ {NoBoot}) /\ retired' \subseteq Boots
           /\ UNCHANGED <<vars, up, epoch, client, wire, owner, requests>>
<1>1. /\ thread \in [Connections -> ThreadState] /\ workers \in [Workers -> Boots \cup {NoBoot}]
      /\ obs_hwm \in [Workers -> 0 .. MaxRequests + 1] /\ retired \subseteq Boots
      /\ WorkerOf[c] \in Workers /\ BootOf[c] \in Boots /\ MaxRequests \in Nat
  BY CoordinatorTypes
<1>2. goto(c, "greet") /\ "greet" \in Steps /\ thread[c].step = "register"
  BY DEF ServerRegister, at, Steps
<1>3. /\ workers' = [workers EXCEPT ![WorkerOf[c]] = BootOf[c]]
      /\ obs_hwm' = [obs_hwm EXCEPT ![WorkerOf[c]] = 0]
      /\ retired' = retired \cup ({workers[WorkerOf[c]]} \ {NoBoot})
      /\ UNCHANGED <<vars, up, epoch, client, wire, owner, requests>>
  BY DEF ServerRegister
<1> QED  BY <1>1, <1>2, <1>3, GotoEffect

\* The connection of a worker that is gone is closed.
LEMMA CloseEffect ==
    ASSUME CoordinatorTypeOK, NEW c \in Connections, ServerClose(c)
    PROVE  /\ thread[c].step = "idle" /\ client[c].state = "gone"
           /\ thread' \in [Connections -> ThreadState] /\ wire' \in [Connections -> Messages]
           /\ thread'[c].step = "closed" /\ thread'[c].request = thread[c].request
           /\ wire'[c] = Nothing
           /\ \A d \in Connections \ {c} : wire'[d] = wire[d] /\ thread'[d] = thread[d]
           /\ UNCHANGED <<vars, shared, client, owner, requests>>
<1>1. thread \in [Connections -> ThreadState] /\ wire \in [Connections -> Messages]
  BY CoordinatorTypes
<1>2. goto(c, "closed") /\ "closed" \in Steps /\ thread[c].step = "idle"
  BY DEF ServerClose, at, goto, Steps
<1>3. /\ client[c].state = "gone" /\ wire' = [wire EXCEPT ![c] = Nothing]
      /\ UNCHANGED <<vars, shared, client, owner, requests>>
  BY DEF ServerClose
<1> QED  BY <1>1, <1>2, <1>3, GotoEffect DEF Messages

\* The coordinator's own commands, its end and steps of the rest of the system
\* leave connections, threads and workers alone.
LEMMA OperatorEffect ==
    ASSUME CoordinatorTypeOK,
           \/ \E b \in BudgetIds : \E d \in Definitions(b) : InstallBudget(b, d)
           \/ RollEpoch \/ Quit \/ UNCHANGED allVars
           \/ \E c \in Connections : ServerThrows(c)
    PROVE  /\ UNCHANGED <<workers, obs_hwm, retired, client, wire, thread, owner, requests>>
           /\ UNCHANGED <<reservations, clock>>
           /\ up' \in BOOLEAN /\ epoch' \in 1 .. MaxEpoch /\ epoch <= epoch'
<1>1. up \in BOOLEAN /\ epoch \in 1 .. MaxEpoch /\ MaxEpoch \in Nat
  BY CoordinatorTypes
<1>2. CASE \E b \in BudgetIds : \E d \in Definitions(b) : InstallBudget(b, d)
  BY <1>1, <1>2 DEF InstallBudget, install_budget, coordVars, shared
<1>3. CASE RollEpoch
  BY <1>1, <1>3 DEF RollEpoch, vars
<1>4. CASE Quit \/ (\E c \in Connections : ServerThrows(c))
  <2>1. up' \in BOOLEAN
    BY <1>4, Zenon DEF Quit, ServerThrows
  <2>2. /\ UNCHANGED <<workers, obs_hwm, retired, client, wire, thread, owner, requests>>
        /\ UNCHANGED <<reservations, clock, epoch>>
    BY <1>4 DEF Quit, ServerThrows, vars
  <2> QED  BY <1>1, <2>1, <2>2
<1>5. CASE UNCHANGED allVars
  BY <1>1, <1>5 DEF allVars, coordVars, shared, vars
<1> QED  BY <1>2, <1>3, <1>4, <1>5

\* Every step keeps the types of the coordinator's and the workers' state.
LEMMA CoordinatorTypeStep ==
    ASSUME CoordinatorInv, [CoordinatorNext]_allVars PROVE CoordinatorTypeOK'
<1>1. TypeOK'
  BY StepIsSpecified, TypeStep DEF CoordinatorInv, CoordinatorTypeOK
<1>2. /\ CoordinatorTypeOK /\ Dialogue
      /\ up \in BOOLEAN /\ epoch \in 1 .. MaxEpoch
      /\ workers \in [Workers -> Boots \cup {NoBoot}]
      /\ obs_hwm \in [Workers -> 0 .. MaxRequests + 1]
      /\ client \in [Connections -> ClientState]
      /\ wire \in [Connections -> Messages]
      /\ thread \in [Connections -> ThreadState]
      /\ owner \in [ReservationIds -> Connections \cup {NoBoot}]
      /\ retired \subseteq Boots /\ requests \in 0 .. MaxRequests
  BY CoordinatorTypes DEF CoordinatorInv
<1> DEFINE Typed ==
             /\ up' \in BOOLEAN /\ epoch' \in 1 .. MaxEpoch
             /\ workers' \in [Workers -> Boots \cup {NoBoot}]
             /\ obs_hwm' \in [Workers -> 0 .. MaxRequests + 1]
             /\ client' \in [Connections -> ClientState]
             /\ wire' \in [Connections -> Messages]
             /\ thread' \in [Connections -> ThreadState]
             /\ owner' \in [ReservationIds -> Connections \cup {NoBoot}]
             /\ retired' \subseteq Boots /\ requests' \in 0 .. MaxRequests
<1>3. Typed
  <2>1. ASSUME NEW c \in Connections,
               \/ Connect(c) \/ Registered(c) \/ Answered(c) \/ Lost(c) \/ Disconnected(c)
               \/ \E kind \in Kinds, boot \in Boots, ep \in 1 .. epoch, r \in ReservationIds \cup {0} :
                     Send(c, kind, boot, ep, r)
        PROVE  Typed
    BY <1>2, <2>1, ClientEffect DEF shared
  <2>2. ASSUME NEW c \in Connections, ServerRegister(c) PROVE Typed
    BY <1>2, <2>2, RegisterEffect
  <2>3. ASSUME NEW c \in Connections, ServerReceive(c) PROVE Typed
    <3>1. obs_hwm' \in [Workers -> 0 .. MaxRequests + 1]
      <4>1. wire[c] \in Request
        BY <1>2, <2>3, ReceiveEffect
      <4>2. wire[c].obs_gen \in 0 .. MaxRequests + 1
        BY <4>1 DEF Request
      <4> QED  BY <1>2, <2>3, <4>2, ReceiveEffect
    <3> QED  BY <1>2, <2>3, <3>1, ReceiveEffect
  <2>4. ASSUME NEW c \in Connections,
               ServerGreet(c) \/ ServerIngest(c) \/ ServerReserve(c) \/ ServerAct(c)
        PROVE  Typed
    BY <1>2, <2>4, ReplyEffect DEF shared
  <2>5. ASSUME NEW c \in Connections, NEW b \in BudgetIds, NEW power \in Powers,
               ServerPlan(c, b, power)
        PROVE  Typed
    BY <1>2, <2>5, PlanEffect DEF shared
  <2>6. ASSUME NEW c \in Connections, ServerClose(c) PROVE Typed
    BY <1>2, <2>6, CloseEffect DEF shared
  <2>7. ASSUME \/ \E b \in BudgetIds : \E d \in Definitions(b) : InstallBudget(b, d)
               \/ RollEpoch \/ Quit \/ UNCHANGED allVars
               \/ \E c \in Connections : ServerThrows(c)
        PROVE  Typed
    BY <1>2, <2>7, OperatorEffect
  <2> QED
    BY <2>1, <2>2, <2>3, <2>4, <2>5, <2>6, <2>7
       DEF CoordinatorNext, ServerStep, ClientReceives
<1> QED  BY <1>1, <1>3 DEF CoordinatorTypeOK, ClientState, ThreadState, Messages

-----------------------------------------------------------------------------
(* The dialogue of a connection.                                           *)

\* What each step of a worker process does to its own connection.
LEMMA ClientFacts ==
    ASSUME CoordinatorTypeOK, NEW c \in Connections
    PROVE  /\ Connect(c) =>
                /\ client[c].state = "new" /\ client'[c].state = "registering"
                /\ client'[c].ids = client[c].ids /\ client'[c].obs_gen = client[c].obs_gen
                /\ thread'[c].step = "register" /\ wire' = wire /\ requests' = requests
           /\ Registered(c) =>
                /\ client[c].state = "registering" /\ client'[c].state = "ready"
                /\ client'[c].ids = client[c].ids /\ client'[c].obs_gen = client[c].obs_gen
                /\ wire[c].kind = "ANSWER" /\ wire'[c] = Nothing
                /\ thread' = thread /\ requests' = requests
           /\ Answered(c) =>
                /\ client[c].state = "waiting" /\ client'[c].state = "ready"
                /\ client'[c].ids = client[c].ids \cup ({wire[c].id} \ {0})
                /\ client'[c].obs_gen = client[c].obs_gen
                /\ wire[c].kind = "ANSWER" /\ wire'[c] = Nothing
                /\ thread' = thread /\ requests' = requests
           /\ Lost(c) \/ Disconnected(c) =>
                /\ client[c].state \in {"registering", "ready", "waiting"}
                /\ client'[c].state = "gone" /\ client'[c].obs_gen = 1 /\ client'[c].ids = {}
                /\ wire' = wire /\ thread' = thread /\ requests' = requests
<1>1. /\ client \in [Connections -> ClientState] /\ wire \in [Connections -> Messages]
      /\ thread \in [Connections -> ThreadState]
      /\ client[c] \in ClientState /\ thread[c] \in ThreadState
  BY CoordinatorTypes
<1>2. ASSUME Connect(c)
      PROVE  /\ client[c].state = "new" /\ client'[c].state = "registering"
             /\ client'[c].ids = client[c].ids /\ client'[c].obs_gen = client[c].obs_gen
             /\ thread'[c].step = "register" /\ wire' = wire /\ requests' = requests
  BY <1>1, <1>2 DEF Connect, ClientState, ThreadState
<1>3. ASSUME Registered(c)
      PROVE  /\ client[c].state = "registering" /\ client'[c].state = "ready"
             /\ client'[c].ids = client[c].ids /\ client'[c].obs_gen = client[c].obs_gen
             /\ wire[c].kind = "ANSWER" /\ wire'[c] = Nothing
             /\ thread' = thread /\ requests' = requests
  BY <1>1, <1>3 DEF Registered, ClientState
<1>4. ASSUME Answered(c)
      PROVE  /\ client[c].state = "waiting" /\ client'[c].state = "ready"
             /\ client'[c].ids = client[c].ids \cup ({wire[c].id} \ {0})
             /\ client'[c].obs_gen = client[c].obs_gen
             /\ wire[c].kind = "ANSWER" /\ wire'[c] = Nothing
             /\ thread' = thread /\ requests' = requests
  BY <1>1, <1>4 DEF Answered, ClientState
<1>5. ASSUME Lost(c) \/ Disconnected(c)
      PROVE  /\ client[c].state \in {"registering", "ready", "waiting"}
             /\ client'[c].state = "gone" /\ client'[c].obs_gen = 1 /\ client'[c].ids = {}
             /\ wire' = wire /\ thread' = thread /\ requests' = requests
  BY <1>1, <1>5 DEF Lost, Disconnected, Gone, first
<1> QED  BY <1>2, <1>3, <1>4, <1>5

\* A request goes out as it was put together, with a fresh generation if it is
\* an observation.
LEMMA SendFacts ==
    ASSUME CoordinatorTypeOK, NEW c \in Connections, NEW kind \in Kinds, NEW boot \in Boots,
           NEW ep \in 1 .. epoch, NEW r \in ReservationIds \cup {0}, Send(c, kind, boot, ep, r)
    PROVE  /\ client[c].state = "ready" /\ client'[c].state = "waiting"
           /\ client'[c].ids = client[c].ids
           /\ client'[c].obs_gen = IF kind \in Observations THEN client[c].obs_gen + 1
                                   ELSE client[c].obs_gen
           /\ wire'[c].kind = kind /\ wire'[c].boot = boot /\ wire'[c].epoch = ep
           /\ wire'[c].reservation = r /\ wire'[c].stale = Stale(boot, ep)
           /\ kind \in Observations => wire'[c].obs_gen = client[c].obs_gen
           /\ kind \in {"ACTIVATE", "RELEASE"} => r # 0
           /\ boot = BootOf[c] \/ Stale(boot, ep)
           /\ thread' = thread /\ requests' = requests + 1
<1>1. /\ client \in [Connections -> ClientState] /\ wire \in [Connections -> Messages]
      /\ client[c] \in ClientState
  BY CoordinatorTypes
<1> DEFINE m == [kind |-> kind, boot |-> boot, epoch |-> ep, reservation |-> r,
                 obs_gen |-> IF kind \in Observations THEN client[c].obs_gen ELSE 0,
                 stale |-> Stale(boot, ep)]
<1>2. wire'[c] = m
  BY <1>1 DEF Send, Observations
<1>3. /\ client[c].state = "ready" /\ client'[c].state = "waiting"
      /\ client'[c].ids = client[c].ids
      /\ client'[c].obs_gen = IF kind \in Observations THEN client[c].obs_gen + 1
                              ELSE client[c].obs_gen
  BY <1>1 DEF Send, ClientState, Observations
<1>4. /\ kind \in {"ACTIVATE", "RELEASE"} => r # 0
      /\ boot = BootOf[c] \/ Stale(boot, ep)
      /\ thread' = thread /\ requests' = requests + 1
  BY DEF Send
<1> QED  BY <1>2, <1>3, <1>4

\* Every step keeps the two sides of every connection in agreement.
LEMMA DialogueStep ==
    ASSUME CoordinatorInv, [CoordinatorNext]_allVars PROVE Dialogue'
<1>0. /\ CoordinatorTypeOK /\ Dialogue /\ requests \in Nat /\ requests' \in Nat
      /\ client \in [Connections -> ClientState] /\ client' \in [Connections -> ClientState]
      /\ wire \in [Connections -> Messages] /\ wire' \in [Connections -> Messages]
      /\ thread \in [Connections -> ThreadState] /\ thread' \in [Connections -> ThreadState]
  BY CoordinatorTypes, CoordinatorTypeStep
     DEF CoordinatorInv, CoordinatorTypeOK, ClientState, ThreadState, Messages
<1>1. \A d \in Connections : DialogueOf(d) /\ client[d].obs_gen \in Nat
  BY <1>0, CoordinatorTypes DEF Dialogue, ClientState
<1>a. ASSUME NEW d \in Connections, client'[d] = client[d], wire'[d] = wire[d],
             thread'[d] = thread[d], requests <= requests'
      PROVE  DialogueOf(d)'
  <2>1. client'[d].obs_gen <= requests' + 1
    BY <1>0, <1>1, <1>a DEF DialogueOf
  <2> QED  BY <1>1, <1>a, <2>1 DEF DialogueOf
<1>b. Nothing.kind = "nothing" /\ "nothing" \notin Kinds /\ "ANSWER" \notin Kinds
  BY DEF Nothing, Kinds
<1>2. ASSUME NEW c \in Connections,
             \/ Connect(c) \/ Registered(c) \/ Answered(c) \/ Lost(c) \/ Disconnected(c)
             \/ \E kind \in Kinds, boot \in Boots, ep \in 1 .. epoch, r \in ReservationIds \cup {0} :
                   Send(c, kind, boot, ep, r)
      PROVE  Dialogue'
  <2>1. ASSUME NEW d \in Connections, d # c PROVE DialogueOf(d)'
    BY <1>0, <1>2, <1>a, <2>1, ClientEffect
  <2>2. thread'[c].request = thread[c].request
    BY <1>0, <1>2, ClientEffect
  <2>3. ASSUME Connect(c) PROVE DialogueOf(c)'
    BY <1>0, <1>1, <1>b, <2>3, ClientFacts DEF DialogueOf, Busy
  <2>4. ASSUME Registered(c) \/ Answered(c) PROVE DialogueOf(c)'
    <3>1. /\ wire[c].kind = "ANSWER" /\ client'[c].state = "ready" /\ wire'[c] = Nothing
          /\ thread' = thread /\ requests' = requests /\ client'[c].obs_gen = client[c].obs_gen
      BY <1>0, <2>4, ClientFacts
    <3> QED  BY <1>0, <1>1, <1>b, <3>1 DEF DialogueOf, Busy
  <2>5. ASSUME Lost(c) \/ Disconnected(c) PROVE DialogueOf(c)'
    <3>1. /\ client'[c].state = "gone" /\ wire' = wire /\ thread' = thread
          /\ requests' = requests /\ client'[c].obs_gen = 1
      BY <1>0, <2>5, ClientFacts
    <3> QED  BY <1>0, <1>1, <3>1 DEF DialogueOf
  <2>6. ASSUME NEW kind \in Kinds, NEW boot \in Boots, NEW ep \in 1 .. epoch,
               NEW r \in ReservationIds \cup {0}, Send(c, kind, boot, ep, r)
        PROVE  DialogueOf(c)'
    <3>1. /\ client[c].state = "ready" /\ client'[c].state = "waiting"
          /\ client'[c].obs_gen \in {client[c].obs_gen, client[c].obs_gen + 1}
          /\ wire'[c].kind = kind /\ wire'[c].reservation = r
          /\ kind \in {"ACTIVATE", "RELEASE"} => r # 0
          /\ thread' = thread /\ requests' = requests + 1
      BY <1>0, <2>6, SendFacts
    <3> QED  BY <1>0, <1>1, <1>b, <3>1 DEF DialogueOf, Busy
  <2>7. DialogueOf(c)'
    BY <1>2, <2>3, <2>4, <2>5, <2>6
  <2> QED  BY <2>1, <2>7 DEF Dialogue
<1>3. ASSUME NEW c \in Connections, ServerRegister(c) PROVE Dialogue'
  <2>1. /\ thread[c].step = "register" /\ thread'[c].step = "greet"
        /\ \A d \in Connections \ {c} : thread'[d] = thread[d]
        /\ client' = client /\ wire' = wire /\ requests' = requests
    BY <1>0, <1>3, RegisterEffect
  <2>2. DialogueOf(c)'
    BY <1>0, <1>1, <2>1 DEF DialogueOf, Busy
  <2> QED  BY <1>0, <1>a, <2>1, <2>2 DEF Dialogue
<1>4. ASSUME NEW c \in Connections, ServerReceive(c) PROVE Dialogue'
  <2>1. /\ thread[c].step = "idle" /\ wire[c] \in Request /\ wire[c].kind \in Kinds
        /\ \A d \in Connections \ {c} : wire'[d] = wire[d] /\ thread'[d] = thread[d]
        /\ client' = client /\ requests' = requests
    BY <1>0, <1>4, ReceiveEffect
  <2>2. client[c].state \in {"waiting", "gone"}
    BY <1>1, <2>1 DEF DialogueOf
  <2>3. ASSUME wire'[c] = Nothing,
               thread'[c] = [step |-> CallFor(wire[c]), request |-> wire[c], id |-> 0],
               CallFor(wire[c]) \in {"ingest", "plan", "act"},
               CallFor(wire[c]) = "act" => wire[c].kind \in {"ACTIVATE", "RELEASE"}
        PROVE  DialogueOf(c)'
    BY <1>0, <1>1, <1>b, <2>1, <2>2, <2>3 DEF DialogueOf, Busy
  <2>4. ASSUME thread'[c] = [step |-> "idle", request |-> Nothing, id |-> 0],
               wire'[c] = IF client[c].state = "gone" THEN Nothing
                          ELSE [kind |-> "ANSWER", epoch |-> 0, id |-> 0]
        PROVE  DialogueOf(c)'
    BY <1>0, <1>1, <1>b, <2>1, <2>2, <2>4 DEF DialogueOf, Busy
  <2>5. DialogueOf(c)'
    BY <1>0, <1>4, <2>3, <2>4, ReceiveEffect
  <2> QED  BY <1>0, <1>a, <2>1, <2>5 DEF Dialogue
<1>5. ASSUME NEW c \in Connections,
             ServerGreet(c) \/ ServerIngest(c) \/ ServerReserve(c) \/ ServerAct(c)
      PROVE  Dialogue'
  <2>1. /\ thread[c].step \in {"greet", "ingest", "reserve", "act"} /\ wire[c] = Nothing
        /\ thread'[c] = [step |-> "idle", request |-> Nothing, id |-> 0]
        /\ \A d \in Connections \ {c} : wire'[d] = wire[d] /\ thread'[d] = thread[d]
        /\ client' = client /\ requests' = requests
    BY <1>5, ReplyEffect
  <2>2. PICK ep \in 0 .. MaxEpoch, id \in ReservationIds \cup {0} :
             /\ wire'[c] = IF client[c].state = "gone" THEN Nothing
                           ELSE [kind |-> "ANSWER", epoch |-> ep, id |-> id]
             /\ thread[c].step = "greet" => id = 0
    BY <1>5, ReplyEffect
  <2>3. client[c].state \notin {"new", "ready"}
    BY <1>1, <2>1 DEF DialogueOf
  <2>4. client[c].state = "registering" => thread[c].step = "greet"
    BY <1>1, <2>1 DEF DialogueOf, Busy
  <2>5. DialogueOf(c)'
    BY <1>0, <1>1, <1>b, <2>1, <2>2, <2>3, <2>4 DEF DialogueOf, Busy
  <2> QED  BY <1>0, <1>a, <2>1, <2>5 DEF Dialogue
<1>6. ASSUME NEW c \in Connections, NEW b \in BudgetIds, NEW power \in Powers,
             ServerPlan(c, b, power)
      PROVE  Dialogue'
  <2>1. /\ thread[c].step = "plan" /\ thread'[c].step = "reserve"
        /\ \A d \in Connections \ {c} : thread'[d] = thread[d]
        /\ client' = client /\ wire' = wire /\ requests' = requests
    BY <1>6, PlanEffect
  <2>2. DialogueOf(c)'
    BY <1>0, <1>1, <2>1 DEF DialogueOf, Busy
  <2> QED  BY <1>0, <1>a, <2>1, <2>2 DEF Dialogue
<1>7. ASSUME NEW c \in Connections, ServerClose(c) PROVE Dialogue'
  <2>1. /\ client[c].state = "gone" /\ thread'[c].step = "closed" /\ wire'[c] = Nothing
        /\ \A d \in Connections \ {c} : wire'[d] = wire[d] /\ thread'[d] = thread[d]
        /\ client' = client /\ requests' = requests
    BY <1>0, <1>7, CloseEffect
  <2>2. DialogueOf(c)'
    BY <1>0, <1>1, <1>b, <2>1 DEF DialogueOf, Busy
  <2> QED  BY <1>0, <1>a, <2>1, <2>2 DEF Dialogue
<1>8. ASSUME \/ \E b \in BudgetIds : \E d \in Definitions(b) : InstallBudget(b, d)
             \/ RollEpoch \/ Quit \/ UNCHANGED allVars
             \/ \E c \in Connections : ServerThrows(c)
      PROVE  Dialogue'
  BY <1>0, <1>8, <1>a, OperatorEffect DEF Dialogue
<1> QED
  BY <1>2, <1>3, <1>4, <1>5, <1>6, <1>7, <1>8 DEF CoordinatorNext, ServerStep, ClientReceives

\* A request leaves the wire, and its thread starts a call or waits again.
LEMMA ReceiveOutcome ==
    ASSUME CoordinatorTypeOK, NEW c \in Connections, ServerReceive(c)
    PROVE  /\ wire'[c].kind \in {"nothing", "ANSWER"}
           /\ thread'[c].step \in {"idle", "ingest", "plan", "act"}
           /\ thread'[c].step = "plan" => wire[c].kind = "RESERVE" /\ wire'[c] = Nothing
           /\ \/ thread'[c].request = Nothing
              \/ /\ thread'[c].request = wire[c]
                 /\ IF wire[c].kind \in Observations THEN fence_obs(c, wire[c])
                    ELSE fence_epoch_boot(wire[c])
<1> DEFINE call == CallFor(wire[c])
           started == /\ wire'[c] = Nothing
                      /\ thread'[c] = [step |-> call, request |-> wire[c], id |-> 0]
                      /\ call = "plan" => wire[c].kind = "RESERVE"
                      /\ call \in {"ingest", "plan", "act"}
                      /\ IF wire[c].kind \in Observations THEN fence_obs(c, wire[c])
                         ELSE fence_epoch_boot(wire[c])
           answered == /\ thread'[c] = [step |-> "idle", request |-> Nothing, id |-> 0]
                       /\ wire'[c] = IF client[c].state = "gone" THEN Nothing
                                     ELSE [kind |-> "ANSWER", epoch |-> 0, id |-> 0]
<1>1. started \/ answered
  BY ReceiveEffect
<1>2. Nothing.kind = "nothing"
  BY DEF Nothing
<1> HIDE DEF call
<1>3. CASE started
  BY <1>2, <1>3
<1>4. CASE answered
  BY <1>2, <1>4
<1> QED  BY <1>1, <1>3, <1>4

\* An answer to a call is all that it puts on the wire.
LEMMA ReplyOutcome ==
    ASSUME CoordinatorInv, NEW c \in Connections,
           ServerGreet(c) \/ ServerIngest(c) \/ ServerReserve(c) \/ ServerAct(c)
    PROVE  wire'[c].kind \in {"nothing", "ANSWER"}
<1>1. PICK ep \in 0 .. MaxEpoch, id \in ReservationIds \cup {0} :
          wire'[c] = IF client[c].state = "gone" THEN Nothing
                     ELSE [kind |-> "ANSWER", epoch |-> ep, id |-> id]
  BY ReplyEffect
<1> QED  BY <1>1 DEF Nothing

-----------------------------------------------------------------------------
(* The fence.                                                              *)

\* Only a registration changes who is current, no thread goes back to
\* registering, and epochs only grow.
LEMMA SharedStep ==
    ASSUME CoordinatorInv, [CoordinatorNext]_allVars,
           ~ \E c \in Connections : ServerRegister(c)
    PROVE  /\ workers' = workers /\ retired' = retired /\ epoch <= epoch'
           /\ \A d \in Connections : thread'[d].step \in {"none", "register"} =>
                  thread[d].step \in {"none", "register"}
<1>0. /\ CoordinatorTypeOK /\ Dialogue /\ epoch \in Nat
      /\ \A d \in Connections : DialogueOf(d)
  BY CoordinatorTypes DEF CoordinatorInv, Dialogue
<1> DEFINE Kept == /\ workers' = workers /\ retired' = retired /\ epoch <= epoch'
                   /\ \A d \in Connections : thread'[d].step \in {"none", "register"} =>
                          thread[d].step \in {"none", "register"}
<1>1. ASSUME NEW c \in Connections,
             \/ Connect(c) \/ Registered(c) \/ Answered(c) \/ Lost(c) \/ Disconnected(c)
             \/ \E kind \in Kinds, boot \in Boots, ep \in 1 .. epoch, r \in ReservationIds \cup {0} :
                   Send(c, kind, boot, ep, r)
      PROVE  Kept
  <2>1. /\ workers' = workers /\ retired' = retired /\ epoch' = epoch
        /\ \A d \in Connections \ {c} : thread'[d] = thread[d]
    BY <1>0, <1>1, ClientEffect DEF shared
  <2>2. Connect(c) => thread[c].step = "none"
    BY <1>0 DEF DialogueOf, Connect
  <2>3. thread'[c] = thread[c] \/ Connect(c)
    BY <1>1 DEF Registered, Answered, Lost, Disconnected, Send
  <2> QED  BY <1>0, <2>1, <2>2, <2>3
<1>2. ASSUME NEW c \in Connections, ServerReceive(c) PROVE Kept
  <2>1. /\ workers' = workers /\ retired' = retired /\ epoch' = epoch
        /\ \A d \in Connections \ {c} : thread'[d] = thread[d]
        /\ thread[c].step = "idle"
    BY <1>0, <1>2, ReceiveEffect
  <2>2. thread'[c].step \in {"idle", "ingest", "plan", "act"}
    BY <1>0, <1>2, ReceiveOutcome
  <2> QED  BY <1>0, <2>1, <2>2
<1>3. ASSUME NEW c \in Connections,
             ServerGreet(c) \/ ServerIngest(c) \/ ServerReserve(c) \/ ServerAct(c)
      PROVE  Kept
  <2>1. /\ workers' = workers /\ retired' = retired /\ epoch' = epoch
        /\ \A d \in Connections \ {c} : thread'[d] = thread[d]
        /\ thread'[c].step = "idle"
    BY <1>3, ReplyEffect DEF shared
  <2> QED  BY <1>0, <2>1
<1>4. ASSUME NEW c \in Connections, NEW b \in BudgetIds, NEW power \in Powers,
             ServerPlan(c, b, power)
      PROVE  Kept
  <2>1. /\ workers' = workers /\ retired' = retired /\ epoch' = epoch
        /\ \A d \in Connections \ {c} : thread'[d] = thread[d]
        /\ thread'[c].step = "reserve"
    BY <1>4, PlanEffect DEF shared
  <2> QED  BY <1>0, <2>1
<1>5. ASSUME NEW c \in Connections, ServerClose(c) PROVE Kept
  <2>1. /\ workers' = workers /\ retired' = retired /\ epoch' = epoch
        /\ \A d \in Connections \ {c} : thread'[d] = thread[d]
        /\ thread'[c].step = "closed"
    BY <1>0, <1>5, CloseEffect DEF shared
  <2> QED  BY <1>0, <2>1
<1>6. ASSUME \/ \E b \in BudgetIds : \E d \in Definitions(b) : InstallBudget(b, d)
             \/ RollEpoch \/ Quit \/ UNCHANGED allVars
             \/ \E c \in Connections : ServerThrows(c)
      PROVE  Kept
  BY <1>0, <1>6, OperatorEffect
<1> HIDE DEF Kept
<1>7. Kept
  BY <1>1, <1>2, <1>3, <1>4, <1>5, <1>6 DEF CoordinatorNext, ServerStep, ClientReceives
<1> QED  BY <1>7 DEF Kept

\* No boot becomes current twice.
LEMMA BootsOnceStep ==
    ASSUME CoordinatorInv, [CoordinatorNext]_allVars PROVE BootsOnce'
<1>0. CoordinatorTypeOK /\ BootsOnce
  BY DEF CoordinatorInv
<1>1. ASSUME NEW c \in Connections, ServerRegister(c) PROVE BootsOnce'
  <2> DEFINE w == WorkerOf[c]
  <2>1. /\ thread[c].step = "register" /\ thread'[c].step = "greet"
        /\ \A d \in Connections \ {c} : thread'[d] = thread[d]
        /\ workers'[w] = BootOf[c] /\ \A v \in Workers \ {w} : workers'[v] = workers[v]
        /\ retired' = retired \cup ({workers[w]} \ {NoBoot})
    BY <1>0, <1>1, RegisterEffect
  <2>2. w \in Workers /\ workers[w] \in Boots \cup {NoBoot} /\ NoBoot \notin Boots
    BY <1>0, CoordinatorTypes, CoordinatorAssumption
  <2>3. \A d \in Connections : d # c => BootOf[d] # BootOf[c]
    BY CoordinatorAssumption
  <2>4. BootOf[c] \notin retired /\ \A v \in Workers : workers[v] # BootOf[c]
    BY <1>0, <2>1 DEF BootsOnce
  <2>5. ASSUME NEW d \in Connections, thread'[d].step \in {"none", "register"}
        PROVE  BootOf[d] \notin retired' /\ \A v \in Workers : workers'[v] # BootOf[d]
    <3>1. d # c /\ thread[d].step \in {"none", "register"}
      BY <2>1, <2>5
    <3>2. BootOf[d] \notin retired /\ \A v \in Workers : workers[v] # BootOf[d]
      BY <1>0, <3>1 DEF BootsOnce
    <3> QED  BY <2>1, <2>2, <2>3, <3>1, <3>2
  <2>6. ASSUME NEW v \in Workers PROVE workers'[v] \notin retired'
    <3>1. CASE v = w
      BY <2>1, <2>2, <2>4, <3>1
    <3>2. CASE v # w
      <4>1. workers'[v] = workers[v] /\ workers[v] \notin retired
        BY <1>0, <2>1, <3>2 DEF BootsOnce
      <4>2. ASSUME workers[v] = workers[w], workers[w] # NoBoot PROVE FALSE
        <5>1. PICK d \in Connections : workers[w] = BootOf[d]
          BY <2>2, <4>2 DEF Boots
        <5>2. v = WorkerOf[d] /\ w = WorkerOf[d]
          BY <1>0, <2>2, <4>2, <5>1 DEF BootsOnce
        <5> QED  BY <3>2, <5>2
      <4> QED  BY <2>1, <4>1, <4>2
    <3> QED  BY <3>1, <3>2
  <2>7. ASSUME NEW d \in Connections, NEW v \in Workers, workers'[v] = BootOf[d]
        PROVE  v = WorkerOf[d]
    BY <1>0, <2>1, <2>2, <2>3, <2>7 DEF BootsOnce
  <2> QED  BY <2>5, <2>6, <2>7 DEF BootsOnce
<1>2. ASSUME ~ \E c \in Connections : ServerRegister(c) PROVE BootsOnce'
  BY <1>0, <1>2, SharedStep DEF BootsOnce
<1> QED  BY <1>1, <1>2

\* A request stays as stale as it was when it was sent.
LEMMA RequestAuthorityStep ==
    ASSUME CoordinatorInv, [CoordinatorNext]_allVars PROVE RequestAuthority'
<1>0. /\ CoordinatorTypeOK /\ Dialogue /\ RequestAuthority
      /\ epoch \in Nat /\ epoch' \in Nat
      /\ wire \in [Connections -> Messages] /\ wire' \in [Connections -> Messages]
      /\ client \in [Connections -> ClientState] /\ client' \in [Connections -> ClientState]
  BY CoordinatorTypes, CoordinatorTypeStep
     DEF CoordinatorInv, CoordinatorTypeOK, Messages, ClientState
<1>1. epoch <= epoch' /\ retired \subseteq retired'
  <2>1. ASSUME NEW c \in Connections, ServerRegister(c)
        PROVE  epoch <= epoch' /\ retired \subseteq retired'
    BY <1>0, <2>1, RegisterEffect
  <2> QED  BY <2>1, SharedStep
<1>2. ASSUME NEW d \in Connections, wire[d].kind \in Kinds
      PROVE  wire[d] \in Request /\ wire[d].epoch \in Nat /\ wire[d].obs_gen \in Nat
  <2>1. wire[d] \in Messages
    BY <1>0
  <2>2. wire[d] \in Request
    BY <1>2, <2>1 DEF Messages, Nothing, Answer, Kinds
  <2> QED  BY <2>2 DEF Request
<1>3. \A d \in Connections : client[d].obs_gen \in Nat /\ client'[d].obs_gen \in Nat
  BY <1>0, CoordinatorTypes DEF ClientState
<1> DEFINE Fine(d) == wire'[d].kind \in Kinds =>
                         IF wire'[d].stale THEN wire'[d].epoch < epoch' \/ wire'[d].boot \in retired'
                         ELSE /\ wire'[d].boot = BootOf[d]
                              /\ wire'[d].kind \in Observations /\ client'[d].state # "gone" =>
                                     wire'[d].obs_gen < client'[d].obs_gen
<1>a. ASSUME NEW d \in Connections, wire'[d] = wire[d],
             client'[d].state = "gone" \/
             (client[d].state # "gone" /\ client[d].obs_gen <= client'[d].obs_gen)
      PROVE  Fine(d)
  <2> SUFFICES ASSUME wire[d].kind \in Kinds PROVE Fine(d)
    BY <1>a
  <2>1. IF wire[d].stale THEN wire[d].epoch < epoch \/ wire[d].boot \in retired
        ELSE /\ wire[d].boot = BootOf[d]
             /\ wire[d].kind \in Observations /\ client[d].state # "gone" =>
                    wire[d].obs_gen < client[d].obs_gen
    BY <1>0 DEF RequestAuthority
  <2>2. wire[d].epoch \in Nat /\ wire[d].obs_gen \in Nat
    BY <1>2
  <2>3. CASE wire[d].stale
    BY <1>0, <1>1, <1>a, <2>1, <2>2, <2>3
  <2>4. CASE ~ wire[d].stale
    BY <1>3, <1>a, <2>1, <2>2, <2>4
  <2> QED  BY <2>3, <2>4
<1>b. ASSUME NEW d \in Connections, wire'[d] = wire[d], client'[d] = client[d] PROVE Fine(d)
  BY <1>3, <1>a, <1>b
<1>c. ASSUME NEW d \in Connections, wire'[d].kind \in {"nothing", "ANSWER"} PROVE Fine(d)
  BY <1>c DEF Kinds
<1>d. Nothing.kind = "nothing"
  BY DEF Nothing
<1>4. ASSUME NEW c \in Connections, Connect(c) \/ Registered(c) \/ Answered(c) \/ Lost(c) \/ Disconnected(c),
             NEW d \in Connections
      PROVE  Fine(d)
  <2>1. CASE d # c
    BY <1>0, <1>4, <1>b, <2>1, ClientEffect
  <2>2. CASE d = c
    <3>1. CASE Connect(c)
      <4>1. client[c].state = "new" /\ wire'[c] = wire[c] /\ client'[c].obs_gen = client[c].obs_gen
        BY <1>0, <3>1, ClientFacts
      <4> QED  BY <1>3, <1>a, <2>2, <4>1
    <3>2. CASE Registered(c) \/ Answered(c)
      <4>1. wire'[c] = Nothing
        BY <1>0, <3>2, ClientFacts
      <4> QED  BY <1>c, <1>d, <2>2, <4>1
    <3>3. CASE Lost(c) \/ Disconnected(c)
      <4>1. client'[c].state = "gone" /\ wire'[c] = wire[c]
        BY <1>0, <3>3, ClientFacts
      <4> QED  BY <1>a, <2>2, <4>1
    <3> QED  BY <1>4, <3>1, <3>2, <3>3
  <2> QED  BY <2>1, <2>2
<1>5. ASSUME NEW c \in Connections, NEW kind \in Kinds, NEW boot \in Boots, NEW ep \in 1 .. epoch,
             NEW r \in ReservationIds \cup {0}, Send(c, kind, boot, ep, r), NEW d \in Connections
      PROVE  Fine(d)
  <2>1. CASE d # c
    BY <1>0, <1>5, <1>b, <2>1, ClientEffect
  <2>2. CASE d = c
    <3>1. /\ client'[c].obs_gen = IF kind \in Observations THEN client[c].obs_gen + 1
                                  ELSE client[c].obs_gen
          /\ wire'[c].kind = kind /\ wire'[c].boot = boot /\ wire'[c].epoch = ep
          /\ wire'[c].stale = Stale(boot, ep)
          /\ kind \in Observations => wire'[c].obs_gen = client[c].obs_gen
          /\ boot = BootOf[c] \/ Stale(boot, ep)
      BY <1>0, <1>5, SendFacts
    <3>2. Stale(boot, ep) => ep < epoch' \/ boot \in retired'
      BY <1>0, <1>1 DEF Stale
    <3> QED  BY <1>3, <2>2, <3>1, <3>2
  <2> QED  BY <2>1, <2>2
<1>6. ASSUME NEW c \in Connections, NEW d \in Connections,
             \/ ServerRegister(c) \/ ServerReceive(c)
             \/ ServerGreet(c) \/ ServerIngest(c) \/ ServerReserve(c) \/ ServerAct(c)
             \/ (\E b \in BudgetIds, power \in Powers : ServerPlan(c, b, power))
             \/ ServerClose(c)
      PROVE  Fine(d)
  <2>1. client' = client
    BY <1>0, <1>6, RegisterEffect, ReceiveEffect, ReplyEffect, PlanEffect, CloseEffect
  <2>2. wire'[d] = wire[d] \/ wire'[d].kind \in {"nothing", "ANSWER"}
    <3>1. CASE ServerRegister(c)
      BY <1>0, <3>1, RegisterEffect
    <3>2. CASE ServerReceive(c)
      BY <1>0, <3>2, ReceiveEffect, ReceiveOutcome, ZenonT(60)
    <3>3. CASE ServerGreet(c) \/ ServerIngest(c) \/ ServerReserve(c) \/ ServerAct(c)
      BY <3>3, ReplyEffect, ReplyOutcome
    <3>4. CASE \E b \in BudgetIds, power \in Powers : ServerPlan(c, b, power)
      BY <3>4, PlanEffect
    <3>5. CASE ServerClose(c)
      BY <1>0, <1>d, <3>5, CloseEffect
    <3> QED  BY <1>6, <3>1, <3>2, <3>3, <3>4, <3>5
  <2> QED  BY <1>b, <1>c, <2>1, <2>2
<1>7. ASSUME \/ \E b \in BudgetIds : \E d \in Definitions(b) : InstallBudget(b, d)
             \/ RollEpoch \/ Quit \/ UNCHANGED allVars
             \/ \E c \in Connections : ServerThrows(c),
             NEW d \in Connections
      PROVE  Fine(d)
  BY <1>0, <1>7, <1>b, OperatorEffect
<1> HIDE DEF Fine
<1>8. \A d \in Connections : Fine(d)
  BY <1>4, <1>5, <1>6, <1>7 DEF CoordinatorNext, ServerStep, ClientReceives
<1> QED  BY <1>8 DEF RequestAuthority, Fine

\* What a thread holds to work on is what it held, nothing, or a request that
\* has just passed the fence.
LEMMA RequestStep ==
    ASSUME CoordinatorInv, [CoordinatorNext]_allVars, NEW d \in Connections
    PROVE  thread'[d].request \in {thread[d].request, Nothing} \/ ServerReceive(d)
<1>0. CoordinatorTypeOK /\ Dialogue
  BY DEF CoordinatorInv
<1> DEFINE Kept == thread'[d].request \in {thread[d].request, Nothing} \/ ServerReceive(d)
<1>1. ASSUME NEW c \in Connections,
             \/ Connect(c) \/ Registered(c) \/ Answered(c) \/ Lost(c) \/ Disconnected(c)
             \/ \E kind \in Kinds, boot \in Boots, ep \in 1 .. epoch, r \in ReservationIds \cup {0} :
                   Send(c, kind, boot, ep, r)
      PROVE  Kept
  BY <1>0, <1>1, ClientEffect
<1>2. ASSUME NEW c \in Connections, ServerRegister(c) PROVE Kept
  BY <1>0, <1>2, RegisterEffect
<1>3. ASSUME NEW c \in Connections, ServerReceive(c) PROVE Kept
  <2>1. d # c => thread'[d] = thread[d]
    BY <1>0, <1>3, ReceiveEffect
  <2> QED  BY <1>3, <2>1
<1>4. ASSUME NEW c \in Connections,
             ServerGreet(c) \/ ServerIngest(c) \/ ServerReserve(c) \/ ServerAct(c)
      PROVE  Kept
  <2>1. /\ thread'[c].request = Nothing
        /\ \A e \in Connections \ {c} : thread'[e] = thread[e]
    BY <1>4, ReplyEffect
  <2> QED  BY <2>1
<1>5. ASSUME NEW c \in Connections, NEW b \in BudgetIds, NEW power \in Powers,
             ServerPlan(c, b, power)
      PROVE  Kept
  BY <1>5, PlanEffect
<1>6. ASSUME NEW c \in Connections, ServerClose(c) PROVE Kept
  BY <1>0, <1>6, CloseEffect
<1>7. ASSUME \/ \E b \in BudgetIds : \E e \in Definitions(b) : InstallBudget(b, e)
             \/ RollEpoch \/ Quit \/ UNCHANGED allVars
             \/ \E c \in Connections : ServerThrows(c)
      PROVE  Kept
  BY <1>0, <1>7, OperatorEffect
<1> HIDE DEF Kept
<1>8. Kept
  BY <1>1, <1>2, <1>3, <1>4, <1>5, <1>6, <1>7 DEF CoordinatorNext, ServerStep, ClientReceives
<1> QED  BY <1>8 DEF Kept

\* Whatever passes the fence was sent by the connection's own process and was
\* not stale: the boot of a stale request of this epoch is retired, and no
\* registered boot is.
LEMMA FencePassesOwn ==
    ASSUME CoordinatorInv, NEW c \in Connections, wire[c] \in Request,
           IF wire[c].kind \in Observations THEN fence_obs(c, wire[c])
           ELSE fence_epoch_boot(wire[c])
    PROVE  /\ ~ wire[c].stale /\ wire[c].boot = BootOf[c]
           /\ wire[c].kind \in Observations /\ client[c].state # "gone" =>
                  wire[c].obs_gen < client[c].obs_gen
<1>1. /\ wire[c].kind \in Kinds /\ wire[c].epoch \in Nat /\ WorkerOf[c] \in Workers
  BY CoordinatorTypes DEF Request
<1>2. wire[c].epoch = epoch /\ \E w \in Workers : workers[w] = wire[c].boot
  BY <1>1 DEF fence_obs, fence_epoch_boot
<1>3. wire[c].boot \notin retired
  BY <1>2 DEF CoordinatorInv, BootsOnce
<1>4. ~ wire[c].epoch < epoch
  BY <1>1, <1>2
<1>5. ~ wire[c].stale
  BY <1>1, <1>3, <1>4 DEF CoordinatorInv, RequestAuthority
<1> QED  BY <1>1, <1>5 DEF CoordinatorInv, RequestAuthority

\* No stale request gets past the fence.
LEMMA StaleStep ==
    ASSUME CoordinatorInv, [CoordinatorNext]_allVars PROVE StaleRequestsHaveNoEffect'
<1>0. CoordinatorTypeOK /\ StaleRequestsHaveNoEffect
  BY DEF CoordinatorInv
<1>1. ASSUME NEW d \in Connections, thread'[d].request # Nothing
      PROVE  ~ thread'[d].request.stale
  <2>1. CASE thread'[d].request = thread[d].request
    BY <1>0, <1>1, <2>1 DEF StaleRequestsHaveNoEffect
  <2>2. CASE ServerReceive(d)
    <3>1. /\ wire[d] \in Request /\ thread'[d].request = wire[d]
          /\ IF wire[d].kind \in Observations THEN fence_obs(d, wire[d])
             ELSE fence_epoch_boot(wire[d])
      BY <1>0, <1>1, <2>2, ReceiveEffect, ReceiveOutcome
    <3> QED  BY <3>1, FencePassesOwn
  <2> QED  BY <1>1, <2>1, <2>2, RequestStep
<1> QED  BY <1>1 DEF StaleRequestsHaveNoEffect

\* The high-water mark moves only to what the registered process has sent, and
\* back to null when another one registers.
LEMMA FreshBootStep ==
    ASSUME CoordinatorInv, [CoordinatorNext]_allVars PROVE FreshBootNotMuted'
<1>0. /\ CoordinatorTypeOK /\ Dialogue /\ FreshBootNotMuted
      /\ client \in [Connections -> ClientState] /\ client' \in [Connections -> ClientState]
      /\ workers \in [Workers -> Boots \cup {NoBoot}] /\ WorkerOf \in [Connections -> Workers]
      /\ obs_hwm \in [Workers -> 0 .. MaxRequests + 1]
  BY CoordinatorTypes, CoordinatorTypeStep DEF CoordinatorInv, CoordinatorTypeOK, ClientState
<1>1. \A d \in Connections :
          /\ client[d].obs_gen \in Nat /\ client'[d].obs_gen \in Nat /\ 0 < client[d].obs_gen
          /\ WorkerOf[d] \in Workers /\ obs_hwm[WorkerOf[d]] \in Nat
  BY <1>0, CoordinatorTypes DEF ClientState
<1> DEFINE Heard(d) == workers'[WorkerOf[d]] = BootOf[d] /\ client'[d].state # "gone" =>
                           obs_hwm'[WorkerOf[d]] < client'[d].obs_gen
<1>a. \A d \in Connections : workers[WorkerOf[d]] = BootOf[d] /\ client[d].state # "gone" =>
                           obs_hwm[WorkerOf[d]] < client[d].obs_gen
  BY <1>0 DEF FreshBootNotMuted
<1>2. ASSUME NEW c \in Connections, NEW d \in Connections,
             \/ Connect(c) \/ Registered(c) \/ Answered(c) \/ Lost(c) \/ Disconnected(c)
             \/ \E kind \in Kinds, boot \in Boots, ep \in 1 .. epoch, r \in ReservationIds \cup {0} :
                   Send(c, kind, boot, ep, r)
      PROVE  Heard(d)
  <2>1. /\ workers' = workers /\ obs_hwm' = obs_hwm
        /\ d # c => client'[d] = client[d]
        /\ client[c].obs_gen <= client'[c].obs_gen \/ client'[c].state = "gone"
    BY <1>0, <1>2, ClientEffect DEF shared
  <2>2. client[c].state # "gone"
    BY <1>2 DEF Connect, Registered, Answered, Lost, Disconnected, Send
  <2> QED  BY <1>1, <1>a, <2>1, <2>2
<1>3. ASSUME NEW c \in Connections, NEW d \in Connections, ServerRegister(c) PROVE Heard(d)
  <2>1. /\ workers'[WorkerOf[c]] = BootOf[c] /\ obs_hwm'[WorkerOf[c]] = 0
        /\ \A w \in Workers \ {WorkerOf[c]} : workers'[w] = workers[w] /\ obs_hwm'[w] = obs_hwm[w]
        /\ client' = client
    BY <1>0, <1>3, RegisterEffect
  <2>2. d # c => BootOf[d] # BootOf[c]
    BY CoordinatorAssumption
  <2> QED  BY <1>1, <1>a, <2>1, <2>2
<1>4. ASSUME NEW c \in Connections, NEW d \in Connections, ServerReceive(c) PROVE Heard(d)
  <2>1. /\ wire[c] \in Request /\ workers' = workers /\ client' = client
        /\ \/ obs_hwm' = obs_hwm
           \/ /\ wire[c].kind \in Observations /\ fence_obs(c, wire[c])
              /\ obs_hwm' = [obs_hwm EXCEPT ![WorkerOf[c]] = wire[c].obs_gen]
    BY <1>0, <1>4, ReceiveEffect
  <2>2. CASE obs_hwm' = obs_hwm
    BY <1>a, <2>1, <2>2
  <2>3. CASE /\ wire[c].kind \in Observations /\ fence_obs(c, wire[c])
             /\ obs_hwm' = [obs_hwm EXCEPT ![WorkerOf[c]] = wire[c].obs_gen]
    <3>1. /\ wire[c].boot = BootOf[c]
          /\ client[c].state # "gone" => wire[c].obs_gen < client[c].obs_gen
      BY <2>1, <2>3, FencePassesOwn
    <3>2. workers[WorkerOf[c]] = BootOf[c]
      BY <2>3, <3>1 DEF fence_obs
    <3>3. d # c => BootOf[d] # BootOf[c]
      BY CoordinatorAssumption
    <3>4. CASE WorkerOf[d] = WorkerOf[c]
      BY <1>0, <1>1, <2>1, <2>3, <3>1, <3>2, <3>3, <3>4
    <3>5. CASE WorkerOf[d] # WorkerOf[c]
      BY <1>0, <1>1, <1>a, <2>1, <2>3, <3>5
    <3> QED  BY <3>4, <3>5
  <2> QED  BY <2>1, <2>2, <2>3
<1>5. ASSUME NEW c \in Connections, NEW d \in Connections,
             \/ ServerGreet(c) \/ ServerIngest(c) \/ ServerReserve(c) \/ ServerAct(c)
             \/ (\E b \in BudgetIds, power \in Powers : ServerPlan(c, b, power))
             \/ ServerClose(c)
      PROVE  Heard(d)
  <2>1. workers' = workers /\ obs_hwm' = obs_hwm /\ client' = client
    BY <1>0, <1>5, ReplyEffect, PlanEffect, CloseEffect DEF shared
  <2> QED  BY <1>a, <2>1
<1>6. ASSUME \/ \E b \in BudgetIds : \E e \in Definitions(b) : InstallBudget(b, e)
             \/ RollEpoch \/ Quit \/ UNCHANGED allVars
             \/ \E c \in Connections : ServerThrows(c),
             NEW d \in Connections
      PROVE  Heard(d)
  BY <1>0, <1>6, <1>a, OperatorEffect
<1> HIDE DEF Heard
<1>7. \A d \in Connections : Heard(d)
  BY <1>2, <1>3, <1>4, <1>5, <1>6 DEF CoordinatorNext, ServerStep, ClientReceives
<1> QED  BY <1>7 DEF FreshBootNotMuted, Heard

-----------------------------------------------------------------------------
(* Who holds what.                                                         *)

\* Only ServerPlan enters a reservation, only a thread that has reserved one
\* grants it, and it answers with its id.
LEMMA LedgerStep ==
    ASSUME CoordinatorInv, [CoordinatorNext]_allVars,
           ~ \E c \in Connections, b \in BudgetIds, power \in Powers : ServerPlan(c, b, power)
    PROVE  /\ owner' = owner /\ clock' = clock
           /\ \A r \in ReservationIds :
                 /\ reservations'[r].state = "NONE" <=> reservations[r].state = "NONE"
                 /\ reservations[r].budget_generation = first =>
                       reservations'[r].budget_generation = first
                 /\ reservations'[r].state \in Granted =>
                       \/ reservations[r].state \in Granted
                       \/ client'[owner[r]].state = "gone"
                       \/ wire'[owner[r]].kind = "ANSWER" /\ wire'[owner[r]].id = r
           /\ \A d \in Connections : thread'[d].step = "reserve" => thread'[d] = thread[d]
<1>0. /\ CoordinatorTypeOK /\ Dialogue /\ TypeOK /\ Ownership
      /\ thread \in [Connections -> ThreadState]
  BY CoordinatorTypes DEF CoordinatorInv, CoordinatorTypeOK
<1> DEFINE Kept == reservations' = reservations /\ clock' = clock /\ owner' = owner
           Waits == \A d \in Connections : thread'[d].step = "reserve" => thread'[d] = thread[d]
           Goal == /\ owner' = owner /\ clock' = clock
                   /\ \A r \in ReservationIds :
                        /\ reservations'[r].state = "NONE" <=> reservations[r].state = "NONE"
                        /\ reservations[r].budget_generation = first =>
                              reservations'[r].budget_generation = first
                        /\ reservations'[r].state \in Granted =>
                              \/ reservations[r].state \in Granted
                              \/ client'[owner[r]].state = "gone"
                              \/ wire'[owner[r]].kind = "ANSWER" /\ wire'[owner[r]].id = r
                   /\ Waits
<1>a. ASSUME Kept, Waits PROVE Goal
  BY <1>a
<1>1. ASSUME NEW c \in Connections,
             \/ Connect(c) \/ Registered(c) \/ Answered(c) \/ Lost(c) \/ Disconnected(c)
             \/ \E kind \in Kinds, boot \in Boots, ep \in 1 .. epoch, r \in ReservationIds \cup {0} :
                   Send(c, kind, boot, ep, r)
      PROVE  Goal
  <2>1. Kept /\ \A d \in Connections \ {c} : thread'[d] = thread[d]
    BY <1>0, <1>1, ClientEffect DEF vars
  <2>2. thread' = thread \/ thread'[c].step = "register"
    BY <1>0, <1>1, ClientFacts, SendFacts
  <2>3. Waits
    BY <2>1, <2>2
  <2> QED  BY <1>a, <2>1, <2>3
<1>2. ASSUME NEW c \in Connections, ServerRegister(c) PROVE Goal
  <2>1. Kept /\ Waits
    BY <1>0, <1>2, RegisterEffect DEF vars
  <2> QED  BY <1>a, <2>1
<1>3. ASSUME NEW c \in Connections, ServerReceive(c) PROVE Goal
  <2>1. Kept /\ \A d \in Connections \ {c} : thread'[d] = thread[d]
    BY <1>0, <1>3, ReceiveEffect DEF vars
  <2>2. thread'[c].step # "reserve"
    BY <1>0, <1>3, ReceiveOutcome
  <2>3. Waits
    BY <2>1, <2>2
  <2> QED  BY <1>a, <2>1, <2>3
<1>4. ASSUME NEW c \in Connections, ServerGreet(c) \/ ServerIngest(c) PROVE Goal
  <2>1. owner' = owner /\ Waits
    BY <1>4, ReplyEffect
  <2>2. reservations' = reservations /\ clock' = clock
    BY <1>4 DEF ServerGreet, ServerIngest, vars
  <2> QED  BY <1>a, <2>1, <2>2
<1>5. ASSUME NEW c \in Connections, ServerAct(c) PROVE Goal
  <2> DEFINE x == thread[c].request.reservation
  <2>1. owner' = owner /\ Waits
    BY <1>5, ReplyEffect
  <2>2. x \in ReservationIds /\ reservations[x].state # "NONE"
    BY <1>5, ActsOnPlanned DEF ServerAct
  <2>3. activate_reservation(x, first, 0) \/ release_reservation(x, first) \/ UNCHANGED vars
    BY <1>5 DEF ServerAct
  <2> HIDE DEF x
  <2>4. /\ clock' = clock /\ reservations'[x].state # "NONE"
        /\ \A r \in ReservationIds \ {x} : reservations'[r] = reservations[r]
        /\ reservations[x].budget_generation = first => reservations'[x].budget_generation = first
        /\ reservations'[x].state \in Granted => reservations[x].state \in Granted
    BY <1>0, <2>2, <2>3, CallEffect
  <2> QED  BY <2>1, <2>2, <2>4
<1>6. ASSUME NEW c \in Connections, ServerReserve(c) PROVE Goal
  <2> DEFINE x == thread[c].id
  <2>1. owner' = owner /\ client' = client /\ Waits
    BY <1>6, ReplyEffect
  <2>2. x \in ReservationIds /\ reservations[x].state # "NONE" /\ owner[x] = c
    BY <1>0, <1>6 DEF ServerReserve, at, Ownership
  <2>3. \/ reserve_reservation(x, first, 1) /\ answer(c, 0, x)
        \/ UNCHANGED vars
    BY <1>6 DEF ServerReserve
  <2> HIDE DEF x
  <2>4. CASE UNCHANGED vars
    <3>1. reservations' = reservations /\ clock' = clock
      BY <2>4 DEF vars
    <3> QED  BY <1>a, <2>1, <3>1
  <2>5. CASE reserve_reservation(x, first, 1) /\ answer(c, 0, x)
    <3>1. /\ clock' = clock /\ reservations'[x].state # "NONE"
          /\ \A r \in ReservationIds \ {x} : reservations'[r] = reservations[r]
          /\ reservations[x].budget_generation = first => reservations'[x].budget_generation = first
      BY <1>0, <2>2, <2>5, CallEffect
    <3>2. wire'[c] = IF client[c].state = "gone" THEN Nothing
                     ELSE [kind |-> "ANSWER", epoch |-> 0, id |-> x]
      BY <1>0, <2>2, <2>5, AnswerEffect, CoordinatorTypes
    <3>3. client'[c].state = "gone" \/ (wire'[c].kind = "ANSWER" /\ wire'[c].id = x)
      BY <2>1, <3>2
    <3> QED  BY <2>1, <2>2, <3>1, <3>3
  <2> QED  BY <2>3, <2>4, <2>5
<1>7. ASSUME NEW c \in Connections, ServerClose(c) PROVE Goal
  <2>1. Kept /\ Waits
    BY <1>0, <1>7, CloseEffect DEF vars
  <2> QED  BY <1>a, <2>1
<1>8. ASSUME \/ \E b \in BudgetIds : \E d \in Definitions(b) : InstallBudget(b, d)
             \/ RollEpoch \/ Quit \/ UNCHANGED allVars
             \/ \E c \in Connections : ServerThrows(c)
      PROVE  Goal
  <2>1. Kept /\ Waits
    BY <1>0, <1>8, OperatorEffect
  <2> QED  BY <1>a, <2>1
<1> HIDE DEF Goal
<1>9. Goal
  BY <1>1, <1>2, <1>3, <1>4, <1>5, <1>6, <1>7, <1>8
     DEF CoordinatorNext, ServerStep, ClientReceives
<1> QED  BY <1>9 DEF Goal

\* A reservation gets its owner when it is planned, for good.
LEMMA OwnershipStep ==
    ASSUME CoordinatorInv, [CoordinatorNext]_allVars PROVE Ownership'
<1>0. Ownership
  BY DEF CoordinatorInv
<1>1. ASSUME NEW c \in Connections, NEW b \in BudgetIds, NEW power \in Powers,
             ServerPlan(c, b, power)
      PROVE  Ownership'
  <2> DEFINE n == NextId
  <2>1. /\ n \in ReservationIds /\ reservations[n].state = "NONE"
        /\ reservations'[n].state = "PLANNED" /\ owner'[n] = c /\ clock' = clock
        /\ \A r \in ReservationIds \ {n} : reservations'[r] = reservations[r] /\ owner'[r] = owner[r]
        /\ thread'[c].step = "reserve" /\ thread'[c].id = n
        /\ \A d \in Connections \ {c} : thread'[d] = thread[d]
    BY <1>1, PlanEffect
  <2> HIDE DEF n
  <2>2. \A d \in Connections \ {c} : thread[d].step = "reserve" => thread[d].id # n
    BY <1>0, <2>1 DEF Ownership
  <2> QED  BY <1>0, <2>1, <2>2 DEF Ownership
<1>2. ASSUME ~ \E c \in Connections, b \in BudgetIds, power \in Powers : ServerPlan(c, b, power)
      PROVE  Ownership'
  BY <1>0, <1>2, LedgerStep DEF Ownership
<1> QED  BY <1>1, <1>2

\* A step of one connection leaves the worker and the wire of another alone.
LEMMA OthersUntouched ==
    ASSUME CoordinatorInv, NEW c \in Connections, NEW d \in Connections, d # c,
           \/ Connect(d) \/ ClientReceives(d) \/ Lost(d) \/ ServerStep(d)
           \/ \E kind \in Kinds, boot \in Boots, ep \in 1 .. epoch, s \in ReservationIds \cup {0} :
                 Send(d, kind, boot, ep, s)
    PROVE  client'[c] = client[c] /\ wire'[c] = wire[c]
<1>0. CoordinatorTypeOK /\ Dialogue
  BY DEF CoordinatorInv
<1>1. CASE \/ Connect(d) \/ ClientReceives(d) \/ Lost(d)
           \/ \E kind \in Kinds, boot \in Boots, ep \in 1 .. epoch, s \in ReservationIds \cup {0} :
                 Send(d, kind, boot, ep, s)
  BY <1>0, <1>1, ClientEffect DEF ClientReceives
<1>2. CASE ServerStep(d)
  BY <1>0, <1>2, RegisterEffect, ReceiveEffect, ReplyEffect, PlanEffect, CloseEffect,
     OperatorEffect, ZenonT(60) DEF ServerStep
<1> QED  BY <1>1, <1>2

\* An id that a worker has, or that is on its way to it, is not lost while the
\* worker lives.
LEMMA ReachStep ==
    ASSUME CoordinatorInv, [CoordinatorNext]_allVars, NEW c \in Connections,
           NEW r \in ReservationIds,
           \/ client[c].state = "gone" \/ r \in client[c].ids
           \/ wire[c].kind = "ANSWER" /\ wire[c].id = r
    PROVE  \/ client'[c].state = "gone" \/ r \in client'[c].ids
           \/ wire'[c].kind = "ANSWER" /\ wire'[c].id = r
<1> DEFINE Has == \/ client'[c].state = "gone" \/ r \in client'[c].ids
                  \/ wire'[c].kind = "ANSWER" /\ wire'[c].id = r
<1>0. CoordinatorTypeOK /\ Dialogue /\ DialogueOf(c) /\ r # 0
  BY CoordinatorAssumption DEF CoordinatorInv, Dialogue
<1>a. Nothing.kind = "nothing" /\ "ANSWER" \notin Kinds
  BY DEF Nothing, Kinds
<1>1. ASSUME NEW d \in Connections, d # c,
             \/ Connect(d) \/ ClientReceives(d) \/ Lost(d) \/ ServerStep(d)
             \/ \E kind \in Kinds, boot \in Boots, ep \in 1 .. epoch, s \in ReservationIds \cup {0} :
                   Send(d, kind, boot, ep, s)
      PROVE  client'[c] = client[c] /\ wire'[c] = wire[c]
  BY <1>1, OthersUntouched
<1>2. ASSUME Connect(c) \/ ClientReceives(c) \/ Lost(c) PROVE Has
  <2>1. CASE Connect(c)
    BY <1>0, <2>1, ClientFacts
  <2>2. CASE Registered(c)
    BY <1>0, <2>2, ClientFacts DEF DialogueOf
  <2>3. CASE Answered(c)
    BY <1>0, <2>3, ClientFacts
  <2>4. CASE Lost(c) \/ Disconnected(c)
    BY <1>0, <2>4, ClientFacts
  <2> QED  BY <1>2, <2>1, <2>2, <2>3, <2>4 DEF ClientReceives
<1>3. ASSUME NEW kind \in Kinds, NEW boot \in Boots, NEW ep \in 1 .. epoch,
             NEW s \in ReservationIds \cup {0}, Send(c, kind, boot, ep, s)
      PROVE  Has
  BY <1>0, <1>3, <1>a, SendFacts DEF DialogueOf
<1>4. ASSUME ServerStep(c) PROVE Has
  <2>1. CASE ServerRegister(c) \/ ServerThrows(c)
             \/ \E b \in BudgetIds, power \in Powers : ServerPlan(c, b, power)
    BY <1>0, <2>1, RegisterEffect, PlanEffect, OperatorEffect
  <2>2. CASE ServerReceive(c)
    <3>1. client' = client /\ wire[c].kind # "ANSWER"
      BY <1>0, <1>a, <2>2, ReceiveEffect
    <3> QED  BY <3>1
  <2>3. CASE ServerGreet(c) \/ ServerIngest(c) \/ ServerReserve(c) \/ ServerAct(c)
    <3>1. client' = client /\ wire[c].kind # "ANSWER"
      BY <1>a, <2>3, ReplyEffect
    <3> QED  BY <3>1
  <2>4. CASE ServerClose(c)
    <3>1. client' = client /\ client[c].state = "gone"
      BY <1>0, <2>4, CloseEffect
    <3> QED  BY <3>1
  <2> QED  BY <1>4, <2>1, <2>2, <2>3, <2>4 DEF ServerStep
<1>5. ASSUME \/ \E b \in BudgetIds : \E d \in Definitions(b) : InstallBudget(b, d)
             \/ RollEpoch \/ Quit \/ UNCHANGED allVars
      PROVE  Has
  BY <1>0, <1>5, OperatorEffect
<1> HIDE DEF Has
<1>6. ASSUME client'[c] = client[c], wire'[c] = wire[c] PROVE Has
  BY <1>6 DEF Has
<1>7. Has
  BY <1>1, <1>2, <1>3, <1>4, <1>5, <1>6 DEF CoordinatorNext
<1> QED  BY <1>7 DEF Has

\* Whatever is granted stays within reach of its owner.
LEMMA GrantedStep ==
    ASSUME CoordinatorInv, [CoordinatorNext]_allVars PROVE GrantedReaches'
<1>1. ASSUME NEW r \in ReservationIds, reservations'[r].state \in Granted
      PROVE  \/ client'[owner'[r]].state = "gone"
             \/ r \in client'[owner'[r]].ids
             \/ wire'[owner'[r]].kind = "ANSWER" /\ wire'[owner'[r]].id = r
  <2>1. ASSUME reservations[r].state \in Granted, owner'[r] = owner[r]
        PROVE  \/ client'[owner'[r]].state = "gone"
               \/ r \in client'[owner'[r]].ids
               \/ wire'[owner'[r]].kind = "ANSWER" /\ wire'[owner'[r]].id = r
    <3>1. owner[r] \in Connections
      BY <2>1 DEF CoordinatorInv, Ownership, Granted
    <3>2. \/ client[owner[r]].state = "gone" \/ r \in client[owner[r]].ids
          \/ wire[owner[r]].kind = "ANSWER" /\ wire[owner[r]].id = r
      BY <2>1 DEF CoordinatorInv, GrantedReaches
    <3> QED  BY <2>1, <3>1, <3>2, ReachStep
  <2>2. ASSUME NEW c \in Connections, NEW b \in BudgetIds, NEW power \in Powers,
               ServerPlan(c, b, power)
        PROVE  reservations[r].state \in Granted /\ owner'[r] = owner[r]
    <3>1. /\ NextId \in ReservationIds /\ reservations'[NextId].state = "PLANNED"
          /\ \A x \in ReservationIds \ {NextId} :
                reservations'[x] = reservations[x] /\ owner'[x] = owner[x]
      BY <2>2, PlanEffect
    <3>2. r # NextId
      BY <1>1, <3>1 DEF Granted
    <3> QED  BY <1>1, <3>1, <3>2
  <2>3. ASSUME ~ \E c \in Connections, b \in BudgetIds, power \in Powers : ServerPlan(c, b, power)
        PROVE  /\ owner'[r] = owner[r]
               /\ \/ reservations[r].state \in Granted
                  \/ client'[owner[r]].state = "gone"
                  \/ wire'[owner[r]].kind = "ANSWER" /\ wire'[owner[r]].id = r
    BY <1>1, <2>3, LedgerStep
  <2> QED  BY <2>1, <2>2, <2>3
<1> QED  BY <1>1 DEF GrantedReaches

\* The only id that goes out is that of a reservation just reserved.
LEMMA ToldOnlyByReserve ==
    ASSUME CoordinatorInv, [CoordinatorNext]_allVars, NEW c \in Connections, NEW r,
           r \in Told(c)', r \notin Told(c)
    PROVE  ServerReserve(c) /\ r = thread[c].id /\ reserve_reservation(r, first, 1)
<1> DEFINE Granting == ServerReserve(c) /\ r = thread[c].id /\ reserve_reservation(r, first, 1)
<1>0. CoordinatorTypeOK /\ DialogueOf(c)
  BY DEF CoordinatorInv, Dialogue
<1>a. Nothing.kind = "nothing" /\ "ANSWER" \notin Kinds
  BY DEF Nothing, Kinds
<1>b. /\ r \in client'[c].ids \/ (wire'[c].kind = "ANSWER" /\ r = wire'[c].id /\ r # 0)
      /\ r \notin client[c].ids
      /\ ~ (wire[c].kind = "ANSWER" /\ r = wire[c].id /\ r # 0)
  BY DEF Told
<1>c. ~ (client'[c] = client[c] /\ wire'[c] = wire[c])
  BY <1>b
<1>1. ASSUME NEW d \in Connections, d # c,
             \/ Connect(d) \/ ClientReceives(d) \/ Lost(d) \/ ServerStep(d)
             \/ \E kind \in Kinds, boot \in Boots, ep \in 1 .. epoch, s \in ReservationIds \cup {0} :
                   Send(d, kind, boot, ep, s)
      PROVE  FALSE
  BY <1>1, <1>c, OthersUntouched
<1>2. ASSUME Connect(c) \/ ClientReceives(c) \/ Lost(c) PROVE FALSE
  <2>1. CASE Connect(c)
    BY <1>0, <1>b, <2>1, ClientFacts
  <2>2. CASE Registered(c)
    BY <1>0, <1>a, <1>b, <2>2, ClientFacts
  <2>3. CASE Answered(c)
    BY <1>0, <1>a, <1>b, <2>3, ClientFacts
  <2>4. CASE Lost(c) \/ Disconnected(c)
    BY <1>0, <1>b, <2>4, ClientFacts
  <2> QED  BY <1>2, <2>1, <2>2, <2>3, <2>4 DEF ClientReceives
<1>3. ASSUME NEW kind \in Kinds, NEW boot \in Boots, NEW ep \in 1 .. epoch,
             NEW s \in ReservationIds \cup {0}, Send(c, kind, boot, ep, s)
      PROVE  FALSE
  BY <1>0, <1>3, <1>a, <1>b, SendFacts
<1>4. ASSUME ServerStep(c) PROVE Granting
  <2>1. ASSUME ServerRegister(c) \/ ServerThrows(c)
               \/ \E b \in BudgetIds, power \in Powers : ServerPlan(c, b, power)
        PROVE  FALSE
    BY <1>0, <1>c, <2>1, RegisterEffect, PlanEffect, OperatorEffect
  <2>2. ASSUME ServerReceive(c) PROVE FALSE
    <3>1. /\ client' = client
          /\ \/ wire'[c] = Nothing
             \/ wire'[c] = [kind |-> "ANSWER", epoch |-> 0, id |-> 0]
      BY <1>0, <2>2, ReceiveEffect
    <3> QED  BY <1>a, <1>b, <3>1
  <2>3. ASSUME ServerClose(c) PROVE FALSE
    <3>1. client' = client /\ wire'[c] = Nothing
      BY <1>0, <2>3, CloseEffect
    <3> QED  BY <1>a, <1>b, <3>1
  <2>4. ASSUME NEW ep \in 0 .. MaxEpoch, answer(c, ep, 0), client' = client PROVE FALSE
    <3>1. wire'[c] = Nothing \/ wire'[c] = [kind |-> "ANSWER", epoch |-> ep, id |-> 0]
      BY <1>0, <2>4, AnswerEffect, CoordinatorTypes
    <3> QED  BY <1>a, <1>b, <2>4, <3>1
  <2>5. 0 \in 0 .. MaxEpoch /\ epoch \in 0 .. MaxEpoch
    BY <1>0, CoordinatorTypes
  <2>6. ASSUME ServerGreet(c) \/ ServerIngest(c) \/ ServerAct(c) PROVE FALSE
    <3>1. answer(c, epoch, 0) \/ answer(c, 0, 0)
      BY <2>6 DEF ServerGreet, ServerIngest, ServerAct
    <3>2. client' = client
      BY <2>6, ReplyEffect
    <3> QED  BY <2>4, <2>5, <3>1, <3>2
  <2>7. CASE ServerReserve(c)
    <3>1. client' = client
      BY <2>7, ReplyEffect
    <3>2. reserve_reservation(thread[c].id, first, 1) /\ answer(c, 0, thread[c].id)
      BY <2>4, <2>5, <2>7, <3>1 DEF ServerReserve
    <3>3. thread[c].id \in ReservationIds \cup {0}
      BY <1>0, CoordinatorTypes DEF ThreadState
    <3>4. \/ wire'[c] = Nothing
          \/ wire'[c] = [kind |-> "ANSWER", epoch |-> 0, id |-> thread[c].id]
      BY <1>0, <2>5, <3>2, <3>3, AnswerEffect, CoordinatorTypes
    <3>5. r = thread[c].id
      BY <1>a, <1>b, <3>1, <3>4
    <3> QED  BY <2>7, <3>2, <3>5
  <2> QED  BY <1>4, <2>1, <2>2, <2>3, <2>6, <2>7 DEF ServerStep
<1>5. ASSUME \/ \E b \in BudgetIds : \E d \in Definitions(b) : InstallBudget(b, d)
             \/ RollEpoch \/ Quit \/ UNCHANGED allVars
      PROVE  FALSE
  BY <1>0, <1>5, <1>c, OperatorEffect
<1> HIDE DEF Granting
<1>6. Granting
  BY <1>1, <1>2, <1>3, <1>4, <1>5 DEF CoordinatorNext
<1> QED  BY <1>6 DEF Granting

\* What a worker has been told stays reserved under the generation it was
\* granted under, and its own.
LEMMA ToldStep ==
    ASSUME CoordinatorInv, [CoordinatorNext]_allVars PROVE ToldAreOwn'
<1>0. CoordinatorTypeOK /\ TypeOK /\ Ownership /\ ToldAreOwn
  BY DEF CoordinatorInv, CoordinatorTypeOK
<1> SUFFICES ASSUME NEW c \in Connections, NEW r, r \in Told(c)'
             PROVE  /\ r \in ReservationIds /\ reservations'[r].state # "NONE" /\ owner'[r] = c
                    /\ reservations'[r].budget_generation = first
  BY DEF ToldAreOwn, first
<1> HIDE DEF first
<1>1. CASE r \in Told(c)
  <2>1. /\ r \in ReservationIds /\ reservations[r].state # "NONE" /\ owner[r] = c
        /\ reservations[r].budget_generation = first
    BY <1>0, <1>1 DEF ToldAreOwn
  <2>2. ASSUME NEW d \in Connections, NEW b \in BudgetIds, NEW power \in Powers,
               ServerPlan(d, b, power)
        PROVE  reservations'[r] = reservations[r] /\ owner'[r] = owner[r]
    BY <2>1, <2>2, PlanEffect
  <2> QED  BY <2>1, <2>2, LedgerStep
<1>2. CASE r \notin Told(c)
  <2>1. ServerReserve(c) /\ r = thread[c].id /\ reserve_reservation(r, first, 1)
    BY <1>2, ToldOnlyByReserve
  <2>2. /\ r \in ReservationIds /\ reservations[r].state # "NONE" /\ owner[r] = c
        /\ owner' = owner
    BY <1>0, <2>1, ReplyEffect DEF ServerReserve, at, Ownership
  <2>3. reservations \in [ReservationIds -> Reservation] /\ reservations[r] \in Reservation
    BY <1>0, <2>2 DEF TypeOK
  <2>4. reservations[r].created \in 0 .. MaxTime
    BY <2>3 DEF Reservation
  <2>5. ~ expired(r, 1)
    BY <2>4, ReservationAssumption DEF expired
  <2>6. reservations'[r].budget_generation = first /\ reservations'[r].state = "RESERVED"
    BY <2>1, <2>2, <2>3, <2>5 DEF reserve_reservation, Reservation
  <2> QED  BY <2>2, <2>6
<1> QED  BY <1>1, <1>2

\* Only a request brings in a RESERVE.
LEMMA PendingStep ==
    ASSUME CoordinatorInv, [CoordinatorNext]_allVars,
           ~ \E c \in Connections, b \in BudgetIds, power \in Powers : ServerPlan(c, b, power)
    PROVE  \/ Pending' \subseteq Pending /\ requests' = requests
           \/ \E c \in Connections : Pending' \subseteq Pending \cup {c} /\ requests' = requests + 1
<1>0. CoordinatorTypeOK /\ Dialogue
  BY DEF CoordinatorInv
<1> DEFINE Shrinks == Pending' \subseteq Pending /\ requests' = requests
<1>a. Nothing.kind = "nothing"
  BY DEF Nothing
<1>1. ASSUME NEW c \in Connections,
             Connect(c) \/ Registered(c) \/ Answered(c) \/ Lost(c) \/ Disconnected(c)
      PROVE  Shrinks
  <2>1. \A d \in Connections \ {c} : wire'[d] = wire[d] /\ thread'[d] = thread[d]
    BY <1>0, <1>1, ClientEffect
  <2>2. /\ requests' = requests /\ wire'[c] \in {wire[c], Nothing}
        /\ thread' = thread \/ thread'[c].step = "register"
    BY <1>0, <1>1, ClientFacts
  <2> QED  BY <1>a, <2>1, <2>2 DEF Pending
<1>2. ASSUME NEW c \in Connections, NEW kind \in Kinds, NEW boot \in Boots, NEW ep \in 1 .. epoch,
             NEW r \in ReservationIds \cup {0}, Send(c, kind, boot, ep, r)
      PROVE  Pending' \subseteq Pending \cup {c} /\ requests' = requests + 1
  <2>1. \A d \in Connections \ {c} : wire'[d] = wire[d] /\ thread'[d] = thread[d]
    BY <1>0, <1>2, ClientEffect
  <2>2. requests' = requests + 1
    BY <1>0, <1>2, SendFacts
  <2> QED  BY <2>1, <2>2 DEF Pending
<1>3. ASSUME NEW c \in Connections, ServerRegister(c) PROVE Shrinks
  <2>1. /\ requests' = requests /\ wire' = wire /\ thread'[c].step = "greet"
        /\ \A d \in Connections \ {c} : thread'[d] = thread[d]
    BY <1>0, <1>3, RegisterEffect
  <2> QED  BY <2>1 DEF Pending
<1>4. ASSUME NEW c \in Connections, ServerReceive(c) PROVE Shrinks
  <2>1. /\ requests' = requests
        /\ \A d \in Connections \ {c} : wire'[d] = wire[d] /\ thread'[d] = thread[d]
    BY <1>0, <1>4, ReceiveEffect
  <2>2. /\ wire'[c].kind \in {"nothing", "ANSWER"}
        /\ thread'[c].step = "plan" => wire[c].kind = "RESERVE"
    BY <1>0, <1>4, ReceiveOutcome
  <2> QED  BY <2>1, <2>2 DEF Pending
<1>5. ASSUME NEW c \in Connections,
             ServerGreet(c) \/ ServerIngest(c) \/ ServerReserve(c) \/ ServerAct(c)
      PROVE  Shrinks
  <2>1. /\ requests' = requests /\ thread'[c].step = "idle"
        /\ \A d \in Connections \ {c} : wire'[d] = wire[d] /\ thread'[d] = thread[d]
    BY <1>5, ReplyEffect
  <2>2. wire'[c].kind \in {"nothing", "ANSWER"}
    BY <1>5, ReplyOutcome
  <2> QED  BY <2>1, <2>2 DEF Pending
<1>6. ASSUME NEW c \in Connections, ServerClose(c) PROVE Shrinks
  <2>1. /\ requests' = requests /\ thread'[c].step = "closed" /\ wire'[c] = Nothing
        /\ \A d \in Connections \ {c} : wire'[d] = wire[d] /\ thread'[d] = thread[d]
    BY <1>0, <1>6, CloseEffect
  <2> QED  BY <1>a, <2>1 DEF Pending
<1>7. ASSUME \/ \E b \in BudgetIds : \E d \in Definitions(b) : InstallBudget(b, d)
             \/ RollEpoch \/ Quit \/ UNCHANGED allVars
             \/ \E c \in Connections : ServerThrows(c)
      PROVE  Shrinks
  BY <1>0, <1>7, OperatorEffect DEF Pending
<1> HIDE DEF Shrinks
<1>8. \/ Shrinks
      \/ \E c \in Connections : Pending' \subseteq Pending \cup {c} /\ requests' = requests + 1
  BY <1>1, <1>2, <1>3, <1>4, <1>5, <1>6, <1>7 DEF CoordinatorNext, ServerStep, ClientReceives
<1> QED  BY <1>8 DEF Shrinks

\* A reservation is planned out of a pending request.
LEMMA IdsStep ==
    ASSUME CoordinatorInv, [CoordinatorNext]_allVars PROVE IdsSuffice'
<1>0. /\ requests \in Nat /\ IsFiniteSet(Pending) /\ IsFiniteSet(Planned)
      /\ Cardinality(Pending) \in Nat /\ Cardinality(Planned) \in Nat
      /\ Cardinality(Planned) + Cardinality(Pending) <= requests
  <2>1. /\ requests \in Nat /\ IsFiniteSet(Pending)
        /\ Cardinality(Planned) + Cardinality(Pending) <= requests
    BY CoordinatorTypes DEF CoordinatorInv, IdsSuffice
  <2>2. Planned \in SUBSET ReservationIds /\ IsFiniteSet(ReservationIds)
    BY ReservationAssumption DEF Planned
  <2> QED  BY <2>1, <2>2, FS_Subset, FS_CardinalityType
<1>1. ASSUME NEW c \in Connections, NEW b \in BudgetIds, NEW power \in Powers,
             ServerPlan(c, b, power)
      PROVE  IdsSuffice'
  <2> DEFINE n == NextId
  <2>1. /\ n \in ReservationIds /\ reservations[n].state = "NONE"
        /\ reservations'[n].state = "PLANNED"
        /\ \A r \in ReservationIds \ {n} : reservations'[r] = reservations[r]
        /\ thread[c].step = "plan" /\ thread'[c].step = "reserve"
        /\ \A d \in Connections \ {c} : thread'[d] = thread[d]
        /\ wire' = wire /\ requests' = requests
    BY <1>1, PlanEffect
  <2> HIDE DEF n
  <2>2. wire[c].kind = "nothing"
    BY <2>1 DEF CoordinatorInv, Dialogue, DialogueOf, Nothing
  <2>3. Planned' = Planned \cup {n} /\ n \notin Planned
    BY <2>1 DEF Planned
  <2>4. Pending' = Pending \ {c} /\ c \in Pending
    BY <2>1, <2>2 DEF Pending
  <2>5. Cardinality(Planned') = Cardinality(Planned) + 1
    BY <1>0, <2>3, FS_AddElement
  <2>6. IsFiniteSet(Pending') /\ Cardinality(Pending') = Cardinality(Pending) - 1
    BY <1>0, <2>4, FS_RemoveElement
  <2> QED  BY <1>0, <2>1, <2>5, <2>6 DEF IdsSuffice
<1>2. ASSUME ~ \E c \in Connections, b \in BudgetIds, power \in Powers : ServerPlan(c, b, power)
      PROVE  IdsSuffice'
  <2>1. Planned' = Planned
    BY <1>2, LedgerStep DEF Planned
  <2>2. CASE Pending' \subseteq Pending /\ requests' = requests
    <3>1. /\ IsFiniteSet(Pending') /\ Cardinality(Pending') \in Nat
          /\ Cardinality(Pending') <= Cardinality(Pending)
      BY <1>0, <2>2, FS_Subset, FS_CardinalityType
    <3> QED  BY <1>0, <2>1, <2>2, <3>1 DEF IdsSuffice
  <2>3. ASSUME NEW c \in Connections, Pending' \subseteq Pending \cup {c}, requests' = requests + 1
        PROVE  IdsSuffice'
    <3> DEFINE P == Pending \cup {c}
    <3>1. IsFiniteSet(P) /\ Cardinality(P) \in Nat /\ Cardinality(P) <= Cardinality(Pending) + 1
      <4>1. CASE c \in Pending
        <5>1. P = Pending
          BY <4>1
        <5> HIDE DEF P
        <5> QED  BY <1>0, <5>1
      <4>2. CASE c \notin Pending
        <5>1. IsFiniteSet(P) /\ Cardinality(P) = Cardinality(Pending) + 1
          BY <1>0, <4>2, FS_AddElement
        <5> QED  BY <1>0, <5>1
      <4> QED  BY <4>1, <4>2
    <3>2. /\ IsFiniteSet(Pending') /\ Cardinality(Pending') \in Nat
          /\ Cardinality(Pending') <= Cardinality(P)
      BY <2>3, <3>1, FS_Subset, FS_CardinalityType
    <3> HIDE DEF P
    <3> QED  BY <1>0, <2>1, <2>3, <3>1, <3>2 DEF IdsSuffice
  <2> QED  BY <1>2, <2>2, <2>3, PendingStep
<1> QED  BY <1>1, <1>2

-----------------------------------------------------------------------------
(* The theorems.                                                           *)

\* Nobody has connected yet.
LEMMA CoordinatorInvInit == CoordinatorInit => CoordinatorInv
<1> SUFFICES ASSUME CoordinatorInit PROVE CoordinatorInv
  OBVIOUS
<1>0. /\ MaxRequests \in Nat /\ MaxEpoch \in Nat /\ MaxEpoch > 0 /\ 1 \in 1 .. MaxEpoch
      /\ \A c \in Connections : BootOf[c] \in Boots /\ WorkerOf[c] \in Workers
      /\ NoBoot \notin Boots
  BY CoordinatorTypes, CoordinatorAssumption
<1>1. TypeOK /\ clock = 1 /\ \A r \in ReservationIds : reservations[r].state = "NONE"
  BY TypeInit DEF CoordinatorInit, Init, NoReservation
<1>2. /\ up = TRUE /\ epoch = 1 /\ workers = [w \in Workers |-> NoBoot]
      /\ obs_hwm = [w \in Workers |-> 0]
      /\ client = [c \in Connections |->
             [state |-> "new", epoch |-> 0, obs_gen |-> 1, ids |-> {}]]
      /\ wire = [c \in Connections |-> Nothing]
      /\ thread = [c \in Connections |-> [step |-> "none", request |-> Nothing, id |-> 0]]
      /\ owner = [r \in ReservationIds |-> NoBoot]
      /\ retired = {} /\ requests = 0
  BY DEF CoordinatorInit, first
<1>3. CoordinatorTypeOK
  <2>1. client \in [Connections -> ClientState]
    BY <1>0, <1>2 DEF ClientState
  <2>2. thread \in [Connections -> ThreadState]
    BY <1>2 DEF ThreadState, Steps
  <2>3. up \in BOOLEAN
    BY <1>2, Zenon
  <2> QED
    BY <1>0, <1>1, <1>2, <2>1, <2>2, <2>3 DEF CoordinatorTypeOK, ClientState, ThreadState
<1>4. \A c \in Connections :
         /\ client[c].state = "new" /\ client[c].obs_gen = 1 /\ wire[c] = Nothing
         /\ wire[c].kind = "nothing"
         /\ thread[c].step = "none" /\ thread[c].request = Nothing
  BY <1>2 DEF Nothing
<1>5. Dialogue
  BY <1>2, <1>4 DEF Dialogue, DialogueOf, Busy, Kinds
<1>6. BootsOnce
  BY <1>0, <1>2, <1>4 DEF BootsOnce
<1>7. RequestAuthority /\ StaleRequestsHaveNoEffect /\ FreshBootNotMuted
  BY <1>0, <1>2, <1>4 DEF RequestAuthority, StaleRequestsHaveNoEffect, FreshBootNotMuted, Kinds
<1>8. Ownership /\ GrantedReaches
  BY <1>1, <1>4 DEF Ownership, GrantedReaches, Granted
<1>a. ToldAreOwn
  <2>1. \A c \in Connections : client[c].ids = {} /\ wire[c].kind # "ANSWER"
    BY <1>2, <1>4
  <2> QED  BY <2>1 DEF ToldAreOwn, Told
<1>9. IdsSuffice
  <2>1. Planned = {} /\ Pending = {}
    BY <1>1, <1>4 DEF Planned, Pending
  <2> QED  BY <1>2, <2>1, FS_EmptySet DEF IdsSuffice
<1> QED  BY <1>3, <1>5, <1>6, <1>7, <1>8, <1>9, <1>a DEF CoordinatorInv

\* CoordinatorInv holds in every reachable state.
LEMMA CoordinatorInvHolds == CoordinatorSpec => []CoordinatorInv
<1>1. CoordinatorInv /\ [CoordinatorNext]_allVars => CoordinatorInv'
  BY CoordinatorTypeStep, DialogueStep, BootsOnceStep, RequestAuthorityStep, StaleStep,
     FreshBootStep, OwnershipStep, GrantedStep, ToldStep, IdsStep DEF CoordinatorInv
<1> QED  BY <1>1, CoordinatorInvInit, PTL DEF CoordinatorSpec

\* The coordinator's, the threads' and the workers' variables keep their types,
\* whatever the interleaving of handle_worker's threads.
THEOREM CoordinatorTyped == CoordinatorSpec => []CoordinatorTypeOK
<1>1. CoordinatorInv => CoordinatorTypeOK
  BY DEF CoordinatorInv
<1> QED  BY <1>1, CoordinatorInvHolds, PTL

\* The fence of handle_worker: a request with the authority of an earlier epoch
\* or of a replaced process is never acted on.
THEOREM StaleRequestsHaveNoEffectHolds == CoordinatorSpec => []StaleRequestsHaveNoEffect
<1>1. CoordinatorInv => StaleRequestsHaveNoEffect
  BY DEF CoordinatorInv
<1> QED  BY <1>1, CoordinatorInvHolds, PTL

\* A registered process is never refused for the generations of its predecessor.
THEOREM FreshBootNotMutedHolds == CoordinatorSpec => []FreshBootNotMuted
<1>1. CoordinatorInv => FreshBootNotMuted
  BY DEF CoordinatorInv
<1> QED  BY <1>1, CoordinatorInvHolds, PTL

\* Capacity that RESERVE grants stays within reach of the worker that asked for
\* it, as long as that worker lives.
THEOREM GrantReachesOwnerHolds == CoordinatorSpec => []GrantReachesOwner
<1>1. CoordinatorInv => GrantReachesOwner
  BY DEF CoordinatorInv, GrantedReaches, Granted, GrantReachesOwner
<1> QED  BY <1>1, CoordinatorInvHolds, PTL

\* An id in an acknowledgement of RESERVE is one that reserve_reservation
\* granted, and no two workers or processes are told the same.
THEOREM AckedIsGrantedHolds == CoordinatorSpec => []AckedIsGranted
<1>1. CoordinatorInv => AckedIsGranted
  BY DEF CoordinatorInv, ToldAreOwn, AckedIsGranted
<1> QED  BY <1>1, CoordinatorInvHolds, PTL
=============================================================================
