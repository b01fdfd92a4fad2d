---------------------------- MODULE Coordinator -----------------------------
(***************************************************************************)
(* The coordinator process and its workers: one connection and one         *)
(* coordinator thread (handle_worker) per worker process, the fence by     *)
(* epoch, boot id and observation generation, and the calls into the       *)
(* governor, whose ledger is module Reservations.                          *)
(*                                                                         *)
(* A worker sends one request and waits for the answer.  The thread checks *)
(* the fence under the coordinator's mutex, releases it, calls the         *)
(* governor, and for RESERVE calls it twice: three steps between which     *)
(* other threads and the operator's commands run.  A worker may die, or    *)
(* its connection break, at any time; what it sent may or may not have     *)
(* arrived.                                                                *)
(*                                                                         *)
(* Worker and coordinator use constant timestamps: RESERVE carries the     *)
(* same time always (1 here), ACTIVATE and RELEASE are given Timestamp()   *)
(* (0), so nothing ever expires.  Generations are always the first.        *)
(***************************************************************************)
EXTENDS Reservations

CONSTANTS
    Workers,        \* WorkerIds
    Connections,    \* the worker processes that connect, one connection each
    WorkerOf,       \* WorkerOf[c]: --worker of the process
    BootOf,         \* BootOf[c]: --boot of the process, a fresh one
    NoBoot,         \* a worker that is not registered
    Replayed,       \* boots whose old messages are sent again (stale_observe ...)
    MaxEpoch,       \* bound on roll_epoch
    MaxRequests     \* bound on the requests of all workers

Boots == {BootOf[c] : c \in Connections}

ASSUME CoordinatorAssumption ==
    /\ WorkerOf \in [Connections -> Workers]
    /\ \A c, d \in Connections : c # d => BootOf[c] # BootOf[d]
    /\ NoBoot \notin Boots \cup Connections
    /\ Replayed \subseteq Boots
    /\ MaxEpoch \in Nat \ {0} /\ MaxRequests \in Nat
    /\ ReservationIds \subseteq Nat \ {0}
    /\ MaxRequests <= Cardinality(ReservationIds)   \* allocate never runs out of ids
    /\ 1 \in PlannedPolicies   \* RESERVE plans under the first generation
    /\ CallLag >= 1            \* ACTIVATE passes time 0

VARIABLES
    up,         \* the coordinator process runs
    epoch,      \* CoordShared::epoch
    workers,    \* CoordShared::workers
    obs_hwm,    \* CoordShared::obs_hwm; 0 is the null generation
    client,     \* the worker process of each connection
    wire,       \* the request or answer on its way
    thread,     \* handle_worker of each connection
    owner,      \* auxiliary: the connection whose RESERVE planned a reservation
    retired,    \* auxiliary: boots that another boot of their worker replaced
    requests    \* auxiliary: requests sent so far

shared == <<up, epoch, workers, obs_hwm, retired>>
coordVars == <<shared, client, wire, thread, owner, requests>>
allVars == <<vars, coordVars>>

first == 1      \* Generation::first

Nothing == [kind |-> "nothing"]

\* OTHER is every message that is answered without effect on the state of this
\* module, whatever the fence says of it: DECISION_REQUEST, SNAPSHOT_REQUEST,
\* unknown types and what does not decode.
Kinds == {"OBSERVE", "THERMAL", "RESERVE", "ACTIVATE", "RELEASE", "OTHER"}

\* Field stale is auxiliary: whether the sender's authority was out of date.
Request ==
    [kind: Kinds, boot: Boots, epoch: 1 .. MaxEpoch, obs_gen: 0 .. MaxRequests + 1,
     reservation: ReservationIds \cup {0}, stale: BOOLEAN]

\* The worker prints an ACK or an ERROR alike; what it keeps of one is the
\* epoch of a registration and the id of a reservation.
Answer == [kind: {"ANSWER"}, epoch: 0 .. MaxEpoch, id: ReservationIds \cup {0}]

Steps == {"none", "register", "greet", "idle", "ingest", "plan", "reserve", "act", "closed"}

\* Every variable of the coordinator and of the workers keeps its type.
CoordinatorTypeOK ==
    /\ TypeOK
    /\ up \in BOOLEAN
    /\ epoch \in 1 .. MaxEpoch
    /\ workers \in [Workers -> Boots \cup {NoBoot}]
    /\ obs_hwm \in [Workers -> 0 .. MaxRequests + 1]
    /\ client \in [Connections ->
           [state: {"new", "registering", "ready", "waiting", "gone"}, epoch: 0 .. MaxEpoch,
            obs_gen: 1 .. MaxRequests + 1, ids: SUBSET ReservationIds]]
    /\ wire \in [Connections -> {Nothing} \cup Request \cup Answer]
    /\ thread \in [Connections ->
           [step: Steps, request: {Nothing} \cup Request, id: ReservationIds \cup {0}]]
    /\ owner \in [ReservationIds -> Connections \cup {NoBoot}]
    /\ retired \subseteq Boots
    /\ requests \in 0 .. MaxRequests

CoordinatorInit ==
    /\ Init
    /\ up = TRUE
    /\ epoch = 1
    /\ workers = [w \in Workers |-> NoBoot]
    /\ obs_hwm = [w \in Workers |-> 0]
    /\ client = [c \in Connections |->
           [state |-> "new", epoch |-> 0, obs_gen |-> first, ids |-> {}]]
    /\ wire = [c \in Connections |-> Nothing]
    /\ thread = [c \in Connections |-> [step |-> "none", request |-> Nothing, id |-> 0]]
    /\ owner = [r \in ReservationIds |-> NoBoot]
    /\ retired = {}
    /\ requests = 0

-----------------------------------------------------------------------------
(***************************************************************************)
(* The worker process: run_worker_main, worker_register, worker_dispatch.  *)
(***************************************************************************)
Connect(c) ==
    /\ up /\ client[c].state = "new"
    /\ client' = [client EXCEPT ![c].state = "registering"]
    /\ thread' = [thread EXCEPT ![c].step = "register"]
    /\ UNCHANGED <<vars, shared, wire, owner, requests>>

\* The answer to REGISTER carries the epoch the worker sends from then on.
Registered(c) ==
    /\ client[c].state = "registering" /\ wire[c].kind = "ANSWER"
    /\ client' = [client EXCEPT ![c].state = "ready", ![c].epoch = wire[c].epoch]
    /\ wire' = [wire EXCEPT ![c] = Nothing]
    /\ UNCHANGED <<vars, shared, thread, owner, requests>>

\* Out of date: an earlier epoch, or the boot of a replaced process.
Stale(boot, ep) == ep # epoch \/ boot \in retired

\* A request with the worker's own authority, or a stale_ command: one that
\* replays the authority of a process or an epoch that is over.
Send(c, kind, boot, ep, r) ==
    /\ up /\ client[c].state = "ready" /\ requests < MaxRequests
    /\ \/ boot = BootOf[c] /\ ep = client[c].epoch
       \/ /\ boot \in Replayed /\ ep = 1 /\ Stale(boot, ep)
          /\ kind \in {"OBSERVE", "RESERVE", "RELEASE"}
    /\ kind \in {"ACTIVATE", "RELEASE"} <=> r # 0
    /\ wire' = [wire EXCEPT ![c] =
           [kind |-> kind, boot |-> boot, epoch |-> ep, reservation |-> r,
            obs_gen |-> IF kind \in {"OBSERVE", "THERMAL"} THEN client[c].obs_gen ELSE 0,
            stale |-> Stale(boot, ep)]]
    /\ client' = [client EXCEPT ![c].state = "waiting",
           ![c].obs_gen = IF kind \in {"OBSERVE", "THERMAL"} THEN @ + 1 ELSE @]
    /\ requests' = requests + 1
    /\ UNCHANGED <<vars, shared, thread, owner>>

\* The worker prints the answer; of an accepted RESERVE it learns the id.
Answered(c) ==
    /\ client[c].state = "waiting" /\ wire[c].kind = "ANSWER"
    /\ client' = [client EXCEPT ![c].state = "ready", ![c].ids = @ \cup ({wire[c].id} \ {0})]
    /\ wire' = [wire EXCEPT ![c] = Nothing]
    /\ UNCHANGED <<vars, shared, thread, owner, requests>>

Gone == [state |-> "gone", epoch |-> 0, obs_gen |-> first, ids |-> {}]

\* The process is killed or its connection breaks.
Lost(c) ==
    /\ up /\ client[c].state \in {"registering", "ready", "waiting"}
    /\ client' = [client EXCEPT ![c] = Gone]
    /\ UNCHANGED <<vars, shared, wire, thread, owner, requests>>

\* The coordinator is gone: send_frame or recv_frame fails and the worker ends.
Disconnected(c) ==
    /\ ~ up /\ wire[c].kind # "ANSWER"
    /\ client[c].state \in {"registering", "ready", "waiting"}
    /\ client' = [client EXCEPT ![c] = Gone]
    /\ UNCHANGED <<vars, shared, wire, thread, owner, requests>>

-----------------------------------------------------------------------------
(***************************************************************************)
(* handle_worker.  An answer to a worker that is gone goes nowhere.        *)
(***************************************************************************)
answer(c, ep, id) ==
    wire' = [wire EXCEPT ![c] = IF client[c].state = "gone" THEN Nothing
                                ELSE [kind |-> "ANSWER", epoch |-> ep, id |-> id]]

at(c, step) == up /\ thread[c].step = step

goto(c, step) == thread' = [thread EXCEPT ![c].step = step]

\* Back to recv_frame.
finish(c) == thread' = [thread EXCEPT ![c] = [step |-> "idle", request |-> Nothing, id |-> 0]]

\* A mutant: the high-water mark of the process before is kept.
ServerRegister_keeps_hwm(c) ==
    LET w == WorkerOf[c] IN
    /\ at(c, "register")
    /\ workers' = [workers EXCEPT ![w] = BootOf[c]]
    /\ retired' = retired \cup ({workers[w]} \ {NoBoot})
    /\ goto(c, "greet")
    /\ UNCHANGED <<vars, up, epoch, obs_hwm, client, wire, owner, requests>>

\* The last process to register is the worker's current one.
ServerRegister(c) ==
    LET w == WorkerOf[c] IN
    /\ at(c, "register")
    /\ workers' = [workers EXCEPT ![w] = BootOf[c]]
    /\ obs_hwm' = [obs_hwm EXCEPT ![w] = 0]
    /\ retired' = retired \cup ({workers[w]} \ {NoBoot})
    /\ goto(c, "greet")
    /\ UNCHANGED <<vars, up, epoch, client, wire, owner, requests>>

\* A second critical section: the epoch may have been rolled since.
ServerGreet(c) ==
    /\ at(c, "greet")
    /\ answer(c, epoch, 0)
    /\ finish(c)
    /\ UNCHANGED <<vars, shared, client, owner, requests>>

fence_obs(c, q) ==
    /\ q.epoch = epoch
    /\ workers[WorkerOf[c]] = q.boot
    /\ ~ q.obs_gen < obs_hwm[WorkerOf[c]]

\* A mutant: the boot of the message is not looked up.
fence_epoch_boot_any(q) == q.epoch = epoch

\* The boot may be that of any registered worker.
fence_epoch_boot(q) == q.epoch = epoch /\ \E w \in Workers : workers[w] = q.boot

\* Where a request goes once it is through the fence.
CallFor(q) ==
    CASE q.kind = "OBSERVE"                -> "ingest"
      [] q.kind = "RESERVE"                -> "plan"
      [] q.kind \in {"ACTIVATE", "RELEASE"} -> "act"

\* A mutant: a refused request is dropped without an answer.
ServerReceive_silent(c) ==
    LET q == wire[c]
        observation == q.kind \in {"OBSERVE", "THERMAL"}
        passes == IF observation THEN fence_obs(c, q) ELSE fence_epoch_boot(q)
    IN
    /\ at(c, "idle") /\ q.kind \in Kinds
    /\ obs_hwm' = IF observation /\ passes
                  THEN [obs_hwm EXCEPT ![WorkerOf[c]] = q.obs_gen] ELSE obs_hwm
    /\ IF passes /\ q.kind \notin {"THERMAL", "OTHER"}
       THEN /\ thread' = [thread EXCEPT ![c] = [step |-> CallFor(q), request |-> q, id |-> 0]]
            /\ wire' = [wire EXCEPT ![c] = Nothing]
       ELSE /\ IF passes THEN answer(c, 0, 0)
                         ELSE wire' = [wire EXCEPT ![c] = Nothing]
            /\ finish(c)
    /\ UNCHANGED <<vars, up, epoch, workers, retired, client, owner, requests>>

\* recv_frame, decode and the fence.  A thermal observation that passes is
\* acknowledged and dropped; a message that does not decode and one that is
\* refused are answered with an error.
ServerReceive(c) ==
    LET q == wire[c]
        observation == q.kind \in {"OBSERVE", "THERMAL"}
        passes == IF observation THEN fence_obs(c, q) ELSE fence_epoch_boot(q)
    IN
    /\ at(c, "idle") /\ q.kind \in Kinds
    /\ obs_hwm' = IF observation /\ passes
                  THEN [obs_hwm EXCEPT ![WorkerOf[c]] = q.obs_gen] ELSE obs_hwm
    /\ IF passes /\ q.kind \notin {"THERMAL", "OTHER"}
       THEN /\ thread' = [thread EXCEPT ![c] = [step |-> CallFor(q), request |-> q, id |-> 0]]
            /\ wire' = [wire EXCEPT ![c] = Nothing]
       ELSE /\ answer(c, 0, 0)
            /\ finish(c)
    /\ UNCHANGED <<vars, up, epoch, workers, retired, client, owner, requests>>

\* observe_backend, outside the coordinator's mutex; it leaves the ledger alone.
ServerIngest(c) ==
    /\ at(c, "ingest")
    /\ answer(c, 0, 0)
    /\ finish(c)
    /\ UNCHANGED <<vars, shared, client, owner, requests>>

Unplanned == {r \in ReservationIds : reservations[r].state = "NONE"}
NextId == CHOOSE r \in Unplanned : \A q \in Unplanned : r <= q

ServerPlan(c, b, power) ==
    /\ at(c, "plan")
    /\ plan_reservation(NextId, b, power, first, 1)
    /\ owner' = [owner EXCEPT ![NextId] = c]
    /\ thread' = [thread EXCEPT ![c].step = "reserve", ![c].id = NextId]
    /\ UNCHANGED <<shared, client, wire, requests>>

\* Another worker may have released the id between the two calls.
CanReserve(r) ==
    /\ reservations[r].state \in {"PLANNED", "VALIDATED"}
    /\ ReserveAccepts(reservations[r].budget, reservations[r].requested_power, first)

\* A mutant: the acknowledgement forgets the id.
ServerReserve_forgets_id(c) ==
    /\ at(c, "reserve")
    /\ \/ reserve_reservation(thread[c].id, first, 1) /\ answer(c, 0, 0)
       \/ ~ CanReserve(thread[c].id) /\ UNCHANGED vars /\ answer(c, 0, 0)
    /\ finish(c)
    /\ UNCHANGED <<shared, client, owner, requests>>

\* A mutant: the outcome of reserve_reservation is not looked at.
ServerReserve_acks_refusal(c) ==
    /\ at(c, "reserve")
    /\ \/ reserve_reservation(thread[c].id, first, 1)
       \/ ~ CanReserve(thread[c].id) /\ UNCHANGED vars
    /\ answer(c, 0, thread[c].id)
    /\ finish(c)
    /\ UNCHANGED <<shared, client, owner, requests>>

\* A refusal leaves the reservation planned, and the worker without its id.
ServerReserve(c) ==
    /\ at(c, "reserve")
    /\ \/ reserve_reservation(thread[c].id, first, 1) /\ answer(c, 0, thread[c].id)
       \/ ~ CanReserve(thread[c].id) /\ UNCHANGED vars /\ answer(c, 0, 0)
    /\ finish(c)
    /\ UNCHANGED <<shared, client, owner, requests>>

CanActivate(r) ==
    /\ reservations[r].state \in {"RESERVED", "ADMITTED"}
    /\ reservations[r].budget_generation = first
    /\ ActivateAccepts(reservations[r].budget, reservations[r].requested_power, first)

CanRelease(r) ==
    /\ reservations[r].state \in LiveStates
    /\ ReleaseAccepts(reservations[r].budget, reservations[r].reserved_power, first)

\* activate_reservation or release_reservation of the id the request names,
\* whoever it was granted to.
ServerAct(c) ==
    LET q == thread[c].request
        r == q.reservation
    IN
    /\ at(c, "act") /\ r \notin Unplanned
    /\ \/ q.kind = "ACTIVATE" /\ activate_reservation(r, first, 0) /\ answer(c, 0, 0)
       \/ q.kind = "ACTIVATE" /\ ~ CanActivate(r) /\ UNCHANGED vars /\ answer(c, 0, 0)
       \/ q.kind = "RELEASE" /\ release_reservation(r, first) /\ answer(c, 0, 0)
       \/ q.kind = "RELEASE" /\ ~ CanRelease(r) /\ UNCHANGED vars /\ answer(c, 0, 0)
    /\ finish(c)
    /\ UNCHANGED <<shared, client, owner, requests>>

\* An id that was never planned: get throws, nobody catches it in the thread,
\* and the process ends.
ServerThrows(c) ==
    /\ at(c, "act") /\ thread[c].request.reservation \in Unplanned
    /\ up' = FALSE
    /\ UNCHANGED <<vars, epoch, workers, obs_hwm, retired, client, wire, thread, owner, requests>>

\* recv_frame fails: the peer is gone.  A request it sent may be lost with it.
ServerClose(c) ==
    /\ at(c, "idle") /\ client[c].state = "gone"
    /\ thread' = [thread EXCEPT ![c].step = "closed"]
    /\ wire' = [wire EXCEPT ![c] = Nothing]
    /\ UNCHANGED <<vars, shared, client, owner, requests>>

-----------------------------------------------------------------------------
(***************************************************************************)
(* The operator's commands (coordinator_loop).  set_policy is              *)
(* install_policy and save is that of Persistence: neither touches what    *)
(* threads and workers share, and both are left to those modules.          *)
(***************************************************************************)
InstallBudget(b, d) ==
    /\ up /\ d.generation = first
    /\ install_budget(b, d)
    /\ UNCHANGED coordVars

\* A mutant: the new epoch is the null one.
RollEpoch_null ==
    /\ up /\ epoch < MaxEpoch
    /\ epoch' = 0
    /\ UNCHANGED <<vars, up, workers, obs_hwm, retired, client, wire, thread, owner, requests>>

RollEpoch ==
    /\ up /\ epoch < MaxEpoch
    /\ epoch' = epoch + 1
    /\ UNCHANGED <<vars, up, workers, obs_hwm, retired, client, wire, thread, owner, requests>>

Quit ==
    /\ up /\ up' = FALSE
    /\ UNCHANGED <<vars, epoch, workers, obs_hwm, retired, client, wire, thread, owner, requests>>

ServerStep(c) ==
    \/ ServerRegister(c) \/ ServerGreet(c) \/ ServerReceive(c) \/ ServerIngest(c)
    \/ \E b \in BudgetIds, power \in Powers : ServerPlan(c, b, power)
    \/ ServerReserve(c) \/ ServerAct(c) \/ ServerThrows(c) \/ ServerClose(c)

ClientReceives(c) == Registered(c) \/ Answered(c) \/ Disconnected(c)

CoordinatorNext ==
    \/ \E c \in Connections :
          \/ Connect(c) \/ ClientReceives(c) \/ Lost(c) \/ ServerStep(c)
          \/ \E kind \in Kinds, boot \in Boots, ep \in 1 .. epoch, r \in ReservationIds \cup {0} :
                Send(c, kind, boot, ep, r)
    \/ \E b \in BudgetIds : \E d \in Definitions(b) : InstallBudget(b, d)
    \/ RollEpoch \/ Quit

\* Threads are scheduled and frames arrive; nobody has to send, connect or
\* type a command.
Fairness == \A c \in Connections : WF_allVars(ServerStep(c)) /\ WF_allVars(ClientReceives(c))

CoordinatorSpec == CoordinatorInit /\ [][CoordinatorNext]_allVars /\ Fairness

-----------------------------------------------------------------------------
\* A request sent with the authority of an earlier epoch or of a process that
\* has been replaced never gets past the fence, whatever is registered, rolled
\* or replayed while it is on its way.
StaleRequestsHaveNoEffect ==
    \A c \in Connections :
        thread[c].request # Nothing => ~ thread[c].request.stale

\* The high-water mark a registered process is measured against is one it has
\* reached itself: a process that starts its generations afresh is never
\* refused as STALE_OBSERVATION for what its predecessor sent.
FreshBootNotMuted ==
    \A c \in Connections :
        workers[WorkerOf[c]] = BootOf[c] /\ client[c].state # "gone" =>
            obs_hwm[WorkerOf[c]] < client[c].obs_gen

\* Capacity granted to a worker is not lost while the worker lives: the worker
\* has the id it needs to release it, or the id is on its way to it.
GrantReachesOwner ==
    \A r \in ReservationIds :
        reservations[r].state \in {"RESERVED", "ACTIVE"} =>
            LET c == owner[r] IN
            \/ client[c].state = "gone"
            \/ r \in client[c].ids
            \/ wire[c].kind = "ANSWER" /\ wire[c].id = r

\* The ids a worker has, or that are on their way to it.
Told(c) ==
    client[c].ids \cup (IF wire[c].kind = "ANSWER" THEN {wire[c].id} \ {0} ELSE {})

\* An id that a worker is told is a grant, and that worker's alone: RESERVE got
\* the reservation through reserve_reservation, although other threads may
\* release the planned id or re-issue the budget between its two calls, and no
\* other worker, nor a later process of the same one, is told the same id.
\* ACTIVATE and RELEASE do not check whose id they name; this is all that keeps
\* one worker's capacity from another.
AckedIsGranted ==
    \A c \in Connections : \A r \in Told(c) :
        /\ reservations[r].budget_generation = first
        /\ \A d \in Connections \ {c} : r \notin Told(d)

\* Every registration and every request is answered, or the worker learns that
\* the connection is gone: no fence decision, no roll of the epoch and no end
\* of the coordinator leaves a worker waiting in recv_frame.
RequestsAnswered ==
    \A c \in Connections :
        client[c].state \in {"registering", "waiting"} ~> client[c].state \in {"ready", "gone"}
=============================================================================
