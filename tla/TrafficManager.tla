--------------------------- MODULE TrafficManager ---------------------------
(***************************************************************************)
(* QueueingLogicVN: the egress buffers of simple_switch.  Any thread may    *)
(* push a packet or change a capacity or a rate; each worker is one egress  *)
(* thread that calls pop_back again and again.  Every method holds the one  *)
(* mutex from its first line to its last, and pop_back gives it up only     *)
(* inside its two condition-variable waits, so an action is a stretch of    *)
(* code between two points where the lock is free.                          *)
(***************************************************************************)
EXTENDS LogicalQueue

CONSTANTS Ports,            \* logical queue ids (egress ports)
          Workers,
          WorkerOf,         \* map_to_worker
          DefaultCapacity,  \* constructor argument `capacity'
          Arrivals,         \* the packets that may be pushed
          Capacities,       \* the values the set_*capacity* calls pass
          Rates,            \* the values the set_rate* calls pass
          MaxCredit,        \* no push while a green_credit is above this
          MaxDeficit        \* no push while a weighted_deficit is above this

ASSUME TMAssumption ==
    /\ WorkerOf \in [Ports -> Workers]
    /\ DefaultCapacity \in Nat
    /\ Arrivals \subseteq Pkt
    /\ Capacities \subseteq Nat
    /\ Rates \subseteq Nat
    /\ \A r \in Rates \cup {DefaultRate} :
           r = 0 \/ MaxAge * r >= Tau + 8 * MaxSize

VARIABLES lq,                 \* logical_queues_info
          capacity,           \* default capacity of queues yet to be created
          logical_queue_ids,  \* per worker, in registration order
          worker_rr_ptr,
          wsize,              \* WorkerInfo::size
          wstate,             \* where each worker thread is
          wake,               \* ticks left in a worker's wait_until
          out                 \* what pop_back last returned to each worker

vars == <<lq, capacity, logical_queue_ids, worker_rr_ptr, wsize, wstate, wake, out>>

\* A wait that never times out; longer than any bucket needs to drain.
Never == 8 * MaxSize + 1

Nothing == [vn |-> NoVN]

Delivery == [port : Ports, vn : VNs, pkt : Pkt]

\* "running": outside the lock, or queued for it; "waiting" in wait(lock);
\* "sleeping" in wait_until(lock, ...).
WorkerStates == {"running", "waiting", "sleeping"}

Registered(p) == p \in Range(logical_queue_ids[WorkerOf[p]])

-----------------------------------------------------------------------------

Init ==
    /\ lq = [p \in Ports |-> NewLogicalQueue(DefaultCapacity)]
    /\ capacity = DefaultCapacity
    /\ logical_queue_ids = [w \in Workers |-> <<>>]
    /\ worker_rr_ptr = [w \in Workers |-> 0]
    /\ wsize = [w \in Workers |-> 0]
    /\ wstate = [w \in Workers |-> "running"]
    /\ wake = [w \in Workers |-> 0]
    /\ out = [w \in Workers |-> Nothing]

\* get_logical_queue: find the port's record or create it.
LogicalQueueOf(p) == IF Registered(p) THEN lq[p] ELSE NewLogicalQueue(capacity)

Register(p) ==
    logical_queue_ids' =
        [logical_queue_ids EXCEPT ![WorkerOf[p]] =
            IF Registered(p) THEN @ ELSE Append(@, p)]

-----------------------------------------------------------------------------
(* push_front *)

\* Bounds of the model: arrivals stop while a counter is beyond its bound.
WithinBounds ==
    \A p \in Ports : \A v \in VNs :
        /\ lq[p].green_credit[v] <= MaxCredit
        /\ lq[p].weighted_deficit[v] <= MaxDeficit

\* Mutant: push_front does not notify.
NotifyNobody(w) == UNCHANGED <<wstate, wake>>

\* notify_one: only worker w ever waits on its condition variable.
Notify(w) ==
    /\ wstate' = [wstate EXCEPT ![w] = "running"]
    /\ wake' = [wake EXCEPT ![w] = 0]

Push(p, v, pkt) ==
    LET L == LogicalQueueOf(p)
        w == WorkerOf[p]
    IN /\ WithinBounds
       /\ lq' = [lq EXCEPT ![p] = PushFront(L, v, pkt)]
       /\ Register(p)
       /\ IF Full(L, v)
          THEN UNCHANGED <<wsize, wstate, wake>>
          ELSE /\ wsize' = [wsize EXCEPT ![w] = @ + 1]
               /\ Notify(w)
       /\ UNCHANGED <<capacity, worker_rr_ptr, out>>

-----------------------------------------------------------------------------
(* pop_back *)

\* Nothing is queued for this worker: wait on q_not_empty.
WaitForPacket(w) ==
    /\ wstate[w] = "running"
    /\ wsize[w] = 0
    /\ wstate' = [wstate EXCEPT ![w] = "waiting"]
    /\ out' = [out EXCEPT ![w] = Nothing]
    /\ UNCHANGED <<lq, capacity, logical_queue_ids, worker_rr_ptr, wsize, wake>>

NonEmpty(w) == {p \in Range(logical_queue_ids[w]) : lq[p].total > 0}

Ready(w) == {p \in NonEmpty(w) : ~Blocked(lq[p])}

\* The index in logical_queue_ids[w] at which the scan of worker w stops.
Stop(w) == NextInRing(logical_queue_ids[w], worker_rr_ptr[w], Ready(w))

\* The ports the scan has passed, all of them blocked, when it reaches index i.
PassedBefore(w, i) ==
    LET n == Len(logical_queue_ids[w])
    IN {p \in NonEmpty(w) : \E j \in 0 .. n - 1 :
            /\ logical_queue_ids[w][j + 1] = p
            /\ (j - worker_rr_ptr[w]) % n < (i - worker_rr_ptr[w]) % n}

\* Mutant: the pointer stays at the port just served.
RemainAt(w, i) == i

\* worker_rr_ptr after the port at index i has been served.
PtrAfter(w, i) == (i + 1) % Len(logical_queue_ids[w])

\* Some bucket admits a packet: decide for every non-empty port up to the first
\* such port, and dequeue from that one.
Pop(w) ==
    /\ wstate[w] = "running"
    /\ Ready(w) # {}
    /\ LET i == Stop(w)
           p == logical_queue_ids[w][i + 1]
           passed == PassedBefore(w, i)
           D == Decided(lq[p])
           v == D.pending_vn
       IN /\ lq' = [r \in Ports |-> IF r = p THEN Transmitted(D)
                                    ELSE IF r \in passed THEN Decided(lq[r])
                                    ELSE lq[r]]
          /\ out' = [out EXCEPT ![w] = [port |-> p, vn |-> v, pkt |-> Head(D.fifo[v])]]
          /\ worker_rr_ptr' = [worker_rr_ptr EXCEPT ![w] = PtrAfter(w, i)]
    /\ wsize' = [wsize EXCEPT ![w] = @ - 1]
    /\ UNCHANGED <<capacity, logical_queue_ids, wstate, wake>>

\* Ticks until the bucket of a blocked queue is back at Tau, truncated as
\* duration_cast truncates.  With rate 0 the quotient is infinite and its cast
\* to an integer undefined: the wake-up time lies in the past or never comes.
WaitTimes(L) ==
    IF L.rate = 0 THEN {0, Never} ELSE {(XPrime(L) - Tau) \div L.rate}

\* Mutant: max for min in next_wake_up_time.
Greatest(S) == CHOOSE t \in S : \A u \in S : u <= t

Least(S) == CHOOSE t \in S : \A u \in S : t <= u

WakeTimes(w) ==
    LET exact == UNION {WaitTimes(lq[p]) : p \in {q \in NonEmpty(w) : lq[q].rate > 0}}
        disabled == {q \in NonEmpty(w) : lq[q].rate = 0}
    IN IF disabled = {} THEN {Least(exact)} ELSE {0, Least(exact \cup {Never})}

\* Every bucket refuses: decide for every non-empty port and sleep.
Sleep(w) ==
    /\ wstate[w] = "running"
    /\ wsize[w] > 0
    /\ Ready(w) = {}
    /\ lq' = [p \in Ports |-> IF p \in NonEmpty(w) THEN Decided(lq[p]) ELSE lq[p]]
    /\ wstate' = [wstate EXCEPT ![w] = "sleeping"]
    /\ \E t \in WakeTimes(w) : wake' = [wake EXCEPT ![w] = t]
    /\ out' = [out EXCEPT ![w] = Nothing]
    /\ UNCHANGED <<capacity, logical_queue_ids, worker_rr_ptr, wsize>>

\* wait_until times out.
TimeOut(w) ==
    /\ wstate[w] = "sleeping"
    /\ wake[w] = 0
    /\ wstate' = [wstate EXCEPT ![w] = "running"]
    /\ UNCHANGED <<lq, capacity, logical_queue_ids, worker_rr_ptr, wsize, wake, out>>

\* A condition variable may wake up for no reason; both waits are in a loop.
SpuriousWakeup(w) ==
    /\ wstate[w] # "running"
    /\ Notify(w)
    /\ UNCHANGED <<lq, capacity, logical_queue_ids, worker_rr_ptr, wsize, out>>

-----------------------------------------------------------------------------
(* Control plane *)

SetVNCapacity(p, v, c) ==
    /\ lq' = [lq EXCEPT ![p] = [LogicalQueueOf(p) EXCEPT !.capacity[v] = c]]
    /\ Register(p)
    /\ UNCHANGED <<capacity, worker_rr_ptr, wsize, wstate, wake, out>>

SetQueueCapacity(p, c) ==
    /\ lq' = [lq EXCEPT ![p] =
                  [LogicalQueueOf(p) EXCEPT !.capacity = [v \in VNs |-> c]]]
    /\ Register(p)
    /\ UNCHANGED <<capacity, worker_rr_ptr, wsize, wstate, wake, out>>

SetCapacityForAll(c) ==
    /\ lq' = [p \in Ports |->
                  IF Registered(p) THEN [lq[p] EXCEPT !.capacity = [v \in VNs |-> c]]
                  ELSE lq[p]]
    /\ capacity' = c
    /\ UNCHANGED <<logical_queue_ids, worker_rr_ptr, wsize, wstate, wake, out>>

SetRate(p, bps) ==
    /\ lq' = [lq EXCEPT ![p] = [LogicalQueueOf(p) EXCEPT !.rate = bps]]
    /\ Register(p)
    /\ UNCHANGED <<capacity, worker_rr_ptr, wsize, wstate, wake, out>>

\* Queues registered later still start at DefaultRate.
SetRateForAll(bps) ==
    /\ lq' = [p \in Ports |-> IF Registered(p) THEN [lq[p] EXCEPT !.rate = bps]
                              ELSE lq[p]]
    /\ UNCHANGED <<capacity, logical_queue_ids, worker_rr_ptr, wsize, wstate, wake, out>>

-----------------------------------------------------------------------------

\* The clock advances by one tick.
Tick ==
    /\ lq' = [p \in Ports |-> IF Registered(p) THEN Aged(lq[p]) ELSE lq[p]]
    /\ wake' = [w \in Workers |-> IF wake[w] \in {0, Never} THEN wake[w] ELSE wake[w] - 1]
    /\ UNCHANGED <<capacity, logical_queue_ids, worker_rr_ptr, wsize, wstate, out>>

PushAny == \E p \in Ports, v \in VNs, pkt \in Arrivals : Push(p, v, pkt)

Worker(w) == WaitForPacket(w) \/ Pop(w) \/ Sleep(w) \/ TimeOut(w)

ControlPlane ==
    \/ \E p \in Ports, v \in VNs, c \in Capacities : SetVNCapacity(p, v, c)
    \/ \E p \in Ports, c \in Capacities : SetQueueCapacity(p, c)
    \/ \E c \in Capacities : SetCapacityForAll(c)
    \/ \E p \in Ports, bps \in Rates : SetRate(p, bps)
    \/ \E bps \in Rates : SetRateForAll(bps)

Next ==
    \/ PushAny
    \/ \E w \in Workers : Worker(w) \/ SpuriousWakeup(w)
    \/ ControlPlane
    \/ Tick

Spec == Init /\ [][Next]_vars

\* The enabling condition of Worker(w): the thread is not blocked in a wait, or
\* its timed wait is over.
CanStep(w) == wstate[w] = "running" \/ (wstate[w] = "sleeping" /\ wake[w] = 0)

\* Egress threads run until shutdown, and time passes.  Nothing makes anyone
\* push a packet, call a setter or wake up a thread without reason.  The second
\* conjunct is WF_vars(Worker(w)) with its ENABLED written as CanStep(w).
Fairness ==
    /\ WF_vars(Tick)
    /\ \A w \in Workers : []<>~CanStep(w) \/ ([]<><<Worker(w)>>_vars)

FairSpec == Spec /\ Fairness
-----------------------------------------------------------------------------
(* Properties *)

\* Type invariant: every container of the scheduler keeps its shape.
TypeOK ==
    /\ lq \in [Ports -> LogicalQueueInfo]
    /\ capacity \in Nat
    /\ logical_queue_ids \in [Workers -> Seq(Ports)]
    /\ worker_rr_ptr \in [Workers -> Nat]
    /\ wsize \in [Workers -> Nat]
    /\ wstate \in [Workers -> WorkerStates]
    /\ wake \in [Workers -> Nat]
    /\ out \in [Workers -> Delivery \cup {Nothing}]

\* The three levels of counters (VN, logical queue, worker) agree with the
\* deques.  pop_back trusts the worker's to decide whether to sleep, the
\* queue's to skip it and the VN's before front().
CountersAgree ==
    /\ \A p \in Ports : CountersMatchFifos(lq[p])
    /\ \A w \in Workers :
        wsize[w] = Cardinality(UNION {{p} \X Slots(lq[p]) : p \in {q \in Ports : WorkerOf[q] = w}})

\* No packet is stranded: a VN with packets is in the active set, the only place
\* select_vn looks, whatever order of enqueues, dequeues and idle sweeps led here.
BackloggedAreActive == \A p \in Ports : BackloggedIsActive(lq[p])

\* No VN is in the active set twice; it would be visited twice per scan and
\* replenished twice per round.
ActiveOnce == \A p \in Ports : IsInjective(lq[p].active_set)

\* A cached decision always names a VN with a head-of-line packet: front() on
\* its deque is defined whenever the bucket finally admits it.
PendingBacklogged == \A p \in Ports : PendingHasPacket(lq[p])

\* A VN outside the active set comes back without DWRR credit or debt.
ReactivationStartsAtZero == \A p \in Ports : OnlyActiveHasDeficit(lq[p])

\* Surplus semantics overdraw a counter by less than one maximum-size packet.
OverdraftBounded == \A p \in Ports : DebtBelowOnePacket(lq[p])

\* The sweep never compares against the time_point::min() sentinel (`now - min'
\* overflows): an empty member of the active set has been stamped.
NoSentinelRead == \A p \in Ports : IdleIsStamped(lq[p])

\* The active set stays sound under every order of enqueues, dequeues and idle
\* sweeps: whom it must hold it holds, once; whom it let go comes back without
\* credit or debt; and an idle member can be timed out (pop_back's sweep,
\* push_front's activation).
ActiveSetSound ==
    /\ BackloggedAreActive
    /\ ActiveOnce
    /\ ReactivationStartsAtZero
    /\ NoSentinelRead

\* The dequeue bucket exceeds its ceiling by at most the packet that filled it.
LevelBounded == \A p \in Ports : LevelWithinCeiling(lq[p])

\* No wakeup is lost: a worker blocked without a timeout has nothing to send.
NoLostWakeup == \A w \in Workers : wstate[w] = "waiting" => wsize[w] = 0

\* A sleeping worker whose timer still runs has no port it could serve now.
NoOversleep ==
    \A w \in Workers : wstate[w] = "sleeping" /\ Ready(w) # {} => wake[w] = 0

\* queueing.h:744: "If dequeue_rate_bps == 0 the bucket is always considered
\* compliant (no rate limiting)".
ZeroRateIsUnlimited == \A p \in Ports : lq[p].rate = 0 => ~Blocked(lq[p])

\* One scheduling decision per packet: while the bucket defers a decision, no
\* step charges a counter, and the decision only ends with its own packet leaving.
DecisionStands(L, M) ==
    L.pending_vn # NoVN =>
        /\ M.weighted_deficit = L.weighted_deficit
        /\ \A v \in VNs : M.green_credit[v] >= L.green_credit[v]
        /\ \/ M.pending_vn = L.pending_vn
           \/ M.pending_vn = NoVN /\ M.fifo[L.pending_vn] = Tail(L.fifo[L.pending_vn])

DeferredDecisionStands == [][\A p \in Ports : DecisionStands(lq[p], lq'[p])]_vars

\* Guaranteed bandwidth comes first: a decision taken while a backlogged VN holds
\* GB credit leaves every deficit alone, but for the reset of an idle VN.
CreditFirst(L, M) ==
    L.pending_vn = NoVN /\ WithCredit(L) # {} =>
        \A v \in VNs : \/ M.weighted_deficit[v] = L.weighted_deficit[v]
                       \/ M.weighted_deficit[v] = 0 /\ L.size[v] = 0

GuaranteeBeforeSharing == [][\A p \in Ports : CreditFirst(lq[p], lq'[p])]_vars

\* A worker serves a port twice running while another port is ready only if that
\* port was registered after it and the ring had already wrapped to its start.
RoundRobinOverPorts ==
    [][\A w \in Workers :
        wsize'[w] < wsize[w] /\ out[w] # Nothing /\ out'[w].port = out[w].port =>
            \A q \in Ready(w) \ {out[w].port} :
                /\ worker_rr_ptr[w] = 0
                /\ \E i, j \in 1 .. Len(logical_queue_ids[w]) :
                    /\ i < j
                    /\ logical_queue_ids[w][i] = out[w].port
                    /\ logical_queue_ids[w][j] = q]_vars

Delivered(p, v) == \E w \in Workers : out[w].vn = v /\ out[w].port = p

\* A backlogged VN that keeps positive GB credit is served again and again,
\* however much green traffic the other VNs offer.
GuaranteeServed ==
    \A p \in Ports, v \in VNs : []<>(v \notin WithCredit(lq[p]) \/ Delivered(p, v))

\* Sharing starves no VN: unless green credit is usable again and again, a
\* backlogged VN is served again and again.
SharingServed ==
    \A p \in Ports, v \in VNs :
        []<>(WithCredit(lq[p]) # {} \/ lq[p].size[v] = 0 \/ Delivered(p, v))

-----------------------------------------------------------------------------
(* Refinement *)

\* The capacity a push to port p meets, whether or not p is registered yet.
Fifo == INSTANCE VNFifo WITH
            Pkts <- Pkt,
            queue <- [p \in Ports |-> lq[p].fifo],
            bound <- [p \in Ports |-> LogicalQueueOf(p).capacity]

\* Whatever the scheduler, the buckets and the sweep do, the traffic manager is a
\* set of bounded per-VN FIFOs: nothing accepted is lost, duplicated, mislabelled
\* or reordered within its VN, and control-plane calls discard nothing.
ImplementsVNFifo == Fifo!Spec
=============================================================================
