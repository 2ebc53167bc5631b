------------------------ MODULE TrafficManager_proofs ------------------------
(***************************************************************************)
(* The traffic manager's invariants, for any number of ports, workers and   *)
(* VNs and any capacities, rates and packets.  Inv is the inductive         *)
(* invariant: each logical queue satisfies LQInv, the workers' counters      *)
(* agree with their queues, and a port that no call has named is as new.  At   *)
(* the end it supplies the refinement of VNFifo.                              *)
(***************************************************************************)
EXTENDS TrafficManager, LogicalQueue_proofs

\* The packets queued for worker w when the logical queues are f.
PortSlots(f, w) ==
    UNION {{p} \X Slots(f[p]) : p \in {q \in Ports : WorkerOf[q] = w}}

CountersOfWorkers ==
    \A w \in Workers : /\ IsFiniteSet(PortSlots(lq, w))
                       /\ wsize[w] = Cardinality(PortSlots(lq, w))

\* A worker's list names its own ports only.
OwnPortsOnly == \A w \in Workers : \A p \in Range(logical_queue_ids[w]) : WorkerOf[p] = w

UnregisteredAreNew ==
    \A p \in Ports : ~Registered(p) => lq[p] = NewLogicalQueue(DefaultCapacity)

Inv ==
    /\ TypeOK
    /\ \A p \in Ports : LQInv(lq[p])
    /\ CountersOfWorkers
    /\ OwnPortsOnly
    /\ UnregisteredAreNew
    /\ NoLostWakeup

-----------------------------------------------------------------------------
(* Packets of a worker *)

\* Membership in PortSlots, without the UNION.
LEMMA InPortSlots ==
  ASSUME NEW f, NEW w, NEW x
  PROVE  x \in PortSlots(f, w) <=>
            \E p \in Ports : WorkerOf[p] = w /\ \E s \in Slots(f[p]) : x = <<p, s>>
BY DEF PortSlots

\* A step that adds and removes no packet leaves every worker's packets alone.
LEMMA PortSlotsSame ==
  ASSUME NEW f, NEW g, \A p \in Ports : Slots(g[p]) = Slots(f[p])
  PROVE  \A w : PortSlots(g, w) = PortSlots(f, w)
<1> TAKE w
<1>1. ASSUME NEW x PROVE x \in PortSlots(g, w) <=> x \in PortSlots(f, w)
  <2>1. x \in PortSlots(f, w) <=>
            \E p \in Ports : WorkerOf[p] = w /\ \E s \in Slots(f[p]) : x = <<p, s>>
    BY InPortSlots
  <2>2. x \in PortSlots(g, w) <=>
            \E p \in Ports : WorkerOf[p] = w /\ \E s \in Slots(g[p]) : x = <<p, s>>
    BY InPortSlots
  <2> QED BY <2>1, <2>2
<1> QED BY <1>1

\* One more packet at one port is one more packet for the port's worker.
LEMMA PortSlotsGrow ==
  ASSUME NEW f, NEW g, NEW p \in Ports, NEW s,
         Slots(g[p]) = Slots(f[p]) \cup {s}, s \notin Slots(f[p]),
         \A q \in Ports : q # p => Slots(g[q]) = Slots(f[q])
  PROVE  /\ PortSlots(g, WorkerOf[p]) = PortSlots(f, WorkerOf[p]) \cup {<<p, s>>}
         /\ <<p, s>> \notin PortSlots(f, WorkerOf[p])
         /\ \A w : w # WorkerOf[p] => PortSlots(g, w) = PortSlots(f, w)
<1>1. ASSUME NEW w, NEW x
      PROVE  x \in PortSlots(g, w) <=>
                x \in PortSlots(f, w) \/ (w = WorkerOf[p] /\ x = <<p, s>>)
  <2>1. x \in PortSlots(f, w) <=>
            \E q \in Ports : WorkerOf[q] = w /\ \E t \in Slots(f[q]) : x = <<q, t>>
    BY InPortSlots
  <2>2. x \in PortSlots(g, w) <=>
            \E q \in Ports : WorkerOf[q] = w /\ \E t \in Slots(g[q]) : x = <<q, t>>
    BY InPortSlots
  <2> QED BY <2>1, <2>2
<1>2. <<p, s>> \notin PortSlots(f, WorkerOf[p])
  <2> SUFFICES ASSUME <<p, s>> \in PortSlots(f, WorkerOf[p]) PROVE FALSE
    OBVIOUS
  <2>1. \E q \in Ports : WorkerOf[q] = WorkerOf[p] /\ \E t \in Slots(f[q]) : <<p, s>> = <<q, t>>
    BY InPortSlots
  <2> QED BY <2>1
<1>3. PortSlots(g, WorkerOf[p]) = PortSlots(f, WorkerOf[p]) \cup {<<p, s>>}
  BY <1>1
<1>4. ASSUME NEW w, w # WorkerOf[p] PROVE PortSlots(g, w) = PortSlots(f, w)
  <2>1. \A x : x \in PortSlots(g, w) <=> x \in PortSlots(f, w)
    BY <1>1, <1>4
  <2> QED BY <2>1
<1> QED BY <1>2, <1>3, <1>4

\* The element that Append adds.
LEMMA AppendRange ==
  ASSUME NEW T, NEW s \in Seq(T), NEW e \in T
  PROVE  Append(s, e) \in Seq(T) /\ Range(Append(s, e)) = Range(s) \cup {e}
<1> DEFINE t == Append(s, e)
<1>1. /\ t \in Seq(T) /\ Len(t) = Len(s) + 1
      /\ \A i \in 1 .. Len(s) : t[i] = s[i]
      /\ t[Len(s) + 1] = e
  BY AppendProperties
<1>2. DOMAIN s = 1 .. Len(s) /\ Len(s) \in Nat /\ DOMAIN t = 1 .. Len(t)
  BY <1>1
<1> HIDE DEF t
<1>3. Range(t) = Range(s) \cup {e}
  BY <1>1, <1>2 DEF Range
<1> QED BY <1>1, <1>3 DEF t

-----------------------------------------------------------------------------
(* Logical queues of ports *)

\* get_logical_queue returns a queue that holds what the port holds.
LEMMA LogicalQueueOfInv ==
  ASSUME Inv, NEW p \in Ports
  PROVE  /\ LQInv(LogicalQueueOf(p))
         /\ Slots(LogicalQueueOf(p)) = Slots(lq[p])
         /\ LogicalQueueOf(p).fifo = lq[p].fifo
         /\ LogicalQueueOf(p).pending_vn = lq[p].pending_vn
<1>1. CASE Registered(p)
  BY <1>1 DEF LogicalQueueOf, Inv
<1>2. CASE ~Registered(p)
  <2>1. lq[p] = NewLogicalQueue(DefaultCapacity) /\ capacity \in Nat
    BY <1>2 DEF Inv, UnregisteredAreNew, TypeOK
  <2>2. LogicalQueueOf(p) = NewLogicalQueue(capacity)
    BY <1>2 DEF LogicalQueueOf
  <2>3. /\ NewLogicalQueue(capacity).size = NewLogicalQueue(DefaultCapacity).size
        /\ NewLogicalQueue(capacity).fifo = NewLogicalQueue(DefaultCapacity).fifo
        /\ NewLogicalQueue(capacity).pending_vn = NewLogicalQueue(DefaultCapacity).pending_vn
    BY DEF NewLogicalQueue
  <2> QED BY <2>1, <2>2, <2>3, NewLogicalQueueInv DEF Slots
<1> QED BY <1>1, <1>2

\* After get_logical_queue the port is registered with its own worker, and no
\* other port's registration has changed.
LEMMA RegisterInv ==
  ASSUME Inv, NEW p \in Ports, Register(p)
  PROVE  /\ logical_queue_ids' \in [Workers -> Seq(Ports)]
         /\ OwnPortsOnly'
         /\ \A q \in Ports : Registered(q)' <=> Registered(q) \/ q = p
<1> DEFINE w == WorkerOf[p]
           ids == logical_queue_ids[w]
           new == IF Registered(p) THEN ids ELSE Append(ids, p)
<1>1. logical_queue_ids \in [Workers -> Seq(Ports)] /\ w \in Workers
  BY TMAssumption DEF Inv, TypeOK
<1>2. new \in Seq(Ports) /\ Range(new) = Range(ids) \cup {p}
  <2>1. CASE Registered(p)
    BY <1>1, <2>1 DEF Registered
  <2>2. CASE ~Registered(p)
    BY <1>1, <2>2, AppendRange
  <2> QED BY <2>1, <2>2
<1>3. logical_queue_ids' = [logical_queue_ids EXCEPT ![w] = new]
  BY DEF Register
<1> HIDE DEF new
<1>4. /\ logical_queue_ids' \in [Workers -> Seq(Ports)]
      /\ \A u \in Workers : logical_queue_ids'[u] = IF u = w THEN new ELSE logical_queue_ids[u]
  BY <1>1, <1>2, <1>3
<1>5. \A q \in Ports : Registered(q)' <=> Registered(q) \/ q = p
  <2>1. \A q \in Ports : WorkerOf[q] \in Workers
    BY TMAssumption
  <2> QED BY <1>2, <1>4, <2>1 DEF Registered
<1>6. OwnPortsOnly'
  BY <1>2, <1>4 DEF Inv, OwnPortsOnly
<1> QED BY <1>4, <1>5, <1>6

\* A worker with packets has a registered port with packets.
LEMMA SomeNonEmpty ==
  ASSUME Inv, NEW w \in Workers, wsize[w] > 0
  PROVE  NonEmpty(w) # {}
<1>1. IsFiniteSet(PortSlots(lq, w)) /\ wsize[w] = Cardinality(PortSlots(lq, w))
  BY DEF Inv, CountersOfWorkers
<1>2. PortSlots(lq, w) # {}
  BY <1>1, FS_EmptySet
<1>3. PICK x : x \in PortSlots(lq, w)
  BY <1>2
<1>4. PICK p \in Ports : WorkerOf[p] = w /\ Slots(lq[p]) # {}
  BY <1>3, InPortSlots
<1>5. LQInv(lq[p])
  BY DEF Inv
<1>6. lq[p].total > 0
  <2>1. /\ lq[p].total = Cardinality(Slots(lq[p])) /\ IsFiniteSet(Slots(lq[p]))
        /\ lq[p].total \in Nat
    BY <1>5 DEF LQInv, CountersMatchFifos, LogicalQueueInfo
  <2> QED BY <1>4, <2>1, FS_EmptySet
<1>7. Registered(p)
  <2> SUFFICES ASSUME ~Registered(p) PROVE FALSE
    OBVIOUS
  <2>1. lq[p] = NewLogicalQueue(DefaultCapacity)
    BY DEF Inv, UnregisteredAreNew
  <2> QED BY <1>6, <2>1 DEF NewLogicalQueue
<1> QED BY <1>4, <1>6, <1>7 DEF NonEmpty, Registered

\* A port in NonEmpty(w) is a port of w.
LEMMA NonEmptyPorts ==
  ASSUME Inv, NEW w \in Workers, NEW p \in NonEmpty(w)
  PROVE  /\ p \in Ports /\ WorkerOf[p] = w /\ Registered(p)
         /\ lq[p].total > 0 /\ LQInv(lq[p])
<1>1. p \in Range(logical_queue_ids[w]) /\ lq[p].total > 0
  BY DEF NonEmpty
<1>2. logical_queue_ids[w] \in Seq(Ports)
  BY DEF Inv, TypeOK
<1>3. p \in Ports
  BY <1>1, <1>2 DEF Range
<1>4. WorkerOf[p] = w
  BY <1>1 DEF Inv, OwnPortsOnly
<1> QED BY <1>1, <1>3, <1>4 DEF Inv, Registered

\* The scan stops at a port of w whose bucket admits a packet.
LEMMA StopsAtReady ==
  ASSUME Inv, NEW w \in Workers, Ready(w) # {}
  PROVE  /\ Stop(w) \in 0 .. Len(logical_queue_ids[w]) - 1
         /\ logical_queue_ids[w][Stop(w) + 1] \in Ready(w)
<1>1. logical_queue_ids[w] \in Seq(Ports) /\ worker_rr_ptr[w] \in Nat
  BY DEF Inv, TypeOK
<1>2. Ready(w) \cap Range(logical_queue_ids[w]) # {}
  BY DEF Ready, NonEmpty
<1> QED BY <1>1, <1>2, NextInRingHit DEF Stop

\* The time a worker sleeps is defined.
LEMMA WakeTimesNat ==
  ASSUME Inv, NEW w \in Workers, wsize[w] > 0, Ready(w) = {}
  PROVE  WakeTimes(w) \subseteq Nat
<1> DEFINE exact == UNION {WaitTimes(lq[p]) : p \in {q \in NonEmpty(w) : lq[q].rate > 0}}
           disabled == {q \in NonEmpty(w) : lq[q].rate = 0}
<1>1. WakeTimes(w) = IF disabled = {} THEN {Least(exact)}
                     ELSE {0, Least(exact \cup {Never})}
  BY DEF WakeTimes
<1>2. Never \in Nat
  BY LQAssumption DEF Never
<1>3. ASSUME NEW p \in NonEmpty(w)
      PROVE  /\ lq[p].rate \in Nat
             /\ lq[p].rate > 0 => WaitTimes(lq[p]) = {(XPrime(lq[p]) - Tau) \div lq[p].rate}
             /\ lq[p].rate > 0 => (XPrime(lq[p]) - Tau) \div lq[p].rate \in Nat
  <2>1. p \in Ports /\ LQInv(lq[p])
    BY NonEmptyPorts
  <2>2. lq[p].X \in Nat /\ lq[p].lct_age \in Nat /\ lq[p].rate \in Nat
    <3>1. lq[p] \in LogicalQueueInfo
      BY <2>1 DEF LQInv
    <3>2. lq[p].X \in Nat /\ lq[p].lct_age \in 0 .. MaxAge /\ lq[p].rate \in Nat
      BY <3>1 DEF LogicalQueueInfo
    <3> QED BY <3>2, LQAssumption
  <2>3. lq[p].lct_age * lq[p].rate \in Nat
    BY <2>2
  <2>4. XPrime(lq[p]) \in Int
    BY <2>2, <2>3 DEF XPrime
  <2>5. XPrime(lq[p]) > Tau
    BY DEF Ready, Blocked
  <2>6. XPrime(lq[p]) - Tau \in Nat
    BY <2>4, <2>5, LQAssumption
  <2>7. \A d \in Nat, r \in Nat : r > 0 => d \div r \in Nat
    OBVIOUS
  <2> QED BY <2>2, <2>6, <2>7 DEF WaitTimes
<1>4. exact \in SUBSET Nat
  BY <1>3
<1>5. ASSUME NEW S \in SUBSET Nat, S # {} PROVE Least(S) \in Nat
  <2>1. \E m \in S : \A n \in S : m <= n
    BY <1>5, LeastNat
  <2> QED BY <2>1 DEF Least
<1>6. CASE disabled = {}
  <2>1. PICK p : p \in NonEmpty(w)
    BY SomeNonEmpty
  <2>2. lq[p].rate > 0
    BY <1>3, <1>6, <2>1
  <2>3. WaitTimes(lq[p]) # {}
    BY <1>3, <2>1, <2>2
  <2>4. exact # {}
    BY <2>1, <2>2, <2>3
  <2> HIDE DEF exact, disabled
  <2> QED BY <1>1, <1>4, <1>5, <1>6, <2>4
<1>7. CASE disabled # {}
  <2> HIDE DEF exact, disabled
  <2>1. exact \cup {Never} \in SUBSET Nat /\ exact \cup {Never} # {}
    BY <1>2, <1>4
  <2>2. Least(exact \cup {Never}) \in Nat
    BY <1>5, <2>1
  <2> QED BY <1>1, <1>7, <2>2
<1> QED BY <1>6, <1>7

-----------------------------------------------------------------------------
(* Init and the actions *)

\* Before any call every queue is new and every worker runs.
LEMMA InitInv == Init => Inv
<1> SUFFICES ASSUME Init PROVE Inv
  OBVIOUS
<1>1. \A p \in Ports : lq[p] = NewLogicalQueue(DefaultCapacity) /\ LQInv(lq[p])
  BY NewLogicalQueueInv, TMAssumption DEF Init
<1>2. TypeOK
  <2>1. \A p \in Ports : lq[p] \in LogicalQueueInfo
    BY <1>1 DEF LQInv
  <2>2. lq \in [Ports -> LogicalQueueInfo]
    BY <2>1 DEF Init
  <2>3. \A w \in Workers : << >> \in Seq(Ports)
    OBVIOUS
  <2>4. logical_queue_ids \in [Workers -> Seq(Ports)]
    BY <2>3 DEF Init
  <2> QED BY <2>2, <2>4, TMAssumption DEF Init, TypeOK, WorkerStates
<1>3. CountersOfWorkers
  <2>1. \A p \in Ports : Slots(lq[p]) = {}
    BY <1>1 DEF Slots, NewLogicalQueue
  <2>2. \A w : PortSlots(lq, w) = {}
    BY <2>1 DEF PortSlots
  <2> QED BY <2>2, FS_EmptySet DEF Init, CountersOfWorkers
<1>4. OwnPortsOnly
  <2>1. Range(<< >>) = {}
    BY DEF Range
  <2> QED BY <2>1 DEF Init, OwnPortsOnly
<1>5. UnregisteredAreNew /\ NoLostWakeup
  BY <1>1 DEF Init, UnregisteredAreNew, NoLostWakeup
<1> QED BY <1>1, <1>2, <1>3, <1>4, <1>5 DEF Inv

\* push_front keeps the invariant, whether it stores the packet or drops it.
LEMMA PushKeepsInv ==
  ASSUME Inv, NEW p \in Ports, NEW v \in VNs, NEW pkt \in Arrivals, Push(p, v, pkt)
  PROVE  Inv'
<1> DEFINE L == LogicalQueueOf(p)
           w == WorkerOf[p]
<1>1. pkt \in Pkt /\ w \in Workers
  BY TMAssumption
<1>2. LQInv(L) /\ Slots(L) = Slots(lq[p])
  BY LogicalQueueOfInv
<1>3. /\ lq' = [lq EXCEPT ![p] = PushFront(L, v, pkt)] /\ Register(p)
      /\ UNCHANGED <<capacity, worker_rr_ptr, out>>
      /\ Full(L, v) => UNCHANGED <<wsize, wstate, wake>>
      /\ ~Full(L, v) => wsize' = [wsize EXCEPT ![w] = @ + 1] /\ Notify(w)
  BY DEF Push
<1>4. /\ LQInv(PushFront(L, v, pkt))
      /\ Full(L, v) => Slots(PushFront(L, v, pkt)) = Slots(L)
      /\ ~Full(L, v) => \E s : /\ Slots(PushFront(L, v, pkt)) = Slots(L) \cup {s}
                               /\ s \notin Slots(L)
  <2>1. LQInv(Credited(L, v, pkt)) /\ Slots(Credited(L, v, pkt)) = Slots(L)
    BY <1>1, <1>2, CreditedInv
  <2>2. CASE Full(L, v)
    BY <2>1, <2>2 DEF PushFront
  <2>3. CASE ~Full(L, v)
    <3>1. PushFront(L, v, pkt) = Enqueued(Credited(L, v, pkt), v, pkt)
      BY <2>3 DEF PushFront
    <3> DEFINE C == Credited(L, v, pkt)
    <3> HIDE DEF L, C
    <3>2. /\ LQInv(Enqueued(C, v, pkt))
          /\ Slots(Enqueued(C, v, pkt)) = Slots(C) \cup {<<v, C.size[v] + 1>>}
          /\ <<v, C.size[v] + 1>> \notin Slots(C)
      BY <1>1, <2>1, EnqueuedInv DEF C
    <3>3. PushFront(L, v, pkt) = Enqueued(C, v, pkt) /\ Slots(C) = Slots(L)
      BY <2>1, <3>1 DEF C
    <3> QED BY <2>3, <3>2, <3>3
  <2> QED BY <2>2, <2>3
<1> HIDE DEF L
<1>5. TypeOK
  BY DEF Inv
<1>6. /\ lq' \in [Ports -> LogicalQueueInfo]
      /\ lq'[p] = PushFront(L, v, pkt)
      /\ \A q \in Ports : q # p => lq'[q] = lq[q]
  <2>1. PushFront(L, v, pkt) \in LogicalQueueInfo
    BY <1>4 DEF LQInv
  <2> QED BY <1>3, <1>5, <2>1 DEF TypeOK
<1>7. \A q \in Ports : LQInv(lq'[q])
  BY <1>4, <1>6 DEF Inv
<1>8. /\ logical_queue_ids' \in [Workers -> Seq(Ports)] /\ OwnPortsOnly'
      /\ \A q \in Ports : Registered(q)' <=> Registered(q) \/ q = p
  BY <1>3, RegisterInv
<1>9. UnregisteredAreNew'
  BY <1>6, <1>8 DEF Inv, UnregisteredAreNew
<1>10. CASE Full(L, v)
  <2>1. \A q \in Ports : Slots(lq'[q]) = Slots(lq[q])
    BY <1>2, <1>4, <1>6, <1>10
  <2>2. \A u : PortSlots(lq', u) = PortSlots(lq, u)
    BY <2>1, PortSlotsSame
  <2>3. CountersOfWorkers'
    BY <1>3, <1>10, <2>2 DEF Inv, CountersOfWorkers, PortSlots
  <2>4. TypeOK' /\ NoLostWakeup'
    BY <1>3, <1>5, <1>6, <1>8, <1>10 DEF TypeOK, Inv, NoLostWakeup
  <2> QED BY <1>7, <1>8, <1>9, <2>3, <2>4 DEF Inv
<1>11. CASE ~Full(L, v)
  <2>1. PICK s : /\ Slots(lq'[p]) = Slots(lq[p]) \cup {s} /\ s \notin Slots(lq[p])
    BY <1>2, <1>4, <1>6, <1>11
  <2>2. /\ PortSlots(lq', w) = PortSlots(lq, w) \cup {<<p, s>>}
        /\ <<p, s>> \notin PortSlots(lq, w)
        /\ \A u : u # w => PortSlots(lq', u) = PortSlots(lq, u)
    BY <1>6, <2>1, PortSlotsGrow
  <2>3. /\ wsize' \in [Workers -> Nat]
        /\ wsize'[w] = wsize[w] + 1
        /\ \A u \in Workers : u # w => wsize'[u] = wsize[u]
    <3>1. wsize' = [wsize EXCEPT ![w] = @ + 1]
      BY <1>3, <1>11
    <3>2. wsize \in [Workers -> Nat]
      BY <1>5 DEF TypeOK
    <3> HIDE DEF w
    <3> QED BY <1>1, <3>1, <3>2
  <2>4. CountersOfWorkers'
    <3>1. ASSUME NEW u \in Workers
          PROVE  /\ IsFiniteSet(PortSlots(lq', u))
                 /\ wsize'[u] = Cardinality(PortSlots(lq', u))
      <4>1. IsFiniteSet(PortSlots(lq, u)) /\ wsize[u] = Cardinality(PortSlots(lq, u))
        BY DEF Inv, CountersOfWorkers
      <4>2. CASE u = w
        BY <2>2, <2>3, <4>1, <4>2, FS_AddElement
      <4>3. CASE u # w
        BY <2>2, <2>3, <4>1, <4>3
      <4> QED BY <4>2, <4>3
    <3> QED BY <3>1 DEF CountersOfWorkers, PortSlots
  <2>5. /\ wstate' = [wstate EXCEPT ![w] = "running"]
        /\ wake' = [wake EXCEPT ![w] = 0]
    BY <1>3, <1>11 DEF Notify
  <2>6. TypeOK'
    BY <1>1, <1>3, <1>5, <1>6, <1>8, <2>3, <2>5 DEF TypeOK, WorkerStates
  <2>7. NoLostWakeup'
    BY <1>1, <1>5, <2>3, <2>5 DEF Inv, NoLostWakeup, TypeOK
  <2> QED BY <1>7, <1>8, <1>9, <2>4, <2>6, <2>7 DEF Inv
<1> QED BY <1>10, <1>11

\* A worker that waits for a packet has none.
LEMMA WaitKeepsInv ==
  ASSUME Inv, NEW w \in Workers, WaitForPacket(w)
  PROVE  Inv'
<1>1. /\ wsize[w] = 0 /\ wstate' = [wstate EXCEPT ![w] = "waiting"]
      /\ out' = [out EXCEPT ![w] = Nothing]
      /\ UNCHANGED <<lq, capacity, logical_queue_ids, worker_rr_ptr, wsize, wake>>
  BY DEF WaitForPacket
<1>2. TypeOK'
  BY <1>1 DEF Inv, TypeOK, WorkerStates
<1>3. NoLostWakeup'
  BY <1>1 DEF Inv, NoLostWakeup, TypeOK
<1>4. UnregisteredAreNew' /\ OwnPortsOnly' /\ CountersOfWorkers'
  BY <1>1 DEF Inv, UnregisteredAreNew, Registered, OwnPortsOnly, CountersOfWorkers, PortSlots
<1> QED BY <1>1, <1>2, <1>3, <1>4 DEF Inv

\* What Pop does to each port: one of them transmits, the ports the scan has
\* passed keep a decision, the others are left alone.
LEMMA PopPorts ==
  ASSUME Inv, NEW w \in Workers, Pop(w)
  PROVE  \E p \in Ports :
            /\ WorkerOf[p] = w /\ Registered(p)
            /\ lq[p].total > 0 /\ ~Blocked(Decided(lq[p]))
            /\ lq'[p] = Transmitted(Decided(lq[p]))
            /\ \A q \in Ports : q # p =>
                  lq'[q] = lq[q]
                  \/ (lq[q].total > 0 /\ Registered(q) /\ lq'[q] = Decided(lq[q]))
            /\ out' = [out EXCEPT ![w] =
                  [port |-> p, vn |-> Decided(lq[p]).pending_vn,
                   pkt |-> Head(Decided(lq[p]).fifo[Decided(lq[p]).pending_vn])]]
<1> DEFINE i == Stop(w)
           p == logical_queue_ids[w][i + 1]
           passed == PassedBefore(w, i)
<1>1. Ready(w) # {}
  BY DEF Pop
<1>2. p \in Ready(w)
  BY <1>1, StopsAtReady
<1>3. /\ lq' = [r \in Ports |-> IF r = p THEN Transmitted(Decided(lq[p]))
                                ELSE IF r \in passed THEN Decided(lq[r])
                                ELSE lq[r]]
      /\ out' = [out EXCEPT ![w] =
            [port |-> p, vn |-> Decided(lq[p]).pending_vn,
             pkt |-> Head(Decided(lq[p]).fifo[Decided(lq[p]).pending_vn])]]
  BY DEF Pop
<1>4. passed \subseteq NonEmpty(w)
  BY DEF PassedBefore
<1> HIDE DEF i, p, passed
<1>5. p \in NonEmpty(w) /\ ~Blocked(lq[p])
  BY <1>2 DEF Ready
<1>6. p \in Ports /\ WorkerOf[p] = w /\ Registered(p) /\ lq[p].total > 0 /\ LQInv(lq[p])
  BY <1>5, NonEmptyPorts
<1>7. ~Blocked(Decided(lq[p]))
  BY <1>5, <1>6, DecidedInv
<1>8. lq'[p] = Transmitted(Decided(lq[p]))
  BY <1>3, <1>6
<1>9. ASSUME NEW q \in Ports, q # p
      PROVE  lq'[q] = lq[q]
             \/ (lq[q].total > 0 /\ Registered(q) /\ lq'[q] = Decided(lq[q]))
  <2>1. lq'[q] = IF q \in passed THEN Decided(lq[q]) ELSE lq[q]
    BY <1>3, <1>9
  <2>2. q \in passed => lq[q].total > 0 /\ Registered(q)
    BY <1>4, NonEmptyPorts
  <2> QED BY <2>1, <2>2
<1> QED BY <1>3, <1>6, <1>7, <1>8, <1>9

\* Delivering a packet keeps the invariant.
LEMMA PopKeepsInv ==
  ASSUME Inv, NEW w \in Workers, Pop(w)
  PROVE  Inv'
<1>1. PICK p \in Ports :
            /\ WorkerOf[p] = w /\ Registered(p)
            /\ lq[p].total > 0 /\ ~Blocked(Decided(lq[p]))
            /\ lq'[p] = Transmitted(Decided(lq[p]))
            /\ \A q \in Ports : q # p =>
                  lq'[q] = lq[q]
                  \/ (lq[q].total > 0 /\ Registered(q) /\ lq'[q] = Decided(lq[q]))
            /\ out' = [out EXCEPT ![w] =
                  [port |-> p, vn |-> Decided(lq[p]).pending_vn,
                   pkt |-> Head(Decided(lq[p]).fifo[Decided(lq[p]).pending_vn])]]
  BY PopPorts
<1> DEFINE D == Decided(lq[p])
           v == D.pending_vn
           s == <<v, D.size[v]>>
<1>2. /\ LQInv(D) /\ v \in VNs /\ Slots(D) = Slots(lq[p])
  BY <1>1, DecidedInv DEF Inv
<1> HIDE DEF D
<1>3. /\ LQInv(lq'[p]) /\ Slots(lq[p]) = Slots(lq'[p]) \cup {s}
      /\ s \notin Slots(lq'[p]) /\ Head(D.fifo[v]) \in Pkt
  <2>1. LQInv(D) /\ D.pending_vn \in VNs /\ ~Blocked(D) /\ lq'[p] = Transmitted(D)
    BY <1>1, <1>2 DEF D
  <2>2. /\ LQInv(Transmitted(D))
        /\ Slots(D) = Slots(Transmitted(D)) \cup {<<D.pending_vn, D.size[D.pending_vn]>>}
        /\ <<D.pending_vn, D.size[D.pending_vn]>> \notin Slots(Transmitted(D))
        /\ Head(D.fifo[D.pending_vn]) \in Pkt
    BY <2>1, TransmittedInv
  <2> QED BY <1>2, <2>1, <2>2
<1>4. \A q \in Ports : q # p => LQInv(lq'[q]) /\ Slots(lq'[q]) = Slots(lq[q])
  BY <1>1, DecidedInv DEF Inv
<1>5. /\ wsize' = [wsize EXCEPT ![w] = @ - 1]
      /\ UNCHANGED <<capacity, logical_queue_ids, wstate, wake>>
      /\ worker_rr_ptr' = [worker_rr_ptr EXCEPT ![w] = PtrAfter(w, Stop(w))]
      /\ lq' \in [Ports -> {lq'[q] : q \in Ports}]
      /\ Ready(w) # {}
  BY DEF Pop
<1>6. lq' \in [Ports -> LogicalQueueInfo]
  <2>1. \A q \in Ports : lq'[q] \in LogicalQueueInfo
    BY <1>3, <1>4 DEF LQInv
  <2> QED BY <1>5, <2>1
<1> HIDE DEF s, v
<1>7. /\ PortSlots(lq, w) = PortSlots(lq', w) \cup {<<p, s>>}
      /\ <<p, s>> \notin PortSlots(lq', w)
      /\ \A u : u # w => PortSlots(lq', u) = PortSlots(lq, u)
  <2>1. /\ PortSlots(lq, WorkerOf[p]) = PortSlots(lq', WorkerOf[p]) \cup {<<p, s>>}
        /\ <<p, s>> \notin PortSlots(lq', WorkerOf[p])
        /\ \A u : u # WorkerOf[p] => PortSlots(lq, u) = PortSlots(lq', u)
    BY <1>3, <1>4, PortSlotsGrow
  <2> QED BY <1>1, <2>1
<1>8. wsize \in [Workers -> Nat]
  BY DEF Inv, TypeOK
<1>9. ASSUME NEW u \in Workers
      PROVE  /\ IsFiniteSet(PortSlots(lq', u))
             /\ wsize'[u] = Cardinality(PortSlots(lq', u))
             /\ wsize'[u] \in Nat
  <2>1. IsFiniteSet(PortSlots(lq, u)) /\ wsize[u] = Cardinality(PortSlots(lq, u))
    BY DEF Inv, CountersOfWorkers
  <2>2. CASE u = w
    <3>1. IsFiniteSet(PortSlots(lq', u))
      BY <1>7, <2>1, <2>2, FS_Subset
    <3>2. Cardinality(PortSlots(lq, u)) = Cardinality(PortSlots(lq', u)) + 1
      BY <1>7, <2>2, <3>1, FS_AddElement
    <3>3. Cardinality(PortSlots(lq', u)) \in Nat
      BY <3>1, FS_CardinalityType
    <3>4. wsize'[u] = wsize[u] - 1
      BY <1>5, <1>8, <2>2
    <3> QED BY <2>1, <3>1, <3>2, <3>3, <3>4
  <2>3. CASE u # w
    BY <1>5, <1>7, <1>8, <2>1, <2>3
  <2> QED BY <2>2, <2>3
<1>10. CountersOfWorkers'
  BY <1>9 DEF CountersOfWorkers, PortSlots
<1>11. wsize' \in [Workers -> Nat]
  BY <1>5, <1>8, <1>9
<1>12. worker_rr_ptr' \in [Workers -> Nat]
  <2>1. Stop(w) \in 0 .. Len(logical_queue_ids[w]) - 1
    BY <1>5, StopsAtReady
  <2>2. Len(logical_queue_ids[w]) \in Nat
    BY DEF Inv, TypeOK
  <2>3. PtrAfter(w, Stop(w)) \in Nat
    BY <2>1, <2>2 DEF PtrAfter
  <2> QED BY <1>5, <2>3 DEF Inv, TypeOK
<1>13. out' \in [Workers -> Delivery \cup {Nothing}]
  <2>1. out' = [out EXCEPT ![w] = [port |-> p, vn |-> v, pkt |-> Head(D.fifo[v])]]
    BY <1>1 DEF D, v
  <2>2. [port |-> p, vn |-> v, pkt |-> Head(D.fifo[v])] \in Delivery
    BY <1>2, <1>3 DEF Delivery, v
  <2> QED BY <2>1, <2>2 DEF Inv, TypeOK
<1>14. TypeOK'
  BY <1>5, <1>6, <1>11, <1>12, <1>13 DEF Inv, TypeOK
<1>15. OwnPortsOnly'
  BY <1>5 DEF Inv, OwnPortsOnly
<1>16. UnregisteredAreNew'
  <2>1. \A q \in Ports : ~Registered(q)' => ~Registered(q) /\ lq'[q] = lq[q]
    BY <1>1, <1>5 DEF Registered
  <2> QED BY <2>1 DEF Inv, UnregisteredAreNew
<1>17. NoLostWakeup'
  <2>1. \A u \in Workers : wsize[u] = 0 => wsize'[u] = 0
    <3>1. wsize[w] # 0
      <4>1. /\ IsFiniteSet(PortSlots(lq, w)) /\ wsize[w] = Cardinality(PortSlots(lq, w))
        BY DEF Inv, CountersOfWorkers
      <4> QED BY <1>7, <4>1, FS_EmptySet
    <3> QED BY <1>5, <1>8, <3>1
  <2> QED BY <1>5, <2>1 DEF Inv, NoLostWakeup
<1> QED BY <1>3, <1>4, <1>10, <1>14, <1>15, <1>16, <1>17 DEF Inv

\* A step that moves no packet keeps the invariant if it keeps the registrations
\* right and puts no worker with packets to sleep without a timeout.
LEMMA QuietStepKeepsInv ==
  ASSUME Inv, lq' = [q \in Ports |-> lq'[q]],
         \A q \in Ports : LQInv(lq'[q]) /\ Slots(lq'[q]) = Slots(lq[q]),
         logical_queue_ids' \in [Workers -> Seq(Ports)], OwnPortsOnly',
         UnregisteredAreNew', capacity' \in Nat, UNCHANGED <<worker_rr_ptr, wsize>>,
         wstate' \in [Workers -> WorkerStates], wake' \in [Workers -> Nat],
         out' \in [Workers -> Delivery \cup {Nothing}], NoLostWakeup'
  PROVE  Inv'
<1>1. \A w : PortSlots(lq', w) = PortSlots(lq, w)
  BY PortSlotsSame
<1>2. CountersOfWorkers'
  BY <1>1 DEF Inv, CountersOfWorkers, PortSlots
<1>3. lq' \in [Ports -> LogicalQueueInfo]
  <2>1. \A q \in Ports : lq'[q] \in LogicalQueueInfo
    BY DEF LQInv
  <2> QED BY <2>1
<1>4. TypeOK'
  BY <1>3 DEF Inv, TypeOK
<1> QED BY <1>2, <1>4 DEF Inv

\* A worker whose ports are all blocked caches its decisions and goes to sleep.
LEMMA SleepKeepsInv ==
  ASSUME Inv, NEW w \in Workers, Sleep(w)
  PROVE  Inv'
<1>1. /\ wsize[w] > 0 /\ Ready(w) = {}
      /\ lq' = [p \in Ports |-> IF p \in NonEmpty(w) THEN Decided(lq[p]) ELSE lq[p]]
      /\ wstate' = [wstate EXCEPT ![w] = "sleeping"]
      /\ out' = [out EXCEPT ![w] = Nothing]
      /\ UNCHANGED <<capacity, logical_queue_ids, worker_rr_ptr, wsize>>
  BY DEF Sleep
<1>2. PICK t \in WakeTimes(w) : wake' = [wake EXCEPT ![w] = t]
  BY DEF Sleep
<1>3. t \in Nat
  BY <1>1, <1>2, WakeTimesNat
<1>4. \A q \in Ports : LQInv(lq'[q]) /\ Slots(lq'[q]) = Slots(lq[q])
  <2> TAKE q \in Ports
  <2>1. CASE q \in NonEmpty(w)
    BY <1>1, <2>1, NonEmptyPorts, DecidedInv
  <2>2. CASE q \notin NonEmpty(w)
    BY <1>1, <2>2 DEF Inv
  <2> QED BY <2>1, <2>2
<1>5. lq' = [q \in Ports |-> lq'[q]]
  BY <1>1
<1>6. UnregisteredAreNew'
  <2>1. \A q \in Ports : ~Registered(q)' => ~Registered(q) /\ q \notin NonEmpty(w)
    BY <1>1, NonEmptyPorts DEF Registered
  <2> QED BY <1>1, <2>1 DEF Inv, UnregisteredAreNew
<1>7. OwnPortsOnly' /\ logical_queue_ids' \in [Workers -> Seq(Ports)] /\ capacity' \in Nat
  BY <1>1 DEF Inv, OwnPortsOnly, TypeOK
<1>8. /\ wstate' \in [Workers -> WorkerStates] /\ wake' \in [Workers -> Nat]
      /\ out' \in [Workers -> Delivery \cup {Nothing}]
  BY <1>1, <1>2, <1>3 DEF Inv, TypeOK, WorkerStates
<1>9. NoLostWakeup'
  BY <1>1 DEF Inv, NoLostWakeup, TypeOK
<1> QED BY <1>1, <1>4, <1>5, <1>6, <1>7, <1>8, <1>9, QuietStepKeepsInv

\* A thread that leaves its wait, for whatever reason, keeps the invariant.
LEMMA WakeKeepsInv ==
  ASSUME Inv, NEW w \in Workers, TimeOut(w) \/ SpuriousWakeup(w)
  PROVE  Inv'
<1>1. /\ wstate' = [wstate EXCEPT ![w] = "running"]
      /\ wake' = wake \/ wake' = [wake EXCEPT ![w] = 0]
      /\ UNCHANGED <<lq, capacity, logical_queue_ids, worker_rr_ptr, wsize, out>>
  BY DEF TimeOut, SpuriousWakeup, Notify
<1>2. wake' \in [Workers -> Nat]
  <2>1. wake \in [Workers -> Nat]
    BY DEF Inv, TypeOK
  <2> QED BY <1>1, <2>1
<1>3. TypeOK'
  BY <1>1, <1>2 DEF Inv, TypeOK, WorkerStates
<1>4. NoLostWakeup'
  BY <1>1 DEF Inv, NoLostWakeup, TypeOK
<1>5. UnregisteredAreNew' /\ OwnPortsOnly' /\ CountersOfWorkers'
  BY <1>1 DEF Inv, UnregisteredAreNew, Registered, OwnPortsOnly, CountersOfWorkers, PortSlots
<1> QED BY <1>1, <1>3, <1>4, <1>5 DEF Inv

\* A setter on one port keeps the invariant.
LEMMA PortSetterKeepsInv ==
  ASSUME Inv, NEW p \in Ports, NEW caps \in [VNs -> Nat], NEW bps \in Nat,
         lq' = [lq EXCEPT ![p] = Reconfigured(LogicalQueueOf(p), caps, bps)],
         Register(p), UNCHANGED <<capacity, worker_rr_ptr, wsize, wstate, wake, out>>
  PROVE  Inv'
<1> DEFINE M == Reconfigured(LogicalQueueOf(p), caps, bps)
<1>1. LQInv(LogicalQueueOf(p)) /\ Slots(LogicalQueueOf(p)) = Slots(lq[p])
  BY LogicalQueueOfInv
<1>2. LQInv(M) /\ Slots(M) = Slots(lq[p])
  BY <1>1, ReconfiguredInv
<1>3. lq' = [lq EXCEPT ![p] = M]
  OBVIOUS
<1> HIDE DEF M
<1>4. lq \in [Ports -> LogicalQueueInfo]
  BY DEF Inv, TypeOK
<1>5. lq'[p] = M /\ \A q \in Ports : q # p => lq'[q] = lq[q]
  BY <1>3, <1>4
<1>6. \A q \in Ports : LQInv(lq'[q]) /\ Slots(lq'[q]) = Slots(lq[q])
  BY <1>2, <1>5 DEF Inv
<1>7. lq' = [q \in Ports |-> lq'[q]]
  BY <1>3, <1>4
<1>8. /\ logical_queue_ids' \in [Workers -> Seq(Ports)] /\ OwnPortsOnly'
      /\ \A q \in Ports : Registered(q)' <=> Registered(q) \/ q = p
  BY RegisterInv
<1>9. UnregisteredAreNew'
  BY <1>5, <1>8 DEF Inv, UnregisteredAreNew
<1>10. /\ capacity' \in Nat /\ NoLostWakeup'
       /\ wstate' \in [Workers -> WorkerStates] /\ wake' \in [Workers -> Nat]
       /\ out' \in [Workers -> Delivery \cup {Nothing}]
  BY DEF Inv, TypeOK, NoLostWakeup
<1> QED BY <1>6, <1>7, <1>8, <1>9, <1>10, QuietStepKeepsInv

\* A step that rewrites the queues of registered ports without moving a packet
\* keeps the invariant.
LEMMA AllPortsKeepsInv ==
  ASSUME Inv, NEW f,
         \A q \in Ports : LQInv(f[q]) /\ Slots(f[q]) = Slots(lq[q]),
         lq' = [q \in Ports |-> IF Registered(q) THEN f[q] ELSE lq[q]],
         capacity' \in Nat, wake' \in [Workers -> Nat],
         UNCHANGED <<logical_queue_ids, worker_rr_ptr, wsize, wstate, out>>
  PROVE  Inv'
<1>1. \A q \in Ports : LQInv(lq'[q]) /\ Slots(lq'[q]) = Slots(lq[q])
  BY DEF Inv
<1>2. lq' = [q \in Ports |-> lq'[q]]
  OBVIOUS
<1>3. /\ logical_queue_ids' \in [Workers -> Seq(Ports)] /\ OwnPortsOnly'
      /\ wstate' \in [Workers -> WorkerStates]
      /\ out' \in [Workers -> Delivery \cup {Nothing}] /\ NoLostWakeup'
  BY DEF Inv, TypeOK, OwnPortsOnly, NoLostWakeup
<1>4. UnregisteredAreNew'
  <2>1. \A q \in Ports : ~Registered(q)' => ~Registered(q) /\ lq'[q] = lq[q]
    BY DEF Registered
  <2> QED BY <2>1 DEF Inv, UnregisteredAreNew
<1> QED BY <1>1, <1>2, <1>3, <1>4, QuietStepKeepsInv

\* A setter on all ports keeps the invariant.
LEMMA AllPortsSetterKeepsInv ==
  ASSUME Inv, NEW caps, NEW rates,
         \A q \in Ports : caps[q] \in [VNs -> Nat] /\ rates[q] \in Nat,
         lq' = [q \in Ports |->
                  IF Registered(q)
                  THEN Reconfigured(lq[q], caps[q], rates[q])
                  ELSE lq[q]],
         capacity' \in Nat,
         UNCHANGED <<logical_queue_ids, worker_rr_ptr, wsize, wstate, wake, out>>
  PROVE  Inv'
<1> DEFINE f == [q \in Ports |-> Reconfigured(lq[q], caps[q], rates[q])]
<1>1. \A q \in Ports : LQInv(f[q]) /\ Slots(f[q]) = Slots(lq[q])
  <2> TAKE q \in Ports
  <2>1. LQInv(lq[q]) /\ caps[q] \in [VNs -> Nat] /\ rates[q] \in Nat
    BY DEF Inv
  <2> QED BY <2>1, ReconfiguredInv
<1>2. lq' = [q \in Ports |-> IF Registered(q) THEN f[q] ELSE lq[q]]
  OBVIOUS
<1>3. wake' \in [Workers -> Nat]
  BY DEF Inv, TypeOK
<1> HIDE DEF f
<1> QED BY <1>1, <1>2, <1>3, AllPortsKeepsInv

\* The control plane keeps the invariant.
LEMMA ControlPlaneKeepsInv ==
  ASSUME Inv, ControlPlane
  PROVE  Inv'
<1>0. /\ Capacities \subseteq Nat /\ Rates \subseteq Nat
      /\ \A q \in Ports : lq[q].capacity \in [VNs -> Nat] /\ lq[q].rate \in Nat
      /\ \A q \in Ports : lq[q] \in LogicalQueueInfo
  BY TMAssumption DEF Inv, LQInv, LogicalQueueInfo
<1>1. ASSUME NEW p \in Ports
      PROVE  /\ LogicalQueueOf(p) \in LogicalQueueInfo
             /\ LogicalQueueOf(p).capacity \in [VNs -> Nat]
             /\ LogicalQueueOf(p).rate \in Nat
  <2>1. LogicalQueueOf(p) \in LogicalQueueInfo
    BY LogicalQueueOfInv DEF LQInv
  <2> QED BY <2>1 DEF LogicalQueueInfo
<1>2. ASSUME NEW p \in Ports, NEW v \in VNs, NEW c \in Capacities, SetVNCapacity(p, v, c)
      PROVE  Inv'
  <2> DEFINE L == LogicalQueueOf(p)
             caps == [L.capacity EXCEPT ![v] = c]
  <2>1. /\ lq' = [lq EXCEPT ![p] = [L EXCEPT !.capacity[v] = c]] /\ Register(p)
        /\ UNCHANGED <<capacity, worker_rr_ptr, wsize, wstate, wake, out>>
    BY <1>2 DEF SetVNCapacity
  <2>2. L \in LogicalQueueInfo /\ caps \in [VNs -> Nat] /\ L.rate \in Nat
    BY <1>0, <1>1
  <2>3. [L EXCEPT !.capacity[v] = c] = Reconfigured(L, caps, L.rate)
    <3> HIDE DEF L
    <3> QED BY <2>2 DEF LogicalQueueInfo, Reconfigured
  <2> HIDE DEF caps
  <2> QED BY <2>1, <2>2, <2>3, PortSetterKeepsInv
<1>3. ASSUME NEW p \in Ports, NEW c \in Capacities, SetQueueCapacity(p, c)
      PROVE  Inv'
  <2> DEFINE L == LogicalQueueOf(p)
             caps == [v \in VNs |-> c]
  <2>1. /\ lq' = [lq EXCEPT ![p] = [L EXCEPT !.capacity = caps]] /\ Register(p)
        /\ UNCHANGED <<capacity, worker_rr_ptr, wsize, wstate, wake, out>>
    BY <1>3 DEF SetQueueCapacity
  <2>2. L \in LogicalQueueInfo /\ caps \in [VNs -> Nat] /\ L.rate \in Nat
    BY <1>0, <1>1
  <2> HIDE DEF caps
  <2>3. [L EXCEPT !.capacity = caps] = Reconfigured(L, caps, L.rate)
    <3> HIDE DEF L
    <3> QED BY <2>2 DEF LogicalQueueInfo, Reconfigured
  <2> QED BY <2>1, <2>2, <2>3, PortSetterKeepsInv
<1>4. ASSUME NEW p \in Ports, NEW bps \in Rates, SetRate(p, bps)
      PROVE  Inv'
  <2> DEFINE L == LogicalQueueOf(p)
  <2>1. /\ lq' = [lq EXCEPT ![p] = [L EXCEPT !.rate = bps]] /\ Register(p)
        /\ UNCHANGED <<capacity, worker_rr_ptr, wsize, wstate, wake, out>>
    BY <1>4 DEF SetRate
  <2>2. L \in LogicalQueueInfo /\ L.capacity \in [VNs -> Nat] /\ bps \in Nat
    BY <1>0, <1>1
  <2>3. [L EXCEPT !.rate = bps] = Reconfigured(L, L.capacity, bps)
    <3> HIDE DEF L
    <3> QED BY <2>2 DEF LogicalQueueInfo, Reconfigured
  <2> QED BY <2>1, <2>2, <2>3, PortSetterKeepsInv
<1>5. ASSUME NEW c \in Capacities, SetCapacityForAll(c)
      PROVE  Inv'
  <2> DEFINE caps == [q \in Ports |-> [v \in VNs |-> c]]
             rates == [q \in Ports |-> lq[q].rate]
  <2>1. /\ lq' = [q \in Ports |->
                    IF Registered(q) THEN [lq[q] EXCEPT !.capacity = [v \in VNs |-> c]]
                    ELSE lq[q]]
        /\ capacity' = c
        /\ UNCHANGED <<logical_queue_ids, worker_rr_ptr, wsize, wstate, wake, out>>
    BY <1>5 DEF SetCapacityForAll
  <2>2. \A q \in Ports : caps[q] \in [VNs -> Nat] /\ rates[q] \in Nat
    BY <1>0
  <2>3. \A q \in Ports : [lq[q] EXCEPT !.capacity = [v \in VNs |-> c]]
                         = Reconfigured(lq[q], caps[q], rates[q])
    <3> TAKE q \in Ports
    <3>1. lq[q] \in LogicalQueueInfo /\ caps[q] = [v \in VNs |-> c] /\ rates[q] = lq[q].rate
      BY <1>0
    <3> DEFINE all == [v \in VNs |-> c]
    <3> HIDE DEF caps, rates, all
    <3>2. [lq[q] EXCEPT !.capacity = all]
          = Reconfigured(lq[q], all, lq[q].rate)
      BY <3>1 DEF LogicalQueueInfo, Reconfigured
    <3> QED BY <3>1, <3>2 DEF all
  <2> HIDE DEF caps, rates
  <2>4. lq' = [q \in Ports |->
                  IF Registered(q)
                  THEN Reconfigured(lq[q], caps[q], rates[q])
                  ELSE lq[q]]
    BY <2>1, <2>3
  <2>5. capacity' \in Nat
    BY <1>0, <2>1
  <2> QED BY <2>1, <2>2, <2>4, <2>5, AllPortsSetterKeepsInv
<1>6. ASSUME NEW bps \in Rates, SetRateForAll(bps)
      PROVE  Inv'
  <2> DEFINE caps == [q \in Ports |-> lq[q].capacity]
             rates == [q \in Ports |-> bps]
  <2>1. /\ lq' = [q \in Ports |-> IF Registered(q) THEN [lq[q] EXCEPT !.rate = bps]
                                  ELSE lq[q]]
        /\ UNCHANGED <<capacity, logical_queue_ids, worker_rr_ptr, wsize, wstate, wake, out>>
    BY <1>6 DEF SetRateForAll
  <2>2. \A q \in Ports : caps[q] \in [VNs -> Nat] /\ rates[q] \in Nat
    BY <1>0
  <2>3. \A q \in Ports : [lq[q] EXCEPT !.rate = bps]
                         = Reconfigured(lq[q], caps[q], rates[q])
    <3> TAKE q \in Ports
    <3>1. lq[q] \in LogicalQueueInfo /\ caps[q] = lq[q].capacity /\ rates[q] = bps
      BY <1>0
    <3> HIDE DEF caps, rates
    <3>2. [lq[q] EXCEPT !.rate = bps]
          = Reconfigured(lq[q], lq[q].capacity, bps)
      BY <3>1 DEF LogicalQueueInfo, Reconfigured
    <3> QED BY <3>1, <3>2
  <2> HIDE DEF caps, rates
  <2>4. lq' = [q \in Ports |->
                  IF Registered(q)
                  THEN Reconfigured(lq[q], caps[q], rates[q])
                  ELSE lq[q]]
    BY <2>1, <2>3
  <2>5. capacity' \in Nat
    BY <2>1 DEF Inv, TypeOK
  <2> QED BY <2>1, <2>2, <2>4, <2>5, AllPortsSetterKeepsInv
<1> QED BY <1>2, <1>3, <1>4, <1>5, <1>6 DEF ControlPlane

\* The clock keeps the invariant.
LEMMA TickKeepsInv ==
  ASSUME Inv, Tick
  PROVE  Inv'
<1> DEFINE f == [q \in Ports |-> Aged(lq[q])]
<1>1. /\ lq' = [p \in Ports |-> IF Registered(p) THEN Aged(lq[p]) ELSE lq[p]]
      /\ wake' = [w \in Workers |-> IF wake[w] \in {0, Never} THEN wake[w] ELSE wake[w] - 1]
      /\ UNCHANGED <<capacity, logical_queue_ids, worker_rr_ptr, wsize, wstate, out>>
  BY DEF Tick
<1>2. \A q \in Ports : LQInv(f[q]) /\ Slots(f[q]) = Slots(lq[q])
  BY AgedInv DEF Inv
<1>3. lq' = [q \in Ports |-> IF Registered(q) THEN f[q] ELSE lq[q]]
  BY <1>1
<1>4. wake' \in [Workers -> Nat]
  <2>1. \A w \in Workers : wake[w] \in Nat
    BY DEF Inv, TypeOK
  <2> QED BY <1>1, <2>1
<1>5. capacity' \in Nat
  BY <1>1 DEF Inv, TypeOK
<1> HIDE DEF f
<1> QED BY <1>1, <1>2, <1>3, <1>4, <1>5, AllPortsKeepsInv

\* Inv is inductive.
LEMMA NextKeepsInv == Inv /\ [Next]_vars => Inv'
<1> SUFFICES ASSUME Inv, [Next]_vars PROVE Inv'
  OBVIOUS
<1>1. CASE PushAny
  BY <1>1, PushKeepsInv DEF PushAny
<1>2. ASSUME NEW w \in Workers, Worker(w) \/ SpuriousWakeup(w) PROVE Inv'
  <2>1. CASE WaitForPacket(w)
    BY <2>1, WaitKeepsInv
  <2>2. CASE Pop(w)
    BY <2>2, PopKeepsInv
  <2>3. CASE Sleep(w)
    BY <2>3, SleepKeepsInv
  <2>4. CASE TimeOut(w) \/ SpuriousWakeup(w)
    BY <2>4, WakeKeepsInv
  <2> QED BY <1>2, <2>1, <2>2, <2>3, <2>4 DEF Worker
<1>3. CASE ControlPlane
  BY <1>3, ControlPlaneKeepsInv
<1>4. CASE Tick
  BY <1>4, TickKeepsInv
<1>5. CASE UNCHANGED vars
  BY <1>5 DEF vars, Inv, TypeOK, CountersOfWorkers, PortSlots, OwnPortsOnly,
              UnregisteredAreNew, Registered, NoLostWakeup
<1> QED BY <1>1, <1>2, <1>3, <1>4, <1>5 DEF Next

\* Inv holds in every reachable state.
LEMMA SpecInv == Spec => []Inv
BY InitInv, NextKeepsInv, PTL DEF Spec

-----------------------------------------------------------------------------
(* Safety *)

\* Every container of the scheduler keeps its shape: counters stay naturals, the
\* active set holds VNs, the cached decision is a VN or none, and the wake-up
\* time of every wait_until is defined.
THEOREM TypeCorrect == Spec => []TypeOK
<1>1. Inv => TypeOK
  BY DEF Inv
<1> QED BY <1>1, SpecInv, PTL

\* The VN, logical-queue and worker counters agree with the deques after any
\* sequence of push_front, pop_back and set_* calls.
THEOREM CountersAlwaysAgree == Spec => []CountersAgree
<1>1. Inv => CountersAgree
  BY DEF Inv, LQInv, CountersOfWorkers, CountersAgree, PortSlots
<1> QED BY <1>1, SpecInv, PTL

\* No packet is stranded outside the active set.
THEOREM NoPacketStranded == Spec => []BackloggedAreActive
<1>1. Inv => BackloggedAreActive
  BY DEF Inv, LQInv, BackloggedAreActive
<1> QED BY <1>1, SpecInv, PTL

\* The active set holds no VN twice.
THEOREM NoDoubleActivation == Spec => []ActiveOnce
<1>1. Inv => ActiveOnce
  BY DEF Inv, LQInv, ActiveOnce
<1> QED BY <1>1, SpecInv, PTL

\* A decision the bucket has deferred names a VN with a packet.
THEOREM PendingAlwaysBacklogged == Spec => []PendingBacklogged
<1>1. Inv => PendingBacklogged
  BY DEF Inv, LQInv, PendingBacklogged
<1> QED BY <1>1, SpecInv, PTL

\* A VN outside the active set holds no DWRR credit and owes none.
THEOREM ReactivationFromZero == Spec => []ReactivationStartsAtZero
<1>1. Inv => ReactivationStartsAtZero
  BY DEF Inv, LQInv, ReactivationStartsAtZero
<1> QED BY <1>1, SpecInv, PTL

\* A VN overdraws its GB credit or its deficit by less than one packet.
THEOREM OverdraftAlwaysBounded == Spec => []OverdraftBounded
<1>1. Inv => OverdraftBounded
  BY DEF Inv, LQInv, OverdraftBounded
<1> QED BY <1>1, SpecInv, PTL

\* The idle sweep never reads the sentinel time of a VN.
THEOREM SentinelNeverRead == Spec => []NoSentinelRead
<1>1. Inv => NoSentinelRead
  BY DEF Inv, LQInv, NoSentinelRead
<1> QED BY <1>1, SpecInv, PTL

\* The active set is sound, for any weights, packet sizes, ports and workers: the
\* four theorems about pop_back's sweep and push_front's activation together.
THEOREM ActiveSetAlwaysSound == Spec => []ActiveSetSound
BY NoPacketStranded, NoDoubleActivation, ReactivationFromZero, SentinelNeverRead,
   PTL DEF ActiveSetSound

\* The dequeue bucket never holds more than tau plus one packet, at any rates.
THEOREM LevelAlwaysBounded == Spec => []LevelBounded
<1>1. Inv => LevelBounded
  BY DEF Inv, LQInv, LevelBounded
<1> QED BY <1>1, SpecInv, PTL

\* A worker in an untimed wait has nothing to send.
THEOREM WakeupsNeverLost == Spec => []NoLostWakeup
<1>1. Inv => NoLostWakeup
  BY DEF Inv
<1> QED BY <1>1, SpecInv, PTL

-----------------------------------------------------------------------------
(* Deferred decisions *)

\* A queue that does not change keeps its decision.
LEMMA StandsStill ==
  ASSUME NEW L, L \in LogicalQueueInfo
  PROVE  DecisionStands(L, L)
<1>1. \A v \in VNs : L.green_credit[v] \in Int
  BY DEF LogicalQueueInfo
<1> QED BY <1>1 DEF DecisionStands

\* Arrivals, the clock and the setters neither charge a counter nor touch a
\* cached decision.
LEMMA StandsUnlessDequeued ==
  ASSUME NEW L, LQInv(L)
  PROVE  /\ \A v \in VNs, pkt \in Pkt : DecisionStands(L, PushFront(L, v, pkt))
         /\ DecisionStands(L, Aged(L))
         /\ \A caps, bps : DecisionStands(L, Reconfigured(L, caps, bps))
<1>1. L \in LogicalQueueInfo
  BY DEF LQInv
<1>2. L.green_credit \in [VNs -> Int]
  BY <1>1 DEF LogicalQueueInfo
<1>3. ASSUME NEW M, M.weighted_deficit = L.weighted_deficit,
             M.green_credit = L.green_credit, M.pending_vn = L.pending_vn
      PROVE  DecisionStands(L, M)
  BY <1>2, <1>3 DEF DecisionStands
<1>4. DecisionStands(L, Aged(L))
  <2>1. /\ Aged(L).weighted_deficit = L.weighted_deficit
        /\ Aged(L).green_credit = L.green_credit /\ Aged(L).pending_vn = L.pending_vn
    BY <1>1 DEF Aged, LogicalQueueInfo
  <2> QED BY <1>3, <2>1
<1>5. ASSUME NEW caps, NEW bps PROVE DecisionStands(L, Reconfigured(L, caps, bps))
  <2> DEFINE M == Reconfigured(L, caps, bps)
  <2>1. /\ M.weighted_deficit = L.weighted_deficit
        /\ M.green_credit = L.green_credit /\ M.pending_vn = L.pending_vn
    BY <1>1 DEF Reconfigured, LogicalQueueInfo
  <2> QED BY <1>3, <2>1
<1>6. ASSUME NEW v \in VNs, NEW pkt \in Pkt PROVE DecisionStands(L, PushFront(L, v, pkt))
  <2> DEFINE C == Credited(L, v, pkt)
             M == PushFront(L, v, pkt)
  <2>1. pkt.size \in Nat
    BY LQAssumption DEF Pkt
  <2>2. /\ C.weighted_deficit = L.weighted_deficit /\ C.pending_vn = L.pending_vn
        /\ \A u \in VNs : C.green_credit[u] >= L.green_credit[u]
    <3>1. CASE pkt.color # Green
      <4>1. C = L
        BY <3>1 DEF Credited
      <4> QED BY <1>2, <4>1
    <3>2. CASE pkt.color = Green
      <4> DEFINE credit == [L.green_credit EXCEPT ![v] = @ + pkt.size]
      <4>1. C = [L EXCEPT !.green_credit = credit]
        BY <3>2 DEF Credited
      <4>2. \A u \in VNs : credit[u] >= L.green_credit[u]
        BY <1>2, <2>1
      <4> HIDE DEF C, credit
      <4> QED BY <1>1, <4>1, <4>2 DEF LogicalQueueInfo
    <3> QED BY <3>1, <3>2
  <2>3. LQInv(C)
    BY CreditedInv
  <2>4. M = IF Full(L, v) THEN C ELSE Enqueued(C, v, pkt)
    BY DEF PushFront
  <2> HIDE DEF C, M
  <2>5. /\ M.weighted_deficit = C.weighted_deficit /\ M.pending_vn = C.pending_vn
        /\ M.green_credit = C.green_credit
    BY <2>3, <2>4 DEF LQInv, Enqueued, LogicalQueueInfo
  <2> QED BY <2>2, <2>5 DEF DecisionStands, M
<1> QED BY <1>4, <1>5, <1>6

\* A cached decision is reused as it is, and only its own packet leaves with it.
LEMMA StandsWhenDequeued ==
  ASSUME NEW L, LQInv(L), L.total > 0
  PROVE  /\ DecisionStands(L, Decided(L))
         /\ ~Blocked(Decided(L)) => DecisionStands(L, Transmitted(Decided(L)))
<1>1. L \in LogicalQueueInfo
  BY DEF LQInv
<1>2. SUFFICES ASSUME L.pending_vn # NoVN
               PROVE  /\ DecisionStands(L, Decided(L))
                      /\ ~Blocked(Decided(L)) => DecisionStands(L, Transmitted(Decided(L)))
  BY DEF DecisionStands
<1>3. Decided(L) = L
  BY <1>2 DEF Decided
<1>4. DecisionStands(L, L)
  BY <1>1, StandsStill
<1>5. ASSUME ~Blocked(L) PROVE DecisionStands(L, Transmitted(L))
  <2> DEFINE M == Transmitted(L)
  <2>1. L.pending_vn \in VNs
    BY <1>1, <1>2 DEF LogicalQueueInfo
  <2>2. M.pending_vn = NoVN /\ M.fifo = [L.fifo EXCEPT ![L.pending_vn] = Tail(@)]
    BY <1>5, <2>1, TransmittedInv
  <2>3. M.weighted_deficit = L.weighted_deficit /\ M.green_credit = L.green_credit
    BY <1>1 DEF Transmitted, Compliant, Dequeued, LogicalQueueInfo
  <2>4. M.fifo[L.pending_vn] = Tail(L.fifo[L.pending_vn])
    BY <1>1, <2>1, <2>2 DEF LogicalQueueInfo
  <2>5. \A v \in VNs : L.green_credit[v] \in Int
    BY <1>1 DEF LogicalQueueInfo
  <2> HIDE DEF M
  <2> QED BY <2>2, <2>3, <2>4, <2>5 DEF DecisionStands, M
<1> QED BY <1>3, <1>4, <1>5

\* What one step may do to one port.
PortStep(p) ==
    \/ lq'[p] = lq[p]
    \/ \E v \in VNs, pkt \in Pkt : lq'[p] = PushFront(LogicalQueueOf(p), v, pkt)
    \/ lq[p].total > 0 /\ lq'[p] = Decided(lq[p])
    \/ /\ lq[p].total > 0 /\ ~Blocked(Decided(lq[p]))
       /\ lq'[p] = Transmitted(Decided(lq[p]))
    \/ lq'[p] = Aged(lq[p])
    \/ \E caps, bps : lq'[p] = Reconfigured(LogicalQueueOf(p), caps, bps)

\* Every step of the traffic manager is a PortStep for every port.
LEMMA NextIsPortStep ==
  ASSUME Inv, Next, NEW p \in Ports
  PROVE  PortStep(p)
<1>1. lq \in [Ports -> LogicalQueueInfo] /\ Arrivals \subseteq Pkt
  BY TMAssumption DEF Inv, TypeOK
<1>2. ASSUME NEW q \in Ports, NEW M, lq' = [lq EXCEPT ![q] = M]
      PROVE  lq'[p] = lq[p] \/ (p = q /\ lq'[p] = M)
  BY <1>1, <1>2
<1>3. CASE PushAny
  <2>1. PICK q \in Ports, v \in VNs, pkt \in Arrivals : Push(q, v, pkt)
    BY <1>3 DEF PushAny
  <2>2. lq' = [lq EXCEPT ![q] = PushFront(LogicalQueueOf(q), v, pkt)]
    BY <2>1 DEF Push
  <2>3. lq'[p] = lq[p] \/ (p = q /\ lq'[p] = PushFront(LogicalQueueOf(q), v, pkt))
    BY <1>2, <2>2
  <2> QED BY <1>1, <2>3 DEF PortStep
<1>4. ASSUME NEW w \in Workers, Worker(w) \/ SpuriousWakeup(w) PROVE PortStep(p)
  <2>1. CASE WaitForPacket(w) \/ TimeOut(w) \/ SpuriousWakeup(w)
    BY <2>1 DEF WaitForPacket, TimeOut, SpuriousWakeup, PortStep
  <2>2. CASE Sleep(w)
    <3>1. lq' = [q \in Ports |-> IF q \in NonEmpty(w) THEN Decided(lq[q]) ELSE lq[q]]
      BY <2>2 DEF Sleep
    <3>2. p \in NonEmpty(w) => lq[p].total > 0
      BY DEF NonEmpty
    <3> QED BY <3>1, <3>2 DEF PortStep
  <2>3. CASE Pop(w)
    <3>1. PICK q \in Ports :
            /\ lq[q].total > 0 /\ ~Blocked(Decided(lq[q]))
            /\ lq'[q] = Transmitted(Decided(lq[q]))
            /\ \A r \in Ports : r # q =>
                  lq'[r] = lq[r]
                  \/ (lq[r].total > 0 /\ Registered(r) /\ lq'[r] = Decided(lq[r]))
      BY <2>3, PopPorts
    <3> QED BY <3>1 DEF PortStep
  <2> QED BY <1>4, <2>1, <2>2, <2>3 DEF Worker
<1>5. CASE Tick
  <2>1. lq'[p] = IF Registered(p) THEN Aged(lq[p]) ELSE lq[p]
    BY <1>5 DEF Tick
  <2> QED BY <2>1 DEF PortStep
<1>6. CASE ControlPlane
  <2>1. ASSUME NEW L, L \in LogicalQueueInfo
        PROVE  /\ \A caps : [L EXCEPT !.capacity = caps] = Reconfigured(L, caps, L.rate)
               /\ \A bps : [L EXCEPT !.rate = bps] = Reconfigured(L, L.capacity, bps)
    BY <2>1 DEF LogicalQueueInfo, Reconfigured
  <2>2. ASSUME NEW L, NEW v, NEW c
        PROVE  [L EXCEPT !.capacity[v] = c]
               = [L EXCEPT !.capacity = [L.capacity EXCEPT ![v] = c]]
    OBVIOUS
  <2>3. \A q \in Ports : lq[q] \in LogicalQueueInfo /\ LogicalQueueOf(q) \in LogicalQueueInfo
    BY <1>1, LogicalQueueOfInv DEF LQInv
  <2>4. ASSUME NEW q \in Ports, NEW v \in VNs, NEW c \in Capacities, SetVNCapacity(q, v, c)
        PROVE  PortStep(p)
    <3> DEFINE L == LogicalQueueOf(q)
               caps == [L.capacity EXCEPT ![v] = c]
    <3>1. lq' = [lq EXCEPT ![q] = [L EXCEPT !.capacity[v] = c]]
      BY <2>4 DEF SetVNCapacity
    <3> HIDE DEF L
    <3>2. lq' = [lq EXCEPT ![q] = [L EXCEPT !.capacity = caps]]
      BY <2>2, <3>1
    <3> HIDE DEF caps
    <3>3. lq' = [lq EXCEPT ![q] = Reconfigured(L, caps, L.rate)]
      BY <2>1, <2>3, <3>2 DEF L
    <3>4. lq'[p] = lq[p] \/ (p = q /\ lq'[p] = Reconfigured(L, caps, L.rate))
      BY <1>2, <3>3
    <3> QED BY <3>4 DEF PortStep, L
  <2>5. ASSUME NEW q \in Ports, NEW c \in Capacities, SetQueueCapacity(q, c)
        PROVE  PortStep(p)
    <3> DEFINE L == LogicalQueueOf(q)
               caps == [v \in VNs |-> c]
    <3>1. lq' = [lq EXCEPT ![q] = [L EXCEPT !.capacity = caps]]
      BY <2>5 DEF SetQueueCapacity
    <3> HIDE DEF L, caps
    <3>2. lq' = [lq EXCEPT ![q] = Reconfigured(L, caps, L.rate)]
      BY <2>1, <2>3, <3>1 DEF L
    <3>3. lq'[p] = lq[p] \/ (p = q /\ lq'[p] = Reconfigured(L, caps, L.rate))
      BY <1>2, <3>2
    <3> QED BY <3>3 DEF PortStep, L
  <2>6. ASSUME NEW q \in Ports, NEW bps \in Rates, SetRate(q, bps)
        PROVE  PortStep(p)
    <3> DEFINE L == LogicalQueueOf(q)
    <3>1. lq' = [lq EXCEPT ![q] = [L EXCEPT !.rate = bps]]
      BY <2>6 DEF SetRate
    <3> HIDE DEF L
    <3>2. lq' = [lq EXCEPT ![q] = Reconfigured(L, L.capacity, bps)]
      BY <2>1, <2>3, <3>1 DEF L
    <3>3. lq'[p] = lq[p] \/ (p = q /\ lq'[p] = Reconfigured(L, L.capacity, bps))
      BY <1>2, <3>2
    <3> QED BY <3>3 DEF PortStep, L
  <2>7. ASSUME NEW c \in Capacities, SetCapacityForAll(c) PROVE PortStep(p)
    <3> DEFINE caps == [v \in VNs |-> c]
    <3>1. lq'[p] = IF Registered(p) THEN [lq[p] EXCEPT !.capacity = caps] ELSE lq[p]
      BY <2>7 DEF SetCapacityForAll
    <3> HIDE DEF caps
    <3>2. lq'[p] = lq[p]
          \/ (LogicalQueueOf(p) = lq[p] /\ lq'[p] = Reconfigured(lq[p], caps, lq[p].rate))
      BY <2>1, <2>3, <3>1 DEF LogicalQueueOf
    <3> QED BY <3>2 DEF PortStep
  <2>8. ASSUME NEW bps \in Rates, SetRateForAll(bps) PROVE PortStep(p)
    <3>1. lq'[p] = IF Registered(p) THEN [lq[p] EXCEPT !.rate = bps] ELSE lq[p]
      BY <2>8 DEF SetRateForAll
    <3>2. lq'[p] = lq[p]
          \/ (LogicalQueueOf(p) = lq[p] /\ lq'[p] = Reconfigured(lq[p], lq[p].capacity, bps))
      BY <2>1, <2>3, <3>1 DEF LogicalQueueOf
    <3> QED BY <3>2 DEF PortStep
  <2> QED BY <1>6, <2>4, <2>5, <2>6, <2>7, <2>8 DEF ControlPlane
<1> QED BY <1>3, <1>4, <1>5, <1>6 DEF Next

\* One scheduling decision per packet: no step charges a counter while a decision
\* is deferred, and the decision ends only with its own packet leaving.
THEOREM DeferredDecisionsStand == Spec => DeferredDecisionStands
<1>1. Inv /\ [Next]_vars => [\A p \in Ports : DecisionStands(lq[p], lq'[p])]_vars
  <2> SUFFICES ASSUME Inv, Next, NEW p \in Ports
               PROVE  DecisionStands(lq[p], lq'[p])
    OBVIOUS
  <2>1. PortStep(p)
    BY NextIsPortStep
  <2>2. LQInv(lq[p]) /\ lq[p] \in LogicalQueueInfo
    BY DEF Inv, LQInv
  <2>3. LQInv(LogicalQueueOf(p)) /\ LogicalQueueOf(p).pending_vn = lq[p].pending_vn
    BY LogicalQueueOfInv
  <2>4. CASE lq'[p] = lq[p]
    BY <2>2, <2>4, StandsStill
  <2>5. ASSUME NEW M, lq'[p] = M, DecisionStands(LogicalQueueOf(p), M)
        PROVE  DecisionStands(lq[p], lq'[p])
    <3>1. CASE lq[p].pending_vn = NoVN
      BY <3>1 DEF DecisionStands
    <3>2. CASE lq[p].pending_vn # NoVN
      <4>1. Registered(p)
        <5>1. NewLogicalQueue(DefaultCapacity).pending_vn = NoVN
          BY DEF NewLogicalQueue
        <5> QED BY <3>2, <5>1 DEF Inv, UnregisteredAreNew
      <4> QED BY <2>5, <4>1 DEF LogicalQueueOf
    <3> QED BY <3>1, <3>2
  <2>6. CASE \E v \in VNs, pkt \in Pkt : lq'[p] = PushFront(LogicalQueueOf(p), v, pkt)
    <3>1. PICK v \in VNs, pkt \in Pkt : lq'[p] = PushFront(LogicalQueueOf(p), v, pkt)
      BY <2>6
    <3> QED BY <2>3, <2>5, <3>1, StandsUnlessDequeued
  <2>7. CASE lq[p].total > 0 /\ (lq'[p] = Decided(lq[p])
               \/ (~Blocked(Decided(lq[p])) /\ lq'[p] = Transmitted(Decided(lq[p]))))
    BY <2>2, <2>7, StandsWhenDequeued
  <2>8. CASE lq'[p] = Aged(lq[p])
    BY <2>2, <2>8, StandsUnlessDequeued
  <2>9. CASE \E caps, bps : lq'[p] = Reconfigured(LogicalQueueOf(p), caps, bps)
    <3>1. PICK caps, bps : lq'[p] = Reconfigured(LogicalQueueOf(p), caps, bps)
      BY <2>9
    <3> QED BY <2>3, <2>5, <3>1, StandsUnlessDequeued
  <2> QED BY <2>1, <2>4, <2>6, <2>7, <2>8, <2>9 DEF PortStep
<1>2. [][Next]_vars /\ []Inv => DeferredDecisionStands
  BY <1>1, PTL DEF DeferredDecisionStands
<1> QED BY <1>2, SpecInv, PTL DEF Spec

-----------------------------------------------------------------------------
(* Guarantee before sharing *)

\* Deficits that stay as they are never contradict the precedence.
LEMMA FirstIfSameDeficits ==
  ASSUME NEW L, NEW M, M.weighted_deficit = L.weighted_deficit
  PROVE  CreditFirst(L, M)
BY DEF CreditFirst

\* The sweep leaves the VNs with credit where they are, so the decision after it
\* is one of Phase 1, which leaves the deficits alone.
LEMMA FirstWhenDecided ==
  ASSUME NEW L, LQInv(L), L.total > 0
  PROVE  CreditFirst(L, Decided(L))
<1> SUFFICES ASSUME L.pending_vn = NoVN, WithCredit(L) # {}
             PROVE  \A v \in VNs :
                      \/ Decided(L).weighted_deficit[v] = L.weighted_deficit[v]
                      \/ Decided(L).weighted_deficit[v] = 0 /\ L.size[v] = 0
  BY DEF CreditFirst
<1> DEFINE M == Swept(L)
<1>1. L \in LogicalQueueInfo
  BY DEF LQInv
<1>2. LQInv(M) /\ M.size = L.size
  BY SweptInv
<1>3. /\ M.green_credit = L.green_credit
      /\ M.active_set = Without(L.active_set, IdleVNs(L))
      /\ M.weighted_deficit = [v \in VNs |-> IF v \in IdleVNs(L) \cap Range(L.active_set)
                                             THEN 0 ELSE L.weighted_deficit[v]]
  BY <1>1 DEF Swept, LogicalQueueInfo
<1> HIDE DEF M
<1>4. WithCredit(M) # {}
  <2>1. PICK v : v \in WithCredit(L)
    OBVIOUS
  <2>2. v \in Range(L.active_set) /\ L.size[v] > 0 /\ L.green_credit[v] > 0
    BY <2>1 DEF WithCredit, Backlogged
  <2>3. v \in Range(L.active_set) \ IdleVNs(L)
    BY <2>2 DEF IdleVNs
  <2>4. v \in Range(M.active_set)
    BY <1>1, <1>3, <2>3, WithoutElements DEF LogicalQueueInfo
  <2> QED BY <1>2, <1>3, <2>2, <2>4 DEF WithCredit, Backlogged
<1>5. Decided(L) = PickGreen(M)
  BY <1>4 DEF Decided, SelectVN, M
<1>6. Decided(L).weighted_deficit = M.weighted_deficit
  BY <1>2, <1>4, <1>5, PickGreenInv
<1>7. \A v \in IdleVNs(L) : L.size[v] = 0
  BY DEF IdleVNs
<1> QED BY <1>3, <1>6, <1>7

\* Dequeueing charges nothing.
LEMMA TransmittedDeficits ==
  ASSUME NEW L, L \in LogicalQueueInfo
  PROVE  Transmitted(L).weighted_deficit = L.weighted_deficit
BY DEF Transmitted, Compliant, Dequeued, LogicalQueueInfo

\* Guaranteed bandwidth goes before sharing: while a backlogged VN has credit, no
\* decision and no other step charges or replenishes a deficit.
THEOREM GuaranteeAlwaysFirst == Spec => GuaranteeBeforeSharing
<1>1. Inv /\ [Next]_vars => [\A p \in Ports : CreditFirst(lq[p], lq'[p])]_vars
  <2> SUFFICES ASSUME Inv, Next, NEW p \in Ports
               PROVE  CreditFirst(lq[p], lq'[p])
    OBVIOUS
  <2>1. PortStep(p)
    BY NextIsPortStep
  <2>2. LQInv(lq[p]) /\ lq[p] \in LogicalQueueInfo
    BY DEF Inv, LQInv
  <2>3. LQInv(LogicalQueueOf(p)) /\ LogicalQueueOf(p) \in LogicalQueueInfo
    BY LogicalQueueOfInv DEF LQInv
  <2>4. CASE lq'[p] = lq[p]
    BY <2>4, FirstIfSameDeficits
  <2>5. CASE ~Registered(p)
    <3>1. lq[p] = NewLogicalQueue(DefaultCapacity)
      BY <2>5 DEF Inv, UnregisteredAreNew
    <3>2. WithCredit(lq[p]) = {}
      BY <3>1 DEF WithCredit, Backlogged, NewLogicalQueue, Range
    <3> QED BY <3>2 DEF CreditFirst
  <2>6. CASE Registered(p) /\ \E v \in VNs, pkt \in Pkt : lq'[p] = PushFront(lq[p], v, pkt)
    <3>1. PICK v \in VNs, pkt \in Pkt : lq'[p] = PushFront(lq[p], v, pkt)
      BY <2>6
    <3> DEFINE C == Credited(lq[p], v, pkt)
    <3>2. LQInv(C)
      BY <2>2, CreditedInv
    <3>3. C.weighted_deficit = lq[p].weighted_deficit
      BY <2>2 DEF Credited, LogicalQueueInfo
    <3>4. lq'[p] = IF Full(lq[p], v) THEN C ELSE Enqueued(C, v, pkt)
      BY <3>1 DEF PushFront
    <3> HIDE DEF C
    <3>5. Enqueued(C, v, pkt).weighted_deficit = C.weighted_deficit
      BY <3>2 DEF LQInv, Enqueued, LogicalQueueInfo
    <3> QED BY <3>3, <3>4, <3>5, FirstIfSameDeficits
  <2>7. CASE lq[p].total > 0 /\ lq'[p] = Decided(lq[p])
    BY <2>2, <2>7, FirstWhenDecided
  <2>8. CASE lq[p].total > 0 /\ lq'[p] = Transmitted(Decided(lq[p]))
    <3>1. Decided(lq[p]) \in LogicalQueueInfo
      BY <2>2, <2>8, DecidedInv DEF LQInv
    <3>2. lq'[p].weighted_deficit = Decided(lq[p]).weighted_deficit
      BY <2>8, <3>1, TransmittedDeficits
    <3>3. CreditFirst(lq[p], Decided(lq[p]))
      BY <2>2, <2>8, FirstWhenDecided
    <3> QED BY <3>2, <3>3 DEF CreditFirst
  <2>9. CASE lq'[p] = Aged(lq[p])
    <3>1. Aged(lq[p]).weighted_deficit = lq[p].weighted_deficit
      BY <2>2 DEF Aged, LogicalQueueInfo
    <3> QED BY <2>9, <3>1, FirstIfSameDeficits
  <2>10. CASE Registered(p) /\ \E caps, bps : lq'[p] = Reconfigured(lq[p], caps, bps)
    <3>1. PICK caps, bps : lq'[p] = Reconfigured(lq[p], caps, bps)
      BY <2>10
    <3>2. Reconfigured(lq[p], caps, bps).weighted_deficit = lq[p].weighted_deficit
      BY <2>2 DEF Reconfigured, LogicalQueueInfo
    <3> QED BY <3>1, <3>2, FirstIfSameDeficits
  <2>11. Registered(p) => LogicalQueueOf(p) = lq[p]
    BY DEF LogicalQueueOf
  <2> QED BY <2>1, <2>4, <2>5, <2>6, <2>7, <2>8, <2>9, <2>10, <2>11 DEF PortStep
<1>2. [][Next]_vars /\ []Inv => GuaranteeBeforeSharing
  BY <1>1, PTL DEF GuaranteeBeforeSharing
<1> QED BY <1>2, SpecInv, PTL DEF Spec

-----------------------------------------------------------------------------
(* Rotation over ports *)

\* A worker's list names no port twice.
RegisteredOnce ==
    \A w \in Workers : \A i, j \in 1 .. Len(logical_queue_ids[w]) :
        logical_queue_ids[w][i] = logical_queue_ids[w][j] => i = j

\* The pointer of a worker that has just served a port is behind that port, or
\* was at the end of the list and started over.
PointerBehind(w, k) ==
    /\ k \in 1 .. Len(logical_queue_ids[w])
    /\ logical_queue_ids[w][k] = out[w].port
    /\ worker_rr_ptr[w] = 0
       \/ (worker_rr_ptr[w] = k /\ k < Len(logical_queue_ids[w]))

RingInv ==
    /\ RegisteredOnce
    /\ \A w \in Workers : out[w] # Nothing => \E k : PointerBehind(w, k)

\* The pointer after the port at i, without the modulus.
LEMMA NextInOrder ==
  ASSUME NEW n \in Nat, NEW i \in 0 .. n - 1
  PROVE  (i + 1) % n = IF i + 1 < n THEN i + 1 ELSE 0
<1>1. CASE i + 1 < n
  <2>1. i + 1 \in 0 .. n - 1
    BY <1>1
  <2>2. \A d \in 0 .. n - 1 : d % n = d
    OBVIOUS
  <2> QED BY <1>1, <2>1, <2>2
<1>2. CASE i + 1 = n
  <2>1. n % n = 0
    BY <1>2
  <2> QED BY <1>2, <2>1
<1> QED BY <1>1, <1>2

\* A ring distance without the modulus.
LEMMA RingDistance ==
  ASSUME NEW n \in Nat, NEW c \in 0 .. n - 1, NEW j \in 0 .. n - 1
  PROVE  (j - c) % n = IF j >= c THEN j - c ELSE j - c + n
<1>1. CASE j >= c
  <2>1. j - c \in 0 .. n - 1
    BY <1>1
  <2>2. \A d \in 0 .. n - 1 : d % n = d
    OBVIOUS
  <2> QED BY <1>1, <2>1, <2>2
<1>2. CASE j < c
  <2>1. j - c + n \in 0 .. n - 1
    BY <1>2
  <2>2. \A d \in Int : d + n \in 0 .. n - 1 => d % n = d + n
    OBVIOUS
  <2> QED BY <1>2, <2>1, <2>2
<1> QED BY <1>1, <1>2

\* The scan stops at the first hit: no other is nearer to the cursor.
LEMMA NextInRingFirst ==
  ASSUME NEW T, NEW s \in Seq(T), NEW c \in Nat, NEW S,
         NEW j \in 0 .. Len(s) - 1, s[j + 1] \in S
  PROVE  (NextInRing(s, c, S) - c) % Len(s) <= (j - c) % Len(s)
<1> DEFINE n == Len(s)
           hits == {i \in 0 .. n - 1 : s[i + 1] \in S}
           dist == {(i - c) % n : i \in hits}
<1>1. n \in Nat /\ n # 0
  OBVIOUS
<1>2. dist \in SUBSET Nat
  <2>1. \A i \in hits : (i - c) % n \in Nat
    BY <1>1
  <2> QED BY <2>1
<1>3. j \in hits /\ dist # {}
  OBVIOUS
<1>4. PICK d \in dist : \A e \in dist : d <= e
  BY <1>2, <1>3, LeastNat
<1>5. \E i \in hits : \A k \in hits : (i - c) % n <= (k - c) % n
  BY <1>4
<1> HIDE DEF dist
<1>6. \A k \in hits : (NextInRing(s, c, S) - c) % n <= (k - c) % n
  BY <1>5 DEF NextInRing
<1> QED BY <1>3, <1>6

\* What a step does to a worker's list, pointer and last delivery.
RingStep(w) ==
    \/ /\ \/ logical_queue_ids'[w] = logical_queue_ids[w]
          \/ \E p \in Ports : /\ p \notin Range(logical_queue_ids[w])
                              /\ logical_queue_ids'[w] = Append(logical_queue_ids[w], p)
       /\ worker_rr_ptr'[w] = worker_rr_ptr[w]
       /\ out'[w] \in {out[w], Nothing}
       /\ wsize'[w] >= wsize[w]
    \/ Pop(w)

\* Every step is a RingStep of every worker.
LEMMA NextIsRingStep ==
  ASSUME Inv, [Next]_vars, NEW w \in Workers
  PROVE  RingStep(w)
<1>1. /\ logical_queue_ids \in [Workers -> Seq(Ports)] /\ worker_rr_ptr \in [Workers -> Nat]
      /\ wsize \in [Workers -> Nat] /\ out \in [Workers -> Delivery \cup {Nothing}]
  BY DEF Inv, TypeOK
<1>2. ASSUME NEW p \in Ports, Register(p)
      PROVE  \/ logical_queue_ids'[w] = logical_queue_ids[w]
             \/ \E q \in Ports : /\ q \notin Range(logical_queue_ids[w])
                                 /\ logical_queue_ids'[w] = Append(logical_queue_ids[w], q)
  BY <1>1, <1>2, TMAssumption DEF Register, Registered
<1>3. wsize[w] \in Nat
  BY <1>1
<1>4. CASE PushAny
  <2>1. PICK p \in Ports, v \in VNs, pkt \in Arrivals : Push(p, v, pkt)
    BY <1>4 DEF PushAny
  <2>2. Register(p) /\ UNCHANGED <<worker_rr_ptr, out>>
    BY <2>1 DEF Push
  <2>3. wsize' = wsize \/ wsize' = [wsize EXCEPT ![WorkerOf[p]] = @ + 1]
    BY <2>1 DEF Push
  <2>4. wsize'[w] = wsize[w] \/ wsize'[w] = wsize[w] + 1
    BY <1>1, <2>3
  <2>5. wsize'[w] >= wsize[w]
    BY <1>3, <2>4
  <2> QED BY <1>2, <2>2, <2>5 DEF RingStep
<1>5. ASSUME NEW u \in Workers, Worker(u) \/ SpuriousWakeup(u) PROVE RingStep(w)
  <2>1. CASE Pop(u) /\ u = w
    BY <2>1 DEF RingStep
  <2>2. CASE Pop(u) /\ u # w
    <3>1. /\ logical_queue_ids' = logical_queue_ids /\ worker_rr_ptr'[w] = worker_rr_ptr[w]
          /\ out'[w] = out[w] /\ wsize'[w] = wsize[w]
      BY <1>1, <2>2 DEF Pop
    <3> QED BY <1>3, <3>1 DEF RingStep
  <2>3. CASE ~Pop(u)
    <3>1. /\ UNCHANGED <<logical_queue_ids, worker_rr_ptr, wsize>>
          /\ out' = out \/ out' = [out EXCEPT ![u] = Nothing]
      BY <1>5, <2>3 DEF Worker, WaitForPacket, Sleep, TimeOut, SpuriousWakeup
    <3>2. out'[w] \in {out[w], Nothing}
      BY <1>1, <3>1
    <3> QED BY <1>3, <3>1, <3>2 DEF RingStep
  <2> QED BY <2>1, <2>2, <2>3
<1>6. CASE ControlPlane
  <2>1. /\ UNCHANGED <<worker_rr_ptr, wsize, out>>
        /\ UNCHANGED logical_queue_ids \/ \E p \in Ports : Register(p)
    BY <1>6 DEF ControlPlane, SetVNCapacity, SetQueueCapacity, SetCapacityForAll, SetRate,
                SetRateForAll
  <2> QED BY <1>2, <1>3, <2>1 DEF RingStep
<1>7. CASE Tick \/ UNCHANGED vars
  <2>1. UNCHANGED <<logical_queue_ids, worker_rr_ptr, wsize, out>>
    BY <1>7 DEF Tick, vars
  <2> QED BY <1>3, <2>1 DEF RingStep
<1> QED BY <1>4, <1>5, <1>6, <1>7 DEF Next

\* Where a Pop moves the pointer, and what it returns.
LEMMA PopMoves ==
  ASSUME Inv, NEW w \in Workers, Pop(w)
  PROVE  \E i \in 0 .. Len(logical_queue_ids[w]) - 1 :
            /\ i = Stop(w)
            /\ out'[w] # Nothing /\ out'[w].port = logical_queue_ids[w][i + 1]
            /\ worker_rr_ptr'[w] = (i + 1) % Len(logical_queue_ids[w])
            /\ UNCHANGED logical_queue_ids
<1>1. out \in [Workers -> Delivery \cup {Nothing}] /\ worker_rr_ptr \in [Workers -> Nat]
  BY DEF Inv, TypeOK
<1>2. Ready(w) # {}
  BY DEF Pop
<1>3. Stop(w) \in 0 .. Len(logical_queue_ids[w]) - 1
  BY <1>2, StopsAtReady
<1>4. PICK v, pkt : out' = [out EXCEPT ![w] =
          [port |-> logical_queue_ids[w][Stop(w) + 1], vn |-> v, pkt |-> pkt]]
  BY DEF Pop
<1>5. out'[w] = [port |-> logical_queue_ids[w][Stop(w) + 1], vn |-> v, pkt |-> pkt]
  BY <1>1, <1>4
<1>6. out'[w] # Nothing
  BY <1>5 DEF Nothing
<1>7. /\ worker_rr_ptr'[w] = (Stop(w) + 1) % Len(logical_queue_ids[w])
      /\ UNCHANGED logical_queue_ids
  BY <1>1 DEF Pop, PtrAfter
<1>8. out'[w].port = logical_queue_ids[w][Stop(w) + 1]
  BY <1>5
<1> WITNESS Stop(w) \in 0 .. Len(logical_queue_ids[w]) - 1
<1> QED BY <1>6, <1>7, <1>8

\* RingInv is inductive, given Inv.
LEMMA RingStepKeepsInv == Inv /\ RingInv /\ [Next]_vars => RingInv'
<1> SUFFICES ASSUME Inv, RingInv, [Next]_vars PROVE RingInv'
  OBVIOUS
<1>1. \A w \in Workers : RingStep(w)
  BY NextIsRingStep
<1>2. \A w \in Workers : logical_queue_ids[w] \in Seq(Ports)
  BY DEF Inv, TypeOK
<1>3. ASSUME NEW w \in Workers, NEW p \in Ports, p \notin Range(logical_queue_ids[w]),
             logical_queue_ids'[w] = Append(logical_queue_ids[w], p)
      PROVE  /\ Len(logical_queue_ids'[w]) = Len(logical_queue_ids[w]) + 1
             /\ \A i \in 1 .. Len(logical_queue_ids[w]) :
                   /\ logical_queue_ids'[w][i] = logical_queue_ids[w][i]
                   /\ logical_queue_ids[w][i] # p
             /\ logical_queue_ids'[w][Len(logical_queue_ids[w]) + 1] = p
             /\ Len(logical_queue_ids[w]) \in Nat
  BY <1>2, <1>3 DEF Range
<1>4. ASSUME NEW w \in Workers, NEW i \in 1 .. Len(logical_queue_ids'[w]),
             NEW j \in 1 .. Len(logical_queue_ids'[w]),
             logical_queue_ids'[w][i] = logical_queue_ids'[w][j]
      PROVE  i = j
  <2>1. CASE logical_queue_ids'[w] = logical_queue_ids[w]
    BY <1>4, <2>1 DEF RingInv, RegisteredOnce
  <2>2. CASE \E p \in Ports : /\ p \notin Range(logical_queue_ids[w])
                              /\ logical_queue_ids'[w] = Append(logical_queue_ids[w], p)
    <3>1. PICK p \in Ports : /\ p \notin Range(logical_queue_ids[w])
                             /\ logical_queue_ids'[w] = Append(logical_queue_ids[w], p)
      BY <2>2
    <3> DEFINE n == Len(logical_queue_ids[w])
    <3>2. /\ Len(logical_queue_ids'[w]) = n + 1 /\ n \in Nat
          /\ \A k \in 1 .. n : /\ logical_queue_ids'[w][k] = logical_queue_ids[w][k]
                               /\ logical_queue_ids[w][k] # p
          /\ logical_queue_ids'[w][n + 1] = p
      BY <1>3, <3>1
    <3>3. i \in 1 .. n + 1 /\ j \in 1 .. n + 1
      BY <3>2
    <3>4. \A a, b \in 1 .. n : logical_queue_ids[w][a] = logical_queue_ids[w][b] => a = b
      BY DEF RingInv, RegisteredOnce
    <3> HIDE DEF n
    <3>5. CASE i \in 1 .. n /\ j \in 1 .. n
      BY <1>4, <3>2, <3>4, <3>5
    <3>6. CASE i = n + 1 /\ j \in 1 .. n
      BY <1>4, <3>2, <3>6
    <3>7. CASE j = n + 1 /\ i \in 1 .. n
      BY <1>4, <3>2, <3>7
    <3>8. i \in 1 .. n \/ i = n + 1
      BY <3>2, <3>3
    <3>9. j \in 1 .. n \/ j = n + 1
      BY <3>2, <3>3
    <3> QED BY <3>5, <3>6, <3>7, <3>8, <3>9
  <2>3. CASE Pop(w)
    BY <2>1, <2>3, PopMoves
  <2> QED BY <1>1, <2>1, <2>2, <2>3 DEF RingStep
<1>5. ASSUME NEW w \in Workers, out'[w] # Nothing
      PROVE  \E k : PointerBehind(w, k)'
  <2>1. CASE Pop(w)
    <3>1. PICK i \in 0 .. Len(logical_queue_ids[w]) - 1 :
            /\ out'[w].port = logical_queue_ids[w][i + 1]
            /\ worker_rr_ptr'[w] = (i + 1) % Len(logical_queue_ids[w])
            /\ UNCHANGED logical_queue_ids
      BY <2>1, PopMoves
    <3> DEFINE n == Len(logical_queue_ids[w])
    <3>2. n \in Nat
      BY <1>2
    <3>3. worker_rr_ptr'[w] = IF i + 1 < n THEN i + 1 ELSE 0
      BY <3>1, <3>2, NextInOrder
    <3>4. i + 1 \in 1 .. n
      BY <3>2
    <3>5. PointerBehind(w, i + 1)'
      BY <3>1, <3>3, <3>4 DEF PointerBehind
    <3> QED BY <3>5
  <2>2. CASE ~Pop(w)
    <3>1. /\ \/ logical_queue_ids'[w] = logical_queue_ids[w]
             \/ \E p \in Ports : /\ p \notin Range(logical_queue_ids[w])
                                 /\ logical_queue_ids'[w] = Append(logical_queue_ids[w], p)
          /\ worker_rr_ptr'[w] = worker_rr_ptr[w]
          /\ out'[w] = out[w]
      BY <1>1, <1>5, <2>2 DEF RingStep
    <3>2. PICK k : PointerBehind(w, k)
      BY <1>5, <3>1 DEF RingInv
    <3>3. CASE logical_queue_ids'[w] = logical_queue_ids[w]
      BY <3>1, <3>2, <3>3 DEF PointerBehind
    <3>4. CASE logical_queue_ids'[w] # logical_queue_ids[w]
      <4>1. PICK p \in Ports : /\ p \notin Range(logical_queue_ids[w])
                               /\ logical_queue_ids'[w] = Append(logical_queue_ids[w], p)
        BY <3>1, <3>4
      <4>2. /\ Len(logical_queue_ids'[w]) = Len(logical_queue_ids[w]) + 1
            /\ \A i \in 1 .. Len(logical_queue_ids[w]) :
                  logical_queue_ids'[w][i] = logical_queue_ids[w][i]
            /\ Len(logical_queue_ids[w]) \in Nat
        BY <1>3, <4>1
      <4> QED BY <3>1, <3>2, <4>2 DEF PointerBehind
    <3> QED BY <3>3, <3>4
  <2> QED BY <2>1, <2>2
<1>6. RegisteredOnce'
  BY <1>4 DEF RegisteredOnce
<1> QED BY <1>5, <1>6 DEF RingInv

\* RingInv holds in every reachable state.
LEMMA SpecRingInv == Spec => []RingInv
<1>1. Init => RingInv
  BY DEF Init, RingInv, RegisteredOnce
<1> QED BY <1>1, RingStepKeepsInv, SpecInv, PTL DEF Spec

\* A worker serves the same port twice running, past a ready one, only if that one
\* was registered behind the port after the pointer had started over.
THEOREM PortsTakeTurns == Spec => RoundRobinOverPorts
<1> DEFINE Fair(w) ==
        wsize'[w] < wsize[w] /\ out[w] # Nothing /\ out'[w].port = out[w].port =>
            \A q \in Ready(w) \ {out[w].port} :
                /\ worker_rr_ptr[w] = 0
                /\ \E i, j \in 1 .. Len(logical_queue_ids[w]) :
                    /\ i < j
                    /\ logical_queue_ids[w][i] = out[w].port
                    /\ logical_queue_ids[w][j] = q
<1>1. Inv /\ RingInv /\ [Next]_vars => [\A w \in Workers : Fair(w)]_vars
  <2> SUFFICES ASSUME Inv, RingInv, [Next]_vars, NEW w \in Workers,
                      wsize'[w] < wsize[w], out[w] # Nothing, out'[w].port = out[w].port,
                      NEW q \in Ready(w) \ {out[w].port}
               PROVE  /\ worker_rr_ptr[w] = 0
                      /\ \E i, j \in 1 .. Len(logical_queue_ids[w]) :
                          /\ i < j
                          /\ logical_queue_ids[w][i] = out[w].port
                          /\ logical_queue_ids[w][j] = q
    OBVIOUS
  <2> DEFINE s == logical_queue_ids[w]
             n == Len(s)
             c == worker_rr_ptr[w]
  <2>1. Pop(w)
    <3>1. RingStep(w)
      BY NextIsRingStep
    <3>2. wsize[w] \in Nat /\ ~(wsize'[w] >= wsize[w])
      <4>1. wsize[w] \in Nat
        BY DEF Inv, TypeOK
      <4>2. wsize'[w] >= wsize[w] => FALSE
        <5>1. CASE Pop(w)
          <6>1. wsize'[w] = wsize[w] - 1
            BY <5>1 DEF Pop, Inv, TypeOK
          <6> QED BY <4>1, <6>1
        <5>2. CASE ~Pop(w)
          <6>1. wsize'[w] \in Nat
            <7>1. Inv'
              BY NextKeepsInv
            <7> QED BY <7>1 DEF Inv, TypeOK
          <6> QED BY <4>1, <6>1
        <5> QED BY <5>1, <5>2
      <4> QED BY <4>1, <4>2
    <3> QED BY <3>1, <3>2 DEF RingStep
  <2>2. PICK i \in 0 .. n - 1 : i = Stop(w) /\ out'[w].port = s[i + 1]
    BY <2>1, PopMoves
  <2>3. PICK k : PointerBehind(w, k)
    BY DEF RingInv
  <2>4. s \in Seq(Ports) /\ c \in Nat /\ n \in Nat
    BY DEF Inv, TypeOK
  <2>5. k \in 1 .. n /\ s[k] = s[i + 1] /\ i + 1 \in 1 .. n
    <3>1. k \in 1 .. n /\ s[k] = out[w].port
      BY <2>3 DEF PointerBehind
    <3>2. out[w].port = s[i + 1]
      BY <2>2
    <3>3. i + 1 \in 1 .. n
      BY <2>4
    <3> QED BY <3>1, <3>2, <3>3
  <2>6. k = i + 1
    BY <2>5 DEF RingInv, RegisteredOnce
  <2>7. PICK j \in 1 .. n : s[j] = q
    <3>1. q \in Range(s)
      BY DEF Ready, NonEmpty
    <3> QED BY <2>4, <3>1 DEF Range
  <2>8. j # k
    BY <2>2, <2>6, <2>7
  <2>9. (i - c) % n <= (j - 1 - c) % n
    <3>1. j - 1 \in 0 .. n - 1 /\ (j - 1) + 1 = j
      BY <2>4, <2>7
    <3>2. s[(j - 1) + 1] \in Ready(w)
      BY <2>7, <3>1
    <3>3. (NextInRing(s, c, Ready(w)) - c) % n <= (j - 1 - c) % n
      BY <2>4, <3>1, <3>2, NextInRingFirst
    <3> QED BY <2>2, <3>3 DEF Stop
  <2>10. c = 0 \/ (c = k /\ k < n)
    BY <2>3 DEF PointerBehind
  <2> HIDE DEF s, n, c
  <2>11. c \in 0 .. n - 1 /\ i \in 0 .. n - 1 /\ j - 1 \in 0 .. n - 1
    BY <2>2, <2>4, <2>5, <2>7, <2>10
  <2>12. /\ (i - c) % n = IF i >= c THEN i - c ELSE i - c + n
         /\ ((j - 1) - c) % n = IF j - 1 >= c THEN (j - 1) - c ELSE (j - 1) - c + n
    BY <2>4, <2>11, RingDistance
  <2>13. c = 0 /\ k < j
    BY <2>4, <2>5, <2>6, <2>7, <2>8, <2>9, <2>10, <2>11, <2>12
  <2> QED BY <2>3, <2>5, <2>7, <2>13 DEF s, n, c, PointerBehind
<1>2. [][Next]_vars /\ []Inv /\ []RingInv => RoundRobinOverPorts
  BY <1>1, PTL DEF RoundRobinOverPorts
<1> QED BY <1>2, SpecInv, SpecRingInv, PTL DEF Spec

-----------------------------------------------------------------------------
(* Sleeping, while no setter changes the rate *)

\* A worker that sleeps for t more ticks misses nothing of L: its bucket is blocked
\* until then.
Covered(L, t) == t > 0 => Blocked(L) /\ Tau + t * L.rate <= XPrime(L)

SleepInv ==
    /\ \A p \in Ports : lq[p].rate = DefaultRate
    /\ \A w \in Workers : wstate[w] = "sleeping" =>
          \A p \in NonEmpty(w) : Covered(lq[p], wake[w])

SameBucket(L, M) ==
    M.X = L.X /\ M.lct_age = L.lct_age /\ M.rate = L.rate /\ M.total = L.total

LEMMA SameBucketCovered ==
  ASSUME NEW L, NEW M, NEW t, SameBucket(L, M), Covered(L, t)
  PROVE  Covered(M, t)
BY DEF SameBucket, Covered, Blocked, XPrime

\* The quotient in the wake-up time is truncated.
LEMMA TruncatedQuotient ==
  ASSUME NEW a \in Nat, NEW r \in Nat, r > 0
  PROVE  a \div r \in Nat /\ (a \div r) * r <= a
<1>1. a \div r \in Nat
  OBVIOUS
<1>2. (a \div r) * r <= a
  OBVIOUS
<1> QED BY <1>1, <1>2

\* The bucket of a queue with a decision is that of the queue.
LEMMA DecidedBucket ==
  ASSUME NEW L, LQInv(L), L.total > 0
  PROVE  SameBucket(L, Decided(L))
<1>1. /\ LQInv(Decided(L)) /\ Slots(Decided(L)) = Slots(L)
      /\ Decided(L).X = L.X /\ Decided(L).lct_age = L.lct_age /\ Decided(L).rate = L.rate
  BY DecidedInv
<1>2. Decided(L).total = L.total
  BY <1>1 DEF LQInv, CountersMatchFifos
<1> QED BY <1>1, <1>2 DEF SameBucket

\* XPrime and its parts are integers.
LEMMA LevelTypes ==
  ASSUME NEW L, LQInv(L)
  PROVE  /\ L.X \in Nat /\ L.lct_age \in Nat /\ L.rate \in Nat /\ L.X <= Tau + 8 * MaxSize
         /\ L.lct_age * L.rate \in Nat /\ XPrime(L) \in Int /\ XPrime(L) <= L.X
<1>1. L \in LogicalQueueInfo
  BY DEF LQInv
<1>2. L.X \in Nat /\ L.lct_age \in 0 .. MaxAge /\ L.rate \in Nat
  BY <1>1 DEF LogicalQueueInfo
<1>3. L.lct_age \in Nat
  BY <1>2, LQAssumption
<1>4. L.lct_age * L.rate \in Nat
  BY <1>2, <1>3
<1>5. L.X <= Tau + 8 * MaxSize
  BY DEF LQInv, LevelWithinCeiling
<1> QED BY <1>2, <1>3, <1>4, <1>5 DEF XPrime

\* The wake-up time a worker computes covers each of its ports.
LEMMA WakeTimesCover ==
  ASSUME Inv, NEW w \in Workers, wsize[w] > 0, Ready(w) = {},
         \A p \in Ports : lq[p].rate = DefaultRate,
         NEW t \in WakeTimes(w), NEW p \in NonEmpty(w)
  PROVE  Covered(lq[p], t)
<1> DEFINE exact == UNION {WaitTimes(lq[q]) : q \in {q \in NonEmpty(w) : lq[q].rate > 0}}
           disabled == {q \in NonEmpty(w) : lq[q].rate = 0}
<1>1. WakeTimes(w) = IF disabled = {} THEN {Least(exact)}
                     ELSE {0, Least(exact \cup {Never})}
  BY DEF WakeTimes
<1>2. \A q \in NonEmpty(w) :
         /\ LQInv(lq[q]) /\ lq[q].rate = DefaultRate /\ Blocked(lq[q])
         /\ XPrime(lq[q]) \in Int /\ lq[q].rate \in Nat
         /\ XPrime(lq[q]) > Tau
  <2> TAKE q \in NonEmpty(w)
  <2>1. q \in Ports /\ LQInv(lq[q])
    BY NonEmptyPorts
  <2>2. Blocked(lq[q])
    BY DEF Ready
  <2> QED BY <2>1, <2>2, LevelTypes DEF Blocked
<1>3. t \in Nat /\ Tau \in Nat /\ DefaultRate \in Nat /\ Never \in Nat
  BY WakeTimesNat, LQAssumption DEF Never
<1>4. CASE DefaultRate = 0
  <2>1. t * lq[p].rate = 0
    BY <1>2, <1>3, <1>4
  <2> QED BY <1>2, <1>3, <2>1 DEF Covered
<1>5. CASE DefaultRate > 0
  <2>1. disabled = {}
    BY <1>2, <1>5
  <2>2. \A q \in NonEmpty(w) :
           WaitTimes(lq[q]) = {(XPrime(lq[q]) - Tau) \div DefaultRate}
    BY <1>2, <1>3, <1>5 DEF WaitTimes
  <2>3. \A q \in NonEmpty(w) :
           (XPrime(lq[q]) - Tau) \div DefaultRate \in Nat
    <3> TAKE q \in NonEmpty(w)
    <3>1. XPrime(lq[q]) - Tau \in Nat
      BY <1>2, <1>3
    <3> QED BY <1>3, <1>5, <3>1, TruncatedQuotient
  <2>4. exact \in SUBSET Nat
    BY <2>2, <2>3
  <2> DEFINE d == (XPrime(lq[p]) - Tau) \div DefaultRate
  <2>5. d \in exact
    BY <1>2, <1>5, <2>2
  <2>6. t = Least(exact)
    BY <1>1, <2>1
  <2> HIDE DEF exact
  <2>7. \A e \in exact : t <= e
    <3>1. \E m \in exact : \A n \in exact : m <= n
      BY <2>4, <2>5, LeastNat
    <3> QED BY <2>6, <3>1 DEF Least
  <2>8. XPrime(lq[p]) - Tau \in Nat
    BY <1>2, <1>3
  <2>9. d \in Nat /\ d * DefaultRate <= XPrime(lq[p]) - Tau
    BY <1>3, <1>5, <2>8, TruncatedQuotient
  <2>10. t <= d
    BY <2>5, <2>7
  <2> HIDE DEF d
  <2>11. t * DefaultRate <= d * DefaultRate
    BY <1>3, <2>9, <2>10
  <2>12. Tau + t * lq[p].rate <= XPrime(lq[p])
    <3>1. t * DefaultRate \in Nat /\ d * DefaultRate \in Nat
      BY <1>3, <2>9
    <3>2. lq[p].rate = DefaultRate /\ XPrime(lq[p]) \in Int
      BY <1>2
    <3> QED BY <1>3, <2>9, <2>11, <3>1, <3>2
  <2> QED BY <1>2, <2>12 DEF Covered
<1> QED BY <1>3, <1>4, <1>5

\* A tick shortens the sleep and drains the bucket by as much.
LEMMA TickCovers ==
  ASSUME NEW L, LQInv(L), NEW t \in Nat, Covered(L, t)
  PROVE  Covered(Aged(L), IF t \in {0, Never} THEN t ELSE t - 1)
<1>1. L \in LogicalQueueInfo
  BY DEF LQInv
<1>2. /\ L.X \in Nat /\ L.lct_age \in Nat /\ L.rate \in Nat /\ L.X <= Tau + 8 * MaxSize
      /\ L.lct_age * L.rate \in Nat /\ XPrime(L) \in Int /\ XPrime(L) <= L.X
  BY LevelTypes
<1>3. Tau \in Nat /\ MaxAge \in Nat /\ MaxSize \in Nat
  BY LQAssumption
<1>4. Aged(L).X = L.X /\ Aged(L).rate = L.rate /\ Aged(L).lct_age = Older(L.lct_age, MaxAge)
  BY <1>1 DEF Aged, LogicalQueueInfo
<1>5. L.lct_age \in 0 .. MaxAge
  BY <1>1 DEF LogicalQueueInfo
<1>6. XPrime(Aged(L)) = XPrime(L) \/ XPrime(Aged(L)) = XPrime(L) - L.rate
  <2>1. CASE L.lct_age < MaxAge
    <3>1. (L.lct_age + 1) * L.rate = L.lct_age * L.rate + L.rate
      BY <1>2
    <3>2. XPrime(Aged(L)) = L.X - (L.lct_age + 1) * L.rate
      BY <1>4, <2>1 DEF XPrime, Older
    <3> QED BY <1>2, <3>1, <3>2 DEF XPrime
  <2>2. CASE L.lct_age = MaxAge
    <3>1. Aged(L).lct_age = L.lct_age
      BY <1>3, <1>4, <2>2 DEF Older
    <3> QED BY <1>4, <3>1 DEF XPrime
  <2> QED BY <1>3, <1>5, <2>1, <2>2
<1> DEFINE x == XPrime(L)
           y == XPrime(Aged(L))
           r == L.rate
<1>7. SUFFICES ASSUME t > 0, (IF t = Never THEN t ELSE t - 1) > 0
               PROVE  /\ y > Tau
                      /\ Tau + (IF t = Never THEN t ELSE t - 1) * r <= y
  BY <1>4 DEF Covered, Blocked
<1>8. x > Tau /\ Tau + t * r <= x
  BY <1>7 DEF Covered, Blocked
<1>9. x \in Int /\ r \in Nat /\ (y = x \/ y = x - r) /\ x <= Tau + 8 * MaxSize
  BY <1>2, <1>3, <1>6
<1> HIDE DEF x, y, r
<1>10. CASE r = 0
  <2>1. y = x
    BY <1>9, <1>10
  <2>2. (IF t = Never THEN t ELSE t - 1) * r = 0 /\ t * r = 0
    BY <1>7, <1>10
  <2> QED BY <1>3, <1>8, <1>9, <2>1, <2>2
<1>11. CASE r > 0
  <2>1. t * r >= t
    BY <1>9, <1>11
  <2>2. t # Never
    <3>1. t * r \in Nat
      BY <1>9
    <3> QED BY <1>3, <1>8, <1>9, <2>1, <3>1 DEF Never
  <2>3. (t - 1) * r = t * r - r /\ t * r \in Nat
    BY <1>9
  <2>4. (t - 1) * r > 0
    BY <1>7, <1>9, <1>11, <2>2
  <2> QED BY <1>3, <1>8, <1>9, <1>11, <2>2, <2>3, <2>4
<1> QED BY <1>9, <1>10, <1>11

\* A step that keeps worker w asleep as it is and every port it may serve in
\* the same state, but for one that is empty.
Undisturbed(w) ==
    /\ wstate[w] = "sleeping" /\ wake'[w] = wake[w]
    /\ \A p \in NonEmpty(w)' : p \in NonEmpty(w) /\ SameBucket(lq[p], lq'[p])

LEMMA UndisturbedCovers ==
  ASSUME SleepInv, NEW w \in Workers, Undisturbed(w), NEW p \in NonEmpty(w)'
  PROVE  Covered(lq'[p], wake'[w])
<1>1. Covered(lq[p], wake[w])
  BY DEF SleepInv, Undisturbed
<1> QED BY <1>1, SameBucketCovered DEF Undisturbed

\* The ports a worker may serve after a step of the others.
LEMMA NonEmptyAfter ==
  ASSUME Inv', NEW w \in Workers, NEW p \in NonEmpty(w)'
  PROVE  p \in Ports /\ WorkerOf[p] = w /\ lq'[p].total > 0
         /\ p \in Range(logical_queue_ids'[w])
<1>1. p \in Range(logical_queue_ids'[w]) /\ lq'[p].total > 0
  BY DEF NonEmpty
<1>2. logical_queue_ids' \in [Workers -> Seq(Ports)]
  BY DEF Inv, TypeOK
<1>3. logical_queue_ids'[w] \in Seq(Ports)
  BY <1>2
<1>4. p \in Ports
  BY <1>1, <1>3 DEF Range
<1>5. WorkerOf[p] = w
  BY <1>1 DEF Inv, OwnPortsOnly
<1> QED BY <1>1, <1>4, <1>5

\* A call on port p that stores nothing disturbs no sleeper.
LEMMA QuietCallUndisturbed ==
  ASSUME Inv, Inv', NEW p \in Ports, Register(p), NEW M, lq' = [lq EXCEPT ![p] = M],
         Registered(p) => SameBucket(lq[p], M), ~Registered(p) => M.total = 0,
         UNCHANGED <<wstate, wake>>, NEW w \in Workers, wstate'[w] = "sleeping"
  PROVE  Undisturbed(w)
<1>1. lq \in [Ports -> LogicalQueueInfo] /\ logical_queue_ids \in [Workers -> Seq(Ports)]
  BY DEF Inv, TypeOK
<1>2. ASSUME NEW q \in NonEmpty(w)'
      PROVE  q \in NonEmpty(w) /\ SameBucket(lq[q], lq'[q])
  <2>1. /\ q \in Ports /\ WorkerOf[q] = w /\ lq'[q].total > 0
        /\ q \in Range(logical_queue_ids'[w])
    BY <1>2, NonEmptyAfter
  <2>2. Registered(q)' <=> Registered(q) \/ q = p
    BY <2>1, RegisterInv
  <2>3. Registered(q)'
    BY <2>1 DEF Registered
  <2>4. SameBucket(lq[q], lq'[q]) /\ Registered(q)
    <3>1. CASE q = p
      <4>1. lq'[q] = M
        BY <1>1, <3>1
      <4>2. Registered(p)
        BY <2>1, <3>1, <4>1
      <4> QED BY <3>1, <4>1, <4>2
    <3>2. CASE q # p
      <4>1. lq'[q] = lq[q]
        BY <1>1, <3>2
      <4> QED BY <2>2, <2>3, <3>2, <4>1 DEF SameBucket
    <3> QED BY <3>1, <3>2
  <2>5. q \in NonEmpty(w)
    BY <2>1, <2>4 DEF SameBucket, NonEmpty, Registered
  <2> QED BY <2>4, <2>5
<1> QED BY <1>2 DEF Undisturbed

\* A step on the ports of other workers, or on none, disturbs no sleeper.
LEMMA OthersUndisturbed ==
  ASSUME Inv, Inv', NEW w \in Workers, UNCHANGED logical_queue_ids,
         \A q \in Ports : WorkerOf[q] = w => SameBucket(lq[q], lq'[q]),
         wstate[w] = "sleeping", wake'[w] = wake[w]
  PROVE  Undisturbed(w)
<1>1. ASSUME NEW q \in NonEmpty(w)'
      PROVE  q \in NonEmpty(w) /\ SameBucket(lq[q], lq'[q])
  <2>1. /\ q \in Ports /\ WorkerOf[q] = w /\ lq'[q].total > 0
        /\ q \in Range(logical_queue_ids'[w])
    BY <1>1, NonEmptyAfter
  <2> QED BY <2>1 DEF SameBucket, NonEmpty
<1> QED BY <1>1 DEF Undisturbed

\* push_front wakes the port's worker, or stores nothing.
LEMMA PushSleeper ==
  ASSUME Inv, Inv', NEW p \in Ports, NEW v \in VNs, NEW pkt \in Arrivals, Push(p, v, pkt),
         NEW w \in Workers, wstate'[w] = "sleeping"
  PROVE  Undisturbed(w)
<1> DEFINE L == LogicalQueueOf(p)
<1>1. /\ lq \in [Ports -> LogicalQueueInfo] /\ logical_queue_ids \in [Workers -> Seq(Ports)]
      /\ wstate \in [Workers -> WorkerStates] /\ wake \in [Workers -> Nat]
  BY DEF Inv, TypeOK
<1>2. LQInv(L) /\ WorkerOf[p] \in Workers /\ pkt \in Pkt
  BY LogicalQueueOfInv, TMAssumption
<1>3. CASE Full(L, v)
  <2>1. PushFront(L, v, pkt) = Credited(L, v, pkt)
    BY <1>3 DEF PushFront
  <2>2. SameBucket(L, Credited(L, v, pkt))
    BY <1>2 DEF SameBucket, Credited, LQInv, LogicalQueueInfo
  <2> DEFINE M == Credited(L, v, pkt)
  <2>3. lq' = [lq EXCEPT ![p] = M] /\ Register(p) /\ UNCHANGED <<wstate, wake>>
    BY <1>3, <2>1 DEF Push
  <2>4. Registered(p) => SameBucket(lq[p], M)
    BY <2>2 DEF LogicalQueueOf
  <2>5. ~Registered(p) => M.total = 0
    BY <2>2 DEF LogicalQueueOf, NewLogicalQueue, SameBucket
  <2> HIDE DEF M
  <2> QED BY <2>3, <2>4, <2>5, QuietCallUndisturbed
<1>4. CASE ~Full(L, v)
  <2>1. /\ wstate' = [wstate EXCEPT ![WorkerOf[p]] = "running"]
        /\ wake' = [wake EXCEPT ![WorkerOf[p]] = 0]
        /\ lq' = [lq EXCEPT ![p] = PushFront(L, v, pkt)] /\ Register(p)
    BY <1>4 DEF Push, Notify
  <2>2. w # WorkerOf[p] /\ wstate[w] = "sleeping" /\ wake'[w] = wake[w]
    BY <1>1, <1>2, <2>1
  <2>3. logical_queue_ids'[w] = logical_queue_ids[w]
    BY <1>1, <2>1, <2>2 DEF Register
  <2>4. ASSUME NEW q \in NonEmpty(w)'
        PROVE  q \in NonEmpty(w) /\ SameBucket(lq[q], lq'[q])
    <3>1. q \in Ports /\ WorkerOf[q] = w /\ lq'[q].total > 0
      BY <2>4, NonEmptyAfter
    <3>2. lq'[q] = lq[q]
      BY <1>1, <2>1, <2>2, <3>1
    <3> QED BY <2>3, <3>2 DEF SameBucket, NonEmpty
  <2> QED BY <2>2, <2>4 DEF Undisturbed
<1> QED BY <1>3, <1>4

\* A setter disturbs no sleeper, as long as it leaves the rate as it is.
LEMMA SetterSleeper ==
  ASSUME Inv, Inv', SleepInv, ControlPlane, Rates \subseteq {DefaultRate},
         NEW w \in Workers, wstate'[w] = "sleeping"
  PROVE  Undisturbed(w)
<1>1. \A q \in Ports : /\ lq[q] \in LogicalQueueInfo /\ LogicalQueueOf(q) \in LogicalQueueInfo
                       /\ lq[q].rate = DefaultRate
  BY LogicalQueueOfInv DEF Inv, LQInv, SleepInv
<1>2. ASSUME NEW L \in LogicalQueueInfo, L.rate = DefaultRate
      PROVE  /\ \A caps : SameBucket(L, [L EXCEPT !.capacity = caps])
             /\ \A bps \in Rates : SameBucket(L, [L EXCEPT !.rate = bps])
  BY <1>2 DEF SameBucket, LogicalQueueInfo
<1>3. UNCHANGED <<wstate, wake>>
  BY DEF ControlPlane, SetVNCapacity, SetQueueCapacity, SetCapacityForAll, SetRate,
         SetRateForAll
<1>4. ASSUME NEW p \in Ports, Register(p), NEW M, lq' = [lq EXCEPT ![p] = M],
             SameBucket(LogicalQueueOf(p), M)
      PROVE  Undisturbed(w)
  <2>1. Registered(p) => SameBucket(lq[p], M)
    BY <1>4 DEF LogicalQueueOf
  <2>2. ~Registered(p) => M.total = 0
    BY <1>4 DEF LogicalQueueOf, NewLogicalQueue, SameBucket
  <2> QED BY <1>3, <1>4, <2>1, <2>2, QuietCallUndisturbed
<1>5. \A p \in Ports : LogicalQueueOf(p).rate = DefaultRate
  BY <1>1 DEF LogicalQueueOf, NewLogicalQueue
<1>6. ASSUME NEW p \in Ports, NEW v \in VNs, NEW c \in Capacities, SetVNCapacity(p, v, c)
      PROVE  Undisturbed(w)
  <2> DEFINE L == LogicalQueueOf(p)
             M == [L EXCEPT !.capacity[v] = c]
  <2>1. lq' = [lq EXCEPT ![p] = M] /\ Register(p)
    BY <1>6 DEF SetVNCapacity
  <2>2. SameBucket(L, M)
    BY <1>1 DEF SameBucket, LogicalQueueInfo
  <2> HIDE DEF M
  <2> QED BY <1>4, <2>1, <2>2
<1>7. ASSUME NEW p \in Ports, NEW c \in Capacities, SetQueueCapacity(p, c)
      PROVE  Undisturbed(w)
  <2> DEFINE M == [LogicalQueueOf(p) EXCEPT !.capacity = [v \in VNs |-> c]]
  <2>1. lq' = [lq EXCEPT ![p] = M] /\ Register(p)
    BY <1>7 DEF SetQueueCapacity
  <2>2. SameBucket(LogicalQueueOf(p), M)
    BY <1>1, <1>2, <1>5
  <2> HIDE DEF M
  <2> QED BY <1>4, <2>1, <2>2
<1>8. ASSUME NEW p \in Ports, NEW bps \in Rates, SetRate(p, bps)
      PROVE  Undisturbed(w)
  <2> DEFINE M == [LogicalQueueOf(p) EXCEPT !.rate = bps]
  <2>1. lq' = [lq EXCEPT ![p] = M] /\ Register(p)
    BY <1>8 DEF SetRate
  <2>2. SameBucket(LogicalQueueOf(p), M)
    BY <1>1, <1>2, <1>5
  <2> HIDE DEF M
  <2> QED BY <1>4, <2>1, <2>2
<1>9. ASSUME UNCHANGED logical_queue_ids,
             \A q \in Ports : SameBucket(lq[q], lq'[q])
      PROVE  Undisturbed(w)
  BY <1>3, <1>9, OthersUndisturbed
<1>10. \A q \in Ports : SameBucket(lq[q], lq[q])
  BY DEF SameBucket
<1>11. ASSUME NEW c \in Capacities, SetCapacityForAll(c) PROVE Undisturbed(w)
  <2>1. /\ UNCHANGED logical_queue_ids
        /\ \A q \in Ports : lq'[q] = IF Registered(q)
                                     THEN [lq[q] EXCEPT !.capacity = [v \in VNs |-> c]]
                                     ELSE lq[q]
    BY <1>11 DEF SetCapacityForAll
  <2>2. \A q \in Ports : SameBucket(lq[q], [lq[q] EXCEPT !.capacity = [v \in VNs |-> c]])
    BY <1>1, <1>2
  <2>3. \A q \in Ports : SameBucket(lq[q], lq'[q])
    BY <1>10, <2>1, <2>2
  <2> QED BY <1>9, <2>1, <2>3
<1>12. ASSUME NEW bps \in Rates, SetRateForAll(bps) PROVE Undisturbed(w)
  <2>1. /\ UNCHANGED logical_queue_ids
        /\ \A q \in Ports : lq'[q] = IF Registered(q) THEN [lq[q] EXCEPT !.rate = bps]
                                     ELSE lq[q]
    BY <1>12 DEF SetRateForAll
  <2>2. \A q \in Ports : SameBucket(lq[q], [lq[q] EXCEPT !.rate = bps])
    BY <1>1, <1>2
  <2>3. \A q \in Ports : SameBucket(lq[q], lq'[q])
    BY <1>10, <2>1, <2>2
  <2> QED BY <1>9, <2>1, <2>3
<1> QED BY <1>6, <1>7, <1>8, <1>11, <1>12 DEF ControlPlane

\* No step changes a rate.
LEMMA RatesStay ==
  ASSUME Inv, SleepInv, [Next]_vars, Rates \subseteq {DefaultRate}, NEW p \in Ports
  PROVE  lq'[p].rate = DefaultRate
<1>1. /\ lq \in [Ports -> LogicalQueueInfo] /\ lq[p].rate = DefaultRate /\ LQInv(lq[p])
      /\ LogicalQueueOf(p) \in LogicalQueueInfo
  BY LogicalQueueOfInv DEF Inv, TypeOK, SleepInv, LQInv
<1>2. LogicalQueueOf(p).rate = DefaultRate
  BY <1>1 DEF LogicalQueueOf, NewLogicalQueue
<1>3. CASE ControlPlane
  <2>1. ASSUME NEW q \in Ports, NEW M, lq' = [lq EXCEPT ![q] = M],
               q = p => M.rate = DefaultRate
        PROVE  lq'[p].rate = DefaultRate
    BY <1>1, <2>1
  <2>2. /\ \A caps : [LogicalQueueOf(p) EXCEPT !.capacity = caps].rate = DefaultRate
        /\ \A v, c : [LogicalQueueOf(p) EXCEPT !.capacity[v] = c].rate = DefaultRate
        /\ \A bps \in Rates : [LogicalQueueOf(p) EXCEPT !.rate = bps].rate = DefaultRate
        /\ \A caps : [lq[p] EXCEPT !.capacity = caps].rate = DefaultRate
        /\ \A bps \in Rates : [lq[p] EXCEPT !.rate = bps].rate = DefaultRate
    BY <1>1, <1>2 DEF LogicalQueueInfo
  <2>3. ASSUME NEW q \in Ports, NEW v \in VNs, NEW c \in Capacities, SetVNCapacity(q, v, c)
        PROVE  lq'[p].rate = DefaultRate
    <3> DEFINE M == [LogicalQueueOf(q) EXCEPT !.capacity[v] = c]
    <3>1. lq' = [lq EXCEPT ![q] = M]
      BY <2>3 DEF SetVNCapacity
    <3>2. q = p => M.rate = DefaultRate
      BY <2>2
    <3> HIDE DEF M
    <3> QED BY <2>1, <3>1, <3>2
  <2>4. ASSUME NEW q \in Ports, NEW c \in Capacities, SetQueueCapacity(q, c)
        PROVE  lq'[p].rate = DefaultRate
    <3> DEFINE M == [LogicalQueueOf(q) EXCEPT !.capacity = [v \in VNs |-> c]]
    <3>1. lq' = [lq EXCEPT ![q] = M]
      BY <2>4 DEF SetQueueCapacity
    <3>2. q = p => M.rate = DefaultRate
      BY <2>2
    <3> HIDE DEF M
    <3> QED BY <2>1, <3>1, <3>2
  <2>5. ASSUME NEW q \in Ports, NEW bps \in Rates, SetRate(q, bps)
        PROVE  lq'[p].rate = DefaultRate
    <3> DEFINE M == [LogicalQueueOf(q) EXCEPT !.rate = bps]
    <3>1. lq' = [lq EXCEPT ![q] = M]
      BY <2>5 DEF SetRate
    <3>2. q = p => M.rate = DefaultRate
      BY <2>2
    <3> HIDE DEF M
    <3> QED BY <2>1, <3>1, <3>2
  <2>6. ASSUME NEW c \in Capacities, SetCapacityForAll(c) PROVE lq'[p].rate = DefaultRate
    <3>1. lq'[p] = lq[p] \/ lq'[p] = [lq[p] EXCEPT !.capacity = [v \in VNs |-> c]]
      BY <2>6 DEF SetCapacityForAll
    <3>2. [lq[p] EXCEPT !.capacity = [v \in VNs |-> c]].rate = DefaultRate
      BY <2>2
    <3> QED BY <1>1, <3>1, <3>2
  <2>7. ASSUME NEW bps \in Rates, SetRateForAll(bps) PROVE lq'[p].rate = DefaultRate
    <3>1. lq'[p] = lq[p] \/ lq'[p] = [lq[p] EXCEPT !.rate = bps]
      BY <2>7 DEF SetRateForAll
    <3> QED BY <1>1, <2>2, <3>1
  <2> QED BY <1>3, <2>3, <2>4, <2>5, <2>6, <2>7 DEF ControlPlane
<1>4. CASE PushAny
  <2>1. PICK q \in Ports, v \in VNs, pkt \in Arrivals : Push(q, v, pkt)
    BY <1>4 DEF PushAny
  <2>2. lq' = [lq EXCEPT ![q] = PushFront(LogicalQueueOf(q), v, pkt)]
    BY <2>1 DEF Push
  <2>3. PushFront(LogicalQueueOf(p), v, pkt).rate = DefaultRate
    <3> DEFINE C == Credited(LogicalQueueOf(p), v, pkt)
    <3>1. C.rate = DefaultRate /\ C \in LogicalQueueInfo
      <4>1. pkt \in Pkt
        BY TMAssumption
      <4>2. C.rate = DefaultRate
        BY <1>1, <1>2 DEF Credited, LogicalQueueInfo
      <4> QED BY <4>1, <4>2, LogicalQueueOfInv, CreditedInv DEF LQInv
    <3> HIDE DEF C
    <3>2. Enqueued(C, v, pkt).rate = DefaultRate
      BY <3>1 DEF Enqueued, LogicalQueueInfo
    <3> QED BY <3>1, <3>2 DEF PushFront, C
  <2> QED BY <1>1, <2>2, <2>3
<1>5. ASSUME lq[p].total > 0 PROVE Decided(lq[p]).rate = DefaultRate
                                   /\ Transmitted(Decided(lq[p])).rate = DefaultRate
  <2>1. Decided(lq[p]).rate = DefaultRate /\ Decided(lq[p]) \in LogicalQueueInfo
    BY <1>1, <1>5, DecidedInv DEF LQInv
  <2> QED BY <2>1 DEF Transmitted, Compliant, Dequeued, LogicalQueueInfo
<1>6. ASSUME NEW w \in Workers, Worker(w) \/ SpuriousWakeup(w)
      PROVE  lq'[p].rate = DefaultRate
  <2>1. CASE Pop(w)
    BY <1>1, <1>5, <2>1, PopPorts
  <2>2. CASE Sleep(w)
    <3>1. lq'[p] = IF p \in NonEmpty(w) THEN Decided(lq[p]) ELSE lq[p]
      BY <2>2 DEF Sleep
    <3>2. p \in NonEmpty(w) => lq[p].total > 0
      BY DEF NonEmpty
    <3> QED BY <1>1, <1>5, <3>1, <3>2
  <2>3. CASE WaitForPacket(w) \/ TimeOut(w) \/ SpuriousWakeup(w)
    BY <1>1, <2>3 DEF WaitForPacket, TimeOut, SpuriousWakeup
  <2> QED BY <1>6, <2>1, <2>2, <2>3 DEF Worker
<1>7. CASE Tick
  <2>1. lq'[p] = lq[p] \/ lq'[p] = Aged(lq[p])
    BY <1>7 DEF Tick
  <2> QED BY <1>1, <2>1 DEF Aged, LogicalQueueInfo
<1>8. CASE UNCHANGED vars
  BY <1>1, <1>8 DEF vars
<1> QED BY <1>3, <1>4, <1>6, <1>7, <1>8 DEF Next

\* A worker that is asleep after a step covers its ports.
LEMMA SleeperCovers ==
  ASSUME Inv, Inv', SleepInv, [Next]_vars, Rates \subseteq {DefaultRate},
         NEW w \in Workers, wstate'[w] = "sleeping", NEW p \in NonEmpty(w)'
  PROVE  Covered(lq'[p], wake'[w])
<1>1. /\ lq \in [Ports -> LogicalQueueInfo] /\ logical_queue_ids \in [Workers -> Seq(Ports)]
      /\ wstate \in [Workers -> WorkerStates] /\ wake \in [Workers -> Nat]
  BY DEF Inv, TypeOK
<1>2. /\ p \in Ports /\ WorkerOf[p] = w /\ lq'[p].total > 0
      /\ p \in Range(logical_queue_ids'[w])
  BY NonEmptyAfter
<1>3. SUFFICES ASSUME ~Undisturbed(w) PROVE Covered(lq'[p], wake'[w])
  BY UndisturbedCovers
<1>4. ~PushAny
  BY <1>3, PushSleeper DEF PushAny
<1>5. ~ControlPlane
  BY <1>3, SetterSleeper
<1>6. \A q \in Ports : SameBucket(lq[q], lq[q])
  BY DEF SameBucket
<1>7. ~UNCHANGED vars
  BY <1>3, <1>6, OthersUndisturbed DEF vars
<1>8. ASSUME NEW u \in Workers, Worker(u) \/ SpuriousWakeup(u)
      PROVE  u = w /\ Sleep(w)
  <2>1. UNCHANGED logical_queue_ids
    BY <1>8 DEF Worker, WaitForPacket, Pop, Sleep, TimeOut, SpuriousWakeup
  <2>2. CASE u # w
    <3>1. wstate[w] = "sleeping" /\ wake'[w] = wake[w]
      BY <1>1, <1>8, <2>2 DEF Worker, WaitForPacket, Pop, Sleep, TimeOut, SpuriousWakeup,
                              Notify
    <3>2. ASSUME NEW q \in Ports, WorkerOf[q] = w PROVE SameBucket(lq[q], lq'[q])
      <4>1. q \notin NonEmpty(u)
        BY <2>2, <3>2, NonEmptyPorts
      <4>2. lq'[q] = lq[q]
        <5>1. CASE Pop(u)
          <6> DEFINE stop == logical_queue_ids[u][Stop(u) + 1]
                     passed == PassedBefore(u, Stop(u))
          <6>1. lq'[q] = IF q = stop THEN Transmitted(Decided(lq[stop]))
                         ELSE IF q \in passed THEN Decided(lq[q]) ELSE lq[q]
            BY <5>1 DEF Pop
          <6>2. stop \in NonEmpty(u)
            BY <5>1, StopsAtReady DEF Pop, Ready
          <6>3. passed \subseteq NonEmpty(u)
            BY DEF PassedBefore
          <6> HIDE DEF stop, passed
          <6> QED BY <4>1, <6>1, <6>2, <6>3
        <5>2. CASE Sleep(u)
          BY <4>1, <5>2 DEF Sleep
        <5>3. CASE WaitForPacket(u) \/ TimeOut(u) \/ SpuriousWakeup(u)
          BY <5>3 DEF WaitForPacket, TimeOut, SpuriousWakeup
        <5> QED BY <1>8, <5>1, <5>2, <5>3 DEF Worker
      <4> QED BY <1>6, <4>2
    <3> QED BY <1>3, <2>1, <3>1, <3>2, OthersUndisturbed
  <2>3. CASE u = w
    <3>1. wstate'[w] # "sleeping" \/ Sleep(w)
      BY <1>1, <1>8, <2>3 DEF Worker, WaitForPacket, Pop, TimeOut, SpuriousWakeup, Notify
    <3> QED BY <2>3, <3>1
  <2> QED BY <2>2, <2>3
<1>9. CASE Sleep(w)
  <2>1. /\ wsize[w] > 0 /\ Ready(w) = {} /\ UNCHANGED logical_queue_ids
        /\ \A q \in Ports : lq'[q] = IF q \in NonEmpty(w) THEN Decided(lq[q]) ELSE lq[q]
    BY <1>9 DEF Sleep
  <2>2. PICK t \in WakeTimes(w) : wake' = [wake EXCEPT ![w] = t]
    BY <1>9 DEF Sleep
  <2>3. wake'[w] = t
    BY <1>1, <2>2
  <2>4. p \in NonEmpty(w)
    <3>1. p \notin NonEmpty(w) => lq[p].total > 0
      BY <1>2, <2>1
    <3> QED BY <1>2, <2>1, <3>1 DEF NonEmpty
  <2>5. Covered(lq[p], t)
    BY <2>1, <2>4, WakeTimesCover DEF SleepInv
  <2>6. SameBucket(lq[p], lq'[p])
    BY <1>2, <2>1, <2>4, NonEmptyPorts, DecidedBucket
  <2> QED BY <2>3, <2>5, <2>6, SameBucketCovered
<1>10. CASE Tick
  <2>1. /\ UNCHANGED <<logical_queue_ids, wstate>>
        /\ lq'[p] = IF Registered(p) THEN Aged(lq[p]) ELSE lq[p]
        /\ wake'[w] = IF wake[w] \in {0, Never} THEN wake[w] ELSE wake[w] - 1
    BY <1>2, <1>10 DEF Tick
  <2>2. Registered(p) /\ lq'[p] = Aged(lq[p])
    BY <1>2, <2>1 DEF Registered
  <2>3. lq[p].total > 0
    BY <1>1, <1>2, <2>2 DEF Aged, LogicalQueueInfo
  <2>4. p \in NonEmpty(w)
    BY <1>2, <2>1, <2>3 DEF NonEmpty
  <2>5. Covered(lq[p], wake[w])
    BY <2>1, <2>4 DEF SleepInv
  <2>6. LQInv(lq[p]) /\ wake[w] \in Nat
    BY <1>1, <1>2 DEF Inv
  <2>7. Covered(Aged(lq[p]), IF wake[w] \in {0, Never} THEN wake[w] ELSE wake[w] - 1)
    BY <2>5, <2>6, TickCovers
  <2> QED BY <2>1, <2>2, <2>7
<1> QED BY <1>4, <1>5, <1>7, <1>8, <1>9, <1>10 DEF Next

\* While the rate is a constant, no worker sleeps past the moment at which one of
\* its ports may send, however many ports it sleeps on and whatever arrives.
THEOREM NeverOversleeps ==
  ASSUME Rates \subseteq {DefaultRate}
  PROVE  Spec => []NoOversleep
<1>1. Init => SleepInv
  <2> SUFFICES ASSUME Init PROVE SleepInv
    OBVIOUS
  <2>1. \A p \in Ports : lq[p].rate = DefaultRate
    BY DEF Init, NewLogicalQueue
  <2>2. \A w \in Workers : wstate[w] # "sleeping"
    BY DEF Init
  <2> QED BY <2>1, <2>2 DEF SleepInv
<1>2. Inv /\ SleepInv /\ [Next]_vars => SleepInv'
  <2> SUFFICES ASSUME Inv, SleepInv, [Next]_vars PROVE SleepInv'
    OBVIOUS
  <2>1. Inv'
    BY NextKeepsInv
  <2>2. \A p \in Ports : lq'[p].rate = DefaultRate
    BY RatesStay
  <2>3. \A w \in Workers : wstate'[w] = "sleeping" =>
           \A p \in NonEmpty(w)' : Covered(lq'[p], wake'[w])
    BY <2>1, SleeperCovers
  <2> QED BY <2>2, <2>3 DEF SleepInv, Covered
<1>3. Inv /\ SleepInv => NoOversleep
  <2> SUFFICES ASSUME Inv, SleepInv, NEW w \in Workers, wstate[w] = "sleeping", Ready(w) # {}
               PROVE  wake[w] = 0
    BY DEF NoOversleep
  <2>1. PICK p \in NonEmpty(w) : ~Blocked(lq[p])
    BY DEF Ready
  <2>2. Covered(lq[p], wake[w])
    BY DEF SleepInv
  <2>3. wake[w] \in Nat
    BY DEF Inv, TypeOK
  <2> QED BY <2>1, <2>2, <2>3 DEF Covered
<1> QED BY <1>1, <1>2, <1>3, SpecInv, PTL DEF Spec

-----------------------------------------------------------------------------
(***************************************************************************)
(* The refinement of VNFifo, under the map                                  *)
(*     queue[p] <- lq[p].fifo    bound[p] <- LogicalQueueOf(p).capacity      *)
(* A stored packet is an Accept, a Pop is a Deliver, a worker that blocks is *)
(* a Block, a setter is a Resize and every other step stutters.  Inv supplies *)
(* what the abstract guards need: a VN below its capacity has a short deque, *)
(* and the VN a Pop serves has a packet.                                    *)
(***************************************************************************)

QueueBar == [p \in Ports |-> lq[p].fifo]
BoundBar == [p \in Ports |-> LogicalQueueOf(p).capacity]

-----------------------------------------------------------------------------
(* Capacities and deques under the operators *)

\* Scheduling and time leave the capacities alone.
LEMMA CapacityKept ==
  ASSUME NEW L, LQInv(L)
  PROVE  /\ \A v \in VNs, pkt \in Pkt : PushFront(L, v, pkt).capacity = L.capacity
         /\ Aged(L).capacity = L.capacity
         /\ Decided(L).capacity = L.capacity
         /\ Transmitted(L).capacity = L.capacity
<1>1. L \in LogicalQueueInfo
  BY DEF LQInv
<1>2. ASSUME NEW v \in VNs, NEW pkt \in Pkt
      PROVE  PushFront(L, v, pkt).capacity = L.capacity
  <2> DEFINE C == Credited(L, v, pkt)
  <2>1. LQInv(C)
    BY CreditedInv
  <2>2. C.capacity = L.capacity
    BY <1>1 DEF Credited, LogicalQueueInfo
  <2>3. PushFront(L, v, pkt) = IF Full(L, v) THEN C ELSE Enqueued(C, v, pkt)
    BY DEF PushFront
  <2> HIDE DEF C
  <2>4. Enqueued(C, v, pkt).capacity = C.capacity
    BY <2>1 DEF LQInv, Enqueued, LogicalQueueInfo
  <2> QED BY <2>2, <2>3, <2>4
<1>3. Aged(L).capacity = L.capacity
  BY <1>1 DEF Aged, LogicalQueueInfo
<1>4. Decided(L).capacity = L.capacity
  <2> DEFINE S == Swept(L)
  <2>1. S.capacity = L.capacity /\ DOMAIN S = DOMAIN L
    BY <1>1 DEF Swept, LogicalQueueInfo
  <2> HIDE DEF S
  <2>2. PickGreen(S).capacity = S.capacity
    BY <1>1, <2>1 DEF PickGreen, LogicalQueueInfo
  <2>3. PickShared(S).capacity = S.capacity
    BY <1>1, <2>1 DEF PickShared, Replenished, LogicalQueueInfo
  <2> QED BY <2>1, <2>2, <2>3 DEF Decided, SelectVN, S
<1>5. Transmitted(L).capacity = L.capacity
  BY <1>1 DEF Transmitted, Compliant, Dequeued, LogicalQueueInfo
<1> QED BY <1>2, <1>3, <1>4, <1>5

\* push_front appends to one deque, or to none when the VN is full.
LEMMA PushFrontFifo ==
  ASSUME NEW L, LQInv(L), NEW v \in VNs, NEW pkt \in Pkt
  PROVE  PushFront(L, v, pkt).fifo =
            IF Full(L, v) THEN L.fifo ELSE [L.fifo EXCEPT ![v] = Append(@, pkt)]
<1> DEFINE C == Credited(L, v, pkt)
<1>1. LQInv(C)
  BY CreditedInv
<1>2. C.fifo = L.fifo
  BY DEF LQInv, Credited, LogicalQueueInfo
<1>3. PushFront(L, v, pkt) = IF Full(L, v) THEN C ELSE Enqueued(C, v, pkt)
  BY DEF PushFront
<1> HIDE DEF C
<1>4. Enqueued(C, v, pkt).fifo = [C.fifo EXCEPT ![v] = Append(@, pkt)]
  BY <1>1 DEF LQInv, Enqueued, LogicalQueueInfo
<1> QED BY <1>2, <1>3, <1>4

\* A VN is full exactly when its deque is at or above its capacity.
LEMMA FullVersusFifo ==
  ASSUME NEW L, LQInv(L), NEW v \in VNs, ~Full(L, v)
  PROVE  Len(L.fifo[v]) < L.capacity[v]
<1>1. L.size[v] = Len(L.fifo[v]) /\ L.size[v] \in Nat /\ L.capacity[v] \in Nat
  BY DEF LQInv, CountersMatchFifos, LogicalQueueInfo
<1> QED BY <1>1 DEF Full

\* The setters move no packet.
LEMMA ControlPlaneKeepsFifos ==
  ASSUME Inv, ControlPlane
  PROVE  QueueBar' = QueueBar
<1>1. lq \in [Ports -> LogicalQueueInfo]
  BY DEF Inv, TypeOK
<1>2. \A p \in Ports : LogicalQueueOf(p).fifo = lq[p].fifo
  BY LogicalQueueOfInv
<1>3. \A p \in Ports : LogicalQueueOf(p) \in LogicalQueueInfo
  BY LogicalQueueOfInv DEF LQInv
<1>4. \A p \in Ports : lq'[p].fifo = lq[p].fifo
  <2>1. CASE \E p \in Ports, v \in VNs, c \in Capacities : SetVNCapacity(p, v, c)
    BY <1>1, <1>2, <1>3, <2>1 DEF SetVNCapacity, LogicalQueueInfo
  <2>2. CASE \E p \in Ports, c \in Capacities : SetQueueCapacity(p, c)
    BY <1>1, <1>2, <1>3, <2>2 DEF SetQueueCapacity, LogicalQueueInfo
  <2>3. CASE \E c \in Capacities : SetCapacityForAll(c)
    BY <1>1, <2>3 DEF SetCapacityForAll, LogicalQueueInfo
  <2>4. CASE \E p \in Ports, bps \in Rates : SetRate(p, bps)
    BY <1>1, <1>2, <1>3, <2>4 DEF SetRate, LogicalQueueInfo
  <2>5. CASE \E bps \in Rates : SetRateForAll(bps)
    BY <1>1, <2>5 DEF SetRateForAll, LogicalQueueInfo
  <2> QED BY <2>1, <2>2, <2>3, <2>4, <2>5 DEF ControlPlane
<1> QED BY <1>4 DEF QueueBar

\* A step that keeps the capacities of the queues it touches keeps every bound.
LEMMA BoundKept ==
  ASSUME Inv, capacity' = capacity,
         \A p \in Ports :
            /\ Registered(p) => Registered(p)'
            /\ \/ lq'[p].capacity = LogicalQueueOf(p).capacity
               \/ (Registered(p)' => Registered(p)) /\ lq'[p] = lq[p]
  PROVE  BoundBar' = BoundBar
<1>1. ASSUME NEW p \in Ports
      PROVE  LogicalQueueOf(p)'.capacity = LogicalQueueOf(p).capacity
  <2>1. CASE (Registered(p)' => Registered(p)) /\ lq'[p] = lq[p]
    BY <2>1 DEF LogicalQueueOf
  <2>2. CASE lq'[p].capacity = LogicalQueueOf(p).capacity
    <3>1. CASE Registered(p)'
      BY <2>2, <3>1 DEF LogicalQueueOf
    <3>2. CASE ~Registered(p)' /\ ~Registered(p)
      BY <3>2 DEF LogicalQueueOf
    <3> QED BY <3>1, <3>2
  <2> QED BY <2>1, <2>2
<1> QED BY <1>1 DEF BoundBar

-----------------------------------------------------------------------------
(* The steps *)

\* push_front accepts the packet at the tail of its VN's deque or drops it.
LEMMA PushRefines ==
  ASSUME Inv, Inv', PushAny
  PROVE  Fifo!Next \/ UNCHANGED Fifo!vars
<1>1. PICK p \in Ports, v \in VNs, pkt \in Arrivals : Push(p, v, pkt)
  BY DEF PushAny
<1> DEFINE L == LogicalQueueOf(p)
           M == PushFront(L, v, pkt)
<1>2. /\ lq' = [lq EXCEPT ![p] = M] /\ Register(p)
      /\ capacity' = capacity /\ out' = out
  BY <1>1 DEF Push
<1>3. pkt \in Pkt /\ LQInv(L) /\ L.fifo = lq[p].fifo
  BY LogicalQueueOfInv, TMAssumption
<1>4. M.capacity = L.capacity
  BY <1>3, CapacityKept
<1>5. M.fifo = IF Full(L, v) THEN L.fifo ELSE [L.fifo EXCEPT ![v] = Append(@, pkt)]
  BY <1>3, PushFrontFifo
<1>6. ~Full(L, v) => Len(L.fifo[v]) < L.capacity[v]
  BY <1>3, FullVersusFifo
<1> HIDE DEF L, M
<1>7. lq'[p] = M /\ \A q \in Ports : q # p => lq'[q] = lq[q]
  BY <1>2 DEF Inv, TypeOK
<1>8. BoundBar' = BoundBar
  <2>1. \A q \in Ports : Registered(q)' <=> Registered(q) \/ q = p
    BY <1>2, RegisterInv
  <2>2. ASSUME NEW q \in Ports
        PROVE  /\ Registered(q) => Registered(q)'
               /\ \/ lq'[q].capacity = LogicalQueueOf(q).capacity
                  \/ (Registered(q)' => Registered(q)) /\ lq'[q] = lq[q]
    BY <1>4, <1>7, <2>1 DEF L
  <2> QED BY <1>2, <2>2, BoundKept
<1>9. CASE Full(L, v)
  <2>1. \A q \in Ports : lq'[q].fifo = lq[q].fifo
    BY <1>3, <1>5, <1>7, <1>9
  <2>2. QueueBar' = QueueBar
    BY <2>1 DEF QueueBar
  <2> QED BY <1>2, <1>8, <2>2 DEF Fifo!vars, QueueBar, BoundBar
<1>10. CASE ~Full(L, v)
  <2>1. Len(QueueBar[p][v]) < BoundBar[p][v]
    BY <1>3, <1>6, <1>10 DEF QueueBar, BoundBar, L
  <2>2. QueueBar' = [QueueBar EXCEPT ![p][v] = Append(@, pkt)]
    <3>1. \A q \in Ports : lq'[q].fifo = IF q = p THEN [lq[p].fifo EXCEPT ![v] = Append(@, pkt)]
                                         ELSE lq[q].fifo
      BY <1>3, <1>5, <1>7, <1>10
    <3> QED BY <3>1 DEF QueueBar
  <2>3. Fifo!Accept(p, v, pkt)
    BY <1>2, <1>8, <2>1, <2>2 DEF Fifo!Accept, QueueBar, BoundBar
  <2> QED BY <1>3, <2>3 DEF Fifo!Next
<1> QED BY <1>9, <1>10

\* pop_back delivers the head of one deque of one of the worker's ports.
LEMMA PopRefines ==
  ASSUME Inv, Inv', NEW w \in Workers, Pop(w)
  PROVE  Fifo!Next
<1>1. PICK p \in Ports :
            /\ WorkerOf[p] = w /\ Registered(p)
            /\ lq[p].total > 0 /\ ~Blocked(Decided(lq[p]))
            /\ lq'[p] = Transmitted(Decided(lq[p]))
            /\ \A q \in Ports : q # p =>
                  lq'[q] = lq[q]
                  \/ (lq[q].total > 0 /\ Registered(q) /\ lq'[q] = Decided(lq[q]))
            /\ out' = [out EXCEPT ![w] =
                  [port |-> p, vn |-> Decided(lq[p]).pending_vn,
                   pkt |-> Head(Decided(lq[p]).fifo[Decided(lq[p]).pending_vn])]]
  BY PopPorts
<1>2. capacity' = capacity /\ logical_queue_ids' = logical_queue_ids
  BY DEF Pop
<1> DEFINE D == Decided(lq[p])
<1>3a. PICK v \in VNs : v = D.pending_vn
  BY <1>1, DecidedInv DEF Inv
<1>3. LQInv(lq[p]) /\ LQInv(D) /\ D.fifo = lq[p].fifo
  BY <1>1, DecidedInv DEF Inv
<1>4. out' = [out EXCEPT ![w] = [port |-> p, vn |-> v, pkt |-> Head(D.fifo[v])]]
  BY <1>1, <1>3a
<1>5. lq'[p].fifo = [D.fifo EXCEPT ![v] = Tail(@)]
  <2>1. lq'[p] = Transmitted(D) /\ ~Blocked(D)
    BY <1>1
  <2> HIDE DEF D
  <2> QED BY <1>3, <1>3a, <2>1, TransmittedInv
<1>6. lq[p].fifo[v] # << >>
  <2>1. D.size[v] > 0 /\ D.size[v] = Len(D.fifo[v])
    <3> HIDE DEF D
    <3>1. NoVN \notin VNs
      BY LQAssumption DEF NoVN, VNs
    <3> QED BY <1>3, <1>3a, <3>1 DEF LQInv, PendingHasPacket, CountersMatchFifos
  <2> HIDE DEF D
  <2> QED BY <1>3, <2>1
<1> HIDE DEF D
<1>7. \A q \in Ports : q # p => lq'[q].fifo = lq[q].fifo
  BY <1>1, DecidedInv DEF Inv
<1>8. QueueBar' = [QueueBar EXCEPT ![p][v] = Tail(@)]
  <2>1. \A q \in Ports : lq'[q].fifo = IF q = p THEN [lq[p].fifo EXCEPT ![v] = Tail(@)]
                                       ELSE lq[q].fifo
    BY <1>3, <1>5, <1>7
  <2> QED BY <2>1 DEF QueueBar
<1>9. BoundBar' = BoundBar
  <2>1. ASSUME NEW q \in Ports
        PROVE  /\ Registered(q) => Registered(q)'
               /\ \/ lq'[q].capacity = LogicalQueueOf(q).capacity
                  \/ (Registered(q)' => Registered(q)) /\ lq'[q] = lq[q]
    <3>1. Registered(q)' <=> Registered(q)
      BY <1>2 DEF Registered
    <3>2. LQInv(lq[q])
      BY DEF Inv
    <3>3. Registered(q) => LogicalQueueOf(q) = lq[q]
      BY DEF LogicalQueueOf
    <3>4. CASE q = p
      <4>1. lq'[p].capacity = D.capacity /\ D.capacity = lq[p].capacity
        BY <1>1, <1>3, CapacityKept DEF D
      <4> QED BY <1>1, <3>1, <3>3, <3>4, <4>1
    <3>5. CASE q # p
      BY <1>1, <3>1, <3>2, <3>3, <3>5, CapacityKept
    <3> QED BY <3>4, <3>5
  <2> QED BY <1>2, <2>1, BoundKept
<1>10. Fifo!Deliver(w, p, v)
  <2>1. QueueBar[p][v] = lq[p].fifo[v]
    BY DEF QueueBar
  <2> QED BY <1>1, <1>3, <1>4, <1>6, <1>8, <1>9, <2>1 DEF Fifo!Deliver, QueueBar, BoundBar
<1> QED BY <1>10 DEF Fifo!Next

\* A worker that blocks delivers nothing; its decisions move no packet.
LEMMA BlockRefines ==
  ASSUME Inv, Inv', NEW w \in Workers, WaitForPacket(w) \/ Sleep(w)
  PROVE  Fifo!Next
<1>1. /\ out' = [out EXCEPT ![w] = Nothing]
      /\ capacity' = capacity /\ logical_queue_ids' = logical_queue_ids
  BY DEF WaitForPacket, Sleep
<1>2. ASSUME NEW q \in Ports
      PROVE  lq'[q] = lq[q]
             \/ (lq[q].total > 0 /\ Registered(q) /\ lq'[q] = Decided(lq[q]))
  <2>1. CASE WaitForPacket(w)
    BY <2>1 DEF WaitForPacket
  <2>2. CASE Sleep(w)
    <3>1. lq' = [p \in Ports |-> IF p \in NonEmpty(w) THEN Decided(lq[p]) ELSE lq[p]]
      BY <2>2 DEF Sleep
    <3> QED BY <3>1, NonEmptyPorts
  <2> QED BY <2>1, <2>2
<1>3. QueueBar' = QueueBar
  <2>1. \A q \in Ports : lq'[q].fifo = lq[q].fifo
    BY <1>2, DecidedInv DEF Inv
  <2> QED BY <2>1 DEF QueueBar
<1>4. BoundBar' = BoundBar
  <2>1. ASSUME NEW q \in Ports
        PROVE  /\ Registered(q) => Registered(q)'
               /\ \/ lq'[q].capacity = LogicalQueueOf(q).capacity
                  \/ (Registered(q)' => Registered(q)) /\ lq'[q] = lq[q]
    <3>1. Registered(q)' <=> Registered(q)
      BY <1>1 DEF Registered
    <3>2. LQInv(lq[q])
      BY DEF Inv
    <3>3. Registered(q) => LogicalQueueOf(q) = lq[q]
      BY DEF LogicalQueueOf
    <3> QED BY <1>2, <3>1, <3>2, <3>3, CapacityKept
  <2> QED BY <1>1, <2>1, BoundKept
<1>5. Fifo!Block(w)
  BY <1>1, <1>3, <1>4 DEF Fifo!Block, QueueBar, BoundBar
<1> QED BY <1>5 DEF Fifo!Next

\* Wake-ups and the clock are invisible.
LEMMA IdleRefines ==
  ASSUME Inv, Inv',
         Tick \/ UNCHANGED vars \/ \E w \in Workers : TimeOut(w) \/ SpuriousWakeup(w)
  PROVE  UNCHANGED Fifo!vars
<1>1. /\ out' = out /\ capacity' = capacity /\ logical_queue_ids' = logical_queue_ids
      /\ \A q \in Ports : lq'[q] = lq[q] \/ (Registered(q) /\ lq'[q] = Aged(lq[q]))
  BY DEF Tick, TimeOut, SpuriousWakeup, vars
<1>2. QueueBar' = QueueBar
  <2>1. \A q \in Ports : lq'[q].fifo = lq[q].fifo
    BY <1>1, AgedInv DEF Inv
  <2> QED BY <2>1 DEF QueueBar
<1>3. BoundBar' = BoundBar
  <2>1. ASSUME NEW q \in Ports
        PROVE  /\ Registered(q) => Registered(q)'
               /\ \/ lq'[q].capacity = LogicalQueueOf(q).capacity
                  \/ (Registered(q)' => Registered(q)) /\ lq'[q] = lq[q]
    <3>1. Registered(q)' <=> Registered(q)
      BY <1>1 DEF Registered
    <3>2. LQInv(lq[q])
      BY DEF Inv
    <3>3. Registered(q) => LogicalQueueOf(q) = lq[q]
      BY DEF LogicalQueueOf
    <3> QED BY <1>1, <3>1, <3>2, <3>3, CapacityKept
  <2> QED BY <1>1, <2>1, BoundKept
<1> QED BY <1>1, <1>2, <1>3 DEF Fifo!vars, QueueBar, BoundBar

\* The bounds are capacities in every state.
LEMMA BoundType == Inv => BoundBar \in [Ports -> [VNs -> Nat]]
<1> SUFFICES ASSUME Inv PROVE BoundBar \in [Ports -> [VNs -> Nat]]
  OBVIOUS
<1>1. \A p \in Ports : LogicalQueueOf(p).capacity \in [VNs -> Nat]
  BY LogicalQueueOfInv DEF LQInv, LogicalQueueInfo
<1> QED BY <1>1 DEF BoundBar

\* A setter is a Resize.
LEMMA ControlPlaneRefines ==
  ASSUME Inv, Inv', ControlPlane
  PROVE  Fifo!Next
<1>1. QueueBar' = QueueBar
  BY ControlPlaneKeepsFifos
<1>2. out' = out
  BY DEF ControlPlane, SetVNCapacity, SetQueueCapacity, SetCapacityForAll, SetRate,
         SetRateForAll
<1>3. (BoundBar \in [Ports -> [VNs -> Nat]])'
  BY BoundType, PTL
<1>4. Fifo!Resize
  BY <1>1, <1>2, <1>3 DEF Fifo!Resize, QueueBar, BoundBar
<1> QED BY <1>4 DEF Fifo!Next

\* QueueingLogicVN is a set of bounded per-VN FIFOs: whatever the scheduler, the
\* buckets, the sweep and the control plane do, no accepted packet is lost,
\* duplicated, mislabelled or reordered within its VN.
THEOREM TrafficManagerIsVNFifo == Spec => ImplementsVNFifo
<1>1. Init => Fifo!Init
  <2> SUFFICES ASSUME Init PROVE Fifo!Init
    OBVIOUS
  <2>1. Inv
    BY InitInv
  <2>2. QueueBar = [p \in Ports |-> [v \in VNs |-> << >>]]
    BY DEF Init, QueueBar, NewLogicalQueue
  <2>3. BoundBar \in [Ports -> [VNs -> Nat]]
    BY <2>1, BoundType
  <2> QED BY <2>2, <2>3 DEF Init, Fifo!Init, QueueBar, BoundBar
<1>2. Inv /\ Inv' /\ [Next]_vars => [Fifo!Next]_(Fifo!vars)
  <2> SUFFICES ASSUME Inv, Inv', [Next]_vars
               PROVE  Fifo!Next \/ UNCHANGED Fifo!vars
    OBVIOUS
  <2>1. CASE PushAny
    BY <2>1, PushRefines
  <2>2. ASSUME NEW w \in Workers, Worker(w) \/ SpuriousWakeup(w)
        PROVE  Fifo!Next \/ UNCHANGED Fifo!vars
    BY <2>2, PopRefines, BlockRefines, IdleRefines DEF Worker
  <2>3. CASE ControlPlane
    BY <2>3, ControlPlaneRefines
  <2>4. CASE Tick \/ UNCHANGED vars
    BY <2>4, IdleRefines
  <2> QED BY <2>1, <2>2, <2>3, <2>4 DEF Next
<1> QED BY <1>1, <1>2, SpecInv, PTL DEF Spec, ImplementsVNFifo, Fifo!Spec

=============================================================================
