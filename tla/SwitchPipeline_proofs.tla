------------------------ MODULE SwitchPipeline_proofs ------------------------
(***************************************************************************)
(* Theorems of SwitchPipeline: types and capacities, no lost wakeup, no      *)
(* deadlock, and order.                                                      *)
(***************************************************************************)
EXTENDS SwitchPipeline, FiniteSetTheorems, SequenceTheorems, TLAPS

-----------------------------------------------------------------------------
(* The plans *)

LEMMA NullIsNoPacket == Null \notin Packet /\ Null \notin Outgoing
BY DEF Null, Packet, Outgoing

\* Concatenation, with its elements: the form in which the plans are taken apart.
LEMMA Concatenation ==
    ASSUME NEW S, NEW s \in Seq(S), NEW t \in Seq(S)
    PROVE  /\ s \o t \in Seq(S)
           /\ \A i \in DOMAIN (s \o t) :
                 \/ i \in DOMAIN s /\ (s \o t)[i] = s[i]
                 \/ i - Len(s) \in DOMAIN t /\ (s \o t)[i] = t[i - Len(s)]
OBVIOUS

LEMMA Singleton ==
    ASSUME NEW S, NEW e \in S
    PROVE  /\ <<e>> \in Seq(S) /\ Len(<<e>>) = 1
           /\ \A i \in DOMAIN <<e>> : i = 1 /\ <<e>>[i] = e
OBVIOUS

LEMMA ReplicasType ==
    ASSUME NEW s \in Seq(Ports), NEW v \in VNs, NEW pkt \in Packet
    PROVE  /\ Replicas(s, v, pkt) \in Seq(EnqueueOp)
           /\ \A i \in DOMAIN Replicas(s, v, pkt) : Replicas(s, v, pkt)[i].pkt.copy
<1> DEFINE c == [pkt EXCEPT !.copy = TRUE]
<1>1. c \in Packet /\ c.copy
  BY DEF Packet
<1> HIDE DEF c
<1>2. \A p \in Ports : Enqueue(p, v, c) \in EnqueueOp /\ Enqueue(p, v, c).pkt = c
  BY <1>1 DEF Enqueue, EnqueueOp
<1>3. Replicas(s, v, pkt) = [i \in 1 .. Len(s) |-> Enqueue(s[i], v, c)]
  BY DEF Replicas, c
<1>4. \A i \in 1 .. Len(s) : s[i] \in Ports
  OBVIOUS
<1> HIDE DEF Enqueue
<1>5. Replicas(s, v, pkt) \in [1 .. Len(s) -> EnqueueOp] /\ Len(s) \in Nat
  BY <1>2, <1>3, <1>4
<1>6. Replicas(s, v, pkt) \in Seq(EnqueueOp)
  BY <1>5, SeqDef
<1> QED
  BY <1>1, <1>2, <1>3, <1>4, <1>6

LEMMA ClonesType ==
    ASSUME NEW v \in VNs \cup {NoVN}, NEW pkt \in Packet,
           mirroring \in Sessions \cup {NoSession}
    PROVE  /\ Clones(v, pkt) \in Seq(EnqueueOp)
           /\ \A i \in DOMAIN Clones(v, pkt) : Clones(v, pkt)[i].pkt.copy
<1>1. CASE v = NoVN
  BY <1>1 DEF Clones
<1>2. CASE v # NoVN
  <2>1. mirroring.group \in Seq(Ports) /\ mirroring.port \in Ports \cup {NoPort}
    <3>1. CASE mirroring = NoSession
      BY <3>1 DEF NoSession
    <3>2. CASE mirroring \in Session
      BY <3>2 DEF Session
    <3> QED
      BY <3>1, <3>2, PipelineAssumption DEF PipelineAssumption
  <2> DEFINE g == Replicas(mirroring.group, v, pkt)
             o == IF mirroring.port = NoPort THEN <<>> ELSE Replicas(<<mirroring.port>>, v, pkt)
  <2>2. g \in Seq(EnqueueOp) /\ \A i \in DOMAIN g : g[i].pkt.copy
    BY <1>2, <2>1, ReplicasType
  <2>3. o \in Seq(EnqueueOp) /\ \A i \in DOMAIN o : o[i].pkt.copy
    <3>1. CASE mirroring.port = NoPort
      BY <3>1
    <3>2. CASE mirroring.port # NoPort
      <4>1. <<mirroring.port>> \in Seq(Ports)
        BY <2>1, <3>2
      <4> QED
        BY <1>2, <3>2, <4>1, ReplicasType
    <3> QED
      BY <3>1, <3>2
  <2>4. Clones(v, pkt) = g \o o
    BY <1>2 DEF Clones
  <2> HIDE DEF g, o
  <2> QED
    BY <2>2, <2>3, <2>4, Concatenation
<1> QED
  BY <1>1, <1>2

\* Sending a packet round counts a hop, so the packet is no longer pristine.
LEMMA HopType ==
    ASSUME NEW pkt \in Packet, pkt.hops < MaxHops, NEW what
    PROVE  LET h == Hop(what, pkt) IN h = [do |-> what, pkt |-> h.pkt] /\ h.pkt \in Packet
                                      /\ ~Pristine(h.pkt)
<1>1. MaxHops \in Nat
  BY PipelineAssumption DEF PipelineAssumption
<1>2. [pkt EXCEPT !.hops = @ + 1] \in Packet /\ [pkt EXCEPT !.hops = @ + 1].hops # 0
  BY <1>1 DEF Packet
<1> QED
  BY <1>2 DEF Hop, Pristine

\* Only the last push of a plan can carry the packet on as it was received.
LEMMA IngressPlanType ==
    ASSUME NEW pkt \in Packet, NEW d \in IngressVerdicts, MayAsk(pkt, d),
           mirroring \in Sessions \cup {NoSession}
    PROVE  LET plan == IngressPlan(pkt, d)
           IN /\ plan \in Seq(IngressOp)
              /\ \A i \in DOMAIN plan : Pristine(plan[i].pkt) =>
                    /\ i = Len(plan)
                    /\ plan[i].do = "enqueue" /\ plan[i].pkt = pkt
<1> DEFINE last == CASE d.fate = "forward"   -> <<Enqueue(d.port, d.vn, pkt)>>
                     [] d.fate = "drop"      -> <<>>
                     [] d.fate = "multicast" -> Replicas(Group, d.vn, pkt)
                     [] d.fate = "resubmit"  -> <<Hop("resubmit", pkt)>>
           c == Clones(d.clone, pkt)
<1>1. d \in IngressVerdict
  BY PipelineAssumption DEF PipelineAssumption
<1>2. d.fate \in {"forward", "drop", "multicast", "resubmit"} /\ d.port \in Ports
      /\ d.vn \in VNs /\ d.clone \in VNs \cup {NoVN}
  BY <1>1 DEF IngressVerdict
<1>3. c \in Seq(IngressOp) /\ \A i \in DOMAIN c : c[i].pkt.copy
  BY <1>2, ClonesType, EnqueueOp \subseteq IngressOp, SeqMonotonic DEF IngressOp
<1>4. /\ last \in Seq(IngressOp)
      /\ \A i \in DOMAIN last : Pristine(last[i].pkt) =>
            i = Len(last) /\ last[i].do = "enqueue" /\ last[i].pkt = pkt
  <2>1. CASE d.fate = "forward"
    <3>1. Enqueue(d.port, d.vn, pkt) \in IngressOp
      BY <1>2 DEF Enqueue, IngressOp, EnqueueOp
    <3>2. Enqueue(d.port, d.vn, pkt).do = "enqueue" /\ Enqueue(d.port, d.vn, pkt).pkt = pkt
      BY DEF Enqueue
    <3>3. last = <<Enqueue(d.port, d.vn, pkt)>>
      BY <2>1
    <3> HIDE DEF last, Enqueue
    <3> QED
      BY <3>1, <3>2, <3>3, Singleton
  <2>2. CASE d.fate = "drop"
    BY <2>2
  <2>3. CASE d.fate = "multicast"
    <3>1. last = Replicas(Group, d.vn, pkt)
      BY <2>3
    <3>2. last \in Seq(EnqueueOp) /\ \A i \in DOMAIN last : last[i].pkt.copy
      BY <1>2, <3>1, ReplicasType, PipelineAssumption DEF PipelineAssumption
    <3> HIDE DEF last
    <3> QED
      BY <3>2, SeqMonotonic, EnqueueOp \subseteq IngressOp DEF Pristine, IngressOp
  <2>4. CASE d.fate = "resubmit"
    <3>1. last = <<Hop("resubmit", pkt)>>
      BY <2>4
    <3>2. pkt.hops < MaxHops
      BY <2>4 DEF MayAsk
    <3>3. Hop("resubmit", pkt) \in IngressOp /\ ~Pristine(Hop("resubmit", pkt).pkt)
      BY <3>2, HopType DEF IngressOp
    <3> HIDE DEF last
    <3> QED
      BY <3>1, <3>3, Singleton
  <2> QED
    BY <1>2, <2>1, <2>2, <2>3, <2>4
<1>5. IngressPlan(pkt, d) = c \o last
  BY DEF IngressPlan
<1> HIDE DEF c, last
<1>6. \A i \in DOMAIN c : ~Pristine(c[i].pkt)
  BY <1>3 DEF Pristine
<1> HIDE DEF Pristine
<1>7. Len(c \o last) = Len(c) + Len(last) /\ Len(c) \in Nat /\ Len(last) \in Nat
  BY <1>3, <1>4
<1>8. \A i \in DOMAIN (c \o last) : i \in Nat
  BY <1>3, <1>4
<1>9. ASSUME NEW i \in DOMAIN (c \o last), Pristine((c \o last)[i].pkt)
      PROVE  i = Len(c \o last) /\ (c \o last)[i].do = "enqueue" /\ (c \o last)[i].pkt = pkt
  <2>1. i - Len(c) \in DOMAIN last /\ (c \o last)[i] = last[i - Len(c)]
    BY <1>3, <1>4, <1>6, <1>9, Concatenation
  <2>2. i - Len(c) = Len(last) /\ last[i - Len(c)].do = "enqueue" /\ last[i - Len(c)].pkt = pkt
    BY <1>4, <1>9, <2>1
  <2>3. i \in Nat
    BY <1>8
  <2>4. i = Len(c) + Len(last)
    BY <1>7, <2>2, <2>3
  <2> QED
    BY <1>7, <2>1, <2>2, <2>4
<1> QED
  BY <1>3, <1>4, <1>5, <1>9, Concatenation

LEMMA EgressPlanType ==
    ASSUME NEW p \in Ports, NEW v \in VNs, NEW pkt \in Packet, NEW d \in EgressVerdicts,
           MayAsk(pkt, d), mirroring \in Sessions \cup {NoSession}
    PROVE  LET plan == EgressPlan(p, v, pkt, d)
           IN /\ plan \in Seq(EgressOp)
              /\ \A i \in DOMAIN plan : Pristine(plan[i].pkt) =>
                    /\ i = Len(plan)
                    /\ plan[i] = [do |-> "output", port |-> p, vn |-> v, pkt |-> pkt]
<1> DEFINE out == [do |-> "output", port |-> p, vn |-> v, pkt |-> pkt]
           last == CASE d.fate = "output"      -> <<out>>
                     [] d.fate = "drop"        -> <<>>
                     [] d.fate = "recirculate" -> <<Hop("recirculate", pkt)>>
           c == Clones(d.clone, pkt)
<1>1. d \in EgressVerdict
  BY PipelineAssumption DEF PipelineAssumption
<1>2. d.fate \in {"output", "drop", "recirculate"} /\ d.clone \in VNs \cup {NoVN}
  BY <1>1 DEF EgressVerdict
<1>3. c \in Seq(EgressOp) /\ \A i \in DOMAIN c : c[i].pkt.copy
  BY <1>2, ClonesType, EnqueueOp \subseteq EgressOp, SeqMonotonic DEF EgressOp
<1>4. /\ last \in Seq(EgressOp)
      /\ \A i \in DOMAIN last : Pristine(last[i].pkt) => i = Len(last) /\ last[i] = out
  <2>1. CASE d.fate = "output"
    <3>1. out \in EgressOp
      BY DEF EgressOp
    <3>2. last = <<out>>
      BY <2>1
    <3> HIDE DEF out, last
    <3> QED
      BY <3>1, <3>2, Singleton
  <2>2. CASE d.fate = "drop"
    BY <2>2
  <2>3. CASE d.fate = "recirculate"
    <3>1. last = <<Hop("recirculate", pkt)>>
      BY <2>3
    <3>2. pkt.hops < MaxHops
      BY <2>3 DEF MayAsk
    <3>3. Hop("recirculate", pkt) \in EgressOp /\ ~Pristine(Hop("recirculate", pkt).pkt)
      BY <3>2, HopType DEF EgressOp
    <3> HIDE DEF last
    <3> QED
      BY <3>1, <3>3, Singleton
  <2> QED
    BY <1>2, <2>1, <2>2, <2>3
<1>5. EgressPlan(p, v, pkt, d) = c \o last
  BY DEF EgressPlan
<1> HIDE DEF c, last, out
<1>6. \A i \in DOMAIN c : ~Pristine(c[i].pkt)
  BY <1>3 DEF Pristine
<1> HIDE DEF Pristine
<1>7. Len(c \o last) = Len(c) + Len(last) /\ Len(c) \in Nat /\ Len(last) \in Nat
  BY <1>3, <1>4
<1>8. \A i \in DOMAIN (c \o last) : i \in Nat
  BY <1>3, <1>4
<1>9. ASSUME NEW i \in DOMAIN (c \o last), Pristine((c \o last)[i].pkt)
      PROVE  i = Len(c \o last) /\ (c \o last)[i] = out
  <2>1. i - Len(c) \in DOMAIN last /\ (c \o last)[i] = last[i - Len(c)]
    BY <1>3, <1>4, <1>6, <1>9, Concatenation
  <2> QED
    BY <1>4, <1>7, <1>8, <1>9, <2>1, SMTT(30)
<1>10. out = [do |-> "output", port |-> p, vn |-> v, pkt |-> pkt]
  BY DEF out
<1> QED
  BY <1>3, <1>4, <1>5, <1>9, <1>10, Concatenation

-----------------------------------------------------------------------------
(* Types and capacities *)

LEMMA Constants ==
    /\ CapacityLo \in Nat /\ CapacityHi \in Nat /\ QueueCapacity \in Nat
    /\ OutputCapacity \in Nat /\ NbEgressThreads \in Nat \ {0}
    /\ CapacityLo > 0 /\ CapacityHi > 0
    /\ Workers \subseteq Ports /\ Ports \subseteq Nat /\ 0 \in VNs /\ 0 \in Workers
BY PipelineAssumption DEF PipelineAssumption, Workers

LEMMA StoredType ==
    ASSUME NEW S, NEW q \in Seq(S), NEW bound \in Nat, Len(q) <= bound, NEW x \in S
    PROVE  Stored(q, bound, x) \in Seq(S) /\ Len(Stored(q, bound, x)) <= bound
BY DEF Stored

LEMMA TailType ==
    ASSUME NEW S, NEW q \in Seq(S), q # <<>>
    PROVE  /\ Tail(q) \in Seq(S) /\ Len(Tail(q)) = Len(q) - 1 /\ Head(q) \in S
           /\ Len(q) \in Nat \ {0} /\ Len(Tail(q)) \in Nat
OBVIOUS

\* One egress queue is replaced, with a value of its type.
LEMMA EgressChanged ==
    ASSUME EgressOK, NEW p \in Ports, NEW v \in VNs,
           NEW t \in Seq(Packet \cup {Null}), Len(t) <= QueueCapacity,
           egress_buffers' = [egress_buffers EXCEPT ![p][v] = t]
    PROVE  /\ EgressOK'
           /\ \A q \in Ports, u \in VNs :
                 egress_buffers'[q][u] = IF q = p /\ u = v THEN t ELSE egress_buffers[q][u]
<1>1. \A q \in Ports, u \in VNs :
         egress_buffers'[q][u] = IF q = p /\ u = v THEN t ELSE egress_buffers[q][u]
  BY DEF EgressOK
<1> QED
  BY <1>1 DEF EgressOK

LEMMA EnqueuedType ==
    ASSUME EgressOK, NEW p \in Ports, NEW v \in VNs, NEW x \in Packet \cup {Null},
           Enqueued(p, v, x)
    PROVE  EgressOK'
<1> DEFINE b == Stored(egress_buffers[p][v], QueueCapacity, x)
<1>1. b \in Seq(Packet \cup {Null}) /\ Len(b) <= QueueCapacity
  <2>1. /\ egress_buffers[p][v] \in Seq(Packet \cup {Null})
        /\ Len(egress_buffers[p][v]) <= QueueCapacity
    BY DEF EgressOK
  <2> QED
    BY <2>1, StoredType, Constants
<1>2. egress_buffers' = [egress_buffers EXCEPT ![p][v] = b]
  BY DEF Enqueued
<1> HIDE DEF b
<1> QED
  BY <1>1, <1>2, EgressChanged

LEMMA InitTypeOK == Init => TypeOK
<1> SUFFICES ASSUME Init PROVE TypeOK
  OBVIOUS
<1>1. InputOK /\ OutputOK
  BY Constants DEF Init, InputOK, OutputOK
<1>2. EgressOK
  BY Constants DEF Init, EgressOK
<1>3. ReceiversOK
  BY DEF Init, ReceiversOK
<1>4. IngressOK
  BY DEF Init, IngressOK
<1>5. WorkersOK
  BY DEF Init, WorkersOK
<1>6. TransmitOK /\ DestructorOK
  BY DEF Init, TransmitOK, DestructorOK
<1> QED
  BY <1>1, <1>2, <1>3, <1>4, <1>5, <1>6 DEF Init, TypeOK

LEMMA ReceiveType == ASSUME ReceiversOK, NEW r \in Receivers, Receive(r) PROVE ReceiversOK'
<1> DEFINE n == receiver[r].count + 1
           q == [from |-> r, nr |-> n, hops |-> 0, copy |-> FALSE]
<1>1. n \in Nat
  BY DEF ReceiversOK
<1>2. q \in Packet
  BY <1>1, PipelineAssumption DEF Packet, PipelineAssumption
<1>3. receiver' = [receiver EXCEPT ![r] = [at |-> "pushing", count |-> n, pkt |-> q]]
  BY DEF Receive
<1> HIDE DEF n, q
<1> QED
  BY <1>1, <1>2, <1>3 DEF ReceiversOK

LEMMA PushNormalType ==
    ASSUME InputOK, ReceiversOK, NEW r \in Receivers, PushNormal(r)
    PROVE  InputOK' /\ ReceiversOK'
<1>1. receiver[r].pkt \in Packet
  BY DEF ReceiversOK, PushNormal
<1>2. InputOK'
  <2>1. /\ queue_lo \in Seq(Packet) /\ Len(queue_lo) <= CapacityLo /\ CapacityLo \in Nat
        /\ queue_hi \in Seq(Packet \cup {Null}) /\ Len(queue_hi) <= CapacityHi
    BY Constants DEF InputOK
  <2>2. /\ queue_hi' = queue_hi
        /\ \/ queue_lo' = queue_lo
           \/ Len(queue_lo) # CapacityLo /\ queue_lo' = Append(queue_lo, receiver[r].pkt)
    BY DEF PushNormal
  <2>3. queue_lo' \in Seq(Packet) /\ Len(queue_lo') <= CapacityLo
    BY <1>1, <2>1, <2>2
  <2> QED
    BY <2>1, <2>2, <2>3 DEF InputOK
<1>3. ReceiversOK'
  BY <1>1 DEF ReceiversOK, PushNormal
<1> QED
  BY <1>2, <1>3

\* A notification moves a waiting thread back to the start of its loop, no more.
LEMMA NotifyCanPopType ==
    ASSUME IngressOK, NotifyCanPop
    PROVE  /\ IngressOK'
           /\ ingress'.pkt = ingress.pkt /\ ingress'.todo = ingress.todo
           /\ \/ ingress'.at = ingress.at
              \/ (ingress.at = "waiting" /\ ingress'.at = "popping")
           /\ ingress'.at # "waiting"
BY DEF IngressOK, NotifyCanPop

LEMMA FinishReceiveType ==
    ASSUME ReceiversOK, IngressOK, NEW r \in Receivers, FinishReceive(r)
    PROVE  ReceiversOK' /\ IngressOK'
<1>1. ReceiversOK'
  BY DEF ReceiversOK, FinishReceive
<1> QED
  BY <1>1, NotifyCanPopType DEF FinishReceive

LEMMA IngressPopType ==
    ASSUME InputOK, IngressOK, IngressPop
    PROVE  InputOK' /\ IngressOK'
<1>1. CASE queue_hi # <<>>
  <2>1. /\ ingress' = [ingress EXCEPT !.at = "notify_hi", !.pkt = Head(queue_hi)]
        /\ queue_hi' = Tail(queue_hi) /\ queue_lo' = queue_lo
    BY <1>1 DEF IngressPop
  <2>2. Tail(queue_hi) \in Seq(Packet \cup {Null}) /\ Len(Tail(queue_hi)) <= CapacityHi
        /\ Head(queue_hi) \in Packet \cup {Null}
    BY <1>1, TailType, Constants DEF InputOK
  <2> QED
    BY <2>1, <2>2 DEF InputOK, IngressOK, IngressPop
<1>2. CASE queue_hi = <<>> /\ queue_lo # <<>>
  <2>1. /\ ingress' = [ingress EXCEPT !.at = "notify_lo", !.pkt = Head(queue_lo)]
        /\ queue_lo' = Tail(queue_lo) /\ queue_hi' = queue_hi
    BY <1>2 DEF IngressPop
  <2>2. Tail(queue_lo) \in Seq(Packet) /\ Len(Tail(queue_lo)) <= CapacityLo
        /\ Head(queue_lo) \in Packet
    BY <1>2, TailType, Constants DEF InputOK
  <2> QED
    BY <2>1, <2>2 DEF InputOK, IngressOK, IngressPop
<1>3. CASE queue_hi = <<>> /\ queue_lo = <<>>
  <2>1. ingress' = [ingress EXCEPT !.at = "waiting"] /\ UNCHANGED <<queue_hi, queue_lo>>
    BY <1>3 DEF IngressPop
  <2> QED
    BY <2>1 DEF InputOK, IngressOK, IngressPop
<1> QED
  BY <1>1, <1>2, <1>3

LEMMA NotifyCanPushLoType == ASSUME ReceiversOK, NotifyCanPushLo PROVE ReceiversOK'
BY DEF ReceiversOK, NotifyCanPushLo, BlockedReceivers

LEMMA NotifyCanPushHiType == ASSUME DestructorOK, NotifyCanPushHi PROVE DestructorOK'
BY DEF DestructorOK, NotifyCanPushHi

\* What IngressBegin makes of the popped packet.
LEMMA IngressBegins ==
    ASSUME TypeOK, IngressBegin
    PROVE  \/ ingress.pkt = Null /\ ingress' = [ingress EXCEPT !.at = "ended"]
           \/ /\ ingress.pkt \in Packet
              /\ \E d \in IngressVerdicts :
                    /\ MayAsk(ingress.pkt, d)
                    /\ ingress' = [at   |-> Continuing(IngressPlan(ingress.pkt, d)),
                                   pkt  |-> Null,
                                   todo |-> IngressPlan(ingress.pkt, d)]
<1>1. ingress.pkt \in Packet \cup {Null}
  BY DEF TypeOK, IngressOK
<1> QED
  BY <1>1 DEF IngressBegin

LEMMA IngressBeginType ==
    ASSUME TypeOK, IngressBegin
    PROVE  ReceiversOK' /\ IngressOK' /\ DestructorOK'
<1>1. ReceiversOK'
  <2>1. ReceiversOK
    BY DEF TypeOK
  <2>2. CASE NotifyCanPushLo
    BY <2>1, <2>2, NotifyCanPushLoType
  <2>3. CASE UNCHANGED receiver
    BY <2>1, <2>3 DEF ReceiversOK
  <2> QED
    BY <2>2, <2>3 DEF IngressBegin
<1>2. DestructorOK'
  <2>1. DestructorOK
    BY DEF TypeOK
  <2>2. CASE NotifyCanPushHi
    BY <2>1, <2>2, NotifyCanPushHiType
  <2>3. CASE UNCHANGED destructor
    BY <2>1, <2>3 DEF DestructorOK
  <2> QED
    BY <2>2, <2>3 DEF IngressBegin
<1>3. IngressOK'
  <2>1. IngressOK /\ mirroring \in Sessions \cup {NoSession}
    BY DEF TypeOK
  <2>2. CASE ingress.pkt = Null /\ ingress' = [ingress EXCEPT !.at = "ended"]
    <3>1. ingress.todo = <<>>
      BY <2>1 DEF IngressOK, IngressBegin
    <3> QED
      BY <2>1, <2>2, <3>1 DEF IngressOK
  <2>3. CASE ingress.pkt \in Packet /\ \E d \in IngressVerdicts :
                    /\ MayAsk(ingress.pkt, d)
                    /\ ingress' = [at   |-> Continuing(IngressPlan(ingress.pkt, d)),
                                   pkt  |-> Null,
                                   todo |-> IngressPlan(ingress.pkt, d)]
    <3> PICK d \in IngressVerdicts :
                    /\ MayAsk(ingress.pkt, d)
                    /\ ingress' = [at   |-> Continuing(IngressPlan(ingress.pkt, d)),
                                   pkt  |-> Null,
                                   todo |-> IngressPlan(ingress.pkt, d)]
      BY <2>3
    <3> DEFINE plan == IngressPlan(ingress.pkt, d)
    <3>1. plan \in Seq(IngressOp)
      BY <2>1, <2>3, IngressPlanType
    <3>2. ingress' = [at |-> Continuing(plan), pkt |-> Null, todo |-> plan]
      OBVIOUS
    <3> HIDE DEF plan
    <3> QED
      BY <3>1, <3>2 DEF IngressOK, Continuing
  <2> QED
    BY <2>2, <2>3, IngressBegins
<1> QED
  BY <1>1, <1>2, <1>3

LEMMA IngressStepType ==
    ASSUME TypeOK, IngressStep
    PROVE  InputOK' /\ EgressOK' /\ IngressOK'
<1> DEFINE op == Head(ingress.todo)
           rest == Tail(ingress.todo)
<1>1. ingress.todo \in Seq(IngressOp) /\ ingress.todo # <<>>
  BY DEF TypeOK, IngressOK, IngressStep
<1>2. op \in IngressOp /\ rest \in Seq(IngressOp)
  BY <1>1
<1>3. op.pkt \in Packet /\ (op.do = "enqueue" => op.port \in Ports /\ op.vn \in VNs)
  BY <1>2 DEF IngressOp, EnqueueOp
<1>4. ingress' = [ingress EXCEPT !.at = Continuing(rest), !.todo = rest]
  BY DEF IngressStep
<1>5. \/ op.do = "enqueue" /\ Enqueued(op.port, op.vn, op.pkt) /\ UNCHANGED queue_hi
      \/ op.do = "resubmit" /\ Resubmitted(op.pkt) /\ UNCHANGED egress_buffers
  BY DEF IngressStep
<1>6. queue_lo' = queue_lo
  BY DEF IngressStep
<1> HIDE DEF op, rest
<1>7. IngressOK'
  BY <1>2, <1>4 DEF TypeOK, IngressOK, Continuing
<1>8. CASE op.do = "enqueue" /\ Enqueued(op.port, op.vn, op.pkt) /\ UNCHANGED queue_hi
  <2>1. EgressOK'
    BY <1>3, <1>8, EnqueuedType DEF TypeOK
  <2> QED
    BY <1>6, <1>7, <1>8, <2>1 DEF TypeOK, InputOK
<1>9. CASE op.do = "resubmit" /\ Resubmitted(op.pkt) /\ UNCHANGED egress_buffers
  <2>1. InputOK'
    BY <1>3, <1>6, <1>9, StoredType, Constants DEF TypeOK, InputOK, Resubmitted
  <2> QED
    BY <1>7, <1>9, <2>1 DEF TypeOK, EgressOK
<1> QED
  BY <1>5, <1>8, <1>9

\* What EgressBegin takes, and what it makes of it.
LEMMA EgressBegins ==
    ASSUME TypeOK, NEW w \in Workers, EgressBegin(w)
    PROVE  \E p \in PortsOf(w), v \in VNs :
              /\ egress_buffers[p][v] # <<>>
              /\ egress_buffers' = [egress_buffers EXCEPT ![p][v] = Tail(@)]
              /\ LET pkt == Head(egress_buffers[p][v])
                 IN \/ pkt = Null /\ worker' = [worker EXCEPT ![w].at = "ended"]
                    \/ /\ pkt \in Packet
                       /\ \E d \in EgressVerdicts :
                             /\ MayAsk(pkt, d)
                             /\ worker' = [worker EXCEPT ![w] =
                                             [at   |-> Continuing(EgressPlan(p, v, pkt, d)),
                                              todo |-> EgressPlan(p, v, pkt, d)]]
<1> PICK p \in PortsOf(w), v \in VNs :
          /\ egress_buffers[p][v] # <<>>
          /\ egress_buffers' = [egress_buffers EXCEPT ![p][v] = Tail(@)]
          /\ LET pkt == Head(egress_buffers[p][v])
             IN IF pkt = Null
                THEN worker' = [worker EXCEPT ![w].at = "ended"]
                ELSE \E d \in EgressVerdicts :
                        /\ MayAsk(pkt, d)
                        /\ LET plan == EgressPlan(p, v, pkt, d)
                           IN worker' = [worker EXCEPT ![w] =
                                            [at |-> Continuing(plan), todo |-> plan]]
  BY DEF EgressBegin
<1>1. egress_buffers[p][v] \in Seq(Packet \cup {Null})
  BY DEF TypeOK, EgressOK, PortsOf
<1>2. Head(egress_buffers[p][v]) \in Packet \cup {Null}
  BY <1>1, TailType
<1>3. CASE Head(egress_buffers[p][v]) = Null
  BY <1>3
<1>4. CASE Head(egress_buffers[p][v]) # Null
  <2>1. Head(egress_buffers[p][v]) \in Packet
    BY <1>2, <1>4
  <2>2. \E d \in EgressVerdicts :
            /\ MayAsk(Head(egress_buffers[p][v]), d)
            /\ worker' = [worker EXCEPT ![w] =
                  [at   |-> Continuing(EgressPlan(p, v, Head(egress_buffers[p][v]), d)),
                   todo |-> EgressPlan(p, v, Head(egress_buffers[p][v]), d)]]
    BY <1>4
  <2> QED
    BY <2>1, <2>2
<1> QED
  BY <1>3, <1>4

LEMMA EgressBeginType ==
    ASSUME TypeOK, NEW w \in Workers, EgressBegin(w)
    PROVE  EgressOK' /\ WorkersOK'
<1> PICK p \in PortsOf(w), v \in VNs :
              /\ egress_buffers[p][v] # <<>>
              /\ egress_buffers' = [egress_buffers EXCEPT ![p][v] = Tail(@)]
              /\ LET pkt == Head(egress_buffers[p][v])
                 IN \/ pkt = Null /\ worker' = [worker EXCEPT ![w].at = "ended"]
                    \/ /\ pkt \in Packet
                       /\ \E d \in EgressVerdicts :
                             /\ MayAsk(pkt, d)
                             /\ worker' = [worker EXCEPT ![w] =
                                             [at   |-> Continuing(EgressPlan(p, v, pkt, d)),
                                              todo |-> EgressPlan(p, v, pkt, d)]]
  BY EgressBegins
<1>1. p \in Ports
  BY DEF PortsOf
<1>2. EgressOK /\ WorkersOK /\ mirroring \in Sessions \cup {NoSession}
  BY DEF TypeOK
<1>3. EgressOK'
  <2> DEFINE t == Tail(egress_buffers[p][v])
  <2>1. t \in Seq(Packet \cup {Null}) /\ Len(t) <= QueueCapacity
    <3>1. /\ egress_buffers[p][v] \in Seq(Packet \cup {Null})
          /\ Len(egress_buffers[p][v]) <= QueueCapacity
      BY <1>1, <1>2 DEF EgressOK
    <3> QED
      BY <3>1, TailType, Constants
  <2>2. egress_buffers' = [egress_buffers EXCEPT ![p][v] = t]
    OBVIOUS
  <2> HIDE DEF t
  <2> QED
    BY <1>1, <1>2, <2>1, <2>2, EgressChanged
<1>4. WorkersOK'
  <2> DEFINE pkt == Head(egress_buffers[p][v])
  <2>1. CASE worker' = [worker EXCEPT ![w].at = "ended"]
    BY <1>2, <2>1 DEF WorkersOK
  <2>2. CASE pkt \in Packet /\ \E d \in EgressVerdicts :
                             /\ MayAsk(pkt, d)
                             /\ worker' = [worker EXCEPT ![w] =
                                             [at   |-> Continuing(EgressPlan(p, v, pkt, d)),
                                              todo |-> EgressPlan(p, v, pkt, d)]]
    <3> PICK d \in EgressVerdicts :
                             /\ MayAsk(pkt, d)
                             /\ worker' = [worker EXCEPT ![w] =
                                             [at   |-> Continuing(EgressPlan(p, v, pkt, d)),
                                              todo |-> EgressPlan(p, v, pkt, d)]]
      BY <2>2
    <3> DEFINE plan == EgressPlan(p, v, pkt, d)
    <3>1. plan \in Seq(EgressOp)
      BY <1>1, <1>2, <2>2, EgressPlanType
    <3>2. worker' = [worker EXCEPT ![w] = [at |-> Continuing(plan), todo |-> plan]]
      OBVIOUS
    <3> HIDE DEF plan
    <3> QED
      BY <1>2, <3>1, <3>2 DEF WorkersOK, Continuing
  <2> QED
    BY <2>1, <2>2
<1> QED
  BY <1>3, <1>4

LEMMA EgressStepType ==
    ASSUME TypeOK, NEW w \in Workers, EgressStep(w)
    PROVE  InputOK' /\ EgressOK' /\ OutputOK' /\ WorkersOK'
<1> DEFINE op == Head(worker[w].todo)
           rest == Tail(worker[w].todo)
<1>1. worker[w].todo \in Seq(EgressOp) /\ worker[w].todo # <<>>
  BY DEF TypeOK, WorkersOK, EgressStep
<1>2. op \in EgressOp /\ rest \in Seq(EgressOp)
  BY <1>1
<1>3. op.pkt \in Packet /\ (op.do # "recirculate" => op.port \in Ports /\ op.vn \in VNs)
  BY <1>2 DEF EgressOp, EnqueueOp
<1>4. \/ /\ op.do = "enqueue"
         /\ Enqueued(op.port, op.vn, op.pkt)
         /\ worker' = [worker EXCEPT ![w] = [at |-> Continuing(rest), todo |-> rest]]
         /\ UNCHANGED <<queue_hi, output_buffer>>
      \/ /\ op.do = "recirculate"
         /\ queue_hi' = Stored(queue_hi, CapacityHi, op.pkt)
         /\ worker' = [worker EXCEPT ![w] =
               [at |-> IF queue_hi' = queue_hi THEN "popping" ELSE "notifying",
                todo |-> rest]]
         /\ UNCHANGED <<egress_buffers, output_buffer>>
      \/ /\ op.do = "output"
         /\ Len(output_buffer) < OutputCapacity
         /\ output_buffer' = Append(output_buffer,
                                    [pkt |-> op.pkt, port |-> op.port, vn |-> op.vn])
         /\ worker' = [worker EXCEPT ![w] = [at |-> Continuing(rest), todo |-> rest]]
         /\ UNCHANGED <<queue_hi, egress_buffers>>
  BY DEF EgressStep
<1>5. queue_lo' = queue_lo
  BY DEF EgressStep
<1>6. InputOK /\ EgressOK /\ OutputOK /\ WorkersOK
  BY DEF TypeOK
<1> HIDE DEF op, rest
<1>7. WorkersOK'
  <2>1. PICK x \in {"popping", "running", "notifying"} :
           /\ worker' = [worker EXCEPT ![w] = [at |-> x, todo |-> rest]]
           /\ x = "running" => rest # <<>>
    BY <1>4 DEF Continuing
  <2> QED
    BY <1>2, <1>6, <2>1 DEF WorkersOK
<1>8. CASE op.do = "enqueue" /\ Enqueued(op.port, op.vn, op.pkt)
           /\ UNCHANGED <<queue_hi, output_buffer>>
  <2>1. EgressOK'
    BY <1>3, <1>6, <1>8, EnqueuedType
  <2> QED
    BY <1>5, <1>6, <1>7, <1>8, <2>1 DEF InputOK, OutputOK
<1>9. CASE op.do = "recirculate" /\ queue_hi' = Stored(queue_hi, CapacityHi, op.pkt)
           /\ UNCHANGED <<egress_buffers, output_buffer>>
  <2>1. InputOK'
    BY <1>3, <1>5, <1>6, <1>9, StoredType, Constants DEF InputOK
  <2> QED
    BY <1>6, <1>7, <1>9, <2>1 DEF EgressOK, OutputOK
<1>10. CASE op.do = "output" /\ Len(output_buffer) < OutputCapacity
            /\ output_buffer' = Append(output_buffer,
                                       [pkt |-> op.pkt, port |-> op.port, vn |-> op.vn])
            /\ UNCHANGED <<queue_hi, egress_buffers>>
  <2>1. [pkt |-> op.pkt, port |-> op.port, vn |-> op.vn] \in Outgoing
    BY <1>3, <1>10 DEF Outgoing
  <2>2. OutputOK'
    BY <1>6, <1>10, <2>1, Constants DEF OutputOK
  <2> QED
    BY <1>5, <1>6, <1>7, <1>10, <2>2 DEF EgressOK, InputOK
<1> QED
  BY <1>4, <1>8, <1>9, <1>10

LEMMA TransmitPopType ==
    ASSUME OutputOK, TransmitOK, TransmitPop
    PROVE  OutputOK' /\ TransmitOK'
<1>1. output_buffer # <<>> /\ output_buffer' = Tail(output_buffer)
      /\ transmit' = [at  |-> IF Head(output_buffer) = Null THEN "ended" ELSE "sending",
                      out |-> Head(output_buffer)]
  BY DEF TransmitPop
<1>2. Tail(output_buffer) \in Seq(Outgoing \cup {Null})
      /\ Len(Tail(output_buffer)) <= OutputCapacity /\ Head(output_buffer) \in Outgoing \cup {Null}
  BY <1>1, TailType, Constants DEF OutputOK
<1> QED
  BY <1>1, <1>2 DEF OutputOK, TransmitOK

LEMMA TransmitSendType ==
    ASSUME TypeOK, TransmitSend
    PROVE  TransmitOK' /\ latest' \in [Ports -> [VNs -> [Receivers -> Nat]]]
<1>1. TransmitOK'
  BY DEF TransmitSend, TransmitOK
<1>2. transmit.out.port \in Ports /\ transmit.out.vn \in VNs
      /\ transmit.out.pkt.from \in Receivers /\ transmit.out.pkt.nr \in Nat
  BY DEF TypeOK, TransmitOK, TransmitSend, Outgoing, Packet
<1> QED
  BY <1>1, <1>2 DEF TransmitSend, TypeOK

LEMMA DestructorType ==
    ASSUME TypeOK, Shutdown \/ Destructor
    PROVE  InputOK' /\ EgressOK' /\ OutputOK' /\ IngressOK' /\ DestructorOK'
<1>1. InputOK /\ EgressOK /\ OutputOK /\ IngressOK /\ DestructorOK
  BY DEF TypeOK
<1>2. CASE Shutdown
  BY <1>1, <1>2 DEF Shutdown, buffers, InputOK, EgressOK, OutputOK, IngressOK, DestructorOK
<1>3. CASE StopIngress
  <2>1. InputOK'
    <3>1. CASE Len(queue_hi) = CapacityHi
      BY <1>1, <1>3, <3>1 DEF StopIngress, InputOK
    <3>2. CASE Len(queue_hi) # CapacityHi
      <4>1. queue_hi' = Append(queue_hi, Null) /\ queue_lo' = queue_lo
        BY <1>3, <3>2 DEF StopIngress
      <4>2. queue_hi \in Seq(Packet \cup {Null}) /\ Len(queue_hi) <= CapacityHi
        BY <1>1 DEF InputOK
      <4>3. Len(queue_hi) < CapacityHi
        BY <3>2, <4>2, Constants
      <4>4. queue_hi' \in Seq(Packet \cup {Null}) /\ Len(queue_hi') = Len(queue_hi) + 1
        BY <4>1, <4>2
      <4> QED
        BY <1>1, <4>1, <4>2, <4>3, <4>4, Constants DEF InputOK
    <3> QED
      BY <3>1, <3>2
  <2>2. DestructorOK'
    BY <1>1, <1>3 DEF StopIngress, DestructorOK
  <2> QED
    BY <1>1, <1>3, <2>1, <2>2 DEF StopIngress, EgressOK, OutputOK, IngressOK
<1>4. CASE StopIngressNotify
  <2>1. IngressOK'
    BY <1>1, <1>4, NotifyCanPopType DEF StopIngressNotify
  <2>2. DestructorOK'
    BY <1>1, <1>4, Constants DEF StopIngressNotify, DestructorOK
  <2> QED
    BY <1>1, <1>4, <2>1, <2>2 DEF StopIngressNotify, buffers, InputOK, EgressOK, OutputOK
<1>5. CASE StopEgress
  <2>1. destructor.next \in Workers /\ destructor.next \in Ports /\ destructor.at = "egress"
    BY <1>1, <1>5, Constants DEF StopEgress, DestructorOK
  <2>2. EgressOK'
    BY <1>1, <1>5, <2>1, EnqueuedType, Constants DEF StopEgress
  <2>3. DestructorOK'
    BY <1>1, <1>5, <2>1, Constants DEF StopEgress, DestructorOK, Workers
  <2> QED
    BY <1>1, <1>5, <2>2, <2>3 DEF StopEgress, InputOK, OutputOK, IngressOK
<1>6. CASE StopTransmit
  <2>1. OutputOK'
    BY <1>1, <1>6, Constants DEF StopTransmit, OutputOK
  <2> QED
    BY <1>1, <1>6, <2>1 DEF StopTransmit, EgressOK, InputOK, IngressOK, DestructorOK
<1>7. CASE Join
  BY <1>1, <1>7 DEF Join, buffers, InputOK, EgressOK, OutputOK, IngressOK, DestructorOK
<1> QED
  BY <1>2, <1>3, <1>4, <1>5, <1>6, <1>7 DEF Destructor

LEMMA SpuriousWakeupType ==
    ASSUME TypeOK, SpuriousWakeup
    PROVE  ReceiversOK' /\ IngressOK' /\ DestructorOK'
<1>1. ReceiversOK /\ IngressOK /\ DestructorOK
  BY DEF TypeOK
<1>2. ReceiversOK'
  BY <1>1 DEF SpuriousWakeup, ReceiversOK, BlockedReceivers
<1>3. IngressOK'
  BY <1>1 DEF SpuriousWakeup, IngressOK
<1>4. DestructorOK'
  BY <1>1 DEF SpuriousWakeup, DestructorOK
<1> QED
  BY <1>2, <1>3, <1>4

LEMMA TypeStep == TypeOK /\ [Next]_vars => TypeOK'
<1> SUFFICES ASSUME TypeOK, [Next]_vars PROVE TypeOK'
  OBVIOUS
<1>1. /\ InputOK /\ EgressOK /\ OutputOK
      /\ ReceiversOK /\ IngressOK /\ WorkersOK /\ TransmitOK /\ DestructorOK
      /\ mirroring \in Sessions \cup {NoSession}
      /\ latest \in [Ports -> [VNs -> [Receivers -> Nat]]]
  BY DEF TypeOK
<1>2. UNCHANGED <<queue_hi, queue_lo>> => InputOK'
  BY <1>1 DEF InputOK
<1>3. UNCHANGED egress_buffers => EgressOK'
  BY <1>1 DEF EgressOK
<1>4. UNCHANGED output_buffer => OutputOK'
  BY <1>1 DEF OutputOK
<1>5. UNCHANGED receiver => ReceiversOK'
  BY <1>1 DEF ReceiversOK
<1>6. UNCHANGED ingress => IngressOK'
  BY <1>1 DEF IngressOK
<1>7. UNCHANGED worker => WorkersOK'
  BY <1>1 DEF WorkersOK
<1>8. UNCHANGED transmit => TransmitOK'
  BY <1>1 DEF TransmitOK
<1>9. UNCHANGED destructor => DestructorOK'
  BY <1>1 DEF DestructorOK
<1> USE DEF TypeOK
<1>10. ASSUME NEW r \in Receivers, Receive(r) PROVE TypeOK'
  BY <1>1, <1>2, <1>3, <1>4, <1>6, <1>7, <1>8, <1>9, <1>10, ReceiveType DEF Receive, buffers
<1>11. ASSUME NEW r \in Receivers, PushNormal(r) PROVE TypeOK'
  BY <1>1, <1>3, <1>4, <1>6, <1>7, <1>8, <1>9, <1>11, PushNormalType DEF PushNormal
<1>12. ASSUME NEW r \in Receivers, FinishReceive(r) PROVE TypeOK'
  BY <1>1, <1>2, <1>3, <1>4, <1>7, <1>8, <1>9, <1>12, FinishReceiveType
     DEF FinishReceive, buffers
<1>13. CASE IngressPop
  BY <1>1, <1>3, <1>4, <1>5, <1>7, <1>8, <1>9, <1>13, IngressPopType DEF IngressPop
<1>14. CASE IngressBegin
  BY <1>1, <1>2, <1>3, <1>4, <1>7, <1>8, <1>14, IngressBeginType DEF IngressBegin, buffers
<1>15. CASE IngressStep
  BY <1>1, <1>4, <1>5, <1>7, <1>8, <1>9, <1>15, IngressStepType DEF IngressStep
<1>16. ASSUME NEW w \in Workers, EgressBegin(w) PROVE TypeOK'
  BY <1>1, <1>2, <1>4, <1>5, <1>6, <1>8, <1>9, <1>16, EgressBeginType DEF EgressBegin
<1>17. ASSUME NEW w \in Workers, EgressStep(w) PROVE TypeOK'
  BY <1>1, <1>5, <1>6, <1>8, <1>9, <1>17, EgressStepType DEF EgressStep
<1>18. ASSUME NEW w \in Workers, EgressNotify(w) PROVE TypeOK'
  <2>1. WorkersOK'
    BY <1>1, <1>18 DEF EgressNotify, WorkersOK
  <2> QED
    BY <1>1, <1>2, <1>3, <1>4, <1>5, <1>8, <1>9, <1>18, <2>1, NotifyCanPopType
       DEF EgressNotify, buffers
<1>19. CASE TransmitPop
  BY <1>1, <1>2, <1>3, <1>5, <1>6, <1>7, <1>9, <1>19, TransmitPopType DEF TransmitPop
<1>20. CASE TransmitSend
  BY <1>1, <1>2, <1>3, <1>4, <1>5, <1>6, <1>7, <1>9, <1>20, TransmitSendType
     DEF TransmitSend, buffers
<1>21. CASE Shutdown \/ Destructor
  <2>1. UNCHANGED <<receiver, worker, transmit, mirroring, latest>>
    BY <1>21 DEF Shutdown, Destructor, StopIngress, StopIngressNotify, StopEgress,
                 StopTransmit, Join
  <2> QED
    BY <1>1, <1>5, <1>7, <1>8, <1>21, <2>1, DestructorType
<1>22. CASE SpuriousWakeup
  BY <1>1, <1>2, <1>3, <1>4, <1>7, <1>8, <1>22, SpuriousWakeupType
     DEF SpuriousWakeup, buffers
<1>23. CASE SetMirroring
  BY <1>1, <1>2, <1>3, <1>4, <1>5, <1>6, <1>7, <1>8, <1>9, <1>23 DEF SetMirroring, buffers
<1>24. CASE UNCHANGED vars
  BY <1>1, <1>2, <1>3, <1>4, <1>5, <1>6, <1>7, <1>8, <1>9, <1>24 DEF vars
<1> HIDE DEF TypeOK
<1> QED
  BY <1>10, <1>11, <1>12, <1>13, <1>14, <1>15, <1>16, <1>17, <1>18, <1>19, <1>20, <1>21,
     <1>22, <1>23, <1>24
     DEF Next, ReceiverStep, IngressThread, EgressThreadStep, TransmitThread

\* Types and capacities, whatever the numbers of threads, ports, VNs and places.
THEOREM TypeCorrect == Spec => []TypeOK
<1>1. Init => TypeOK
  BY InitTypeOK
<1>2. TypeOK /\ [Next]_vars => TypeOK'
  BY TypeStep
<1> QED
  BY <1>1, <1>2, PTL DEF Spec

-----------------------------------------------------------------------------
(* No lost wakeup *)

Pushing == {r \in Receivers : receiver[r].at = "pushing"}

\* The three claims of NoLostWakeup; the second counts, since several receivers may
\* wait for several places.
IngressServed ==
    ingress.at = "waiting" /\ (queue_hi # <<>> \/ queue_lo # <<>>) =>
        \/ \E r \in Receivers : receiver[r].at = "notifying"
        \/ \E w \in Workers : worker[w].at = "notifying"
        \/ destructor.at = "notifying"

LoServed ==
    BlockedReceivers # {} =>
        CapacityLo - Len(queue_lo)
            <= Cardinality(Pushing) + (IF ingress.at = "notify_lo" THEN 1 ELSE 0)

HiServed ==
    destructor.at = "blocked" /\ Len(queue_hi) < CapacityHi => ingress.at = "notify_hi"

WakeInv == IngressServed /\ LoServed /\ HiServed

LEMMA PushingFinite ==
    /\ Pushing \subseteq Receivers /\ IsFiniteSet(Pushing) /\ Cardinality(Pushing) \in Nat
    /\ IsFiniteSet(Pushing') /\ Cardinality(Pushing') \in Nat
<1>1. IsFiniteSet(Receivers)
  BY PipelineAssumption DEF PipelineAssumption
<1>2. Pushing \subseteq Receivers /\ Pushing' \subseteq Receivers
  BY DEF Pushing
<1> QED
  BY <1>1, <1>2, FS_Subset, FS_CardinalityType

LEMMA WakeInvImpliesNoLostWakeup == TypeOK /\ WakeInv => NoLostWakeup
<1> SUFFICES ASSUME TypeOK, WakeInv PROVE NoLostWakeup
  OBVIOUS
<1>1. ASSUME BlockedReceivers # {}, Len(queue_lo) < CapacityLo
      PROVE  ingress.at = "notify_lo" \/ \E r \in Receivers : receiver[r].at = "pushing"
  <2>1. SUFFICES ASSUME ingress.at # "notify_lo" PROVE Pushing # {}
    BY DEF Pushing
  <2>2. CapacityLo - Len(queue_lo) <= Cardinality(Pushing)
    BY <1>1, <2>1, PushingFinite DEF WakeInv, LoServed
  <2>3. Len(queue_lo) \in Nat
    BY DEF TypeOK, InputOK
  <2>4. Cardinality(Pushing) > 0
    BY <1>1, <2>2, <2>3, PushingFinite, Constants
  <2> QED
    BY <2>4, FS_EmptySet
<1> QED
  BY <1>1 DEF NoLostWakeup, WakeInv, IngressServed, HiServed

\* A step that leaves the receivers, the length of queue_lo and the ingress thread's
\* duty to notify alone.
LEMMA LoUntouched ==
    ASSUME LoServed, UNCHANGED receiver, Len(queue_lo') = Len(queue_lo),
           ingress.at = "notify_lo" => ingress'.at = "notify_lo" \/ BlockedReceivers = {}
    PROVE  LoServed'
<1>1. BlockedReceivers' = BlockedReceivers /\ Pushing' = Pushing
  BY DEF BlockedReceivers, Pushing
<1> QED
  BY <1>1, PushingFinite, Constants DEF LoServed

\* One more receiver is on its way to push.
LEMMA LoJoined ==
    ASSUME TypeOK, LoServed, NEW r \in Receivers, receiver[r].at # "pushing",
           NEW x, x.at = "pushing", receiver' = [receiver EXCEPT ![r] = x],
           receiver[r].at = "blocked" \/ ingress'.at = ingress.at,
           queue_lo' = queue_lo
    PROVE  LoServed'
<1>1. Pushing' = Pushing \cup {r} /\ r \notin Pushing
  BY DEF Pushing, TypeOK, ReceiversOK
<1>2. Cardinality(Pushing') = Cardinality(Pushing) + 1
  BY <1>1, PushingFinite, FS_AddElement
<1>3. BlockedReceivers' \subseteq BlockedReceivers
      /\ (receiver[r].at = "blocked" => BlockedReceivers # {})
  BY DEF BlockedReceivers, TypeOK, ReceiversOK
<1>4. Len(queue_lo) \in Nat
  BY DEF TypeOK, InputOK
<1> QED
  BY <1>2, <1>3, <1>4, PushingFinite, Constants DEF LoServed

LEMMA LoStep == TypeOK /\ LoServed /\ [Next]_vars => LoServed'
<1> SUFFICES ASSUME TypeOK, LoServed, [Next]_vars PROVE LoServed'
  OBVIOUS
<1>1. Len(queue_lo) \in Nat /\ Len(queue_lo) <= CapacityLo
  BY DEF TypeOK, InputOK
<1>2. ASSUME NEW r \in Receivers, Receive(r) PROVE LoServed'
  <2> DEFINE x == [at |-> "pushing", count |-> receiver[r].count + 1,
                   pkt |-> [from |-> r, nr |-> receiver[r].count + 1, hops |-> 0,
                            copy |-> FALSE]]
  <2>1. /\ receiver' = [receiver EXCEPT ![r] = x] /\ receiver[r].at = "idle"
        /\ ingress' = ingress /\ queue_lo' = queue_lo
    BY <1>2 DEF Receive, buffers
  <2>2. x.at = "pushing"
    OBVIOUS
  <2> HIDE DEF x
  <2> QED
    BY <2>1, <2>2, LoJoined
<1>3. ASSUME NEW r \in Receivers, PushNormal(r) PROVE LoServed'
  <2>1. CASE Len(queue_lo) = CapacityLo
    <3>1. queue_lo' = queue_lo
      BY <1>3, <2>1 DEF PushNormal
    <3>2. CapacityLo - Len(queue_lo') = 0
      BY <1>1, <2>1, <3>1
    <3> QED
      BY <3>2, PushingFinite DEF LoServed
  <2>2. CASE Len(queue_lo) # CapacityLo
    <3>1. /\ receiver[r].at = "pushing" /\ ingress' = ingress
          /\ queue_lo' = Append(queue_lo, receiver[r].pkt)
          /\ receiver' = [receiver EXCEPT ![r].at = "notifying"]
      BY <1>3, <2>2 DEF PushNormal
    <3>2. Len(queue_lo') = Len(queue_lo) + 1
      BY <3>1 DEF TypeOK, InputOK
    <3>3. BlockedReceivers' = BlockedReceivers /\ Pushing' = Pushing \ {r} /\ r \in Pushing
      BY <3>1 DEF BlockedReceivers, Pushing, TypeOK, ReceiversOK
    <3>4. Cardinality(Pushing') = Cardinality(Pushing) - 1
      BY <3>3, PushingFinite, FS_RemoveElement
    <3> QED
      BY <1>1, <3>1, <3>2, <3>3, <3>4, PushingFinite, Constants DEF LoServed
  <2> QED
    BY <2>1, <2>2
<1>4. ASSUME NEW r \in Receivers, FinishReceive(r) PROVE LoServed'
  <2>1. BlockedReceivers' = BlockedReceivers /\ Pushing' = Pushing /\ queue_lo' = queue_lo
    BY <1>4 DEF FinishReceive, BlockedReceivers, Pushing, TypeOK, ReceiversOK, buffers
  <2>2. ingress.at = "notify_lo" => ingress'.at = "notify_lo"
    BY <1>4, NotifyCanPopType DEF FinishReceive, TypeOK
  <2> QED
    BY <1>1, <2>1, <2>2, PushingFinite, Constants DEF LoServed
<1>5. CASE IngressPop
  <2>1. CASE queue_hi = <<>> /\ queue_lo # <<>>
    <3>1. /\ ingress.at = "popping" /\ ingress'.at = "notify_lo" /\ receiver' = receiver
          /\ queue_lo' = Tail(queue_lo)
      BY <1>5, <2>1 DEF IngressPop, TypeOK, IngressOK
    <3>2. Len(queue_lo') = Len(queue_lo) - 1
      BY <2>1, <3>1, TailType DEF TypeOK, InputOK
    <3>3. BlockedReceivers' = BlockedReceivers /\ Pushing' = Pushing
      BY <3>1 DEF BlockedReceivers, Pushing
    <3> QED
      BY <1>1, <3>1, <3>2, <3>3, PushingFinite, Constants DEF LoServed
  <2>2. CASE ~(queue_hi = <<>> /\ queue_lo # <<>>)
    <3>1. ingress.at # "notify_lo" /\ receiver' = receiver /\ queue_lo' = queue_lo
      BY <1>5, <2>2 DEF IngressPop
    <3> QED
      BY <3>1, LoUntouched
  <2> QED
    BY <2>1, <2>2
<1>6. CASE IngressBegin
  <2>1. queue_lo' = queue_lo /\ ingress.at \in {"notify_hi", "notify_lo"}
    BY <1>6 DEF IngressBegin, buffers
  <2>2. CASE receiver' = receiver /\ (BlockedReceivers = {} \/ ingress.at = "notify_hi")
    BY <2>1, <2>2, LoUntouched
  <2>3. CASE ingress.at = "notify_lo" /\ NotifyCanPushLo /\ BlockedReceivers # {}
    <3>1. PICK r \in BlockedReceivers : receiver' = [receiver EXCEPT ![r].at = "pushing"]
      BY <2>3 DEF NotifyCanPushLo
    <3> DEFINE x == [receiver[r] EXCEPT !.at = "pushing"]
    <3>2. r \in Receivers /\ receiver[r].at = "blocked"
      BY DEF BlockedReceivers
    <3>3. x.at = "pushing"
      BY <3>2 DEF TypeOK, ReceiversOK
    <3>4. receiver' = [receiver EXCEPT ![r] = x]
      BY <3>1
    <3> HIDE DEF x
    <3> QED
      BY <2>1, <3>2, <3>3, <3>4, LoJoined
  <2> QED
    BY <1>6, <2>1, <2>2, <2>3 DEF IngressBegin, NotifyCanPushLo
<1>7. CASE IngressStep
  BY <1>7, LoUntouched DEF IngressStep
<1>8. ASSUME NEW w \in Workers, EgressBegin(w) \/ EgressStep(w) PROVE LoServed'
  BY <1>8, LoUntouched DEF EgressBegin, EgressStep
<1>9. ASSUME NEW w \in Workers, EgressNotify(w) PROVE LoServed'
  BY <1>9, LoUntouched, NotifyCanPopType DEF EgressNotify, TypeOK, buffers
<1>10. CASE TransmitPop \/ TransmitSend
  BY <1>10, LoUntouched DEF TransmitPop, TransmitSend, buffers
<1>11. CASE StopIngressNotify
  BY <1>11, LoUntouched, NotifyCanPopType DEF StopIngressNotify, TypeOK, buffers
<1>12. CASE Shutdown \/ StopIngress \/ StopEgress \/ StopTransmit \/ Join
  BY <1>12, LoUntouched DEF Shutdown, StopIngress, StopEgress, StopTransmit, Join, buffers
<1>13. CASE SpuriousWakeup
  <2>1. queue_lo' = queue_lo
    BY <1>13 DEF SpuriousWakeup, buffers
  <2>2. CASE receiver' = receiver /\ ingress.at # "notify_lo"
    BY <2>1, <2>2, LoUntouched
  <2>3. CASE receiver' = receiver /\ ingress' = ingress
    BY <2>1, <2>3, LoUntouched
  <2>4. ASSUME NEW r \in BlockedReceivers,
               receiver' = [receiver EXCEPT ![r].at = "pushing"], ingress' = ingress
        PROVE  LoServed'
    <3> DEFINE x == [receiver[r] EXCEPT !.at = "pushing"]
    <3>1. r \in Receivers /\ receiver[r].at = "blocked"
      BY DEF BlockedReceivers
    <3>2. x.at = "pushing"
      BY <3>1 DEF TypeOK, ReceiversOK
    <3>3. receiver' = [receiver EXCEPT ![r] = x]
      BY <2>4
    <3> HIDE DEF x
    <3> QED
      BY <2>1, <3>1, <3>2, <3>3, LoJoined
  <2> QED
    BY <1>13, <2>2, <2>3, <2>4 DEF SpuriousWakeup
<1>14. CASE SetMirroring
  BY <1>14, LoUntouched DEF SetMirroring, buffers
<1>15. CASE UNCHANGED vars
  BY <1>15, LoUntouched DEF vars
<1> QED
  BY <1>2, <1>3, <1>4, <1>5, <1>6, <1>7, <1>8, <1>9, <1>10, <1>11, <1>12, <1>13, <1>14, <1>15
     DEF Next, ReceiverStep, IngressThread, EgressThreadStep, TransmitThread, Destructor

\* Who still has to notify the ingress thread.
Notifier ==
    \/ \E r \in Receivers : receiver[r].at = "notifying"
    \/ \E w \in Workers : worker[w].at = "notifying"
    \/ destructor.at = "notifying"

\* A step that puts nothing in and after which nobody who had to notify has forgotten.
LEMMA IngressUntouched ==
    ASSUME IngressServed,
           ingress'.at = "waiting" => ingress.at = "waiting",
           queue_hi' # <<>> => queue_hi # <<>>,
           queue_lo' # <<>> => queue_lo # <<>>,
           Notifier => Notifier' \/ ingress'.at # "waiting"
    PROVE  IngressServed'
BY DEF IngressServed, Notifier

LEMMA IngressServedStep == TypeOK /\ IngressServed /\ [Next]_vars => IngressServed'
<1> SUFFICES ASSUME TypeOK, IngressServed, [Next]_vars PROVE IngressServed'
  OBVIOUS
<1>1. ReceiversOK /\ WorkersOK /\ DestructorOK /\ IngressOK
  BY DEF TypeOK
<1>2. ASSUME NEW r \in Receivers, Receive(r) PROVE IngressServed'
  <2>1. \A s \in Receivers : receiver[s].at = "notifying" => receiver'[s].at = "notifying"
    BY <1>1, <1>2 DEF Receive, ReceiversOK
  <2> QED
    BY <1>2, <2>1, IngressUntouched DEF Receive, buffers, Notifier
<1>3. ASSUME NEW r \in Receivers, PushNormal(r) PROVE IngressServed'
  <2>1. CASE Len(queue_lo) = CapacityLo
    <3>1. \A s \in Receivers : receiver[s].at = "notifying" => receiver'[s].at = "notifying"
      BY <1>1, <1>3, <2>1 DEF PushNormal, ReceiversOK
    <3> QED
      BY <1>3, <2>1, <3>1, IngressUntouched DEF PushNormal, Notifier
  <2>2. CASE Len(queue_lo) # CapacityLo
    <3>1. receiver'[r].at = "notifying"
      BY <1>1, <1>3, <2>2 DEF PushNormal, ReceiversOK
    <3> QED
      BY <3>1 DEF IngressServed
  <2> QED
    BY <2>1, <2>2
<1>4. ASSUME NotifyCanPop PROVE IngressServed'
  BY <1>1, <1>4, NotifyCanPopType DEF IngressServed
<1>5. CASE IngressPop
  BY <1>1, <1>5 DEF IngressPop, IngressServed, IngressOK
<1>6. CASE IngressBegin
  <2>1. ingress'.at # "waiting"
    <3>1. CASE ingress.pkt = Null /\ ingress' = [ingress EXCEPT !.at = "ended"]
      BY <1>1, <3>1 DEF IngressOK
    <3>2. CASE \E d \in IngressVerdicts :
                  ingress' = [at   |-> Continuing(IngressPlan(ingress.pkt, d)),
                              pkt  |-> Null,
                              todo |-> IngressPlan(ingress.pkt, d)]
      BY <3>2 DEF Continuing
    <3> QED
      BY <1>6, <3>1, <3>2, IngressBegins
  <2> QED
    BY <2>1 DEF IngressServed
<1>7. CASE IngressStep
  <2>1. ingress' = [ingress EXCEPT !.at = Continuing(Tail(ingress.todo)),
                                   !.todo = Tail(ingress.todo)]
    BY <1>7 DEF IngressStep
  <2>2. ingress'.at = Continuing(Tail(ingress.todo))
    BY <1>1, <2>1 DEF IngressOK
  <2> QED
    BY <2>2 DEF IngressServed, Continuing
<1>8. ASSUME NEW w \in Workers, EgressBegin(w) PROVE IngressServed'
  <2>1. worker[w].at = "popping" /\ \A u \in Workers : u # w => worker'[u] = worker[u]
    BY <1>1, <1>8, EgressBegins DEF EgressBegin, WorkersOK
  <2> QED
    BY <1>8, <2>1, IngressUntouched DEF EgressBegin, Notifier
<1>9. ASSUME NEW w \in Workers, EgressStep(w) PROVE IngressServed'
  <2> DEFINE op == Head(worker[w].todo)
             rest == Tail(worker[w].todo)
  <2>1. PICK x \in {"popping", "running", "notifying"} :
           /\ worker' = [worker EXCEPT ![w] = [at |-> x, todo |-> rest]]
           /\ queue_hi' = queue_hi \/ x = "notifying"
    BY <1>9 DEF EgressStep, Continuing
  <2>2. /\ worker[w].at = "running" /\ queue_lo' = queue_lo
        /\ ingress' = ingress /\ receiver' = receiver /\ destructor' = destructor
    BY <1>9 DEF EgressStep
  <2> HIDE DEF op, rest
  <2>3. worker'[w].at = x /\ \A u \in Workers : u # w => worker'[u] = worker[u]
    BY <1>1, <2>1 DEF WorkersOK
  <2>4. CASE x = "notifying"
    BY <2>3, <2>4 DEF IngressServed
  <2>5. CASE queue_hi' = queue_hi
    BY <2>2, <2>3, <2>5, IngressUntouched DEF Notifier
  <2> QED
    BY <2>1, <2>4, <2>5
<1>10. CASE TransmitPop \/ TransmitSend
  BY <1>10, IngressUntouched DEF TransmitPop, TransmitSend, buffers, Notifier
<1>11. CASE Shutdown \/ StopEgress \/ StopTransmit \/ Join
  BY <1>1, <1>11, IngressUntouched
     DEF Shutdown, StopEgress, StopTransmit, Join, buffers, Notifier, DestructorOK
<1>12. CASE StopIngress
  <2>1. CASE Len(queue_hi) = CapacityHi
    BY <1>1, <1>12, <2>1, IngressUntouched DEF StopIngress, Notifier, DestructorOK
  <2>2. CASE Len(queue_hi) # CapacityHi
    BY <1>1, <1>12, <2>2 DEF StopIngress, IngressServed, DestructorOK
  <2> QED
    BY <2>1, <2>2
<1>13. CASE SpuriousWakeup
  <2>1. UNCHANGED <<queue_hi, queue_lo, worker>>
    BY <1>13 DEF SpuriousWakeup, buffers
  <2>2. ingress'.at = "waiting" => ingress.at = "waiting"
    BY <1>1, <1>13 DEF SpuriousWakeup, IngressOK
  <2>3. \A s \in Receivers : receiver[s].at = "notifying" => receiver'[s].at = "notifying"
    BY <1>1, <1>13 DEF SpuriousWakeup, ReceiversOK, BlockedReceivers
  <2>4. destructor.at = "notifying" => destructor'.at = "notifying"
    BY <1>1, <1>13 DEF SpuriousWakeup, DestructorOK
  <2> QED
    BY <2>1, <2>2, <2>3, <2>4, IngressUntouched DEF Notifier
<1>14. CASE SetMirroring \/ UNCHANGED vars
  BY <1>14, IngressUntouched DEF SetMirroring, buffers, vars, Notifier
<1> QED
  BY <1>2, <1>3, <1>4, <1>5, <1>6, <1>7, <1>8, <1>9, <1>10, <1>11, <1>12, <1>13, <1>14
     DEF Next, ReceiverStep, IngressThread, EgressThreadStep, TransmitThread, Destructor,
         FinishReceive, EgressNotify, StopIngressNotify

\* Only the ingress thread takes from queue_hi, and it then has to notify.
LEMMA HiServedStep == TypeOK /\ HiServed /\ [Next]_vars => HiServed'
<1> SUFFICES ASSUME TypeOK, HiServed, [Next]_vars PROVE HiServed'
  OBVIOUS
<1>1. DestructorOK /\ IngressOK
  BY DEF TypeOK
<1>2. queue_hi \in Seq(Packet \cup {Null}) /\ Len(queue_hi) \in Nat /\ Len(queue_hi) <= CapacityHi
  BY DEF TypeOK, InputOK
<1>3. ASSUME destructor'.at = "blocked" => destructor.at = "blocked",
             queue_hi' = queue_hi \/ Len(queue_hi) < CapacityHi,
             ingress.at = "notify_hi" => ingress'.at = "notify_hi" \/ destructor'.at # "blocked"
      PROVE  HiServed'
  BY <1>3 DEF HiServed
<1>4. ASSUME NEW r \in Receivers, Receive(r) \/ PushNormal(r) PROVE HiServed'
  BY <1>3, <1>4 DEF Receive, PushNormal, buffers
<1>5. ASSUME NEW r \in Receivers, FinishReceive(r) PROVE HiServed'
  BY <1>1, <1>3, <1>5, NotifyCanPopType DEF FinishReceive, buffers
<1>6. CASE IngressPop
  <2>1. CASE queue_hi # <<>>
    BY <1>1, <1>6, <2>1 DEF IngressPop, HiServed, IngressOK
  <2>2. CASE queue_hi = <<>>
    BY <1>3, <1>6, <2>2 DEF IngressPop
  <2> QED
    BY <2>1, <2>2
<1>7. CASE IngressBegin
  <2>1. CASE ingress.at = "notify_hi" /\ NotifyCanPushHi
    BY <1>1, <2>1 DEF NotifyCanPushHi, HiServed, DestructorOK
  <2>2. CASE ingress.at = "notify_lo" /\ UNCHANGED destructor
    BY <1>3, <1>7, <2>2 DEF IngressBegin, buffers
  <2> QED
    BY <1>7, <2>1, <2>2 DEF IngressBegin
<1>8. CASE IngressStep
  BY <1>2, <1>3, <1>8 DEF IngressStep, Resubmitted, Stored
<1>9. ASSUME NEW w \in Workers, EgressBegin(w) PROVE HiServed'
  BY <1>3, <1>9 DEF EgressBegin
<1>10. ASSUME NEW w \in Workers, EgressStep(w) PROVE HiServed'
  BY <1>2, <1>3, <1>10 DEF EgressStep, Stored
<1>11. ASSUME NEW w \in Workers, EgressNotify(w) PROVE HiServed'
  BY <1>1, <1>3, <1>11, NotifyCanPopType DEF EgressNotify, buffers
<1>12. CASE TransmitPop \/ TransmitSend
  BY <1>3, <1>12 DEF TransmitPop, TransmitSend, buffers
<1>13. CASE StopIngress
  <2>1. CASE Len(queue_hi) = CapacityHi
    BY <1>2, <1>13, <2>1, Constants DEF StopIngress, HiServed
  <2>2. CASE Len(queue_hi) # CapacityHi
    BY <1>1, <1>13, <2>2 DEF StopIngress, HiServed, DestructorOK
  <2> QED
    BY <2>1, <2>2
<1>14. CASE Shutdown \/ StopEgress \/ StopTransmit \/ Join
  BY <1>1, <1>3, <1>14 DEF Shutdown, StopEgress, StopTransmit, Join, buffers, DestructorOK
<1>15. CASE StopIngressNotify
  BY <1>1, <1>3, <1>15, NotifyCanPopType DEF StopIngressNotify, buffers, DestructorOK
<1>16. CASE SpuriousWakeup
  <2>1. destructor'.at = "blocked" => destructor' = destructor
    BY <1>1, <1>16 DEF SpuriousWakeup, DestructorOK
  <2>2. ingress.at = "notify_hi" => ingress' = ingress
    BY <1>16 DEF SpuriousWakeup
  <2> QED
    BY <1>3, <1>16, <2>1, <2>2 DEF SpuriousWakeup, buffers
<1>17. CASE SetMirroring \/ UNCHANGED vars
  BY <1>3, <1>17 DEF SetMirroring, buffers, vars
<1> QED
  BY <1>4, <1>5, <1>6, <1>7, <1>8, <1>9, <1>10, <1>11, <1>12, <1>13, <1>14, <1>15, <1>16, <1>17
     DEF Next, ReceiverStep, IngressThread, EgressThreadStep, TransmitThread, Destructor

\* However the halves of the calls interleave, no thread sleeps while what it waits
\* for is there and nobody is about to tell it.
THEOREM WakeupsNeverLost == Spec => []NoLostWakeup
<1>1. Init => TypeOK /\ WakeInv
  <2>1. Init => IngressServed /\ LoServed /\ HiServed
    BY DEF Init, IngressServed, LoServed, HiServed, BlockedReceivers
  <2> QED
    BY <2>1, InitTypeOK DEF WakeInv
<1>2. TypeOK /\ WakeInv /\ [Next]_vars => TypeOK' /\ WakeInv'
  BY TypeStep, IngressServedStep, LoStep, HiServedStep DEF WakeInv
<1>3. TypeOK /\ WakeInv => NoLostWakeup
  BY WakeInvImpliesNoLostWakeup
<1> QED
  BY <1>1, <1>2, <1>3, PTL DEF Spec

-----------------------------------------------------------------------------
(* No deadlock *)

\* Before the sentinel of the ingress thread is stored nobody has seen one, and so
\* every thread still serves its buffer.
Serving ==
    /\ queue_hi \in Seq(Packet)
    /\ ingress.at # "ended"
    /\ ingress.at \in {"notify_hi", "notify_lo"} => ingress.pkt \in Packet
    /\ \A p \in Ports, v \in VNs : egress_buffers[p][v] \in Seq(Packet)
    /\ \A w \in Workers : worker[w].at # "ended"
    /\ output_buffer \in Seq(Outgoing)
    /\ transmit.at # "ended"

ServingInv == destructor.at \in {"alive", "pushing", "blocked"} => Serving

\* The threads of the switch that have nothing to do, or wait for another one.
Halted ==
    /\ \A r \in Receivers : receiver[r].at \in {"idle", "blocked"}
    /\ ingress.at \in {"waiting", "ended"}
    /\ \A w \in Workers :
          \/ worker[w].at = "ended"
          \/ /\ worker[w].at = "popping"
             /\ \A p \in PortsOf(w), v \in VNs : egress_buffers[p][v] = <<>>
          \/ /\ worker[w].at = "running" /\ Head(worker[w].todo).do = "output"
             /\ Len(output_buffer) = OutputCapacity
    /\ \/ transmit.at = "ended"
       \/ transmit.at = "popping" /\ output_buffer = <<>>
    /\ destructor.at \in {"alive", "blocked"}

\* When no thread can go on, and none has been told to stop, there is nothing left
\* to do: no packet is in the switch and no receiver nor the destructor waits.
NoDeadlock == Halted => Quiet /\ destructor.at = "alive"

LEMMA IngressPopServes ==
    ASSUME TypeOK, Serving, IngressPop
    PROVE  Serving'
<1>1. UNCHANGED <<egress_buffers, output_buffer, worker, transmit>>
  BY DEF IngressPop
<1>2. /\ queue_hi' \in Seq(Packet) /\ ingress'.at # "ended"
      /\ ingress'.at \in {"notify_hi", "notify_lo"} => ingress'.pkt \in Packet
  <2>1. ingress \in [at : {"popping", "waiting", "notify_hi", "notify_lo", "running", "ended"},
                    pkt : Packet \cup {Null}, todo : Seq(IngressOp)]
    BY DEF TypeOK, IngressOK
  <2>2. queue_hi \in Seq(Packet) /\ queue_lo \in Seq(Packet)
    BY DEF TypeOK, InputOK, Serving
  <2>3. CASE queue_hi # <<>>
    <3>1. Head(queue_hi) \in Packet /\ Tail(queue_hi) \in Seq(Packet)
      BY <2>2, <2>3
    <3> QED
      BY <2>1, <2>3, <3>1 DEF IngressPop
  <2>4. CASE queue_hi = <<>> /\ queue_lo # <<>>
    <3>1. Head(queue_lo) \in Packet
      BY <2>2, <2>4
    <3> QED
      BY <2>1, <2>2, <2>4, <3>1 DEF IngressPop
  <2>5. CASE queue_hi = <<>> /\ queue_lo = <<>>
    BY <2>1, <2>2, <2>5 DEF IngressPop
  <2> QED
    BY <2>3, <2>4, <2>5
<1> QED
  BY <1>1, <1>2 DEF Serving

LEMMA EnqueuedServes ==
    ASSUME EgressOK, NEW p \in Ports, NEW v \in VNs, NEW pkt \in Packet, Enqueued(p, v, pkt),
           \A i \in Ports, u \in VNs : egress_buffers[i][u] \in Seq(Packet)
    PROVE  \A i \in Ports, u \in VNs : egress_buffers'[i][u] \in Seq(Packet)
<1>1. Stored(egress_buffers[p][v], QueueCapacity, pkt) \in Seq(Packet)
  BY DEF Stored
<1> QED
  BY <1>1 DEF Enqueued, EgressOK

LEMMA IngressStepServes ==
    ASSUME TypeOK, Serving, IngressStep
    PROVE  Serving'
<1> DEFINE op == Head(ingress.todo)
           rest == Tail(ingress.todo)
<1>1. ingress.todo \in Seq(IngressOp) /\ ingress.todo # <<>>
  BY DEF TypeOK, IngressOK, IngressStep
<1>2. op \in IngressOp
  BY <1>1
<1>3. op.pkt \in Packet /\ (op.do = "enqueue" => op.port \in Ports /\ op.vn \in VNs)
  BY <1>2 DEF IngressOp, EnqueueOp
<1>4. ingress' = [ingress EXCEPT !.at = Continuing(rest), !.todo = rest]
  BY DEF IngressStep
<1>5. \/ op.do = "enqueue" /\ Enqueued(op.port, op.vn, op.pkt) /\ UNCHANGED queue_hi
      \/ op.do = "resubmit" /\ Resubmitted(op.pkt) /\ UNCHANGED egress_buffers
  BY DEF IngressStep
<1>6. UNCHANGED <<output_buffer, worker, transmit>>
  BY DEF IngressStep
<1>7. Continuing(rest) \in {"popping", "running"}
  BY DEF Continuing
<1> HIDE DEF op, rest
<1>8. ingress'.at \in {"popping", "running"}
  BY <1>4, <1>7 DEF TypeOK, IngressOK
<1>9. CASE op.do = "enqueue" /\ Enqueued(op.port, op.vn, op.pkt) /\ UNCHANGED queue_hi
  <2>1. \A p \in Ports, v \in VNs : egress_buffers'[p][v] \in Seq(Packet)
    BY <1>3, <1>9, EnqueuedServes DEF TypeOK, Serving
  <2> QED
    BY <1>6, <1>8, <1>9, <2>1 DEF Serving
<1>10. CASE op.do = "resubmit" /\ Resubmitted(op.pkt) /\ UNCHANGED egress_buffers
  <2>1. queue_hi' \in Seq(Packet)
    BY <1>3, <1>10 DEF Resubmitted, Stored, Serving
  <2> QED
    BY <1>6, <1>8, <1>10, <2>1 DEF Serving
<1> QED
  BY <1>5, <1>9, <1>10

LEMMA EgressBeginServes ==
    ASSUME TypeOK, Serving, NEW w \in Workers, EgressBegin(w)
    PROVE  Serving'
<1> PICK p \in PortsOf(w), v \in VNs :
        /\ egress_buffers[p][v] # <<>>
        /\ egress_buffers' = [egress_buffers EXCEPT ![p][v] = Tail(@)]
        /\ LET pkt == Head(egress_buffers[p][v])
           IN \/ pkt = Null /\ worker' = [worker EXCEPT ![w].at = "ended"]
              \/ /\ pkt \in Packet
                 /\ \E d \in EgressVerdicts :
                       /\ MayAsk(pkt, d)
                       /\ worker' = [worker EXCEPT ![w] =
                                       [at   |-> Continuing(EgressPlan(p, v, pkt, d)),
                                        todo |-> EgressPlan(p, v, pkt, d)]]
  BY EgressBegins
<1>1. p \in Ports
  BY DEF PortsOf
<1>2. Head(egress_buffers[p][v]) \in Packet /\ Tail(egress_buffers[p][v]) \in Seq(Packet)
  <2>1. egress_buffers[p][v] \in Seq(Packet) /\ egress_buffers[p][v] # <<>>
    BY <1>1 DEF Serving
  <2> QED
    BY <2>1
<1>3. \A i \in Ports, u \in VNs : egress_buffers'[i][u] \in Seq(Packet)
  BY <1>1, <1>2 DEF Serving, TypeOK, EgressOK
<1>4. \A x \in Workers : worker'[x].at # "ended"
  <2>1. PICK next : next.at # "ended" /\ worker' = [worker EXCEPT ![w] = next]
    BY <1>2, NullIsNoPacket DEF Continuing
  <2> QED
    BY <2>1 DEF Serving, TypeOK, WorkersOK
<1> QED
  BY <1>3, <1>4 DEF EgressBegin, Serving

LEMMA EgressStepServes ==
    ASSUME TypeOK, Serving, NEW w \in Workers, EgressStep(w)
    PROVE  Serving'
<1> DEFINE op == Head(worker[w].todo)
           rest == Tail(worker[w].todo)
<1>1. worker[w].todo \in Seq(EgressOp) /\ worker[w].todo # <<>>
  BY DEF TypeOK, WorkersOK, EgressStep
<1>2. op \in EgressOp
  BY <1>1
<1>3. op.pkt \in Packet /\ (op.do # "recirculate" => op.port \in Ports /\ op.vn \in VNs)
  BY <1>2 DEF EgressOp, EnqueueOp
<1>4. \/ /\ op.do = "enqueue"
         /\ Enqueued(op.port, op.vn, op.pkt)
         /\ worker' = [worker EXCEPT ![w] = [at |-> Continuing(rest), todo |-> rest]]
         /\ UNCHANGED <<queue_hi, output_buffer>>
      \/ /\ op.do = "recirculate"
         /\ queue_hi' = Stored(queue_hi, CapacityHi, op.pkt)
         /\ worker' = [worker EXCEPT ![w] =
               [at |-> IF queue_hi' = queue_hi THEN "popping" ELSE "notifying",
                todo |-> rest]]
         /\ UNCHANGED <<egress_buffers, output_buffer>>
      \/ /\ op.do = "output"
         /\ Len(output_buffer) < OutputCapacity
         /\ output_buffer' = Append(output_buffer,
                                    [pkt |-> op.pkt, port |-> op.port, vn |-> op.vn])
         /\ worker' = [worker EXCEPT ![w] = [at |-> Continuing(rest), todo |-> rest]]
         /\ UNCHANGED <<queue_hi, egress_buffers>>
  BY DEF EgressStep
<1>5. UNCHANGED <<ingress, transmit>>
  BY DEF EgressStep
<1> HIDE DEF op, rest
<1>6. \A x \in Workers : worker'[x].at # "ended"
  <2>1. PICK at \in {"popping", "running", "notifying"} :
           worker' = [worker EXCEPT ![w] = [at |-> at, todo |-> rest]]
    BY <1>4 DEF Continuing
  <2> QED
    BY <2>1 DEF Serving, TypeOK, WorkersOK
<1>7. queue_hi' \in Seq(Packet)
  BY <1>3, <1>4 DEF Stored, Serving
<1>8. \A p \in Ports, v \in VNs : egress_buffers'[p][v] \in Seq(Packet)
  BY <1>3, <1>4, EnqueuedServes DEF TypeOK, Serving
<1>9. output_buffer' \in Seq(Outgoing)
  <2>1. op.do = "output" => [pkt |-> op.pkt, port |-> op.port, vn |-> op.vn] \in Outgoing
    BY <1>3 DEF Outgoing
  <2> QED
    BY <1>4, <2>1 DEF Serving
<1> QED
  BY <1>5, <1>6, <1>7, <1>8, <1>9 DEF Serving

LEMMA ServingStep == TypeOK /\ ServingInv /\ [Next]_vars => ServingInv'
<1> SUFFICES ASSUME TypeOK, ServingInv, [Next]_vars,
                    destructor'.at \in {"alive", "pushing", "blocked"}
             PROVE  Serving'
  BY DEF ServingInv
<1>1. destructor \in [at : {"alive", "pushing", "blocked", "notifying", "egress", "output",
                            "joining", "gone"}, next : Nat]
  BY DEF TypeOK, DestructorOK
<1>2. ASSUME UNCHANGED destructor PROVE Serving
  BY <1>2 DEF ServingInv
<1>3. ASSUME NotifyCanPop, Serving, UNCHANGED <<buffers, transmit>>,
             \A w \in Workers : worker'[w].at # "ended"
      PROVE  Serving'
  <2>1. ingress' = ingress \/ ingress'.at = "popping"
    BY <1>3 DEF NotifyCanPop, TypeOK, IngressOK
  <2> QED
    BY <1>3, <2>1 DEF Serving, buffers
<1>4. ASSUME NEW r \in Receivers, Receive(r) PROVE Serving'
  BY <1>2, <1>4 DEF Receive, Serving, buffers
<1>5. ASSUME NEW r \in Receivers, PushNormal(r) PROVE Serving'
  BY <1>2, <1>5 DEF PushNormal, Serving
<1>6. ASSUME NEW r \in Receivers, FinishReceive(r) PROVE Serving'
  BY <1>2, <1>3, <1>6 DEF FinishReceive, Serving
<1>7. CASE IngressPop
  BY <1>2, <1>7, IngressPopServes DEF IngressPop
<1>8. CASE IngressBegin
  <2>1. destructor.at \in {"alive", "pushing", "blocked"}
    BY <1>1, <1>8 DEF IngressBegin, NotifyCanPushHi
  <2>2. Serving
    BY <2>1 DEF ServingInv
  <2>3. ingress.pkt # Null
    BY <1>8, <2>2, NullIsNoPacket DEF IngressBegin, Serving
  <2>4. ingress'.at \in {"popping", "running"}
    BY <1>8, <2>3 DEF IngressBegin, Continuing
  <2> QED
    BY <1>8, <2>2, <2>4 DEF IngressBegin, Serving, buffers
<1>9. CASE IngressStep
  BY <1>2, <1>9, IngressStepServes DEF IngressStep
<1>10. ASSUME NEW w \in Workers, EgressBegin(w) PROVE Serving'
  BY <1>2, <1>10, EgressBeginServes DEF EgressBegin
<1>11. ASSUME NEW w \in Workers, EgressStep(w) PROVE Serving'
  BY <1>2, <1>11, EgressStepServes DEF EgressStep
<1>12. ASSUME NEW w \in Workers, EgressNotify(w) PROVE Serving'
  <2>1. Serving
    BY <1>2, <1>12 DEF EgressNotify
  <2>2. \A x \in Workers : worker'[x].at # "ended"
    BY <1>12, <2>1 DEF EgressNotify, Serving, TypeOK, WorkersOK
  <2> QED
    BY <1>3, <1>12, <2>1, <2>2 DEF EgressNotify
<1>13. CASE TransmitPop
  <2>1. Serving /\ output_buffer # <<>>
    BY <1>2, <1>13 DEF TransmitPop
  <2>2. Head(output_buffer) \in Outgoing /\ Tail(output_buffer) \in Seq(Outgoing)
    BY <2>1 DEF Serving
  <2> QED
    BY <1>13, <2>1, <2>2, NullIsNoPacket DEF TransmitPop, Serving
<1>14. CASE TransmitSend
  BY <1>2, <1>14 DEF TransmitSend, Serving, buffers
<1>15. CASE Shutdown
  <2>1. Serving
    BY <1>15 DEF Shutdown, ServingInv
  <2> QED
    BY <1>15, <2>1 DEF Shutdown, Serving, buffers
<1>16. CASE StopIngress
  <2>1. Serving
    BY <1>16 DEF StopIngress, ServingInv
  <2>2. UNCHANGED queue_hi
    BY <1>1, <1>16 DEF StopIngress
  <2> QED
    BY <1>16, <2>1, <2>2 DEF StopIngress, Serving
<1>17. ~StopIngressNotify /\ ~StopEgress /\ ~StopTransmit /\ ~Join
  BY <1>1 DEF StopIngressNotify, StopEgress, StopTransmit, Join
<1>18. CASE SpuriousWakeup
  <2>1. Serving
    BY <1>1, <1>18 DEF SpuriousWakeup, ServingInv
  <2>2. ingress' = ingress \/ ingress'.at = "popping"
    BY <1>18 DEF SpuriousWakeup, TypeOK, IngressOK
  <2> QED
    BY <1>18, <2>1, <2>2 DEF SpuriousWakeup, Serving, buffers
<1>19. CASE SetMirroring
  BY <1>2, <1>19 DEF SetMirroring, Serving, buffers
<1>20. CASE UNCHANGED vars
  BY <1>2, <1>20 DEF Serving, vars
<1> QED
  BY <1>4, <1>5, <1>6, <1>7, <1>8, <1>9, <1>10, <1>11, <1>12, <1>13, <1>14, <1>15, <1>16,
     <1>17, <1>18, <1>19, <1>20
     DEF Next, ReceiverStep, IngressThread, EgressThreadStep, TransmitThread, Destructor

LEMMA ServingImpliesNoDeadlock == TypeOK /\ NoLostWakeup /\ ServingInv => NoDeadlock
<1> SUFFICES ASSUME TypeOK, NoLostWakeup, ServingInv, Halted
             PROVE  Quiet /\ destructor.at = "alive"
  BY DEF NoDeadlock
<1>1. Serving
  BY DEF ServingInv, Halted
<1>2. ingress.at = "waiting" /\ transmit.at = "popping" /\ output_buffer = <<>>
  BY <1>1 DEF Halted, Serving
<1>3. \A w \in Workers :
         /\ worker[w].at = "popping"
         /\ \A p \in PortsOf(w), v \in VNs : egress_buffers[p][v] = <<>>
  <2>1. Len(output_buffer) # OutputCapacity
    <3>1. OutputCapacity # 0
      BY PipelineAssumption DEF PipelineAssumption
    <3> QED
      BY <1>2, <3>1
  <2> QED
    BY <1>1, <2>1 DEF Halted, Serving
<1>4. \A p \in Ports, v \in VNs : egress_buffers[p][v] = <<>>
  <2> SUFFICES ASSUME NEW p \in Ports, NEW v \in VNs PROVE egress_buffers[p][v] = <<>>
    OBVIOUS
  <2>1. EgressThread(p) \in Workers
    BY PipelineAssumption DEF EgressThread, Workers, PipelineAssumption
  <2>2. p \in PortsOf(EgressThread(p))
    BY DEF PortsOf
  <2> QED
    BY <1>3, <2>1, <2>2
<1>5. queue_hi = <<>> /\ queue_lo = <<>>
  BY <1>2, <1>3 DEF NoLostWakeup, Halted
<1>6. BlockedReceivers = {} /\ destructor.at # "blocked"
  BY <1>2, <1>5, Constants DEF NoLostWakeup, Halted
<1> QED
  BY <1>2, <1>3, <1>4, <1>5, <1>6 DEF Quiet, Halted, BlockedReceivers

\* Back pressure never closes a circle: with any numbers of receivers, ports, VNs,
\* threads and places, and whatever clones, resubmissions and recirculations the
\* packets ask for, the threads come to a halt only when the switch is empty.
THEOREM NeverDeadlocked == Spec => []NoDeadlock
<1>1. Init => TypeOK /\ WakeInv /\ ServingInv
  <2>1. Init => WakeInv
    BY DEF Init, WakeInv, IngressServed, LoServed, HiServed, BlockedReceivers
  <2>2. Init => ServingInv
    BY DEF Init, ServingInv, Serving
  <2> QED
    BY <2>1, <2>2, InitTypeOK
<1>2. TypeOK /\ WakeInv /\ ServingInv /\ [Next]_vars => TypeOK' /\ WakeInv' /\ ServingInv'
  BY TypeStep, IngressServedStep, LoStep, HiServedStep, ServingStep DEF WakeInv
<1>3. TypeOK /\ WakeInv /\ ServingInv => NoDeadlock
  BY WakeInvImpliesNoLostWakeup, ServingImpliesNoDeadlock
<1> QED
  BY <1>1, <1>2, <1>3, PTL DEF Spec

-----------------------------------------------------------------------------
(***************************************************************************)
(* InOrder as a theorem.  A flow is what one receiver sends out of one port *)
(* through one VN.  Its packets are at seven places between the receiver    *)
(* and the wire; the invariant puts a mark between any two neighbours, with  *)
(* the numbers on one side at most the mark and those on the other above it. *)
(* A step moves a packet past one mark and, with it, that mark.             *)
(***************************************************************************)

\* What of a buffer belongs to the flow of receiver r through port p and VN v, and
\* the number each such element has.
PktNr(r) == [x \in {y \in Packet : Pristine(y) /\ y.from = r} |-> x.nr]

OutNr(p, v, r) ==
    [x \in {y \in Outgoing : y.port = p /\ y.vn = v /\ y.pkt \in DOMAIN PktNr(r)} |-> x.pkt.nr]

\* The elements of q that have a number are in increasing order, above lo and up to hi.
Ordered(q, nr, lo, hi) ==
    \A i \in DOMAIN q : q[i] \in DOMAIN nr =>
        /\ lo < nr[q[i]] /\ nr[q[i]] <= hi
        /\ \A j \in DOMAIN q : i < j /\ q[j] \in DOMAIN nr => nr[q[i]] < nr[q[j]]

\* Where packets come from and what may still be pristine, at each place.
HiShape == \A i \in DOMAIN queue_hi : ~Pristine(queue_hi[i])

ReceiverShape ==
    \A r \in Receivers : receiver[r].at # "idle" =>
        receiver[r].pkt.from = r /\ receiver[r].pkt.nr = receiver[r].count

IngressShape ==
    /\ ingress.at = "running" => ingress.pkt = Null
    /\ \A i \in DOMAIN ingress.todo : Pristine(ingress.todo[i].pkt) =>
          i = Len(ingress.todo) /\ ingress.todo[i].do = "enqueue"

WorkerShape ==
    \A w \in Workers : \A i \in DOMAIN worker[w].todo : Pristine(worker[w].todo[i].pkt) =>
        /\ i = Len(worker[w].todo) /\ worker[w].todo[i].do = "output"
        /\ w = EgressThread(worker[w].todo[i].port)

Shape == HiShape /\ ReceiverShape /\ IngressShape /\ WorkerShape

\* Each place of a flow between its two marks.
AtWire(p, v, r, a) ==
    /\ latest[p][v][r] <= a
    /\ transmit.at = "sending" /\ transmit.out \in DOMAIN OutNr(p, v, r) =>
          latest[p][v][r] < transmit.out.pkt.nr /\ transmit.out.pkt.nr <= a

AtWorker(p, v, r, b, c) ==
    /\ b <= c
    /\ \A w \in Workers : \A i \in DOMAIN worker[w].todo :
          LET op == worker[w].todo[i]
          IN op.pkt \in DOMAIN PktNr(r) /\ op.port = p /\ op.vn = v =>
                b < op.pkt.nr /\ op.pkt.nr <= c

AtIngress(r, d, e) ==
    /\ d <= e
    /\ ingress.pkt \in DOMAIN PktNr(r) => d < ingress.pkt.nr /\ ingress.pkt.nr <= e
    /\ \A i \in DOMAIN ingress.todo : ingress.todo[i].pkt \in DOMAIN PktNr(r) =>
          d < ingress.todo[i].pkt.nr /\ ingress.todo[i].pkt.nr <= e

AtReceiver(r, f) ==
    /\ f <= receiver[r].count
    /\ receiver[r].at \in {"pushing", "blocked"} => f < receiver[r].count

\* From the wire back to the receiver, the marks a to f never fall.
FlowInv(p, v, r, a, b, c, d, e, f) ==
    /\ AtWire(p, v, r, a)
    /\ a <= b /\ Ordered(output_buffer, OutNr(p, v, r), a, b)
    /\ AtWorker(p, v, r, b, c)
    /\ c <= d /\ Ordered(egress_buffers[p][v], PktNr(r), c, d)
    /\ AtIngress(r, d, e)
    /\ e <= f /\ Ordered(queue_lo, PktNr(r), e, f)
    /\ AtReceiver(r, f)

OrderInv ==
    \A p \in Ports, v \in VNs, r \in Receivers :
        \E a, b, c, d, e, f \in Nat : FlowInv(p, v, r, a, b, c, d, e, f)

-----------------------------------------------------------------------------
(* Sequences with numbered elements *)

LEMMA Numbers ==
    ASSUME NEW p \in Ports, NEW v \in VNs, NEW r \in Receivers
    PROVE  /\ \A x \in DOMAIN PktNr(r) : PktNr(r)[x] = x.nr /\ x.nr \in Nat
           /\ \A x \in DOMAIN OutNr(p, v, r) :
                 OutNr(p, v, r)[x] = x.pkt.nr /\ x.pkt.nr \in Nat
           /\ \A x : x \in DOMAIN PktNr(r) => x \in Packet /\ Pristine(x) /\ x.from = r
           /\ \A x \in Packet : Pristine(x) /\ x.from = r => x \in DOMAIN PktNr(r)
           /\ \A x : x \in DOMAIN OutNr(p, v, r) =>
                 x \in Outgoing /\ x.port = p /\ x.vn = v /\ x.pkt \in DOMAIN PktNr(r)
           /\ \A x \in Outgoing : x.port = p /\ x.vn = v /\ x.pkt \in DOMAIN PktNr(r)
                                  => x \in DOMAIN OutNr(p, v, r)
           /\ Null \notin DOMAIN PktNr(r) /\ Null \notin DOMAIN OutNr(p, v, r)
<1>1. /\ DOMAIN PktNr(r) = {y \in Packet : Pristine(y) /\ y.from = r}
      /\ \A x \in DOMAIN PktNr(r) : PktNr(r)[x] = x.nr
  BY DEF PktNr
<1>2. \A x \in Packet : x.nr \in Nat
  BY DEF Packet
<1>3. /\ DOMAIN OutNr(p, v, r)
            = {y \in Outgoing : y.port = p /\ y.vn = v /\ y.pkt \in DOMAIN PktNr(r)}
      /\ \A x \in DOMAIN OutNr(p, v, r) : OutNr(p, v, r)[x] = x.pkt.nr
  BY DEF OutNr
<1> QED
  BY <1>1, <1>2, <1>3, NullIsNoPacket

LEMMA OrderedAppend ==
    ASSUME NEW S, NEW q \in Seq(S), NEW x, NEW nr,
           \A y \in DOMAIN nr : nr[y] \in Nat,
           NEW lo \in Nat, NEW hi \in Nat, NEW hi2 \in Nat, lo <= hi, hi <= hi2,
           Ordered(q, nr, lo, hi), x \in DOMAIN nr => hi < nr[x] /\ nr[x] <= hi2
    PROVE  Ordered(Append(q, x), nr, lo, hi2)
<1> DEFINE s == Append(q, x)
<1>1. /\ Len(q) \in Nat /\ DOMAIN s = 1 .. Len(q) + 1 /\ s[Len(q) + 1] = x
      /\ DOMAIN q = 1 .. Len(q) /\ \A i \in 1 .. Len(q) : s[i] = q[i]
  OBVIOUS
<1> HIDE DEF s
<1> SUFFICES ASSUME NEW i \in DOMAIN s, s[i] \in DOMAIN nr
             PROVE  /\ lo < nr[s[i]] /\ nr[s[i]] <= hi2
                    /\ \A j \in DOMAIN s : i < j /\ s[j] \in DOMAIN nr => nr[s[i]] < nr[s[j]]
  BY DEF Ordered, s
<1>2. CASE i = Len(q) + 1
  BY <1>1, <1>2
<1>3. CASE i \in DOMAIN q
  <2>1. lo < nr[s[i]] /\ nr[s[i]] <= hi
    BY <1>1, <1>3 DEF Ordered
  <2>2. ASSUME NEW j \in DOMAIN s, i < j, s[j] \in DOMAIN nr PROVE nr[s[i]] < nr[s[j]]
    <3>1. CASE j = Len(q) + 1
      BY <1>1, <2>1, <2>2, <3>1
    <3>2. CASE j \in DOMAIN q
      BY <1>1, <1>3, <2>2, <3>2 DEF Ordered
    <3> QED
      BY <1>1, <3>1, <3>2
  <2> QED
    BY <2>1, <2>2
<1> QED
  BY <1>1, <1>2, <1>3

LEMMA OrderedTail ==
    ASSUME NEW S, NEW q \in Seq(S), q # <<>>, NEW nr,
           \A y \in DOMAIN nr : nr[y] \in Nat,
           NEW lo \in Nat, NEW hi \in Nat, Ordered(q, nr, lo, hi)
    PROVE  /\ Ordered(Tail(q), nr, lo, hi)
           /\ Head(q) \in DOMAIN nr =>
                 /\ lo < nr[Head(q)] /\ nr[Head(q)] <= hi
                 /\ Ordered(Tail(q), nr, nr[Head(q)], hi)
<1> DEFINE t == Tail(q)
<1>1. /\ Len(q) \in Nat \ {0} /\ DOMAIN q = 1 .. Len(q) /\ DOMAIN t = 1 .. Len(q) - 1
      /\ \A i \in 1 .. Len(q) - 1 : t[i] = q[i + 1]
      /\ Head(q) = q[1] /\ 1 \in DOMAIN q
  OBVIOUS
<1> HIDE DEF t
<1>2. \A i \in DOMAIN t : i + 1 \in DOMAIN q /\ t[i] = q[i + 1] /\ 1 < i + 1 /\ i \in Int
  BY <1>1
<1>3. Ordered(t, nr, lo, hi)
  <2>1. ASSUME NEW i \in DOMAIN t, t[i] \in DOMAIN nr
        PROVE  lo < nr[t[i]] /\ nr[t[i]] <= hi
    BY <1>2, <2>1 DEF Ordered
  <2>2. ASSUME NEW i \in DOMAIN t, t[i] \in DOMAIN nr,
               NEW j \in DOMAIN t, i < j, t[j] \in DOMAIN nr
        PROVE  nr[t[i]] < nr[t[j]]
    <3>1. i + 1 < j + 1
      BY <1>2, <2>2
    <3> QED
      BY <1>2, <2>2, <3>1 DEF Ordered
  <2> QED
    BY <2>1, <2>2 DEF Ordered
<1>4. ASSUME Head(q) \in DOMAIN nr
      PROVE  /\ lo < nr[Head(q)] /\ nr[Head(q)] <= hi
             /\ \A i \in DOMAIN t : t[i] \in DOMAIN nr => nr[Head(q)] < nr[t[i]]
  BY <1>1, <1>2, <1>4 DEF Ordered
<1> QED
  BY <1>3, <1>4 DEF Ordered, t

LEMMA OrderedUpTo ==
    ASSUME NEW q, NEW nr, \A y \in DOMAIN nr : nr[y] \in Nat,
           NEW lo \in Nat, NEW hi \in Nat, NEW hi2 \in Nat, hi <= hi2, Ordered(q, nr, lo, hi)
    PROVE  Ordered(q, nr, lo, hi2)
BY DEF Ordered

LEMMA PktAppend ==
    ASSUME NEW S, NEW q \in Seq(S), NEW x, NEW r \in Receivers,
           NEW lo \in Nat, NEW hi \in Nat, NEW hi2 \in Nat, lo <= hi, hi <= hi2,
           Ordered(q, PktNr(r), lo, hi), x \in DOMAIN PktNr(r) => hi < x.nr /\ x.nr <= hi2
    PROVE  Ordered(Append(q, x), PktNr(r), lo, hi2)
<1>1. \A y \in DOMAIN PktNr(r) : PktNr(r)[y] = y.nr /\ PktNr(r)[y] \in Nat
  BY DEF PktNr, Packet
<1> DEFINE nr == PktNr(r)
<1>2. /\ \A y \in DOMAIN nr : nr[y] \in Nat
      /\ x \in DOMAIN nr => hi < nr[x] /\ nr[x] <= hi2
      /\ Ordered(q, nr, lo, hi)
  BY <1>1
<1> HIDE DEF nr
<1>3. Ordered(Append(q, x), nr, lo, hi2)
  BY <1>2, OrderedAppend
<1> QED
  BY <1>3 DEF nr

LEMMA OutAppend ==
    ASSUME NEW S, NEW q \in Seq(S), NEW x,
           NEW p \in Ports, NEW v \in VNs, NEW r \in Receivers,
           NEW lo \in Nat, NEW hi \in Nat, NEW hi2 \in Nat, lo <= hi, hi <= hi2,
           Ordered(q, OutNr(p, v, r), lo, hi),
           x \in DOMAIN OutNr(p, v, r) => hi < x.pkt.nr /\ x.pkt.nr <= hi2
    PROVE  Ordered(Append(q, x), OutNr(p, v, r), lo, hi2)
<1> DEFINE nr == OutNr(p, v, r)
<1>1. /\ \A y \in DOMAIN nr : nr[y] \in Nat
      /\ x \in DOMAIN nr => hi < nr[x] /\ nr[x] <= hi2
      /\ Ordered(q, nr, lo, hi)
  BY Numbers
<1> HIDE DEF nr
<1>2. Ordered(Append(q, x), nr, lo, hi2)
  BY <1>1, OrderedAppend
<1> QED
  BY <1>2 DEF nr

LEMMA PktTail ==
    ASSUME NEW S, NEW q \in Seq(S), q # <<>>, NEW r \in Receivers,
           NEW lo \in Nat, NEW hi \in Nat, Ordered(q, PktNr(r), lo, hi)
    PROVE  /\ Ordered(Tail(q), PktNr(r), lo, hi)
           /\ Head(q) \in DOMAIN PktNr(r) =>
                 /\ Head(q).nr \in Nat /\ lo < Head(q).nr /\ Head(q).nr <= hi
                 /\ Ordered(Tail(q), PktNr(r), Head(q).nr, hi)
<1>1. \A y \in DOMAIN PktNr(r) : PktNr(r)[y] = y.nr /\ y.nr \in Nat
  BY DEF PktNr, Packet
<1> DEFINE nr == PktNr(r)
<1>2. \A y \in DOMAIN nr : nr[y] \in Nat
  BY <1>1
<1>3. Ordered(q, nr, lo, hi)
  OBVIOUS
<1> HIDE DEF nr
<1>4. /\ Ordered(Tail(q), nr, lo, hi)
      /\ Head(q) \in DOMAIN nr =>
            /\ lo < nr[Head(q)] /\ nr[Head(q)] <= hi
            /\ Ordered(Tail(q), nr, nr[Head(q)], hi)
  BY <1>2, <1>3, OrderedTail
<1> QED
  BY <1>1, <1>4 DEF nr

LEMMA OutTail ==
    ASSUME NEW S, NEW q \in Seq(S), q # <<>>,
           NEW p \in Ports, NEW v \in VNs, NEW r \in Receivers,
           NEW lo \in Nat, NEW hi \in Nat, Ordered(q, OutNr(p, v, r), lo, hi)
    PROVE  /\ Ordered(Tail(q), OutNr(p, v, r), lo, hi)
           /\ Head(q) \in DOMAIN OutNr(p, v, r) =>
                 /\ Head(q).pkt.nr \in Nat /\ lo < Head(q).pkt.nr /\ Head(q).pkt.nr <= hi
                 /\ Ordered(Tail(q), OutNr(p, v, r), Head(q).pkt.nr, hi)
<1> DEFINE nr == OutNr(p, v, r)
<1>1. \A y \in DOMAIN nr : nr[y] = y.pkt.nr /\ y.pkt.nr \in Nat
  BY Numbers
<1>2. Ordered(q, nr, lo, hi)
  OBVIOUS
<1> HIDE DEF nr
<1>3. \A y \in DOMAIN nr : nr[y] \in Nat
  BY <1>1
<1>4. /\ Ordered(Tail(q), nr, lo, hi)
      /\ Head(q) \in DOMAIN nr =>
            /\ lo < nr[Head(q)] /\ nr[Head(q)] <= hi
            /\ Ordered(Tail(q), nr, nr[Head(q)], hi)
  BY <1>2, <1>3, OrderedTail
<1>5. Head(q) \in DOMAIN nr =>
            /\ Head(q).pkt.nr \in Nat /\ lo < Head(q).pkt.nr /\ Head(q).pkt.nr <= hi
            /\ Ordered(Tail(q), nr, Head(q).pkt.nr, hi)
  BY <1>1, <1>4
<1> QED
  BY <1>4, <1>5 DEF nr

-----------------------------------------------------------------------------
(* The shape of what is at each place *)

LEMMA TailElements ==
    ASSUME NEW S, NEW q \in Seq(S), q # <<>>
    PROVE  /\ 1 \in DOMAIN q /\ Head(q) = q[1] /\ Head(q) \in S
           /\ Len(q) = 1 => Tail(q) = <<>>
           /\ \A i \in DOMAIN Tail(q) :
                 i + 1 \in DOMAIN q /\ Tail(q)[i] = q[i + 1]
                 /\ (i + 1 = Len(q) => i = Len(Tail(q)))
OBVIOUS

LEMMA AppendElements ==
    ASSUME NEW S, NEW q \in Seq(S), NEW x
    PROVE  \A i \in DOMAIN Append(q, x) :
              Append(q, x)[i] = x \/ (i \in DOMAIN q /\ Append(q, x)[i] = q[i])
OBVIOUS

LEMMA HiShapeStep == TypeOK /\ Shape /\ [Next]_vars => HiShape'
<1> SUFFICES ASSUME TypeOK, Shape, [Next]_vars PROVE HiShape'
  OBVIOUS
<1>1. queue_hi \in Seq(Packet \cup {Null}) /\ HiShape
  BY DEF TypeOK, InputOK, Shape
<1>2. ASSUME queue_hi' = queue_hi PROVE HiShape'
  BY <1>1, <1>2 DEF HiShape
<1>3. ASSUME NEW x, ~Pristine(x), queue_hi' = Append(queue_hi, x) PROVE HiShape'
  BY <1>1, <1>3, AppendElements DEF HiShape
<1>4. CASE IngressPop
  <2>1. CASE queue_hi # <<>>
    <3>1. queue_hi' = Tail(queue_hi)
      BY <1>4, <2>1 DEF IngressPop
    <3> QED
      BY <1>1, <2>1, <3>1, TailElements DEF HiShape
  <2>2. CASE queue_hi = <<>>
    BY <1>2, <1>4, <2>2 DEF IngressPop
  <2> QED
    BY <2>1, <2>2
<1>5. CASE IngressStep
  <2>1. ingress.todo \in Seq(IngressOp) /\ ingress.todo # <<>>
    BY <1>5 DEF TypeOK, IngressOK, IngressStep
  <2>2. Head(ingress.todo).do = "resubmit" => ~Pristine(Head(ingress.todo).pkt)
    BY <2>1, TailElements DEF Shape, IngressShape
  <2> QED
    BY <1>2, <1>3, <1>5, <2>2 DEF IngressStep, Resubmitted, Stored
<1>6. ASSUME NEW w \in Workers, EgressStep(w) PROVE HiShape'
  <2>1. worker[w].todo \in Seq(EgressOp) /\ worker[w].todo # <<>>
    BY <1>6 DEF TypeOK, WorkersOK, EgressStep
  <2>2. Head(worker[w].todo).do = "recirculate" => ~Pristine(Head(worker[w].todo).pkt)
    BY <2>1, TailElements DEF Shape, WorkerShape
  <2> QED
    BY <1>2, <1>3, <1>6, <2>2 DEF EgressStep, Stored
<1>7. CASE StopIngress
  <2>1. ~Pristine(Null)
    BY DEF Pristine
  <2> QED
    BY <1>2, <1>3, <1>7, <2>1 DEF StopIngress
<1>8. CASE UNCHANGED queue_hi
  BY <1>2, <1>8
<1> QED
  BY <1>4, <1>5, <1>6, <1>7, <1>8
     DEF Next, ReceiverStep, IngressThread, EgressThreadStep, TransmitThread, Destructor,
         Receive, PushNormal, FinishReceive, IngressBegin, EgressBegin, EgressNotify,
         TransmitPop, TransmitSend, Shutdown, StopIngressNotify, StopEgress, StopTransmit,
         Join, SpuriousWakeup, SetMirroring, buffers, vars

LEMMA ReceiverShapeStep == TypeOK /\ Shape /\ [Next]_vars => ReceiverShape'
<1> SUFFICES ASSUME TypeOK, Shape, [Next]_vars PROVE ReceiverShape'
  OBVIOUS
<1>1. ReceiversOK /\ ReceiverShape
  BY DEF TypeOK, Shape
<1>2. ASSUME NEW r \in Receivers, Receive(r) PROVE ReceiverShape'
  <2> DEFINE n == receiver[r].count + 1
             q == [from |-> r, nr |-> n, hops |-> 0, copy |-> FALSE]
  <2>1. receiver' = [receiver EXCEPT ![r] = [at |-> "pushing", count |-> n, pkt |-> q]]
    BY <1>2 DEF Receive
  <2>2. q.from = r /\ q.nr = n
    OBVIOUS
  <2> HIDE DEF n, q
  <2> QED
    BY <1>1, <2>1, <2>2 DEF ReceiversOK, ReceiverShape
<1>3. ASSUME NEW r \in Receivers, PushNormal(r) PROVE ReceiverShape'
  <2>1. PICK x \in {"blocked", "notifying"} : receiver' = [receiver EXCEPT ![r].at = x]
    BY <1>3 DEF PushNormal
  <2>2. receiver[r].at # "idle"
    BY <1>3 DEF PushNormal
  <2> QED
    BY <1>1, <2>1, <2>2 DEF ReceiversOK, ReceiverShape
<1>4. ASSUME NEW r \in Receivers, FinishReceive(r) PROVE ReceiverShape'
  BY <1>1, <1>4 DEF FinishReceive, ReceiversOK, ReceiverShape
<1>5. ASSUME NEW r \in BlockedReceivers, receiver' = [receiver EXCEPT ![r].at = "pushing"]
      PROVE  ReceiverShape'
  <2>1. r \in Receivers /\ receiver[r].at # "idle"
    BY DEF BlockedReceivers
  <2> QED
    BY <1>1, <1>5, <2>1 DEF ReceiversOK, ReceiverShape
<1>6. CASE UNCHANGED receiver
  BY <1>1, <1>6 DEF ReceiverShape
<1>7. CASE IngressBegin
  BY <1>5, <1>6, <1>7 DEF IngressBegin, NotifyCanPushLo
<1>8. CASE SpuriousWakeup
  BY <1>5, <1>6, <1>8 DEF SpuriousWakeup
<1> QED
  BY <1>2, <1>3, <1>4, <1>6, <1>7, <1>8
     DEF Next, ReceiverStep, IngressThread, EgressThreadStep, TransmitThread, Destructor,
         IngressPop, IngressStep, EgressBegin, EgressStep, EgressNotify,
         TransmitPop, TransmitSend, Shutdown, StopIngress, StopIngressNotify, StopEgress,
         StopTransmit, Join, SetMirroring, vars

LEMMA IngressShapeStep == TypeOK /\ Shape /\ [Next]_vars => IngressShape'
<1> SUFFICES ASSUME TypeOK, Shape, [Next]_vars PROVE IngressShape'
  OBVIOUS
<1>1. IngressOK /\ IngressShape /\ mirroring \in Sessions \cup {NoSession}
  BY DEF TypeOK, Shape
<1>2. ASSUME ingress'.todo = ingress.todo, ingress'.at # "running" \/ ingress' = ingress
      PROVE  IngressShape'
  BY <1>1, <1>2 DEF IngressShape
<1>3. CASE IngressPop
  <2>1. ingress'.todo = ingress.todo /\ ingress'.at # "running"
    BY <1>1, <1>3 DEF IngressPop, IngressOK
  <2> QED
    BY <1>2, <2>1
<1>4. CASE IngressBegin
  <2>1. CASE ingress' = [ingress EXCEPT !.at = "ended"]
    BY <1>1, <1>2, <2>1 DEF IngressOK
  <2>2. ASSUME NEW d \in IngressVerdicts, ingress.pkt \in Packet, MayAsk(ingress.pkt, d),
               ingress' = [at   |-> Continuing(IngressPlan(ingress.pkt, d)),
                           pkt  |-> Null,
                           todo |-> IngressPlan(ingress.pkt, d)]
        PROVE  IngressShape'
    <3> DEFINE plan == IngressPlan(ingress.pkt, d)
    <3>1. \A i \in DOMAIN plan : Pristine(plan[i].pkt) =>
             i = Len(plan) /\ plan[i].do = "enqueue"
      BY <1>1, <2>2, IngressPlanType
    <3>2. ingress' = [at |-> Continuing(plan), pkt |-> Null, todo |-> plan]
      BY <2>2
    <3> HIDE DEF plan
    <3> QED
      BY <3>1, <3>2 DEF IngressShape
  <2> QED
    BY <1>4, <2>1, <2>2, IngressBegins
<1>5. CASE IngressStep
  <2>1. /\ ingress.todo \in Seq(IngressOp) /\ ingress.todo # <<>> /\ ingress.at = "running"
        /\ ingress' = [ingress EXCEPT !.at = Continuing(Tail(ingress.todo)),
                                      !.todo = Tail(ingress.todo)]
    BY <1>1, <1>5 DEF IngressOK, IngressStep
  <2>2. ingress'.pkt = ingress.pkt /\ ingress'.todo = Tail(ingress.todo) /\ ingress.pkt = Null
    BY <1>1, <2>1 DEF IngressOK, IngressShape
  <2>3. \A i \in DOMAIN Tail(ingress.todo) : Pristine(Tail(ingress.todo)[i].pkt) =>
           i = Len(Tail(ingress.todo)) /\ Tail(ingress.todo)[i].do = "enqueue"
    BY <1>1, <2>1, TailElements DEF IngressShape
  <2> QED
    BY <2>2, <2>3 DEF IngressShape
<1>6. CASE NotifyCanPop
  <2>1. ingress' = ingress \/ ingress' = [ingress EXCEPT !.at = "popping"]
    BY <1>6 DEF NotifyCanPop
  <2> QED
    BY <1>1, <1>2, <2>1 DEF IngressOK
<1>7. CASE SpuriousWakeup
  <2>1. ingress' = ingress \/ ingress' = [ingress EXCEPT !.at = "popping"]
    BY <1>7 DEF SpuriousWakeup
  <2> QED
    BY <1>1, <1>2, <2>1 DEF IngressOK
<1>8. CASE UNCHANGED ingress
  BY <1>2, <1>8
<1> QED
  BY <1>3, <1>4, <1>5, <1>6, <1>7, <1>8
     DEF Next, ReceiverStep, IngressThread, EgressThreadStep, TransmitThread, Destructor,
         Receive, PushNormal, FinishReceive, EgressBegin, EgressStep, EgressNotify,
         TransmitPop, TransmitSend, Shutdown, StopIngress, StopIngressNotify, StopEgress,
         StopTransmit, Join, SetMirroring, vars

\* One egress thread's plan is replaced.
LEMMA WorkerReplaced ==
    ASSUME TypeOK, NEW w \in Workers, NEW x, worker' = [worker EXCEPT ![w] = x]
    PROVE  worker'[w] = x /\ \A u \in Workers : u # w => worker'[u] = worker[u]
BY DEF TypeOK, WorkersOK

LEMMA WorkerShapeStep == TypeOK /\ Shape /\ [Next]_vars => WorkerShape'
<1> SUFFICES ASSUME TypeOK, Shape, [Next]_vars PROVE WorkerShape'
  OBVIOUS
<1>1. WorkersOK /\ WorkerShape /\ mirroring \in Sessions \cup {NoSession}
  BY DEF TypeOK, Shape
<1>2. ASSUME NEW w \in Workers, NEW x, worker' = [worker EXCEPT ![w].at = x]
      PROVE  WorkerShape'
  <2>1. \A u \in Workers : worker'[u].todo = worker[u].todo
    BY <1>1, <1>2 DEF WorkersOK
  <2> QED
    BY <1>1, <2>1 DEF WorkerShape
<1>3. ASSUME NEW w \in Workers, EgressBegin(w) PROVE WorkerShape'
  <2> PICK p \in PortsOf(w), v \in VNs :
              LET pkt == Head(egress_buffers[p][v])
              IN \/ pkt = Null /\ worker' = [worker EXCEPT ![w].at = "ended"]
                 \/ /\ pkt \in Packet
                    /\ \E d \in EgressVerdicts :
                          /\ MayAsk(pkt, d)
                          /\ worker' = [worker EXCEPT ![w] =
                                          [at   |-> Continuing(EgressPlan(p, v, pkt, d)),
                                           todo |-> EgressPlan(p, v, pkt, d)]]
    BY <1>3, EgressBegins
  <2> DEFINE pkt == Head(egress_buffers[p][v])
  <2>1. CASE worker' = [worker EXCEPT ![w].at = "ended"]
    BY <1>2, <2>1
  <2>2. ASSUME NEW d \in EgressVerdicts, pkt \in Packet, MayAsk(pkt, d),
               worker' = [worker EXCEPT ![w] =
                            [at   |-> Continuing(EgressPlan(p, v, pkt, d)),
                             todo |-> EgressPlan(p, v, pkt, d)]]
        PROVE  WorkerShape'
    <3> DEFINE plan == EgressPlan(p, v, pkt, d)
    <3>1. p \in Ports /\ EgressThread(p) = w
      BY DEF PortsOf
    <3>2. \A i \in DOMAIN plan : Pristine(plan[i].pkt) =>
             i = Len(plan) /\ plan[i] = [do |-> "output", port |-> p, vn |-> v, pkt |-> pkt]
      BY <1>1, <2>2, <3>1, EgressPlanType
    <3>3. worker' = [worker EXCEPT ![w] = [at |-> Continuing(plan), todo |-> plan]]
      BY <2>2
    <3> HIDE DEF plan, pkt
    <3>4. /\ worker'[w] = [at |-> Continuing(plan), todo |-> plan]
          /\ \A u \in Workers : u # w => worker'[u] = worker[u]
      BY <3>3, WorkerReplaced
    <3>5. worker'[w].todo = plan
      BY <3>4
    <3>6. \A i \in DOMAIN plan : Pristine(plan[i].pkt) =>
             i = Len(plan) /\ plan[i].do = "output" /\ plan[i].port = p
      BY <3>2
    <3> QED
      BY <1>1, <3>1, <3>4, <3>5, <3>6 DEF WorkerShape
  <2> QED
    BY <2>1, <2>2
<1>4. ASSUME NEW w \in Workers, EgressStep(w) PROVE WorkerShape'
  <2> DEFINE rest == Tail(worker[w].todo)
  <2>1. worker[w].todo \in Seq(EgressOp) /\ worker[w].todo # <<>>
    BY <1>1, <1>4 DEF WorkersOK, EgressStep
  <2>2. \A i \in DOMAIN rest : Pristine(rest[i].pkt) =>
           i = Len(rest) /\ rest[i].do = "output" /\ w = EgressThread(rest[i].port)
    BY <1>1, <2>1, TailElements DEF WorkerShape
  <2>3. PICK x : worker' = [worker EXCEPT ![w] = [at |-> x, todo |-> rest]]
    BY <1>4 DEF EgressStep
  <2> HIDE DEF rest
  <2>4. worker'[w] = [at |-> x, todo |-> rest]
        /\ \A u \in Workers : u # w => worker'[u] = worker[u]
    BY <2>3, WorkerReplaced
  <2>5. worker'[w].todo = rest
    BY <2>4
  <2> QED
    BY <1>1, <2>2, <2>4, <2>5 DEF WorkerShape
<1>5. ASSUME NEW w \in Workers, EgressNotify(w) PROVE WorkerShape'
  BY <1>2, <1>5 DEF EgressNotify
<1>6. CASE UNCHANGED worker
  BY <1>1, <1>6 DEF WorkerShape
<1> QED
  BY <1>3, <1>4, <1>5, <1>6
     DEF Next, ReceiverStep, IngressThread, EgressThreadStep, TransmitThread, Destructor,
         Receive, PushNormal, FinishReceive, IngressPop, IngressBegin, IngressStep,
         TransmitPop, TransmitSend, Shutdown, StopIngress, StopIngressNotify, StopEgress,
         StopTransmit, Join, SpuriousWakeup, SetMirroring, vars

LEMMA ShapeStep == TypeOK /\ Shape /\ [Next]_vars => Shape'
BY HiShapeStep, ReceiverShapeStep, IngressShapeStep, WorkerShapeStep DEF Shape

-----------------------------------------------------------------------------
(* Each place under the steps that do not move a packet of the flow *)

LEMMA Undisturbed ==
    ASSUME NEW p \in Ports, NEW v \in VNs, NEW r \in Receivers,
           NEW a \in Nat, NEW b \in Nat, NEW c \in Nat, NEW d \in Nat, NEW e \in Nat,
           NEW f \in Nat, FlowInv(p, v, r, a, b, c, d, e, f)
    PROVE  /\ latest' = latest /\ transmit' = transmit => AtWire(p, v, r, a)'
           /\ output_buffer' = output_buffer => Ordered(output_buffer', OutNr(p, v, r), a, b)
           /\ worker' = worker => AtWorker(p, v, r, b, c)'
           /\ egress_buffers'[p][v] = egress_buffers[p][v]
                 => Ordered(egress_buffers'[p][v], PktNr(r), c, d)
           /\ ingress'.pkt = ingress.pkt /\ ingress'.todo = ingress.todo
                 => AtIngress(r, d, e)'
           /\ queue_lo' = queue_lo => Ordered(queue_lo', PktNr(r), e, f)
           /\ receiver'[r] = receiver[r] => AtReceiver(r, f)'
           /\ a <= b /\ b <= c /\ c <= d /\ d <= e /\ e <= f
<1>1. latest' = latest /\ transmit' = transmit => AtWire(p, v, r, a)'
  BY DEF FlowInv, AtWire
<1>2. worker' = worker => AtWorker(p, v, r, b, c)'
  BY DEF FlowInv, AtWorker
<1>3. ingress'.pkt = ingress.pkt /\ ingress'.todo = ingress.todo => AtIngress(r, d, e)'
  BY DEF FlowInv, AtIngress
<1>4. receiver'[r] = receiver[r] => AtReceiver(r, f)'
  BY DEF FlowInv, AtReceiver
<1> QED
  BY <1>1, <1>2, <1>3, <1>4 DEF FlowInv, AtWorker, AtIngress

\* The seven places together.
LEMMA Assembled ==
    ASSUME NEW p \in Ports, NEW v \in VNs, NEW r \in Receivers,
           NEW a \in Nat, NEW b \in Nat, NEW c \in Nat, NEW d \in Nat, NEW e \in Nat,
           NEW f \in Nat,
           AtWire(p, v, r, a)', a <= b, Ordered(output_buffer', OutNr(p, v, r), a, b),
           AtWorker(p, v, r, b, c)', c <= d,
           Ordered(egress_buffers'[p][v], PktNr(r), c, d),
           AtIngress(r, d, e)', e <= f, Ordered(queue_lo', PktNr(r), e, f),
           AtReceiver(r, f)'
    PROVE  FlowInv(p, v, r, a, b, c, d, e, f)'
BY DEF FlowInv

Preserved(p, v, r) ==
    \E a, b, c, d, e, f \in Nat : FlowInv(p, v, r, a, b, c, d, e, f)'

\* A receiver that is woken has still to push what it had to push.
LEMMA Woken ==
    ASSUME TypeOK, NEW r \in Receivers, NEW f \in Nat, AtReceiver(r, f),
           \/ receiver' = receiver
           \/ \E s \in BlockedReceivers : receiver' = [receiver EXCEPT ![s].at = "pushing"]
    PROVE  AtReceiver(r, f)'
<1>1. CASE receiver' = receiver
  BY <1>1 DEF AtReceiver
<1>2. ASSUME NEW s \in BlockedReceivers, receiver' = [receiver EXCEPT ![s].at = "pushing"]
      PROVE  AtReceiver(r, f)'
  <2>1. s \in Receivers /\ receiver[s].at = "blocked"
    BY DEF BlockedReceivers
  <2>2. /\ receiver'[r].count = receiver[r].count
        /\ receiver'[r].at \in {"pushing", "blocked"} => receiver[r].at \in {"pushing", "blocked"}
    BY <1>2, <2>1 DEF TypeOK, ReceiversOK
  <2> QED
    BY <2>2 DEF AtReceiver
<1> QED
  BY <1>1, <1>2

\* receive_ and push_front of a normal packet.
LEMMA ReceiverFlow ==
    ASSUME TypeOK, Shape, NEW s \in Receivers, Receive(s) \/ PushNormal(s) \/ FinishReceive(s),
           NEW p \in Ports, NEW v \in VNs, NEW r \in Receivers,
           NEW a \in Nat, NEW b \in Nat, NEW c \in Nat, NEW d \in Nat, NEW e \in Nat,
           NEW f \in Nat, FlowInv(p, v, r, a, b, c, d, e, f)
    PROVE  Preserved(p, v, r)
<1>1. /\ ReceiversOK /\ ReceiverShape /\ AtReceiver(r, f)
      /\ Ordered(queue_lo, PktNr(r), e, f) /\ queue_lo \in Seq(Packet)
      /\ receiver[r].count \in Nat
  BY DEF TypeOK, Shape, FlowInv, InputOK, ReceiversOK
<1>2. /\ latest' = latest /\ transmit' = transmit /\ output_buffer' = output_buffer
      /\ worker' = worker /\ egress_buffers' = egress_buffers
      /\ ingress'.pkt = ingress.pkt /\ ingress'.todo = ingress.todo
  <2>1. ingress' = ingress \/ NotifyCanPop
    BY DEF Receive, PushNormal, FinishReceive
  <2> QED
    BY <2>1, NotifyCanPopType DEF TypeOK, Receive, PushNormal, FinishReceive, buffers
<1>3. /\ AtWire(p, v, r, a)' /\ AtWorker(p, v, r, b, c)' /\ AtIngress(r, d, e)'
      /\ Ordered(output_buffer', OutNr(p, v, r), a, b)
      /\ Ordered(egress_buffers'[p][v], PktNr(r), c, d)
      /\ a <= b /\ c <= d /\ e <= f
  <2>1. AtWire(p, v, r, a)'
    BY <1>2 DEF FlowInv, AtWire
  <2>2. AtWorker(p, v, r, b, c)'
    BY <1>2 DEF FlowInv, AtWorker
  <2>3. AtIngress(r, d, e)'
    BY <1>2 DEF FlowInv, AtIngress
  <2> QED
    BY <1>2, <2>1, <2>2, <2>3 DEF FlowInv
<1>4. ASSUME NEW g \in Nat, f <= g, Ordered(queue_lo', PktNr(r), e, g), AtReceiver(r, g)'
      PROVE  Preserved(p, v, r)
  <2>1. e <= g
    BY <1>3, <1>4
  <2>2. FlowInv(p, v, r, a, b, c, d, e, g)'
    BY <1>3, <1>4, <2>1, Assembled
  <2> QED
    BY <2>2 DEF Preserved
<1>5. CASE Receive(s)
  <2>1. receiver'[r].count >= receiver[r].count /\ receiver'[r].count \in Nat
        /\ (receiver'[r] # receiver[r] => receiver'[r].count > receiver[r].count)
    BY <1>1, <1>5 DEF Receive, ReceiversOK
  <2>2. AtReceiver(r, f)'
    BY <1>1, <2>1 DEF AtReceiver
  <2>3. queue_lo' = queue_lo
    BY <1>5 DEF Receive, buffers
  <2> QED
    BY <1>1, <1>4, <2>2, <2>3
<1>6. CASE FinishReceive(s)
  <2>1. receiver'[r].count = receiver[r].count
        /\ (receiver'[r] # receiver[r] => receiver'[r].at = "idle")
    BY <1>1, <1>6 DEF FinishReceive, ReceiversOK
  <2>2. AtReceiver(r, f)'
    BY <1>1, <2>1 DEF AtReceiver
  <2>3. queue_lo' = queue_lo
    BY <1>6 DEF FinishReceive, buffers
  <2> QED
    BY <1>1, <1>4, <2>2, <2>3
<1>7. CASE PushNormal(s) /\ Len(queue_lo) = CapacityLo
  <2>1. /\ receiver'[r].count = receiver[r].count /\ queue_lo' = queue_lo
        /\ receiver'[r] # receiver[r] => receiver[r].at = "pushing"
    BY <1>1, <1>7 DEF PushNormal, ReceiversOK
  <2>2. AtReceiver(r, f)'
    BY <1>1, <2>1 DEF AtReceiver
  <2> QED
    BY <1>1, <1>4, <2>1, <2>2
<1>8. CASE PushNormal(s) /\ Len(queue_lo) # CapacityLo
  <2> DEFINE pkt == receiver[s].pkt
  <2>1. /\ queue_lo' = Append(queue_lo, pkt) /\ receiver[s].at = "pushing"
        /\ receiver' = [receiver EXCEPT ![s].at = "notifying"]
    BY <1>8 DEF PushNormal
  <2>2. pkt.from = s /\ pkt.nr = receiver[s].count /\ pkt \in Packet
    BY <1>1, <2>1 DEF ReceiverShape, ReceiversOK
  <2>3. receiver'[r].count = receiver[r].count
        /\ (r # s => receiver'[r] = receiver[r]) /\ receiver'[s].at = "notifying"
    BY <1>1, <2>1 DEF ReceiversOK
  <2> HIDE DEF pkt
  <2>6. e <= f
    BY <1>3
  <2>4. CASE r = s
    <3> PICK g \in Nat : g = receiver[r].count
      BY <1>1
    <3>1. f < g
      BY <1>1, <2>1, <2>4 DEF AtReceiver
    <3>2. f < pkt.nr /\ pkt.nr <= g /\ f <= g
      BY <2>2, <2>4, <3>1
    <3>3. Ordered(Append(queue_lo, pkt), PktNr(r), e, g)
      BY <1>1, <2>6, <3>2, PktAppend
    <3>4. AtReceiver(r, g)'
      <4>1. receiver'[r].at \notin {"pushing", "blocked"}
        BY <2>3, <2>4
      <4> QED
        BY <1>1, <2>3, <2>4, <4>1 DEF AtReceiver
    <3> QED
      BY <1>4, <2>1, <3>2, <3>3, <3>4
  <2>5. CASE r # s
    <3>1. pkt \notin DOMAIN PktNr(r)
      BY <2>2, <2>5, Numbers
    <3>2. Ordered(queue_lo', PktNr(r), e, f)
      BY <1>1, <2>1, <2>6, <3>1, PktAppend
    <3>3. AtReceiver(r, f)'
      BY <2>3, <2>5, Undisturbed
    <3> QED
      BY <1>4, <3>2, <3>3
  <2> QED
    BY <2>4, <2>5
<1> QED
  BY <1>5, <1>6, <1>7, <1>8

\* transmit_thread takes the oldest element of the output buffer.
LEMMA TransmitPopFlow ==
    ASSUME TypeOK, TransmitPop,
           NEW p \in Ports, NEW v \in VNs, NEW r \in Receivers,
           NEW a \in Nat, NEW b \in Nat, NEW c \in Nat, NEW d \in Nat, NEW e \in Nat,
           NEW f \in Nat, FlowInv(p, v, r, a, b, c, d, e, f)
    PROVE  Preserved(p, v, r)
<1>1. /\ output_buffer \in Seq(Outgoing \cup {Null}) /\ output_buffer # <<>>
      /\ output_buffer' = Tail(output_buffer) /\ transmit'.out = Head(output_buffer)
      /\ transmit'.at = "sending" => Head(output_buffer) # Null
      /\ Ordered(output_buffer, OutNr(p, v, r), a, b) /\ latest[p][v][r] <= a
      /\ latest[p][v][r] \in Nat /\ latest' = latest
  BY DEF TypeOK, OutputOK, TransmitPop, FlowInv, AtWire
<1>2. /\ egress_buffers' = egress_buffers /\ worker' = worker
      /\ ingress' = ingress /\ queue_lo' = queue_lo /\ receiver' = receiver
  BY DEF TransmitPop
<1>3. /\ AtWorker(p, v, r, b, c)' /\ Ordered(egress_buffers'[p][v], PktNr(r), c, d)
      /\ AtIngress(r, d, e)' /\ Ordered(queue_lo', PktNr(r), e, f) /\ AtReceiver(r, f)'
      /\ a <= b /\ c <= d /\ e <= f
  BY <1>2, Undisturbed, SMTT(30)
<1>4. /\ Ordered(Tail(output_buffer), OutNr(p, v, r), a, b)
      /\ Head(output_buffer) \in DOMAIN OutNr(p, v, r) =>
            /\ Head(output_buffer).pkt.nr \in Nat
            /\ a < Head(output_buffer).pkt.nr /\ Head(output_buffer).pkt.nr <= b
            /\ Ordered(Tail(output_buffer), OutNr(p, v, r), Head(output_buffer).pkt.nr, b)
  BY <1>1, OutTail
<1>5. CASE Head(output_buffer) \in DOMAIN OutNr(p, v, r)
  <2> PICK g \in Nat : g = Head(output_buffer).pkt.nr
    BY <1>4, <1>5
  <2>1. Ordered(output_buffer', OutNr(p, v, r), g, b) /\ a < g /\ g <= b
    BY <1>1, <1>4, <1>5
  <2>2. AtWire(p, v, r, g)'
    <3>1. /\ latest'[p][v][r] <= a /\ latest'[p][v][r] \in Nat /\ a < g
          /\ transmit'.out.pkt.nr = g
      BY <1>1, <2>1
    <3> QED
      BY <3>1 DEF AtWire
  <2>3. FlowInv(p, v, r, g, b, c, d, e, f)'
    BY <1>3, <2>1, <2>2, Assembled
  <2> QED
    BY <2>3 DEF Preserved
<1>6. CASE Head(output_buffer) \notin DOMAIN OutNr(p, v, r)
  <2>1. AtWire(p, v, r, a)'
    BY <1>1, <1>6 DEF AtWire
  <2>2. FlowInv(p, v, r, a, b, c, d, e, f)'
    BY <1>1, <1>3, <1>4, <2>1, Assembled
  <2> QED
    BY <2>2 DEF Preserved
<1> QED
  BY <1>5, <1>6

\* my_transmit_fn
LEMMA TransmitSendFlow ==
    ASSUME TypeOK, TransmitSend,
           NEW p \in Ports, NEW v \in VNs, NEW r \in Receivers,
           NEW a \in Nat, NEW b \in Nat, NEW c \in Nat, NEW d \in Nat, NEW e \in Nat,
           NEW f \in Nat, FlowInv(p, v, r, a, b, c, d, e, f)
    PROVE  Preserved(p, v, r)
<1>1. /\ transmit.at = "sending" /\ transmit.out \in Outgoing /\ transmit'.at # "sending"
      /\ latest' = IF Pristine(transmit.out.pkt)
                   THEN [latest EXCEPT ![transmit.out.port][transmit.out.vn]
                                       [transmit.out.pkt.from] = transmit.out.pkt.nr]
                   ELSE latest
      /\ AtWire(p, v, r, a)
  BY DEF TypeOK, TransmitOK, TransmitSend, FlowInv
<1>2. /\ egress_buffers' = egress_buffers /\ worker' = worker /\ ingress' = ingress
      /\ queue_lo' = queue_lo /\ receiver' = receiver /\ output_buffer' = output_buffer
  BY DEF TransmitSend, buffers
<1>3. /\ AtWorker(p, v, r, b, c)' /\ Ordered(egress_buffers'[p][v], PktNr(r), c, d)
      /\ AtIngress(r, d, e)' /\ Ordered(queue_lo', PktNr(r), e, f) /\ AtReceiver(r, f)'
      /\ Ordered(output_buffer', OutNr(p, v, r), a, b) /\ a <= b /\ c <= d /\ e <= f
  BY <1>2, Undisturbed, SMTT(30)
<1>4. latest'[p][v][r] <= a
  <2> DEFINE out == transmit.out
  <2>1. CASE transmit.out \in DOMAIN OutNr(p, v, r)
    <3>1. /\ out.port = p /\ out.vn = v /\ out.pkt.from = r /\ Pristine(out.pkt)
          /\ out.pkt.nr <= a
      BY <1>1, <2>1, Numbers DEF AtWire
    <3>2. latest' = [latest EXCEPT ![p][v][r] = out.pkt.nr]
      BY <1>1, <3>1
    <3>3. latest'[p][v][r] = out.pkt.nr
      BY <3>2 DEF TypeOK
    <3> QED
      BY <3>1, <3>3
  <2>2. CASE transmit.out \notin DOMAIN OutNr(p, v, r)
    <3>1. latest[p][v][r] <= a
      BY <1>1 DEF AtWire
    <3>2. CASE latest' = latest
      BY <3>1, <3>2
    <3>3. CASE Pristine(out.pkt)
      <4>1. /\ out.port \in Ports /\ out.vn \in VNs /\ out.pkt \in Packet
            /\ out.pkt.from \in Receivers
        BY <1>1 DEF Outgoing, Packet
      <4>2. ~(out.port = p /\ out.vn = v /\ out.pkt.from = r)
        BY <1>1, <2>2, <3>3, <4>1, Numbers
      <4>3. latest' = [latest EXCEPT ![out.port][out.vn][out.pkt.from] = out.pkt.nr]
        BY <1>1, <3>3
      <4> HIDE DEF out
      <4>4. latest'[p][v][r] = latest[p][v][r]
        BY <4>1, <4>2, <4>3 DEF TypeOK
      <4> QED
        BY <3>1, <4>4
    <3> QED
      BY <1>1, <3>2, <3>3
  <2> QED
    BY <2>1, <2>2
<1>5. AtWire(p, v, r, a)'
  BY <1>1, <1>4 DEF AtWire
<1>6. FlowInv(p, v, r, a, b, c, d, e, f)'
  BY <1>3, <1>5, Assembled
<1> QED
  BY <1>6 DEF Preserved

\* Steps that move no packet: notifications, waits that return, the destructor's own
\* progress, the sentinel of the ingress thread, a mirroring session.
LEMMA QuietFlow ==
    ASSUME TypeOK,
           \/ \E w \in Workers : EgressNotify(w)
           \/ Shutdown \/ StopIngress \/ StopIngressNotify \/ Join
           \/ SpuriousWakeup \/ SetMirroring \/ UNCHANGED vars,
           NEW p \in Ports, NEW v \in VNs, NEW r \in Receivers,
           NEW a \in Nat, NEW b \in Nat, NEW c \in Nat, NEW d \in Nat, NEW e \in Nat,
           NEW f \in Nat, FlowInv(p, v, r, a, b, c, d, e, f)
    PROVE  Preserved(p, v, r)
<1>1. /\ latest' = latest /\ transmit' = transmit /\ output_buffer' = output_buffer
      /\ egress_buffers' = egress_buffers /\ queue_lo' = queue_lo
  BY DEF EgressNotify, Shutdown, StopIngress, StopIngressNotify, Join, SpuriousWakeup,
         SetMirroring, vars, buffers
<1>2. ingress'.pkt = ingress.pkt /\ ingress'.todo = ingress.todo
  <2>1. \/ ingress' = ingress \/ NotifyCanPop \/ ingress' = [ingress EXCEPT !.at = "popping"]
    BY DEF EgressNotify, Shutdown, StopIngress, StopIngressNotify, Join, SpuriousWakeup,
           SetMirroring, vars
  <2> QED
    BY <2>1, NotifyCanPopType DEF TypeOK, IngressOK
<1>3. AtWorker(p, v, r, b, c)'
  <2>1. \A w \in Workers : worker'[w].todo = worker[w].todo
    <3>1. CASE worker' = worker
      BY <3>1
    <3>2. ASSUME NEW w \in Workers, EgressNotify(w)
          PROVE  \A u \in Workers : worker'[u].todo = worker[u].todo
      BY <3>2 DEF EgressNotify, TypeOK, WorkersOK
    <3> QED
      BY <3>1, <3>2 DEF Shutdown, StopIngress, StopIngressNotify, Join, SpuriousWakeup,
                        SetMirroring, vars
  <2> QED
    BY <2>1 DEF FlowInv, AtWorker
<1>4. AtReceiver(r, f)'
  <2>1. \/ receiver' = receiver
        \/ \E s \in BlockedReceivers : receiver' = [receiver EXCEPT ![s].at = "pushing"]
    BY DEF EgressNotify, Shutdown, StopIngress, StopIngressNotify, Join, SpuriousWakeup,
           SetMirroring, vars
  <2>2. AtReceiver(r, f)
    BY DEF FlowInv
  <2> QED
    BY <2>1, <2>2, Woken
<1>5. /\ AtWire(p, v, r, a)' /\ Ordered(egress_buffers'[p][v], PktNr(r), c, d)
      /\ AtIngress(r, d, e)' /\ Ordered(queue_lo', PktNr(r), e, f)
      /\ Ordered(output_buffer', OutNr(p, v, r), a, b) /\ a <= b /\ c <= d /\ e <= f
  BY <1>1, <1>2, Undisturbed, SMTT(30)
<1>6. FlowInv(p, v, r, a, b, c, d, e, f)'
  BY <1>3, <1>4, <1>5, Assembled
<1> QED
  BY <1>6 DEF Preserved

\* What Enqueued does to one queue.
LEMMA EnqueuedOne ==
    ASSUME TypeOK, NEW i \in Ports, NEW u \in VNs, NEW x, Enqueued(i, u, x),
           NEW p \in Ports, NEW v \in VNs
    PROVE  \/ egress_buffers'[p][v] = egress_buffers[p][v]
           \/ i = p /\ u = v /\ egress_buffers'[p][v] = Append(egress_buffers[p][v], x)
<1> DEFINE t == Stored(egress_buffers[i][u], QueueCapacity, x)
<1>1. egress_buffers' = [egress_buffers EXCEPT ![i][u] = t]
  BY DEF Enqueued
<1>2. t = egress_buffers[i][u] \/ t = Append(egress_buffers[i][u], x)
  BY DEF Stored
<1> HIDE DEF t
<1>3. egress_buffers'[p][v] = IF p = i /\ v = u THEN t ELSE egress_buffers[p][v]
  BY <1>1 DEF TypeOK, EgressOK
<1> QED
  BY <1>2, <1>3

\* What does not belong to the flow may be enqueued anywhere.
LEMMA EnqueuedElse ==
    ASSUME TypeOK, NEW i \in Ports, NEW u \in VNs, NEW x, Enqueued(i, u, x),
           NEW p \in Ports, NEW v \in VNs, NEW r \in Receivers, NEW c \in Nat, NEW d \in Nat,
           c <= d, Ordered(egress_buffers[p][v], PktNr(r), c, d),
           x \in DOMAIN PktNr(r) => ~(i = p /\ u = v)
    PROVE  Ordered(egress_buffers'[p][v], PktNr(r), c, d)
<1>1. egress_buffers[p][v] \in Seq(Packet \cup {Null})
  BY DEF TypeOK, EgressOK
<1>2. CASE egress_buffers'[p][v] = egress_buffers[p][v]
  BY <1>2
<1>3. CASE i = p /\ u = v /\ egress_buffers'[p][v] = Append(egress_buffers[p][v], x)
  <2>1. x \notin DOMAIN PktNr(r)
    BY <1>3
  <2>2. Ordered(Append(egress_buffers[p][v], x), PktNr(r), c, d)
    BY <1>1, <2>1, PktAppend
  <2> QED
    BY <1>3, <2>2
<1>4. \/ egress_buffers'[p][v] = egress_buffers[p][v]
      \/ i = p /\ u = v /\ egress_buffers'[p][v] = Append(egress_buffers[p][v], x)
  BY EnqueuedOne
<1> QED
  BY <1>2, <1>3, <1>4

\* InputBuffer::pop_back
LEMMA IngressPopFlow ==
    ASSUME TypeOK, Shape, IngressPop,
           NEW p \in Ports, NEW v \in VNs, NEW r \in Receivers,
           NEW a \in Nat, NEW b \in Nat, NEW c \in Nat, NEW d \in Nat, NEW e \in Nat,
           NEW f \in Nat, FlowInv(p, v, r, a, b, c, d, e, f)
    PROVE  Preserved(p, v, r)
<1>1. /\ queue_lo \in Seq(Packet) /\ Ordered(queue_lo, PktNr(r), e, f)
      /\ AtIngress(r, d, e) /\ d <= e /\ IngressOK /\ HiShape
      /\ queue_hi \in Seq(Packet \cup {Null})
  BY DEF TypeOK, InputOK, FlowInv, AtIngress, Shape
<1>2. /\ latest' = latest /\ transmit' = transmit /\ output_buffer' = output_buffer
      /\ egress_buffers' = egress_buffers /\ worker' = worker /\ receiver' = receiver
      /\ ingress'.todo = ingress.todo
  BY <1>1 DEF IngressPop, IngressOK
<1>3. /\ AtWire(p, v, r, a)' /\ AtWorker(p, v, r, b, c)' /\ AtReceiver(r, f)'
      /\ Ordered(egress_buffers'[p][v], PktNr(r), c, d)
      /\ Ordered(output_buffer', OutNr(p, v, r), a, b) /\ a <= b /\ c <= d /\ e <= f
  BY <1>2, Undisturbed, SMTT(30)
<1>4. ASSUME queue_lo' = queue_lo, ingress'.pkt \in DOMAIN PktNr(r) => ingress'.pkt = ingress.pkt
      PROVE  Preserved(p, v, r)
  <2>1. AtIngress(r, d, e)'
    BY <1>1, <1>2, <1>4 DEF AtIngress
  <2>2. FlowInv(p, v, r, a, b, c, d, e, f)'
    BY <1>1, <1>3, <1>4, <2>1, Assembled
  <2> QED
    BY <2>2 DEF Preserved
<1>5. CASE queue_hi # <<>>
  <2>1. ingress'.pkt = queue_hi[1] /\ 1 \in DOMAIN queue_hi /\ queue_lo' = queue_lo
    BY <1>1, <1>5, TailElements DEF IngressPop, IngressOK
  <2>2. ingress'.pkt \notin DOMAIN PktNr(r)
    BY <1>1, <2>1, Numbers DEF HiShape
  <2> QED
    BY <1>4, <2>1, <2>2
<1>6. CASE queue_hi = <<>> /\ queue_lo = <<>>
  <2>1. ingress'.pkt = ingress.pkt /\ queue_lo' = queue_lo
    BY <1>1, <1>6 DEF IngressPop, IngressOK
  <2> QED
    BY <1>4, <2>1
<1>7. CASE queue_hi = <<>> /\ queue_lo # <<>>
  <2>1. ingress'.pkt = Head(queue_lo) /\ queue_lo' = Tail(queue_lo)
    BY <1>1, <1>7 DEF IngressPop, IngressOK
  <2>2. /\ Ordered(Tail(queue_lo), PktNr(r), e, f)
        /\ Head(queue_lo) \in DOMAIN PktNr(r) =>
              /\ Head(queue_lo).nr \in Nat
              /\ e < Head(queue_lo).nr /\ Head(queue_lo).nr <= f
              /\ Ordered(Tail(queue_lo), PktNr(r), Head(queue_lo).nr, f)
    BY <1>1, <1>7, PktTail
  <2>3. CASE Head(queue_lo) \in DOMAIN PktNr(r)
    <3> PICK g \in Nat : g = Head(queue_lo).nr
      BY <2>2, <2>3
    <3>1. Ordered(queue_lo', PktNr(r), g, f) /\ e < g /\ g <= f /\ ingress'.pkt.nr = g
      BY <2>1, <2>2, <2>3
    <3>2. \A i \in DOMAIN ingress.todo : ingress.todo[i].pkt \in DOMAIN PktNr(r) =>
             d < ingress.todo[i].pkt.nr /\ ingress.todo[i].pkt.nr <= g
      BY <1>1, <3>1, Numbers DEF AtIngress
    <3>3. AtIngress(r, d, g)'
      BY <1>1, <1>2, <3>1, <3>2 DEF AtIngress
    <3>4. FlowInv(p, v, r, a, b, c, d, g, f)'
      BY <1>3, <3>1, <3>3, Assembled
    <3> QED
      BY <3>4 DEF Preserved
  <2>4. CASE Head(queue_lo) \notin DOMAIN PktNr(r)
    <3>1. AtIngress(r, d, e)'
      BY <1>1, <1>2, <2>1, <2>4 DEF AtIngress
    <3>2. FlowInv(p, v, r, a, b, c, d, e, f)'
      BY <1>3, <2>1, <2>2, <3>1, Assembled
    <3> QED
      BY <3>2 DEF Preserved
  <2> QED
    BY <2>3, <2>4
<1> QED
  BY <1>5, <1>6, <1>7

\* The ingress pipeline: the packet goes on to the end of the plan, or ends.
LEMMA IngressBeginFlow ==
    ASSUME TypeOK, IngressBegin,
           NEW p \in Ports, NEW v \in VNs, NEW r \in Receivers,
           NEW a \in Nat, NEW b \in Nat, NEW c \in Nat, NEW d \in Nat, NEW e \in Nat,
           NEW f \in Nat, FlowInv(p, v, r, a, b, c, d, e, f)
    PROVE  Preserved(p, v, r)
<1>1. /\ AtIngress(r, d, e) /\ d <= e /\ IngressOK /\ AtReceiver(r, f)
      /\ mirroring \in Sessions \cup {NoSession}
  BY DEF TypeOK, FlowInv, AtIngress
<1>2. /\ latest' = latest /\ transmit' = transmit /\ output_buffer' = output_buffer
      /\ egress_buffers' = egress_buffers /\ worker' = worker /\ queue_lo' = queue_lo
      /\ receiver' = receiver \/ NotifyCanPushLo
  BY DEF IngressBegin, buffers
<1>3. AtReceiver(r, f)'
  BY <1>1, <1>2, Woken DEF NotifyCanPushLo
<1>4. /\ AtWire(p, v, r, a)' /\ AtWorker(p, v, r, b, c)' /\ Ordered(queue_lo', PktNr(r), e, f)
      /\ Ordered(egress_buffers'[p][v], PktNr(r), c, d)
      /\ Ordered(output_buffer', OutNr(p, v, r), a, b) /\ a <= b /\ c <= d /\ e <= f
  BY <1>2, Undisturbed, SMTT(30)
<1>5. AtIngress(r, d, e)'
  <2>1. CASE ingress' = [ingress EXCEPT !.at = "ended"]
    <3>1. ingress'.pkt = ingress.pkt /\ ingress'.todo = ingress.todo
      BY <1>1, <2>1 DEF IngressOK
    <3> QED
      BY <3>1, Undisturbed
  <2>2. ASSUME NEW k \in IngressVerdicts, ingress.pkt \in Packet, MayAsk(ingress.pkt, k),
               ingress' = [at   |-> Continuing(IngressPlan(ingress.pkt, k)),
                           pkt  |-> Null,
                           todo |-> IngressPlan(ingress.pkt, k)]
        PROVE  AtIngress(r, d, e)'
    <3> DEFINE plan == IngressPlan(ingress.pkt, k)
    <3>1. \A i \in DOMAIN plan : Pristine(plan[i].pkt) => plan[i].pkt = ingress.pkt
      BY <1>1, <2>2, IngressPlanType
    <3>2. ingress'.pkt = Null /\ ingress'.todo = plan
      BY <2>2
    <3> HIDE DEF plan
    <3>3. \A i \in DOMAIN plan : plan[i].pkt \in DOMAIN PktNr(r) => plan[i].pkt = ingress.pkt
      BY <3>1, Numbers
    <3> QED
      BY <1>1, <3>2, <3>3, Numbers DEF AtIngress
  <2> QED
    BY <2>1, <2>2, IngressBegins
<1>6. FlowInv(p, v, r, a, b, c, d, e, f)'
  BY <1>3, <1>4, <1>5, Assembled
<1> QED
  BY <1>6 DEF Preserved

\* One push of the ingress thread: a pristine packet is the last of its plan.
LEMMA IngressStepFlow ==
    ASSUME TypeOK, Shape, IngressStep,
           NEW p \in Ports, NEW v \in VNs, NEW r \in Receivers,
           NEW a \in Nat, NEW b \in Nat, NEW c \in Nat, NEW d \in Nat, NEW e \in Nat,
           NEW f \in Nat, FlowInv(p, v, r, a, b, c, d, e, f)
    PROVE  Preserved(p, v, r)
<1> DEFINE op == Head(ingress.todo)
           rest == Tail(ingress.todo)
<1>1. /\ AtIngress(r, d, e) /\ d <= e /\ IngressOK /\ IngressShape
      /\ ingress.at = "running" /\ ingress.todo \in Seq(IngressOp) /\ ingress.todo # <<>>
      /\ Ordered(egress_buffers[p][v], PktNr(r), c, d)
      /\ egress_buffers[p][v] \in Seq(Packet \cup {Null})
  BY DEF TypeOK, EgressOK, IngressOK, Shape, FlowInv, AtIngress, IngressStep
<1>2. /\ latest' = latest /\ transmit' = transmit /\ output_buffer' = output_buffer
      /\ worker' = worker /\ queue_lo' = queue_lo /\ receiver' = receiver
      /\ ingress' = [ingress EXCEPT !.at = Continuing(rest), !.todo = rest]
      /\ \/ egress_buffers' = egress_buffers
         \/ op.do = "enqueue" /\ Enqueued(op.port, op.vn, op.pkt)
  BY DEF IngressStep
<1>3. /\ AtWire(p, v, r, a)' /\ AtWorker(p, v, r, b, c)' /\ Ordered(queue_lo', PktNr(r), e, f)
      /\ Ordered(output_buffer', OutNr(p, v, r), a, b) /\ AtReceiver(r, f)'
      /\ a <= b /\ b <= c /\ c <= d /\ e <= f
  BY <1>2, Undisturbed, SMTT(30)
<1>4. /\ 1 \in DOMAIN ingress.todo /\ op = ingress.todo[1] /\ op \in IngressOp
      /\ Len(ingress.todo) = 1 => rest = <<>>
      /\ \A i \in DOMAIN rest : i + 1 \in DOMAIN ingress.todo /\ rest[i] = ingress.todo[i + 1]
  BY <1>1, TailElements
<1>5. ingress'.pkt = Null /\ ingress'.todo = rest
  BY <1>1, <1>2 DEF IngressOK, IngressShape
<1>6. op.do = "enqueue" => op.port \in Ports /\ op.vn \in VNs
  BY <1>4 DEF IngressOp, EnqueueOp
<1> HIDE DEF op, rest
<1>7. AtIngress(r, d, e)'
  BY <1>1, <1>4, <1>5, Numbers DEF AtIngress
<1>8. ASSUME Ordered(egress_buffers'[p][v], PktNr(r), c, d) PROVE Preserved(p, v, r)
  <2>1. FlowInv(p, v, r, a, b, c, d, e, f)'
    BY <1>3, <1>7, <1>8, Assembled
  <2> QED
    BY <2>1 DEF Preserved
<1>9. CASE egress_buffers'[p][v] = egress_buffers[p][v]
  BY <1>1, <1>8, <1>9
<1>10. CASE /\ op.pkt \in DOMAIN PktNr(r)
            /\ egress_buffers'[p][v] = Append(egress_buffers[p][v], op.pkt)
  <2> PICK g \in Nat : g = op.pkt.nr
    BY <1>10, Numbers
  <2>1. d < g /\ g <= e
    BY <1>1, <1>4, <1>10 DEF AtIngress
  <2>2. Ordered(Append(egress_buffers[p][v], op.pkt), PktNr(r), c, g)
    <3>1. d < op.pkt.nr /\ op.pkt.nr <= g /\ d <= g
      BY <2>1
    <3> QED
      BY <1>1, <1>3, <3>1, PktAppend
  <2>3. rest = <<>>
    <3>1. Pristine(op.pkt)
      BY <1>10, Numbers
    <3>2. Len(ingress.todo) = 1
      BY <1>1, <1>4, <3>1 DEF IngressShape
    <3> QED
      BY <1>4, <3>2
  <2>4. AtIngress(r, g, e)'
    <3>1. DOMAIN rest = {}
      BY <2>3
    <3> QED
      BY <1>5, <2>1, <3>1, Numbers DEF AtIngress
  <2>5. c <= g
    BY <1>3, <2>1
  <2>6. FlowInv(p, v, r, a, b, c, g, e, f)'
    BY <1>3, <1>10, <2>2, <2>4, <2>5, Assembled
  <2> QED
    BY <2>6 DEF Preserved
<1>11. CASE op.pkt \notin DOMAIN PktNr(r) /\ Enqueued(op.port, op.vn, op.pkt)
            /\ op.port \in Ports /\ op.vn \in VNs
  <2>1. Ordered(egress_buffers'[p][v], PktNr(r), c, d)
    BY <1>1, <1>3, <1>11, EnqueuedElse
  <2> QED
    BY <1>8, <2>1
<1>12. CASE op.do = "enqueue" /\ Enqueued(op.port, op.vn, op.pkt)
  <2>1. \/ egress_buffers'[p][v] = egress_buffers[p][v]
        \/ egress_buffers'[p][v] = Append(egress_buffers[p][v], op.pkt)
    BY <1>6, <1>12, EnqueuedOne
  <2> QED
    BY <1>6, <1>9, <1>10, <1>11, <1>12, <2>1
<1> QED
  BY <1>2, <1>9, <1>12

\* What the destructor pushes belongs to no flow.
LEMMA StopFlow ==
    ASSUME TypeOK, StopEgress \/ StopTransmit,
           NEW p \in Ports, NEW v \in VNs, NEW r \in Receivers,
           NEW a \in Nat, NEW b \in Nat, NEW c \in Nat, NEW d \in Nat, NEW e \in Nat,
           NEW f \in Nat, FlowInv(p, v, r, a, b, c, d, e, f)
    PROVE  Preserved(p, v, r)
<1>1. /\ latest' = latest /\ transmit' = transmit /\ worker' = worker
      /\ queue_lo' = queue_lo /\ receiver' = receiver /\ ingress' = ingress
  BY DEF StopEgress, StopTransmit
<1>2. /\ AtWire(p, v, r, a)' /\ AtWorker(p, v, r, b, c)' /\ Ordered(queue_lo', PktNr(r), e, f)
      /\ AtReceiver(r, f)' /\ AtIngress(r, d, e)'
      /\ a <= b /\ b <= c /\ c <= d /\ e <= f
  BY <1>1, Undisturbed, SMTT(30)
<1>3. /\ output_buffer \in Seq(Outgoing \cup {Null})
      /\ Ordered(output_buffer, OutNr(p, v, r), a, b)
      /\ Ordered(egress_buffers[p][v], PktNr(r), c, d)
      /\ Null \notin DOMAIN PktNr(r) /\ Null \notin DOMAIN OutNr(p, v, r)
  BY Numbers DEF TypeOK, OutputOK, FlowInv
<1>4. Ordered(egress_buffers'[p][v], PktNr(r), c, d)
  <2>1. CASE egress_buffers' = egress_buffers
    BY <1>3, <2>1
  <2>2. CASE StopEgress
    <3>1. destructor.next \in Ports /\ 0 \in VNs /\ Enqueued(destructor.next, 0, Null)
      BY <2>2, Constants DEF TypeOK, DestructorOK, StopEgress
    <3> QED
      BY <1>2, <1>3, <3>1, EnqueuedElse
  <2> QED
    BY <2>1, <2>2 DEF StopTransmit
<1>5. Ordered(output_buffer', OutNr(p, v, r), a, b)
  <2>1. Ordered(Append(output_buffer, Null), OutNr(p, v, r), a, b)
    BY <1>2, <1>3, OutAppend
  <2>2. output_buffer' = output_buffer \/ output_buffer' = Append(output_buffer, Null)
    BY DEF StopEgress, StopTransmit
  <2> QED
    BY <1>3, <2>1, <2>2
<1>6. FlowInv(p, v, r, a, b, c, d, e, f)'
  BY <1>2, <1>4, <1>5, Assembled
<1> QED
  BY <1>6 DEF Preserved

\* An egress thread's new plan holds no packet of the flow but the one it popped.
LEMMA EgressPlanned ==
    ASSUME TypeOK, NEW w \in Workers, NEW i \in Ports, NEW u \in VNs, NEW pkt,
           \/ pkt = Null /\ worker' = [worker EXCEPT ![w].at = "ended"]
           \/ /\ pkt \in Packet
              /\ \E k \in EgressVerdicts :
                    /\ MayAsk(pkt, k)
                    /\ worker' = [worker EXCEPT ![w] =
                                    [at   |-> Continuing(EgressPlan(i, u, pkt, k)),
                                     todo |-> EgressPlan(i, u, pkt, k)]],
           NEW p \in Ports, NEW v \in VNs, NEW r \in Receivers, NEW b \in Nat, NEW c \in Nat,
           NEW g \in Nat, AtWorker(p, v, r, b, c), c <= g,
           i = p /\ u = v /\ pkt \in DOMAIN PktNr(r) => c < pkt.nr /\ pkt.nr <= g
    PROVE  AtWorker(p, v, r, b, g)'
<1>1. b <= c /\ b <= g
  BY DEF AtWorker
<1>2. ASSUME NEW t \in Workers, NEW j \in DOMAIN worker[t].todo,
             worker[t].todo[j].pkt \in DOMAIN PktNr(r),
             worker[t].todo[j].port = p, worker[t].todo[j].vn = v
      PROVE  b < worker[t].todo[j].pkt.nr /\ worker[t].todo[j].pkt.nr <= g
  <2>1. worker[t].todo[j].pkt.nr \in Nat
    BY <1>2, Numbers
  <2>2. b < worker[t].todo[j].pkt.nr /\ worker[t].todo[j].pkt.nr <= c
    BY <1>2 DEF AtWorker
  <2> QED
    BY <2>1, <2>2
<1>3. CASE worker' = [worker EXCEPT ![w].at = "ended"]
  <2>1. \A t \in Workers : worker'[t].todo = worker[t].todo
    BY <1>3 DEF TypeOK, WorkersOK
  <2> QED
    BY <1>1, <1>2, <2>1 DEF AtWorker
<1>4. ASSUME NEW k \in EgressVerdicts, pkt \in Packet, MayAsk(pkt, k),
             worker' = [worker EXCEPT ![w] = [at   |-> Continuing(EgressPlan(i, u, pkt, k)),
                                              todo |-> EgressPlan(i, u, pkt, k)]]
      PROVE  AtWorker(p, v, r, b, g)'
  <2> DEFINE plan == EgressPlan(i, u, pkt, k)
  <2>1. \A j \in DOMAIN plan : Pristine(plan[j].pkt) =>
           plan[j] = [do |-> "output", port |-> i, vn |-> u, pkt |-> pkt]
    BY <1>4, EgressPlanType DEF TypeOK
  <2>2. worker' = [worker EXCEPT ![w] = [at |-> Continuing(plan), todo |-> plan]]
    BY <1>4
  <2> HIDE DEF plan
  <2>3. /\ worker'[w] = [at |-> Continuing(plan), todo |-> plan]
        /\ \A t \in Workers : t # w => worker'[t] = worker[t]
    BY <2>2, WorkerReplaced
  <2>4. worker'[w].todo = plan
    BY <2>3
  <2>5. ASSUME NEW j \in DOMAIN plan, plan[j].pkt \in DOMAIN PktNr(r),
               plan[j].port = p, plan[j].vn = v
        PROVE  b < plan[j].pkt.nr /\ plan[j].pkt.nr <= g
    <3>1. plan[j] = [do |-> "output", port |-> i, vn |-> u, pkt |-> pkt]
      BY <2>1, <2>5, Numbers
    <3>2. plan[j].pkt = pkt /\ i = p /\ u = v
      BY <2>5, <3>1
    <3>3. pkt.nr \in Nat
      BY <2>5, <3>2, Numbers
    <3> QED
      BY <1>1, <2>5, <3>2, <3>3
  <2> QED
    BY <1>1, <1>2, <2>3, <2>4, <2>5 DEF AtWorker
<1> QED
  BY <1>3, <1>4

\* An egress thread takes a packet out of a queue.
LEMMA EgressBeginFlow ==
    ASSUME TypeOK, NEW w \in Workers, EgressBegin(w),
           NEW p \in Ports, NEW v \in VNs, NEW r \in Receivers,
           NEW a \in Nat, NEW b \in Nat, NEW c \in Nat, NEW d \in Nat, NEW e \in Nat,
           NEW f \in Nat, FlowInv(p, v, r, a, b, c, d, e, f)
    PROVE  Preserved(p, v, r)
<1> PICK i \in PortsOf(w), u \in VNs :
          /\ egress_buffers[i][u] # <<>>
          /\ egress_buffers' = [egress_buffers EXCEPT ![i][u] = Tail(@)]
          /\ LET pkt == Head(egress_buffers[i][u])
             IN \/ pkt = Null /\ worker' = [worker EXCEPT ![w].at = "ended"]
                \/ /\ pkt \in Packet
                   /\ \E k \in EgressVerdicts :
                         /\ MayAsk(pkt, k)
                         /\ worker' = [worker EXCEPT ![w] =
                                         [at   |-> Continuing(EgressPlan(i, u, pkt, k)),
                                          todo |-> EgressPlan(i, u, pkt, k)]]
  BY EgressBegins
<1> DEFINE pkt == Head(egress_buffers[i][u])
<1>1. /\ latest' = latest /\ transmit' = transmit /\ output_buffer' = output_buffer
      /\ queue_lo' = queue_lo /\ receiver' = receiver /\ ingress' = ingress
  BY DEF EgressBegin
<1>2. /\ AtWire(p, v, r, a)' /\ Ordered(output_buffer', OutNr(p, v, r), a, b)
      /\ Ordered(queue_lo', PktNr(r), e, f)
      /\ AtReceiver(r, f)' /\ AtIngress(r, d, e)'
      /\ a <= b /\ b <= c /\ c <= d /\ e <= f
  BY <1>1, Undisturbed, SMTT(30)
<1>3. /\ Ordered(egress_buffers[p][v], PktNr(r), c, d) /\ AtWorker(p, v, r, b, c)
      /\ egress_buffers[p][v] \in Seq(Packet \cup {Null}) /\ i \in Ports
  BY DEF TypeOK, EgressOK, FlowInv, PortsOf
<1>4. egress_buffers'[p][v] = IF i = p /\ u = v THEN Tail(egress_buffers[p][v])
                              ELSE egress_buffers[p][v]
  BY <1>3 DEF TypeOK, EgressOK
<1>5. \/ pkt = Null /\ worker' = [worker EXCEPT ![w].at = "ended"]
      \/ /\ pkt \in Packet
         /\ \E k \in EgressVerdicts :
               /\ MayAsk(pkt, k)
               /\ worker' = [worker EXCEPT ![w] =
                               [at   |-> Continuing(EgressPlan(i, u, pkt, k)),
                                todo |-> EgressPlan(i, u, pkt, k)]]
  OBVIOUS
<1>6. i = p /\ u = v => egress_buffers[p][v] # <<>> /\ pkt = Head(egress_buffers[p][v])
  OBVIOUS
<1> HIDE DEF pkt
<1>7. ASSUME NEW g \in Nat, c <= g, g <= d,
             i = p /\ u = v /\ pkt \in DOMAIN PktNr(r) => c < pkt.nr /\ pkt.nr <= g,
             Ordered(egress_buffers'[p][v], PktNr(r), g, d)
      PROVE  Preserved(p, v, r)
  <2>1. AtWorker(p, v, r, b, g)'
    <3>1. AtWorker(p, v, r, b, c) /\ i \in Ports
      BY <1>3
    <3> QED
      BY <1>5, <1>7, <3>1, EgressPlanned, SMTT(60)
  <2>2. FlowInv(p, v, r, a, b, g, d, e, f)'
    BY <1>2, <1>7, <2>1, Assembled
  <2> QED
    BY <2>2 DEF Preserved
<1>8. CASE i = p /\ u = v
  <2>1. /\ Ordered(Tail(egress_buffers[p][v]), PktNr(r), c, d)
        /\ pkt \in DOMAIN PktNr(r) =>
              /\ pkt.nr \in Nat /\ c < pkt.nr /\ pkt.nr <= d
              /\ Ordered(Tail(egress_buffers[p][v]), PktNr(r), pkt.nr, d)
    BY <1>3, <1>6, <1>8, PktTail
  <2>2. CASE pkt \in DOMAIN PktNr(r)
    <3> PICK g \in Nat : g = pkt.nr
      BY <2>1, <2>2
    <3>1. c < pkt.nr /\ pkt.nr <= g /\ c <= g /\ g <= d
      BY <2>1, <2>2
    <3>2. Ordered(egress_buffers'[p][v], PktNr(r), g, d)
      BY <1>4, <1>8, <2>1, <2>2
    <3> QED
      BY <1>7, <3>1, <3>2
  <2>3. CASE pkt \notin DOMAIN PktNr(r)
    BY <1>2, <1>4, <1>7, <1>8, <2>1, <2>3
  <2> QED
    BY <2>2, <2>3
<1>9. CASE ~(i = p /\ u = v)
  BY <1>2, <1>3, <1>4, <1>7, <1>9
<1> QED
  BY <1>8, <1>9

\* One push of an egress thread: a pristine packet is the last of its plan, and the
\* other egress threads have none of its port.
LEMMA EgressStepFlow ==
    ASSUME TypeOK, Shape, NEW w \in Workers, EgressStep(w),
           NEW p \in Ports, NEW v \in VNs, NEW r \in Receivers,
           NEW a \in Nat, NEW b \in Nat, NEW c \in Nat, NEW d \in Nat, NEW e \in Nat,
           NEW f \in Nat, FlowInv(p, v, r, a, b, c, d, e, f)
    PROVE  Preserved(p, v, r)
<1> DEFINE op == Head(worker[w].todo)
           rest == Tail(worker[w].todo)
           out == [pkt |-> op.pkt, port |-> op.port, vn |-> op.vn]
<1>1. /\ AtWorker(p, v, r, b, c) /\ b <= c /\ WorkerShape
      /\ worker[w].todo \in Seq(EgressOp) /\ worker[w].todo # <<>>
      /\ Ordered(egress_buffers[p][v], PktNr(r), c, d)
      /\ Ordered(output_buffer, OutNr(p, v, r), a, b)
      /\ output_buffer \in Seq(Outgoing \cup {Null})
  BY DEF TypeOK, WorkersOK, OutputOK, Shape, FlowInv, AtWorker, EgressStep
<1>2. /\ latest' = latest /\ transmit' = transmit
      /\ queue_lo' = queue_lo /\ receiver' = receiver /\ ingress' = ingress
      /\ \E x : worker' = [worker EXCEPT ![w] = [at |-> x, todo |-> rest]]
      /\ \/ /\ op.do = "enqueue" /\ Enqueued(op.port, op.vn, op.pkt)
            /\ output_buffer' = output_buffer
         \/ egress_buffers' = egress_buffers /\ output_buffer' = output_buffer
         \/ /\ op.do = "output" /\ egress_buffers' = egress_buffers
            /\ output_buffer' = Append(output_buffer, out)
  BY DEF EgressStep
<1>3. /\ AtWire(p, v, r, a)' /\ AtIngress(r, d, e)' /\ Ordered(queue_lo', PktNr(r), e, f)
      /\ AtReceiver(r, f)' /\ a <= b /\ c <= d /\ e <= f
  BY <1>2, Undisturbed, SMTT(30)
<1>4. /\ 1 \in DOMAIN worker[w].todo /\ op = worker[w].todo[1] /\ op \in EgressOp
      /\ Len(worker[w].todo) = 1 => rest = <<>>
      /\ \A i \in DOMAIN rest :
            i + 1 \in DOMAIN worker[w].todo /\ rest[i] = worker[w].todo[i + 1]
  BY <1>1, TailElements
<1>5. /\ op.do = "enqueue" => op.port \in Ports /\ op.vn \in VNs /\ op.pkt \in Packet
      /\ op.do = "output" => op.port \in Ports /\ op.vn \in VNs /\ op.pkt \in Packet
  BY <1>4 DEF EgressOp, EnqueueOp
<1>6. Pristine(op.pkt) => op.do = "output" /\ w = EgressThread(op.port) /\ rest = <<>>
  BY <1>1, <1>4 DEF WorkerShape
<1>7. out.pkt = op.pkt /\ out.port = op.port /\ out.vn = op.vn
  OBVIOUS
<1>8. op.do = "output" => out \in Outgoing
  BY <1>5 DEF Outgoing
<1> HIDE DEF op, rest, out
<1> PICK x : worker' = [worker EXCEPT ![w] = [at |-> x, todo |-> rest]]
  BY <1>2
<1>9. /\ worker'[w].todo = rest
      /\ \A t \in Workers : t # w => worker'[t] = worker[t]
  <2>1. /\ worker'[w] = [at |-> x, todo |-> rest]
        /\ \A t \in Workers : t # w => worker'[t] = worker[t]
    BY WorkerReplaced
  <2> QED
    BY <2>1
<1>10. AtWorker(p, v, r, b, c)'
  <2>1. \A i \in DOMAIN rest : rest[i].pkt \in DOMAIN PktNr(r) /\ rest[i].port = p /\ rest[i].vn = v
           => b < rest[i].pkt.nr /\ rest[i].pkt.nr <= c
    BY <1>1, <1>4 DEF AtWorker
  <2> QED
    BY <1>1, <1>9, <2>1 DEF AtWorker
<1>11. ASSUME Ordered(egress_buffers'[p][v], PktNr(r), c, d),
              Ordered(output_buffer', OutNr(p, v, r), a, b)
       PROVE  Preserved(p, v, r)
  <2>1. FlowInv(p, v, r, a, b, c, d, e, f)'
    BY <1>3, <1>10, <1>11, Assembled
  <2> QED
    BY <2>1 DEF Preserved
<1>12. CASE egress_buffers' = egress_buffers /\ output_buffer' = output_buffer
  BY <1>1, <1>11, <1>12
<1>13. CASE op.do = "enqueue" /\ Enqueued(op.port, op.vn, op.pkt) /\ output_buffer' = output_buffer
  <2>1. op.pkt \notin DOMAIN PktNr(r)
    BY <1>6, <1>13, Numbers
  <2>2. op.port \in Ports /\ op.vn \in VNs
    BY <1>5, <1>13
  <2>3. Ordered(egress_buffers'[p][v], PktNr(r), c, d)
    BY <1>1, <1>3, <1>13, <2>1, <2>2, EnqueuedElse
  <2> QED
    BY <1>1, <1>11, <1>13, <2>3
<1>14. CASE /\ op.do = "output" /\ egress_buffers' = egress_buffers
            /\ output_buffer' = Append(output_buffer, out)
  <2>1. CASE out \notin DOMAIN OutNr(p, v, r)
    <3>1. Ordered(Append(output_buffer, out), OutNr(p, v, r), a, b)
      BY <1>1, <1>3, <2>1, OutAppend
    <3> QED
      BY <1>1, <1>11, <1>14, <3>1
  <2>2. CASE out \in DOMAIN OutNr(p, v, r)
    <3>1. op.pkt \in DOMAIN PktNr(r) /\ op.port = p /\ op.vn = v
      BY <1>7, <2>2, Numbers
    <3>2. PICK g \in Nat : g = op.pkt.nr
      BY <3>1, Numbers
    <3>3. b < g /\ g <= c
      BY <1>1, <1>4, <3>1, <3>2 DEF AtWorker
    <3>4. Ordered(output_buffer', OutNr(p, v, r), a, g)
      <4>1. b < out.pkt.nr /\ out.pkt.nr <= g /\ b <= g
        BY <1>7, <3>2, <3>3
      <4>2. Ordered(Append(output_buffer, out), OutNr(p, v, r), a, g)
        BY <1>1, <1>3, <4>1, OutAppend
      <4> QED
        BY <1>14, <4>2
    <3>5. AtWorker(p, v, r, g, c)'
      <4>1. w = EgressThread(p) /\ DOMAIN rest = {}
        BY <1>6, <3>1, Numbers
      <4>2. ASSUME NEW t \in Workers, NEW i \in DOMAIN worker'[t].todo,
                   worker'[t].todo[i].pkt \in DOMAIN PktNr(r), worker'[t].todo[i].port = p
            PROVE  FALSE
        <5>1. t # w /\ worker'[t] = worker[t]
          BY <1>9, <4>1, <4>2
        <5>2. Pristine(worker[t].todo[i].pkt)
          BY <4>2, <5>1, Numbers
        <5>3. t = EgressThread(p)
          BY <1>1, <4>2, <5>1, <5>2 DEF WorkerShape
        <5> QED
          BY <4>1, <5>1, <5>3
      <4> QED
        BY <3>3, <4>2 DEF AtWorker
    <3>6. a <= g /\ Ordered(egress_buffers'[p][v], PktNr(r), c, d)
      BY <1>1, <1>3, <1>14, <3>3
    <3>7. FlowInv(p, v, r, a, g, c, d, e, f)'
      BY <1>3, <3>4, <3>5, <3>6, Assembled
    <3> QED
      BY <3>7 DEF Preserved
  <2> QED
    BY <2>1, <2>2
<1> QED
  BY <1>2, <1>12, <1>13, <1>14

-----------------------------------------------------------------------------
(* The theorem *)

LEMMA OrderStep == TypeOK /\ Shape /\ OrderInv /\ [Next]_vars => OrderInv'
<1> SUFFICES ASSUME TypeOK, Shape, OrderInv, [Next]_vars,
                    NEW p \in Ports, NEW v \in VNs, NEW r \in Receivers
             PROVE  Preserved(p, v, r)
  BY DEF OrderInv, Preserved
<1> PICK a, b, c, d, e, f \in Nat : FlowInv(p, v, r, a, b, c, d, e, f)
  BY DEF OrderInv
<1>1. ASSUME NEW s \in Receivers, Receive(s) \/ ReceiverStep(s) PROVE Preserved(p, v, r)
  <2>1. Receive(s) \/ PushNormal(s) \/ FinishReceive(s)
    BY <1>1 DEF ReceiverStep
  <2> QED
    BY <2>1, ReceiverFlow
<1>2. CASE IngressThread
  BY <1>2, IngressPopFlow, IngressBeginFlow, IngressStepFlow DEF IngressThread
<1>3. ASSUME NEW w \in Workers, EgressThreadStep(w) PROVE Preserved(p, v, r)
  BY <1>3, EgressBeginFlow, EgressStepFlow, QuietFlow DEF EgressThreadStep
<1>4. CASE TransmitThread
  BY <1>4, TransmitPopFlow, TransmitSendFlow DEF TransmitThread
<1>5. CASE Shutdown \/ Destructor \/ SpuriousWakeup \/ SetMirroring \/ UNCHANGED vars
  BY <1>5, QuietFlow, StopFlow DEF Destructor
<1> QED
  BY <1>1, <1>2, <1>3, <1>4, <1>5 DEF Next

LEMMA InitOrder == Init => Shape /\ OrderInv
<1> SUFFICES ASSUME Init PROVE Shape /\ OrderInv
  OBVIOUS
<1>1. Shape
  BY DEF Init, Shape, HiShape, ReceiverShape, IngressShape, WorkerShape
<1>2. ASSUME NEW p \in Ports, NEW v \in VNs, NEW r \in Receivers
      PROVE  FlowInv(p, v, r, 0, 0, 0, 0, 0, 0)
  <2>1. AtWire(p, v, r, 0)
    BY DEF Init, AtWire
  <2>2. /\ Ordered(output_buffer, OutNr(p, v, r), 0, 0)
        /\ Ordered(egress_buffers[p][v], PktNr(r), 0, 0)
        /\ Ordered(queue_lo, PktNr(r), 0, 0)
    BY DEF Init, Ordered
  <2>3. AtWorker(p, v, r, 0, 0)
    BY DEF Init, AtWorker
  <2>4. AtIngress(r, 0, 0)
    BY Numbers DEF Init, AtIngress
  <2>5. AtReceiver(r, 0)
    BY DEF Init, AtReceiver
  <2> QED
    BY <2>1, <2>2, <2>3, <2>4, <2>5 DEF FlowInv
<1> QED
  BY <1>1, <1>2 DEF OrderInv

LEMMA OrderInvImpliesInOrder == TypeOK /\ OrderInv => InOrder
<1> SUFFICES ASSUME TypeOK, OrderInv, transmit.at = "sending", Pristine(transmit.out.pkt)
             PROVE  transmit.out.pkt.nr
                       > latest[transmit.out.port][transmit.out.vn][transmit.out.pkt.from]
  BY DEF InOrder
<1> DEFINE out == transmit.out
<1>1. /\ out \in Outgoing /\ out.port \in Ports /\ out.vn \in VNs /\ out.pkt \in Packet
      /\ out.pkt.from \in Receivers
  BY DEF TypeOK, TransmitOK, Outgoing, Packet
<1>2. out.pkt \in DOMAIN PktNr(out.pkt.from)
  BY <1>1, Numbers
<1>3. out \in DOMAIN OutNr(out.port, out.vn, out.pkt.from)
  BY <1>1, <1>2, Numbers
<1>4. PICK a \in Nat : AtWire(out.port, out.vn, out.pkt.from, a)
  BY <1>1 DEF OrderInv, FlowInv
<1>5. latest[out.port][out.vn][out.pkt.from] < out.pkt.nr
  BY <1>3, <1>4 DEF AtWire
<1>6. latest[out.port][out.vn][out.pkt.from] \in Nat /\ out.pkt.nr \in Nat
  BY <1>1 DEF TypeOK, Packet
<1> QED
  BY <1>5, <1>6

\* Whatever the P4 program asks for and however the threads meet, the packets of a
\* receiver that go straight through leave a port through one VN in the order in which
\* receive_ took them, none twice.
THEOREM AlwaysInOrder == Spec => []InOrder
<1>1. Init => TypeOK /\ Shape /\ OrderInv
  BY InitTypeOK, InitOrder
<1>2. TypeOK /\ Shape /\ OrderInv /\ [Next]_vars => (TypeOK /\ Shape /\ OrderInv)'
  BY TypeStep, ShapeStep, OrderStep
<1>3. TypeOK /\ Shape /\ OrderInv => InOrder
  BY OrderInvImpliesInOrder
<1> QED
  BY <1>1, <1>2, <1>3, PTL DEF Spec

=============================================================================
