--------------------------- MODULE SwitchPipeline ---------------------------
(***************************************************************************)
(* The threads of simple_switch and the three buffers between them:         *)
(* receivers fill the input buffer, the ingress thread empties it and fills *)
(* the egress buffers, one egress thread per group of ports empties those   *)
(* and fills the output buffer, the transmit thread empties that; and the   *)
(* destructor, which stops them with null packets.  The egress buffers are  *)
(* what VNFifo promises of the traffic manager: bounded FIFOs, one per port *)
(* and VN, served in any order.  What the P4 program does with a packet is  *)
(* a verdict.                                                              *)
(***************************************************************************)
EXTENDS Integers, Sequences, FiniteSets

CONSTANTS Receivers,        \* threads that call receive_
          Ports,
          VNs,
          NbEgressThreads,
          CapacityLo,       \* of the input buffer: normal packets,
          CapacityHi,       \*   resubmitted and recirculated ones
          QueueCapacity,    \* of an egress queue
          OutputCapacity,
          Group,            \* ports a multicast group replicates to
          Sessions,         \* mirroring session configurations
          IngressVerdicts,  \* what the ingress pipeline may ask for
          EgressVerdicts,   \* what the egress pipeline may ask for
          MayStop,          \* whether the switch may be destroyed
          MaxPackets,       \* bound: packets each receiver takes in
          MaxHops           \* bound: resubmissions and recirculations of a packet

Workers == 0 .. NbEgressThreads - 1

NoPort == -1
NoVN == -1

\* A session replicates to `group' (its mgid, <<>> if invalid) and to `port'.
Session == [group : Seq(Ports), port : Ports \cup {NoPort}]
NoSession == [group |-> <<>>, port |-> NoPort]

\* `clone' is the VN a clone's metadata names, or NoVN for no clone.
IngressVerdict ==
    [clone : VNs \cup {NoVN}, fate : {"forward", "drop", "multicast", "resubmit"},
     port : Ports, vn : VNs]

EgressVerdict ==
    [clone : VNs \cup {NoVN}, fate : {"output", "drop", "recirculate"}]

ASSUME PipelineAssumption ==
    /\ IsFiniteSet(Receivers)
    /\ NbEgressThreads \in Nat \ {0}
    /\ Ports \subseteq Nat /\ Workers \subseteq Ports
    /\ VNs \subseteq Nat /\ 0 \in VNs
    /\ {CapacityLo, CapacityHi, QueueCapacity, OutputCapacity} \subseteq Nat \ {0}
    /\ Group \in Seq(Ports)
    /\ Sessions \subseteq Session
    /\ IngressVerdicts \subseteq IngressVerdict
    /\ EgressVerdicts \subseteq EgressVerdict
    /\ MayStop \in BOOLEAN
    /\ MaxPackets \in [Receivers -> Nat] /\ MaxHops \in Nat

VARIABLES queue_hi, queue_lo,  \* InputBuffer
          egress_buffers,      \* egress_buffers[p][v]
          output_buffer,
          receiver,            \* per receiver: where it is, its packet, packets so far
          ingress,             \* the ingress thread: where it is, what is left to do
          worker,              \* the same of each egress thread
          transmit,            \* the transmit thread
          destructor,
          mirroring,           \* the mirroring session of the program
          latest               \* history: last packet transmitted, per port, VN, receiver

buffers == <<queue_hi, queue_lo, egress_buffers, output_buffer>>
vars == <<queue_hi, queue_lo, egress_buffers, output_buffer, receiver, ingress,
          worker, transmit, destructor, mirroring, latest>>

Packet == [from : Receivers, nr : Nat, hops : 0 .. MaxHops, copy : BOOLEAN]
Null == [from |-> "nobody"]   \* the sentinel

\* A packet that goes straight through, as it was received.
Pristine(pkt) == pkt # Null /\ ~pkt.copy /\ pkt.hops = 0

Outgoing == [pkt : Packet, port : Ports, vn : VNs]

EgressThread(p) == p % NbEgressThreads   \* EgressThreadMapper

Init ==
    /\ queue_hi = <<>> /\ queue_lo = <<>> /\ output_buffer = <<>>
    /\ egress_buffers = [p \in Ports |-> [v \in VNs |-> <<>>]]
    /\ receiver = [r \in Receivers |-> [at |-> "idle", pkt |-> Null, count |-> 0]]
    /\ ingress = [at |-> "popping", pkt |-> Null, todo |-> <<>>]
    /\ worker = [w \in Workers |-> [at |-> "popping", todo |-> <<>>]]
    /\ transmit = [at |-> "popping", out |-> Null]
    /\ destructor = [at |-> "alive", next |-> 0]
    /\ mirroring = NoSession
    /\ latest = [p \in Ports |-> [v \in VNs |-> [r \in Receivers |-> 0]]]

-----------------------------------------------------------------------------
(* Operations on the buffers *)

\* Mutant: the capacity is tested after the insertion.
StoredLate(q, bound, x) == IF Len(q) <= bound THEN Append(q, x) ELSE q

\* A bounded queue drops what it has no room for.
Stored(q, bound, x) == IF Len(q) < bound THEN Append(q, x) ELSE q

\* cvar_can_pop: only the ingress thread waits on it.
NotifyCanPop ==
    ingress' = IF ingress.at = "waiting" THEN [ingress EXCEPT !.at = "popping"] ELSE ingress

BlockedReceivers == {r \in Receivers : receiver[r].at = "blocked"}

\* cvar_can_push_lo: any one of the receivers that wait on it.
NotifyCanPushLo ==
    IF BlockedReceivers = {} THEN UNCHANGED receiver
    ELSE \E r \in BlockedReceivers : receiver' = [receiver EXCEPT ![r].at = "pushing"]

\* cvar_can_push_hi: only the destructor's push of the sentinel may wait on it.
NotifyCanPushHi ==
    destructor' = IF destructor.at = "blocked" THEN [destructor EXCEPT !.at = "pushing"]
                  ELSE destructor

\* egress_buffers.push_front as enqueue calls it: a full queue drops the packet.
Enqueued(p, v, pkt) ==
    egress_buffers' = [egress_buffers EXCEPT ![p][v] = Stored(@, QueueCapacity, pkt)]

-----------------------------------------------------------------------------
(* receive_ *)

Receive(r) ==
    /\ receiver[r].at = "idle"
    /\ receiver[r].count < MaxPackets[r]
    /\ destructor.at # "gone"
    /\ LET n == receiver[r].count + 1
       IN receiver' = [receiver EXCEPT ![r] =
              [at |-> "pushing", count |-> n,
               pkt |-> [from |-> r, nr |-> n, hops |-> 0, copy |-> FALSE]]]
    /\ UNCHANGED <<buffers, ingress, worker, transmit, destructor, mirroring, latest>>

\* InputBuffer::push_front of a normal packet: wait while full, store, unlock.
PushNormal(r) ==
    /\ receiver[r].at = "pushing"
    /\ IF Len(queue_lo) = CapacityLo
       THEN /\ receiver' = [receiver EXCEPT ![r].at = "blocked"]
            /\ UNCHANGED queue_lo
       ELSE /\ queue_lo' = Append(queue_lo, receiver[r].pkt)
            /\ receiver' = [receiver EXCEPT ![r].at = "notifying"]
    /\ UNCHANGED <<queue_hi, egress_buffers, output_buffer, ingress, worker, transmit,
                   destructor, mirroring, latest>>

\* Mutant: the receiver returns without a notification.
FinishReceiveQuietly(r) ==
    /\ receiver[r].at = "notifying"
    /\ receiver' = [receiver EXCEPT ![r].at = "idle", ![r].pkt = Null]
    /\ UNCHANGED <<buffers, ingress, worker, transmit, destructor, mirroring, latest>>

\* The notification after the unlock.
FinishReceive(r) ==
    /\ receiver[r].at = "notifying"
    /\ receiver' = [receiver EXCEPT ![r].at = "idle", ![r].pkt = Null]
    /\ NotifyCanPop
    /\ UNCHANGED <<buffers, worker, transmit, destructor, mirroring, latest>>

-----------------------------------------------------------------------------
(* ingress_thread and egress_thread *)

Enqueue(p, v, pkt) == [do |-> "enqueue", port |-> p, vn |-> v, pkt |-> pkt]

\* The pushes a thread may have to make.
EnqueueOp == [do : {"enqueue"}, port : Ports, vn : VNs, pkt : Packet]
IngressOp == EnqueueOp \cup [do : {"resubmit"}, pkt : Packet]
EgressOp == EnqueueOp \cup [do : {"recirculate"}, pkt : Packet]
            \cup [do : {"output"}, port : Ports, vn : VNs, pkt : Packet]

\* multicast: one copy per port of s.
Replicas(s, v, pkt) ==
    [i \in 1 .. Len(s) |-> Enqueue(s[i], v, [pkt EXCEPT !.copy = TRUE])]

\* Cloning, for the session found at that moment.
Clones(v, pkt) ==
    IF v = NoVN THEN <<>>
    ELSE Replicas(mirroring.group, v, pkt)
         \o (IF mirroring.port = NoPort THEN <<>> ELSE Replicas(<<mirroring.port>>, v, pkt))

Hop(what, pkt) == [do |-> what, pkt |-> [pkt EXCEPT !.hops = @ + 1]]

IngressPlan(pkt, d) ==
    Clones(d.clone, pkt)
    \o CASE d.fate = "forward"   -> <<Enqueue(d.port, d.vn, pkt)>>
         [] d.fate = "drop"      -> <<>>
         [] d.fate = "multicast" -> Replicas(Group, d.vn, pkt)
         [] d.fate = "resubmit"  -> <<Hop("resubmit", pkt)>>

EgressPlan(p, v, pkt, d) ==
    Clones(d.clone, pkt)
    \o CASE d.fate = "output"      -> <<[do |-> "output", port |-> p, vn |-> v, pkt |-> pkt]>>
         [] d.fate = "drop"        -> <<>>
         [] d.fate = "recirculate" -> <<Hop("recirculate", pkt)>>

\* What the P4 program asks for a packet.  Bounds: it sends a packet round at most
\* MaxHops times and clones no copy.
MayAsk(pkt, d) ==
    /\ d.fate \in {"resubmit", "recirculate"} => pkt.hops < MaxHops
    /\ pkt.copy => d.clone = NoVN

\* InputBuffer::pop_back: wait while both queues are empty, high priority first.
IngressPop ==
    /\ ingress.at = "popping"
    /\ CASE queue_hi # <<>> ->
              /\ ingress' = [ingress EXCEPT !.at = "notify_hi", !.pkt = Head(queue_hi)]
              /\ queue_hi' = Tail(queue_hi)
              /\ UNCHANGED queue_lo
         [] queue_hi = <<>> /\ queue_lo # <<>> ->
              /\ ingress' = [ingress EXCEPT !.at = "notify_lo", !.pkt = Head(queue_lo)]
              /\ queue_lo' = Tail(queue_lo)
              /\ UNCHANGED queue_hi
         [] OTHER ->
              /\ ingress' = [ingress EXCEPT !.at = "waiting"]
              /\ UNCHANGED <<queue_hi, queue_lo>>
    /\ UNCHANGED <<egress_buffers, output_buffer, receiver, worker, transmit, destructor,
                   mirroring, latest>>

\* Where a thread with the given plan continues.
Continuing(plan) == IF plan = <<>> THEN "popping" ELSE "running"

\* The notification after the unlock, then the ingress pipeline.
IngressBegin ==
    /\ \/ ingress.at = "notify_hi" /\ NotifyCanPushHi /\ UNCHANGED receiver
       \/ ingress.at = "notify_lo" /\ NotifyCanPushLo /\ UNCHANGED destructor
    /\ IF ingress.pkt = Null
       THEN ingress' = [ingress EXCEPT !.at = "ended"]
       ELSE \E d \in IngressVerdicts :
                /\ MayAsk(ingress.pkt, d)
                /\ LET plan == IngressPlan(ingress.pkt, d)
                   IN ingress' = [at |-> Continuing(plan), pkt |-> Null, todo |-> plan]
    /\ UNCHANGED <<buffers, worker, transmit, mirroring, latest>>

\* Mutant: a resubmission waits for room.
ResubmittedBlocking(pkt) == Len(queue_hi) < CapacityHi /\ queue_hi' = Append(queue_hi, pkt)

\* A resubmission that finds the queue full is dropped.
Resubmitted(pkt) == queue_hi' = Stored(queue_hi, CapacityHi, pkt)

IngressStep ==
    /\ ingress.at = "running"
    /\ LET op == Head(ingress.todo)
           rest == Tail(ingress.todo)
       IN /\ \/ op.do = "enqueue" /\ Enqueued(op.port, op.vn, op.pkt) /\ UNCHANGED queue_hi
             \/ op.do = "resubmit" /\ Resubmitted(op.pkt) /\ UNCHANGED egress_buffers
          /\ ingress' = [ingress EXCEPT !.at = Continuing(rest), !.todo = rest]
    /\ UNCHANGED <<queue_lo, output_buffer, receiver, worker, transmit, destructor,
                   mirroring, latest>>

\* Mutant: an egress thread serves every port.
AnyPort(w) == Ports

\* The ports whose queues egress thread w empties.
PortsOf(w) == {p \in Ports : EgressThread(p) = w}

\* pop_back of the egress buffers, then the egress pipeline.
EgressBegin(w) ==
    /\ worker[w].at = "popping"
    /\ \E p \in PortsOf(w), v \in VNs :
          /\ egress_buffers[p][v] # <<>>
          /\ egress_buffers' = [egress_buffers EXCEPT ![p][v] = Tail(@)]
          /\ LET pkt == Head(egress_buffers[p][v])
             IN IF pkt = Null
                THEN worker' = [worker EXCEPT ![w].at = "ended"]
                ELSE \E d \in EgressVerdicts :
                        /\ MayAsk(pkt, d)
                        /\ LET plan == EgressPlan(p, v, pkt, d)
                           IN worker' = [worker EXCEPT ![w] =
                                            [at |-> Continuing(plan), todo |-> plan]]
    /\ UNCHANGED <<queue_hi, queue_lo, output_buffer, receiver, ingress, transmit,
                   destructor, mirroring, latest>>

\* After a recirculation that was stored there is a notification to make.
EgressStep(w) ==
    /\ worker[w].at = "running"
    /\ LET op == Head(worker[w].todo)
           rest == Tail(worker[w].todo)
       IN \/ /\ op.do = "enqueue"
             /\ Enqueued(op.port, op.vn, op.pkt)
             /\ worker' = [worker EXCEPT ![w] = [at |-> Continuing(rest), todo |-> rest]]
             /\ UNCHANGED <<queue_hi, output_buffer>>
          \/ /\ op.do = "recirculate"
             /\ queue_hi' = Stored(queue_hi, CapacityHi, op.pkt)
             /\ worker' = [worker EXCEPT ![w] =
                   [at |-> IF queue_hi' = queue_hi THEN "popping" ELSE "notifying",
                    todo |-> rest]]
             /\ UNCHANGED <<egress_buffers, output_buffer>>
          \/ /\ op.do = "output"
             /\ Len(output_buffer) < OutputCapacity
             /\ output_buffer' = Append(output_buffer,
                                        [pkt |-> op.pkt, port |-> op.port, vn |-> op.vn])
             /\ worker' = [worker EXCEPT ![w] = [at |-> Continuing(rest), todo |-> rest]]
             /\ UNCHANGED <<queue_hi, egress_buffers>>
    /\ UNCHANGED <<queue_lo, receiver, ingress, transmit, destructor, mirroring, latest>>

EgressNotify(w) ==
    /\ worker[w].at = "notifying"
    /\ worker' = [worker EXCEPT ![w].at = "popping"]
    /\ NotifyCanPop
    /\ UNCHANGED <<buffers, receiver, transmit, destructor, mirroring, latest>>

-----------------------------------------------------------------------------
(* transmit_thread *)

TransmitPop ==
    /\ transmit.at = "popping"
    /\ output_buffer # <<>>
    /\ output_buffer' = Tail(output_buffer)
    /\ transmit' = [at  |-> IF Head(output_buffer) = Null THEN "ended" ELSE "sending",
                    out |-> Head(output_buffer)]
    /\ UNCHANGED <<queue_hi, queue_lo, egress_buffers, receiver, ingress, worker,
                   destructor, mirroring, latest>>

\* my_transmit_fn
TransmitSend ==
    /\ transmit.at = "sending"
    /\ transmit' = [at |-> "popping", out |-> Null]
    /\ LET out == transmit.out
       IN latest' = IF Pristine(out.pkt)
                    THEN [latest EXCEPT ![out.port][out.vn][out.pkt.from] = out.pkt.nr]
                    ELSE latest
    /\ UNCHANGED <<buffers, receiver, ingress, worker, destructor, mirroring>>

-----------------------------------------------------------------------------
(* ~SimpleSwitch: a null packet for every thread, then join them *)

Shutdown ==
    /\ MayStop
    /\ destructor.at = "alive"
    /\ destructor' = [destructor EXCEPT !.at = "pushing"]
    /\ UNCHANGED <<buffers, receiver, ingress, worker, transmit, mirroring, latest>>

\* InputBuffer::push_front of the sentinel: it waits while queue_hi is full.
StopIngress ==
    /\ destructor.at = "pushing"
    /\ IF Len(queue_hi) = CapacityHi
       THEN /\ destructor' = [destructor EXCEPT !.at = "blocked"]
            /\ UNCHANGED queue_hi
       ELSE /\ queue_hi' = Append(queue_hi, Null)
            /\ destructor' = [destructor EXCEPT !.at = "notifying"]
    /\ UNCHANGED <<queue_lo, egress_buffers, output_buffer, receiver, ingress, worker,
                   transmit, mirroring, latest>>

StopIngressNotify ==
    /\ destructor.at = "notifying"
    /\ destructor' = [destructor EXCEPT !.at = "egress"]
    /\ NotifyCanPop
    /\ UNCHANGED <<buffers, receiver, worker, transmit, mirroring, latest>>

\* Mutant: each queue is tried once.
StopEgressOnce ==
    /\ destructor.at = "egress"
    /\ LET i == destructor.next
       IN /\ Enqueued(i, 0, Null)
          /\ destructor' = [at   |-> IF i + 1 = NbEgressThreads THEN "output" ELSE "egress",
                            next |-> i + 1]
    /\ UNCHANGED <<queue_hi, queue_lo, output_buffer, receiver, ingress, worker,
                   transmit, mirroring, latest>>

\* One try at port i, VN 0, for egress thread i; a full queue is tried again.
StopEgress ==
    /\ destructor.at = "egress"
    /\ LET i == destructor.next
       IN /\ Enqueued(i, 0, Null)
          /\ destructor' =
                IF egress_buffers' = egress_buffers THEN destructor
                ELSE [at   |-> IF i + 1 = NbEgressThreads THEN "output" ELSE "egress",
                      next |-> i + 1]
    /\ UNCHANGED <<queue_hi, queue_lo, output_buffer, receiver, ingress, worker,
                   transmit, mirroring, latest>>

StopTransmit ==
    /\ destructor.at = "output"
    /\ Len(output_buffer) < OutputCapacity
    /\ output_buffer' = Append(output_buffer, Null)
    /\ destructor' = [destructor EXCEPT !.at = "joining"]
    /\ UNCHANGED <<queue_hi, queue_lo, egress_buffers, receiver, ingress, worker,
                   transmit, mirroring, latest>>

Join ==
    /\ destructor.at = "joining"
    /\ ingress.at = "ended" /\ transmit.at = "ended"
    /\ \A w \in Workers : worker[w].at = "ended"
    /\ destructor' = [destructor EXCEPT !.at = "gone"]
    /\ UNCHANGED <<buffers, receiver, ingress, worker, transmit, mirroring, latest>>

-----------------------------------------------------------------------------
(* Condition variables and the control plane *)

\* A wait may return without a notification; each wait is inside a loop.
SpuriousWakeup ==
    /\ \/ /\ ingress.at = "waiting"
          /\ ingress' = [ingress EXCEPT !.at = "popping"]
          /\ UNCHANGED <<receiver, destructor>>
       \/ \E r \in BlockedReceivers :
              /\ receiver' = [receiver EXCEPT ![r].at = "pushing"]
              /\ UNCHANGED <<ingress, destructor>>
       \/ /\ destructor.at = "blocked"
          /\ destructor' = [destructor EXCEPT !.at = "pushing"]
          /\ UNCHANGED <<receiver, ingress>>
    /\ UNCHANGED <<buffers, worker, transmit, mirroring, latest>>

\* MirroringSessions::add_session, which also replaces, and delete_session.
SetMirroring ==
    /\ mirroring' \in Sessions \cup {NoSession}
    /\ mirroring' # mirroring
    /\ UNCHANGED <<buffers, receiver, ingress, worker, transmit, destructor, latest>>

ReceiverStep(r) == PushNormal(r) \/ FinishReceive(r)

IngressThread == IngressPop \/ IngressBegin \/ IngressStep

EgressThreadStep(w) == EgressBegin(w) \/ EgressStep(w) \/ EgressNotify(w)

TransmitThread == TransmitPop \/ TransmitSend

Destructor == StopIngress \/ StopIngressNotify \/ StopEgress \/ StopTransmit \/ Join

Next ==
    \/ \E r \in Receivers : Receive(r) \/ ReceiverStep(r)
    \/ IngressThread
    \/ \E w \in Workers : EgressThreadStep(w)
    \/ TransmitThread
    \/ Shutdown \/ Destructor
    \/ SpuriousWakeup \/ SetMirroring

Spec == Init /\ [][Next]_vars

\* Every thread that can run is scheduled; nobody need send a packet, stop the
\* switch, configure a session or be woken for nothing.
Fairness ==
    /\ \A r \in Receivers : WF_vars(ReceiverStep(r))
    /\ WF_vars(IngressThread)
    /\ \A w \in Workers : WF_vars(EgressThreadStep(w))
    /\ WF_vars(TransmitThread)
    /\ WF_vars(Destructor)

FairSpec == Spec /\ Fairness

-----------------------------------------------------------------------------
(* Properties *)

InputOK ==
    /\ queue_hi \in Seq(Packet \cup {Null}) /\ Len(queue_hi) <= CapacityHi
    /\ queue_lo \in Seq(Packet) /\ Len(queue_lo) <= CapacityLo

EgressOK ==
    /\ egress_buffers \in [Ports -> [VNs -> Seq(Packet \cup {Null})]]
    /\ \A p \in Ports, v \in VNs : Len(egress_buffers[p][v]) <= QueueCapacity

OutputOK ==
    output_buffer \in Seq(Outgoing \cup {Null}) /\ Len(output_buffer) <= OutputCapacity

ReceiversOK ==
    /\ receiver \in [Receivers -> [at : {"idle", "pushing", "blocked", "notifying"},
                                   pkt : Packet \cup {Null}, count : Nat]]
    /\ \A r \in Receivers : receiver[r].at # "idle" => receiver[r].pkt \in Packet

IngressOK ==
    /\ ingress \in [at : {"popping", "waiting", "notify_hi", "notify_lo", "running", "ended"},
                    pkt : Packet \cup {Null}, todo : Seq(IngressOp)]
    /\ ingress.at = "running" <=> ingress.todo # <<>>

WorkersOK ==
    /\ worker \in [Workers -> [at : {"popping", "running", "notifying", "ended"},
                               todo : Seq(EgressOp)]]
    /\ \A w \in Workers : worker[w].at = "running" => worker[w].todo # <<>>

TransmitOK ==
    /\ transmit \in [at : {"popping", "sending", "ended"}, out : Outgoing \cup {Null}]
    /\ transmit.at = "sending" => transmit.out \in Outgoing

DestructorOK ==
    /\ destructor \in [at : {"alive", "pushing", "blocked", "notifying", "egress", "output",
                             "joining", "gone"}, next : Nat]
    /\ destructor.at = "egress" => destructor.next \in Workers
    /\ destructor.at \in {"alive", "pushing", "blocked", "notifying"} => destructor.next = 0

\* Every variable has its type and no buffer ever holds more than it may, however
\* the pushes of different threads meet.
TypeOK ==
    /\ InputOK /\ EgressOK /\ OutputOK
    /\ ReceiversOK /\ IngressOK /\ WorkersOK /\ TransmitOK /\ DestructorOK
    /\ mirroring \in Sessions \cup {NoSession}
    /\ latest \in [Ports -> [VNs -> [Receivers -> Nat]]]

\* The packets of one receiver that leave a port through one VN, neither copied nor
\* sent round again, leave in the order they were received, each at most once,
\* across three buffers and four threads.
InOrder ==
    transmit.at = "sending" /\ Pristine(transmit.out.pkt) =>
        LET out == transmit.out
        IN out.pkt.nr > latest[out.port][out.vn][out.pkt.from]

\* Notifications are made after the unlock, so others run in between: even so the
\* ingress thread never sleeps on a packet, nor a receiver or the destructor on a
\* free place, without somebody on the way to notify or to look.
NoLostWakeup ==
    /\ ingress.at = "waiting" /\ (queue_hi # <<>> \/ queue_lo # <<>>) =>
          \/ \E r \in Receivers : receiver[r].at = "notifying"
          \/ \E w \in Workers : worker[w].at = "notifying"
          \/ destructor.at = "notifying"
    /\ BlockedReceivers # {} /\ Len(queue_lo) < CapacityLo =>
          ingress.at = "notify_lo" \/ \E r \in Receivers : receiver[r].at = "pushing"
    /\ destructor.at = "blocked" /\ Len(queue_hi) < CapacityHi =>
          ingress.at = "notify_hi"

Quiet ==
    /\ \A r \in Receivers : receiver[r].at = "idle"
    /\ queue_hi = <<>> /\ queue_lo = <<>> /\ output_buffer = <<>>
    /\ \A p \in Ports, v \in VNs : egress_buffers[p][v] = <<>>
    /\ ingress.at = "waiting"
    /\ \A w \in Workers : worker[w].at = "popping"
    /\ transmit.at = "popping"

\* Back pressure never turns into a deadlock: whatever the packets ask for, clones,
\* resubmissions and recirculations with every buffer full included, all of them
\* eventually leave or are dropped and the threads are idle again.
Drains == (\E r \in Receivers : receiver[r].at # "idle") ~> Quiet

\* What the comments on the null packets say: each thread is told to terminate, so
\* the destructor, which joins them, returns.
ShutdownEnds == (destructor.at = "pushing") ~> (destructor.at = "gone")
=============================================================================
