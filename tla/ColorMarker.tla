----------------------------- MODULE ColorMarker -----------------------------
(***************************************************************************)
(* The color marker of color_markers.p4 between the two places where        *)
(* simple_switch touches it: receive_ stamps a packet with the time and     *)
(* queues it, the ingress thread runs MyIngress on it, and enqueue hands it *)
(* to the traffic manager.  Receiver threads stamp before they queue, so    *)
(* packets may reach the marker out of stamp order; the input buffer itself *)
(* is a FIFO and adds nothing to that.  Time is in microseconds since the   *)
(* switch was constructed, a leak rate in bits per microsecond (Mbit/s).    *)
(***************************************************************************)
EXTENDS Integers, Functions

CONSTANTS Receivers,  \* threads that call receive_
          Flows,      \* (srcAddr, dstAddr) pairs and other kinds of traffic
          NonIP,      \* the flows without an IPv4 header
          Route,      \* ipv4_lpm: the port of a flow, or NoRoute
          Class,      \* vn_classifier: the VN of a flow, or Miss
          Rate,       \* vn_classifier: guaranteed bandwidth of a flow
          NbVNs,      \* vn_weights.size() of the traffic manager
          Tau,        \* burst limit in bits
          MaxSize,    \* largest packet in bytes
          Sizes,      \* the packet sizes that arrive
          MaxTime,    \* bound on the clock
          Half        \* int<48> holds -Half .. Half - 1

NoRoute == -1
Miss == -1
DropPort == 511
DefaultVN == 3

Green == 0
Yellow == 1

\* The registers LCT_reg and X_reg have 64 entries, for 8 VNs and 8 ports.
Buckets == 0 .. 63

\* Mutant: ports and VNs are not kept apart.
BucketIndexUnscaled(vn, port) == (vn + (port % 256)) % 256

\* bucket_index, computed in 8 bits.
BucketIndex(vn, port) == (vn * 8 + (port % 256)) % 256

Classified == {f \in Flows \ NonIP : Class[f] # Miss}

BucketOf(f) == BucketIndex(Class[f], Route[f])

\* What s1-runtime.json installs: a classified flow has a route, VNs and ports
\* stay below 8, and the flows of a VN share one guaranteed bandwidth.
ASSUME MarkerAssumption ==
    /\ NonIP \subseteq Flows
    /\ Route \in [Flows -> {NoRoute} \cup (0 .. 510)]
    /\ Class \in [Flows -> {Miss} \cup (0 .. 7)]
    /\ Rate \in [Flows -> Nat \ {0}]
    /\ \A f \in Classified : Route[f] \in 0 .. 7
    /\ \A f, g \in Classified : Class[f] = Class[g] => Rate[f] = Rate[g]
    /\ NbVNs \in Nat \ {0}
    /\ Tau \in Nat
    /\ MaxSize \in Nat \ {0}
    /\ Sizes \subseteq 1 .. MaxSize
    /\ MaxTime \in Nat \ {0}
    /\ Half \in Nat

\* No product of an idle time and a rate leaves 48 bits before MaxTime: at 10
\* Mbit/s that is an uptime of 163 days.
ASSUME HorizonAssumption ==
    \A f \in Flows : Tau + 8 * MaxSize + MaxTime * Rate[f] < Half

VARIABLES now,      \* get_ts()
          stamped,  \* per receiver: the packet stamped and not yet through ingress
          LCT,      \* LCT_reg
          X         \* X_reg

vars == <<now, stamped, LCT, X>>

Nothing == [size |-> 0]

Packet == [flow : Flows, size : 1 .. MaxSize, t_a : 1 .. MaxTime]

Handoff == [port : 0 .. 510, vn : 0 .. NbVNs - 1, color : {Green, Yellow},
            size : 1 .. MaxSize]

\* No packet arrives within the first microsecond, before the threads have
\* started, so that LCT = 0 means a register never written.
Init ==
    /\ now = 1
    /\ stamped = [r \in Receivers |-> Nothing]
    /\ LCT = [b \in Buckets |-> 0]
    /\ X = [b \in Buckets |-> 0]

\* receive_: stamp the packet.
Receive(r, f, n) ==
    /\ stamped[r] = Nothing
    /\ stamped' = [stamped EXCEPT ![r] = [flow |-> f, size |-> n, t_a |-> now]]
    /\ UNCHANGED <<now, LCT, X>>

-----------------------------------------------------------------------------
(* MyIngress and enqueue *)

\* 48-bit two's complement.
Wrap(z) == ((z + Half) % (2 * Half)) - Half

LastConformance(b, t) == IF LCT[b] = 0 THEN t ELSE LCT[b]

\* The level drained by the time of pkt, not clamped at zero.
XPrime(pkt) ==
    LET b == BucketOf(pkt.flow)
    IN Wrap(X[b] - (pkt.t_a - LastConformance(b, pkt.t_a)) * Rate[pkt.flow])

\* The level is tested before the packet's own bits are added.
Color(pkt) ==
    IF pkt.flow \in Classified /\ XPrime(pkt) > Tau THEN Yellow ELSE Green

\* Mutant: the drained level is not clamped at zero.
FilledUnclamped(pkt) == XPrime(pkt) + 8 * pkt.size

\* The level once a green packet has been added.
Filled(pkt) ==
    IF XPrime(pkt) < 0 THEN 8 * pkt.size ELSE XPrime(pkt) + 8 * pkt.size

\* Mutant: a yellow packet refreshes LCT.
MeteredRefreshing(pkt) ==
    /\ X' = [X EXCEPT ![BucketOf(pkt.flow)] =
                IF Color(pkt) = Green THEN Filled(pkt) ELSE @]
    /\ LCT' = [LCT EXCEPT ![BucketOf(pkt.flow)] = pkt.t_a]

\* Mutant: LCT is written once.
MeteredUndated(pkt) ==
    /\ X' = [X EXCEPT ![BucketOf(pkt.flow)] =
                IF Color(pkt) = Green THEN Filled(pkt) ELSE @]
    /\ LCT' = [LCT EXCEPT ![BucketOf(pkt.flow)] = IF @ = 0 THEN pkt.t_a ELSE @]

\* The registers change for green packets only.
Metered(pkt) ==
    IF Color(pkt) = Green
    THEN /\ X' = [X EXCEPT ![BucketOf(pkt.flow)] = Filled(pkt)]
         /\ LCT' = [LCT EXCEPT ![BucketOf(pkt.flow)] = pkt.t_a]
    ELSE UNCHANGED <<X, LCT>>

EgressSpec(f) ==
    IF f \in NonIP THEN 0 ELSE IF Route[f] = NoRoute THEN DropPort ELSE Route[f]

VNId(f) ==
    IF f \in NonIP THEN 0 ELSE IF Class[f] = Miss THEN DefaultVN ELSE Class[f]

\* enqueue: an out-of-range VN becomes VN 0.
Clamped(vn) == IF vn >= NbVNs THEN 0 ELSE vn

\* The arguments of push_front, or Nothing for a dropped packet.
HandedOff(pkt) ==
    IF EgressSpec(pkt.flow) = DropPort THEN Nothing
    ELSE [port |-> EgressSpec(pkt.flow), vn |-> Clamped(VNId(pkt.flow)),
          color |-> Color(pkt), size |-> pkt.size]

\* The ingress thread processes the packet of receiver r and hands it to the
\* traffic manager as HandedOff(stamped[r]).
Mark(r) ==
    /\ stamped[r] # Nothing
    /\ IF stamped[r].flow \in Classified THEN Metered(stamped[r])
       ELSE UNCHANGED <<X, LCT>>
    /\ stamped' = [stamped EXCEPT ![r] = Nothing]
    /\ UNCHANGED now

Tick ==
    /\ now < MaxTime
    /\ now' = now + 1
    /\ UNCHANGED <<stamped, LCT, X>>

Next ==
    \/ \E r \in Receivers, f \in Flows, n \in Sizes : Receive(r, f, n)
    \/ \E r \in Receivers : Mark(r)
    \/ Tick

Spec == Init /\ [][Next]_vars
-----------------------------------------------------------------------------
(* Properties *)

Held == {stamped[r] : r \in Receivers} \ {Nothing}

\* Type invariant: levels are never negative and never exceed the ceiling by more
\* than one packet; stamps fit the clock.
TypeOK ==
    /\ now \in 1 .. MaxTime
    /\ stamped \in [Receivers -> Packet \cup {Nothing}]
    /\ LCT \in [Buckets -> 0 .. MaxTime]
    /\ X \in [Buckets -> 0 .. Tau + 8 * MaxSize]

\* Whatever the tables say of a flow, the traffic manager is asked for a VN it has
\* a queue for, and a color it knows.
HandoffInRange == \A pkt \in Held : HandedOff(pkt) \in Handoff \cup {Nothing}

\* VNs do not share buckets: only a packet of its own VN to its own port changes
\* the bucket that decides about a flow.
Marked(r, f) ==
    /\ stamped[r] # Nothing
    /\ stamped'[r] = Nothing
    /\ stamped[r].flow \in Classified
    /\ Class[stamped[r].flow] = Class[f]
    /\ Route[stamped[r].flow] = Route[f]

BucketsIndependent ==
    [][\A f \in Classified :
        (X'[BucketOf(f)] # X[BucketOf(f)] \/ LCT'[BucketOf(f)] # LCT[BucketOf(f)]) =>
            \E r \in Receivers : Marked(r, f)]_vars
=============================================================================
