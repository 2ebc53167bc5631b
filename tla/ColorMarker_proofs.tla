-------------------------- MODULE ColorMarker_proofs --------------------------
(***************************************************************************)
(* Theorems of the color marker for every table content, packet size, rate  *)
(* and clock bound the assumptions allow.                                   *)
(***************************************************************************)
EXTENDS MarkerWindow, TLAPS

-----------------------------------------------------------------------------
(* Arithmetic of the 48-bit locals *)

\* A value in range is not changed by the 48-bit representation.
LEMMA WrapExact ==
    ASSUME NEW z \in Int, -Half <= z, z < Half
    PROVE  Wrap(z) = z
<1>1. Half \in Nat
    BY MarkerAssumption
<1>2. z + Half \in 0 .. (2 * Half - 1)
    BY <1>1
<1>3. (z + Half) % (2 * Half) = z + Half
    <2>1. \A a, m \in Int : 0 <= a /\ a < m => a % m = a
        BY SMT
    <2>. QED BY <1>1, <1>2, <2>1
<1>. QED BY <1>1, <1>3 DEF Wrap

\* A flow's bucket is one of the 64, and a VN and a port have a bucket of their own.
LEMMA BucketOwned ==
    /\ \A f \in Classified : BucketOf(f) \in Buckets
    /\ \A f, g \in Classified :
           BucketOf(f) = BucketOf(g) => Class[f] = Class[g] /\ Route[f] = Route[g]
<1>1. \A f \in Classified : f \in Flows /\ Class[f] \in 0 .. 7 /\ Route[f] \in 0 .. 7
    BY MarkerAssumption DEF Classified, Miss
<1>2. \A f \in Classified : BucketOf(f) = Class[f] * 8 + Route[f]
    BY <1>1 DEF BucketOf, BucketIndex
<1>. QED BY <1>1, <1>2 DEF Buckets

\* Every flow that shares a bucket drains it at the same rate.
LEMMA OneRatePerBucket ==
    \A f, g \in Classified : BucketOf(f) = BucketOf(g) => Rate[f] = Rate[g]
BY BucketOwned, MarkerAssumption

LEMMA RateType == \A f \in Classified : f \in Flows /\ Rate[f] \in Nat \ {0}
BY MarkerAssumption DEF Classified

-----------------------------------------------------------------------------
(* The drained level *)

\* What drains from bucket b by time t.
Drained(b, t, rate) == (t - LastConformance(b, t)) * rate

LEMMA DrainedBounded ==
    ASSUME TypeOK, NEW b \in Buckets, NEW t \in 1 .. MaxTime, NEW rate \in Nat
    PROVE  /\ Drained(b, t, rate) \in Int
           /\ -(MaxTime * rate) <= Drained(b, t, rate)
           /\ Drained(b, t, rate) <= MaxTime * rate
           /\ LCT[b] = 0 => Drained(b, t, rate) = 0
<1>1. MaxTime \in Nat /\ LCT[b] \in 0 .. MaxTime
    BY MarkerAssumption DEF TypeOK
<1>2. PICK d \in Int : d = t - LastConformance(b, t)
    BY <1>1 DEF LastConformance
<1>3. -MaxTime <= d /\ d <= MaxTime /\ (LCT[b] = 0 => d = 0)
    BY <1>1, <1>2 DEF LastConformance
<1>4. \A x, y, r \in Int : x <= y /\ 0 <= r => x * r <= y * r
    BY SMT
<1>5. (-MaxTime) * rate <= d * rate /\ d * rate <= MaxTime * rate
    BY <1>1, <1>3, <1>4
<1>6. (-MaxTime) * rate = -(MaxTime * rate) /\ d * rate \in Int /\ 0 * rate = 0
    BY <1>1
<1>. QED BY <1>1, <1>2, <1>3, <1>5, <1>6 DEF Drained

\* Within the horizon the marker computes the drained level exactly.
LEMMA LevelExact ==
    ASSUME TypeOK, NEW pkt \in Packet, pkt.flow \in Classified
    PROVE  LET b == BucketOf(pkt.flow)
           IN  /\ b \in Buckets
               /\ X[b] \in 0 .. Tau + 8 * MaxSize
               /\ Drained(b, pkt.t_a, Rate[pkt.flow]) \in Int
               /\ XPrime(pkt) = X[b] - Drained(b, pkt.t_a, Rate[pkt.flow])
<1>. DEFINE b == BucketOf(pkt.flow)
            rate == Rate[pkt.flow]
            gone == Drained(b, pkt.t_a, rate)
<1>1. b \in Buckets /\ X[b] \in 0 .. Tau + 8 * MaxSize
    BY BucketOwned DEF TypeOK
<1>2. pkt.t_a \in 1 .. MaxTime /\ rate \in Nat /\ pkt.flow \in Flows
    BY RateType DEF Packet
<1>3. gone \in Int /\ -(MaxTime * rate) <= gone /\ gone <= MaxTime * rate
    BY <1>1, <1>2, DrainedBounded
<1>4. /\ Tau + 8 * MaxSize + MaxTime * rate < Half
      /\ Tau \in Nat /\ MaxSize \in Nat /\ Half \in Nat /\ MaxTime * rate \in Nat
    BY <1>2, HorizonAssumption, MarkerAssumption
<1>5. XPrime(pkt) = Wrap(X[b] - gone)
    BY DEF XPrime, Drained
<1>. HIDE DEF b, rate, gone
<1>6. X[b] - gone \in Int /\ -Half <= X[b] - gone /\ X[b] - gone < Half
    BY <1>1, <1>3, <1>4
<1>. QED BY <1>1, <1>3, <1>5, <1>6, WrapExact DEF b, rate, gone

\* A green packet leaves a level between its own bits and the ceiling.
LEMMA FilledBounded ==
    ASSUME TypeOK, NEW pkt \in Packet, pkt.flow \in Classified, Color(pkt) = Green
    PROVE  /\ Filled(pkt) \in 8 * pkt.size .. Tau + 8 * MaxSize
           /\ Filled(pkt) >= XPrime(pkt) + 8 * pkt.size
<1>1. XPrime(pkt) \in Int
    BY LevelExact
<1>2. XPrime(pkt) <= Tau
    BY <1>1, MarkerAssumption DEF Color, Green, Yellow
<1>3. pkt.size \in 1 .. MaxSize /\ Tau \in Nat /\ MaxSize \in Nat
    BY MarkerAssumption DEF Packet
<1>. QED BY <1>1, <1>2, <1>3 DEF Filled

-----------------------------------------------------------------------------
(* Type correctness *)

LEMMA HeldPacket ==
    ASSUME TypeOK, NEW r \in Receivers, stamped[r] # Nothing
    PROVE  stamped[r] \in Packet
BY DEF TypeOK

LEMMA InitTypeOK == Init => TypeOK
<1>1. 0 \in 0 .. MaxTime /\ 0 \in 0 .. Tau + 8 * MaxSize /\ 1 \in 1 .. MaxTime
    BY MarkerAssumption
<1>. QED BY <1>1 DEF Init, TypeOK

LEMMA NextTypeOK ==
    ASSUME TypeOK, [Next]_vars
    PROVE  TypeOK'
<1>1. ASSUME NEW r \in Receivers, NEW f \in Flows, NEW n \in Sizes, Receive(r, f, n)
      PROVE  TypeOK'
    <2>1. [flow |-> f, size |-> n, t_a |-> now] \in Packet
        BY MarkerAssumption DEF TypeOK, Packet
    <2>. QED BY <1>1, <2>1 DEF Receive, TypeOK
<1>2. ASSUME NEW r \in Receivers, Mark(r)
      PROVE  TypeOK'
    <2>. DEFINE pkt == stamped[r]
    <2>1. pkt \in Packet
        BY <1>2, HeldPacket DEF Mark
    <2>2. stamped' \in [Receivers -> Packet \cup {Nothing}] /\ now' \in 1 .. MaxTime
        BY <1>2 DEF Mark, TypeOK
    <2>3. LCT' \in [Buckets -> 0 .. MaxTime] /\ X' \in [Buckets -> 0 .. Tau + 8 * MaxSize]
        <3>1. CASE pkt.flow \in Classified /\ Color(pkt) = Green
            <4>1. /\ X' = [X EXCEPT ![BucketOf(pkt.flow)] = Filled(pkt)]
                  /\ LCT' = [LCT EXCEPT ![BucketOf(pkt.flow)] = pkt.t_a]
                BY <1>2, <3>1 DEF Mark, Metered
            <4>2. pkt.t_a \in 0 .. MaxTime /\ Filled(pkt) \in 0 .. Tau + 8 * MaxSize
                <5>1. Filled(pkt) \in 8 * pkt.size .. Tau + 8 * MaxSize
                    BY <2>1, <3>1, FilledBounded
                <5>2. pkt.size \in Nat /\ pkt.t_a \in 0 .. MaxTime
                    BY <2>1, MarkerAssumption DEF Packet
                <5>3. Tau + 8 * MaxSize \in Int
                    BY MarkerAssumption
                <5>. QED BY <5>1, <5>2, <5>3
            <4>. QED BY <4>1, <4>2 DEF TypeOK
        <3>2. CASE ~(pkt.flow \in Classified /\ Color(pkt) = Green)
            BY <1>2, <3>2 DEF Mark, Metered, TypeOK
        <3>. QED BY <3>1, <3>2
    <2>. QED BY <2>2, <2>3 DEF TypeOK
<1>3. CASE Tick
    BY <1>3, MarkerAssumption DEF Tick, TypeOK
<1>4. CASE UNCHANGED vars
    BY <1>4 DEF vars, TypeOK
<1>. QED BY <1>1, <1>2, <1>3, <1>4 DEF Next

\* Type correctness: levels stay between zero and the ceiling plus one packet, for
\* every interleaving of the receivers (MyIngress's leaky bucket).
THEOREM TypeCorrect == Spec => []TypeOK
<1>. QED BY InitTypeOK, NextTypeOK, PTL DEF Spec

\* The traffic manager is always asked for a VN it has a queue for (enqueue's
\* clamp), whatever the classifier table says.
THEOREM HandoffAlwaysInRange == Spec => []HandoffInRange
<1>1. ASSUME TypeOK, NEW r \in Receivers, stamped[r] # Nothing
      PROVE  HandedOff(stamped[r]) \in Handoff \cup {Nothing}
    <2>. DEFINE pkt == stamped[r]
    <2>1. pkt.flow \in Flows /\ pkt.size \in 1 .. MaxSize
        BY <1>1, HeldPacket DEF Packet
    <2>2. EgressSpec(pkt.flow) \in 0 .. 510 \/ EgressSpec(pkt.flow) = DropPort
        <3>1. Route[pkt.flow] = NoRoute \/ Route[pkt.flow] \in 0 .. 510
            BY <2>1, MarkerAssumption
        <3>2. 0 \in 0 .. 510
            OBVIOUS
        <3>. QED BY <3>1, <3>2, Zenon DEF EgressSpec
    <2>3. VNId(pkt.flow) \in Nat
        BY <2>1, MarkerAssumption DEF VNId, Miss, DefaultVN
    <2>4. Clamped(VNId(pkt.flow)) \in 0 .. NbVNs - 1
        BY <2>3, MarkerAssumption DEF Clamped
    <2>5. Color(pkt) \in {Green, Yellow}
        BY DEF Color
    <2>. QED BY <2>1, <2>2, <2>4, <2>5 DEF HandedOff, Handoff, DropPort
<1>2. TypeOK => HandoffInRange
    BY <1>1 DEF HandoffInRange, Held
<1>. QED BY <1>2, TypeCorrect, PTL

-----------------------------------------------------------------------------
(* Buckets of different VNs do not interfere *)

\* Only a packet of a flow's own VN to its own port changes the flow's bucket
\* (bucket_index keeps the VNs and ports apart).
THEOREM BucketsAlwaysIndependent == Spec => BucketsIndependent
<1>. DEFINE Changed(f) == \/ X'[BucketOf(f)] # X[BucketOf(f)]
                          \/ LCT'[BucketOf(f)] # LCT[BucketOf(f)]
<1>1. ASSUME TypeOK, [Next]_vars, NEW f \in Classified, Changed(f)
      PROVE  \E r \in Receivers : Marked(r, f)
    <2>1. PICK r \in Receivers : Mark(r)
        BY <1>1 DEF Next, Receive, Tick, vars
    <2>. DEFINE g == stamped[r].flow
    <2>2. /\ g \in Classified
          /\ X' = [X EXCEPT ![BucketOf(g)] = Filled(stamped[r])]
          /\ LCT' = [LCT EXCEPT ![BucketOf(g)] = stamped[r].t_a]
        BY <1>1, <2>1 DEF Mark, Metered
    <2>3. BucketOf(g) = BucketOf(f)
        BY <1>1, <2>2 DEF TypeOK
    <2>4. Class[g] = Class[f] /\ Route[g] = Route[f]
        BY <2>2, <2>3, BucketOwned
    <2>5. stamped[r] # Nothing /\ stamped'[r] = Nothing
        BY <1>1, <2>1 DEF Mark, TypeOK
    <2>. QED BY <2>2, <2>4, <2>5 DEF Marked
<1>2. TypeOK /\ [Next]_vars =>
          [\A f \in Classified :
              (X'[BucketOf(f)] # X[BucketOf(f)] \/ LCT'[BucketOf(f)] # LCT[BucketOf(f)]) =>
                  \E r \in Receivers : Marked(r, f)]_vars
    BY <1>1
<1>. QED BY <1>2, TypeCorrect, PTL DEF Spec, BucketsIndependent

-----------------------------------------------------------------------------
(* What a bucket has marked over a window of time *)

\* The registers carry the history: LCT is the stamp of the last green packet, and
\* everything marked green since `start' is still in the level, or has drained
\* between `start' and that stamp.
Carried(b, rate) ==
    since[b] > 0 => /\ LCT[b] # 0
                    /\ since[b] <= X[b] + (LCT[b] - start) * rate

WindowInv ==
    /\ TypeOK
    /\ start \in 1 .. MaxTime
    /\ since \in [Buckets -> Nat]
    /\ greenAt = LCT
    /\ \A b \in Buckets : LCT[b] = 0 => X[b] = 0
    /\ \A f \in Classified : Carried(BucketOf(f), Rate[f])

LEMMA InitWindow == WInit => WindowInv
<1>. SUFFICES ASSUME WInit PROVE WindowInv
    OBVIOUS
<1>1. TypeOK
    BY InitTypeOK DEF WInit
<1>2. since \in [Buckets -> Nat] /\ greenAt = LCT /\ start \in 1 .. MaxTime
    BY DEF WInit, Init, NoGreen
<1>3. \A b \in Buckets : since[b] = 0 /\ X[b] = 0
    BY DEF WInit, Init
<1>. QED BY <1>1, <1>2, <1>3, BucketOwned DEF WindowInv, Carried

LEMMA WNextIsNext == [WNext]_wvars => [Next]_vars
BY DEF WNext, WMark, wvars, Next, vars

\* Marking a packet green keeps its bucket's account, whatever the order of stamps.
LEMMA GreenCarries ==
    ASSUME WindowInv, NEW pkt \in Packet, pkt.flow \in Classified, Color(pkt) = Green,
           NEW s \in Nat,
           s = IF pkt.t_a >= start THEN since[BucketOf(pkt.flow)] + 8 * pkt.size
               ELSE since[BucketOf(pkt.flow)],
           s > 0
    PROVE  s <= Filled(pkt) + (pkt.t_a - start) * Rate[pkt.flow]
<1>. DEFINE b == BucketOf(pkt.flow)
            rate == Rate[pkt.flow]
            gone == Drained(b, pkt.t_a, rate)
<1>1. /\ b \in Buckets /\ X[b] \in Nat /\ gone \in Int /\ XPrime(pkt) = X[b] - gone
      /\ LCT[b] \in Nat
    BY LevelExact, MarkerAssumption DEF WindowInv, TypeOK
<1>2. /\ Filled(pkt) \in Int
      /\ Filled(pkt) >= XPrime(pkt) + 8 * pkt.size
      /\ Filled(pkt) >= 8 * pkt.size
    BY FilledBounded DEF WindowInv
<1>3. /\ rate \in Nat /\ start \in Nat /\ pkt.t_a \in Nat /\ pkt.size \in Nat
      /\ since[b] \in Nat
    BY <1>1, RateType, MarkerAssumption DEF WindowInv, Packet
<1>4. (pkt.t_a - start) * rate \in Int
    BY <1>3
<1>5. CASE since[b] = 0
    <2>1. pkt.t_a >= start /\ s = 8 * pkt.size
        BY <1>3, <1>5
    <2>2. \A x, r \in Nat : x * r >= 0
        BY SMT
    <2>3. pkt.t_a - start \in Nat
        BY <1>3, <2>1
    <2>4. (pkt.t_a - start) * rate >= 0
        BY <1>3, <2>2, <2>3
    <2>. QED BY <1>2, <1>3, <1>4, <2>1, <2>4
<1>6. CASE since[b] > 0
    <2>1. LCT[b] # 0 /\ since[b] <= X[b] + (LCT[b] - start) * rate
        BY <1>6 DEF WindowInv, Carried
    <2>2. gone = (pkt.t_a - LCT[b]) * rate
        BY <2>1 DEF Drained, LastConformance
    <2>3. \A x, y, z, r \in Int : (x - y) * r + (y - z) * r = (x - z) * r
        BY SMT
    <2>4. gone + (LCT[b] - start) * rate = (pkt.t_a - start) * rate
        BY <1>1, <1>3, <2>2, <2>3
    <2>5. s <= since[b] + 8 * pkt.size
        BY <1>3
    <2>6. (LCT[b] - start) * rate \in Int
        BY <1>1, <1>3
    <2>7. s <= Filled(pkt) + (pkt.t_a - start) * rate
        <3>. HIDE DEF b, rate, gone
        <3>. QED BY <1>1, <1>2, <1>3, <1>4, <2>1, <2>4, <2>5, <2>6
    <2>. QED BY <2>7
<1>. QED BY <1>3, <1>5, <1>6

LEMMA NextWindow ==
    ASSUME WindowInv, [WNext]_wvars
    PROVE  WindowInv'
<1>1. TypeOK /\ TypeOK'
    BY NextTypeOK, WNextIsNext DEF WindowInv
<1>2. start' = start /\ start' \in 1 .. MaxTime
    BY DEF WNext, WMark, history, wvars, WindowInv
<1>3. ASSUME UNCHANGED <<LCT, X, start, since, greenAt>>
      PROVE  WindowInv'
    BY <1>1, <1>2, <1>3 DEF WindowInv, Carried
<1>4. ASSUME NEW r \in Receivers, WMark(r)
      PROVE  WindowInv'
    <2>. DEFINE pkt == stamped[r]
                b == BucketOf(pkt.flow)
    <2>1. pkt \in Packet /\ Mark(r)
        BY <1>1, <1>4, HeldPacket DEF WMark, Mark
    <2>2. CASE ~(pkt.flow \in Classified /\ Color(pkt) = Green)
        BY <1>3, <1>4, <2>2 DEF WMark, Mark, Metered
    <2>3. CASE pkt.flow \in Classified /\ Color(pkt) = Green
        <3>. DEFINE s == IF pkt.t_a >= start THEN since[b] + 8 * pkt.size ELSE since[b]
        <3>1. /\ X' = [X EXCEPT ![b] = Filled(pkt)]
              /\ LCT' = [LCT EXCEPT ![b] = pkt.t_a]
              /\ greenAt' = [greenAt EXCEPT ![b] = pkt.t_a]
              /\ since' = [since EXCEPT ![b] = s]
            BY <1>4, <2>1, <2>3 DEF WMark, Mark, Metered, Recorded
        <3>2. /\ b \in Buckets /\ pkt.t_a \in Nat \ {0} /\ pkt.size \in Nat
              /\ since[b] \in Nat /\ s \in Nat
            BY <2>1, <2>3, BucketOwned, MarkerAssumption DEF WindowInv, Packet
        <3>3. since' \in [Buckets -> Nat] /\ greenAt' = LCT'
            BY <3>1, <3>2 DEF WindowInv
        <3>4. \A c \in Buckets : LCT'[c] = 0 => X'[c] = 0
            BY <1>1, <3>1, <3>2 DEF WindowInv, TypeOK
        <3>5. ASSUME NEW f \in Classified
              PROVE  Carried(BucketOf(f), Rate[f])'
            <4>1. CASE BucketOf(f) # b
                <5>1. BucketOf(f) \in Buckets
                    BY BucketOwned
                <5>2. /\ X'[BucketOf(f)] = X[BucketOf(f)]
                      /\ LCT'[BucketOf(f)] = LCT[BucketOf(f)]
                      /\ since'[BucketOf(f)] = since[BucketOf(f)]
                    BY <1>1, <3>1, <4>1, <5>1 DEF WindowInv, TypeOK
                <5>. QED BY <1>2, <5>2 DEF WindowInv, Carried
            <4>2. CASE BucketOf(f) = b
                <5>1. Rate[f] = Rate[pkt.flow]
                    BY <2>3, <4>2, OneRatePerBucket
                <5>2. X'[b] = Filled(pkt) /\ LCT'[b] = pkt.t_a /\ since'[b] = s
                    BY <1>1, <3>1, <3>2 DEF WindowInv, TypeOK
                <5>3. s > 0 => s <= Filled(pkt) + (pkt.t_a - start) * Rate[pkt.flow]
                    BY <2>1, <2>3, <3>2, GreenCarries
                <5>. HIDE DEF pkt, b, s
                <5>. QED BY <1>2, <3>2, <4>2, <5>1, <5>2, <5>3 DEF Carried
            <4>. QED BY <4>1, <4>2
        <3>. QED BY <1>1, <1>2, <3>3, <3>4, <3>5 DEF WindowInv
    <2>. QED BY <2>2, <2>3
<1>. QED BY <1>3, <1>4 DEF WNext, Receive, Tick, history, wvars

LEMMA WindowInvariant == WSpec => []WindowInv
<1>. QED BY InitWindow, NextWindow, PTL DEF WSpec

\* Green never exceeds the guarantee: over any window a bucket marks no more than
\* rate times its length, the burst limit and one packet.
THEOREM GreenAlwaysWithinGuarantee == WSpec => []GreenWithinGuarantee
<1>1. ASSUME WindowInv, NEW f \in Classified, since[BucketOf(f)] > 0
      PROVE  since[BucketOf(f)] <=
                 Tau + 8 * MaxSize + (greenAt[BucketOf(f)] - start) * Rate[f]
    <2>. DEFINE b == BucketOf(f)
                spent == (LCT[b] - start) * Rate[f]
    <2>1. since[b] <= X[b] + spent /\ greenAt[b] = LCT[b]
        BY <1>1 DEF WindowInv, Carried
    <2>2. X[b] \in 0 .. Tau + 8 * MaxSize /\ LCT[b] \in Nat /\ since[b] \in Nat
        BY <1>1, BucketOwned DEF WindowInv, TypeOK
    <2>3. spent \in Int
        BY <1>1, <2>2, RateType DEF WindowInv
    <2>4. Tau + 8 * MaxSize \in Int
        BY MarkerAssumption
    <2>5. since[b] <= Tau + 8 * MaxSize + spent
        <3>. HIDE DEF b, spent
        <3>. QED BY <2>1, <2>2, <2>3, <2>4
    <2>. QED BY <2>1, <2>5
<1>2. WindowInv => GreenWithinGuarantee
    BY <1>1 DEF GreenWithinGuarantee
<1>. QED BY <1>2, WindowInvariant, PTL

\* The guarantee can always be used: excess traffic never pushes the next green
\* packet further away than one packet's drain time.
THEOREM NeverLockedOut == WSpec => []NoLockout
<1>1. ASSUME WindowInv, NEW r \in Receivers, stamped[r] # Nothing,
             stamped[r].flow \in Classified,
             \/ greenAt[BucketOf(stamped[r].flow)] = NoGreen
             \/ (stamped[r].t_a - greenAt[BucketOf(stamped[r].flow)])
                    * Rate[stamped[r].flow] >= 8 * MaxSize
      PROVE  Color(stamped[r]) = Green
    <2>. DEFINE pkt == stamped[r]
                b == BucketOf(pkt.flow)
                gone == Drained(b, pkt.t_a, Rate[pkt.flow])
    <2>1. TypeOK /\ pkt \in Packet
        BY <1>1, HeldPacket DEF WindowInv
    <2>2. /\ b \in Buckets /\ X[b] \in 0 .. Tau + 8 * MaxSize
          /\ gone \in Int /\ XPrime(pkt) = X[b] - gone
        BY <1>1, <2>1, LevelExact
    <2>3. CASE LCT[b] = 0
        <3>1. gone = 0
            <4>1. pkt.t_a \in 1 .. MaxTime /\ Rate[pkt.flow] \in Nat
                BY <1>1, <2>1, RateType DEF Packet
            <4>. QED BY <2>1, <2>2, <2>3, <4>1, DrainedBounded
        <3>2. X[b] = 0
            BY <1>1, <2>2, <2>3 DEF WindowInv
        <3>3. ~(XPrime(pkt) > Tau)
            BY <2>2, <3>1, <3>2, MarkerAssumption
        <3>. QED BY <3>3 DEF Color
    <2>4. CASE LCT[b] # 0
        <3>1. greenAt[b] = LCT[b]
            BY <1>1 DEF WindowInv
        <3>2. gone >= 8 * MaxSize
            BY <1>1, <2>4, <3>1 DEF Drained, LastConformance, NoGreen
        <3>3. ~(XPrime(pkt) > Tau)
            BY <2>2, <3>2, MarkerAssumption
        <3>. QED BY <3>3 DEF Color
    <2>. QED BY <2>3, <2>4
<1>2. WindowInv => NoLockout
    BY <1>1 DEF NoLockout, Held
<1>. QED BY <1>2, WindowInvariant, PTL
=============================================================================
