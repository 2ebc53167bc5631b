------------------------- MODULE LogicalQueue_proofs -------------------------
(***************************************************************************)
(* What the operators of LogicalQueue preserve, for any number of VNs, any  *)
(* weights, packet sizes, ceilings and rates.  LQInv is the invariant of one *)
(* logical queue; each operator has a lemma.                                *)
(*                                                                         *)
(* The prover has no induction over data, so facts that need one are shown  *)
(* by minimal counterexample: LeastNat gives the least element of a         *)
(* nonempty set of naturals, from the well-foundedness of finite sets.      *)
(***************************************************************************)
EXTENDS LogicalQueue, TLAPS, WellFoundedInduction, FiniteSetTheorems, SequenceTheorems

-----------------------------------------------------------------------------
(* Sequences and rings *)

\* A nonempty set of naturals has a least element.
LEMMA LeastNat ==
  ASSUME NEW S \in SUBSET Nat, S # {}
  PROVE \E m \in S : \A n \in S : m <= n
<1>1. IsWellFoundedOn(StrictSubsetOrdering(Nat), FiniteSubsetsOf(Nat))
  BY FS_StrictSubsetOrderingWellFounded
<1> DEFINE T == {0 .. n : n \in S}
<1>2. T \subseteq FiniteSubsetsOf(Nat)
  <2>1. ASSUME NEW n \in S PROVE IsFiniteSet(0 .. n) /\ 0 .. n \subseteq Nat
    BY FS_Interval
  <2> QED BY <2>1 DEF FiniteSubsetsOf
<1>3. T # {}
  OBVIOUS
<1>4. PICK t \in T : \A u \in T : <<u, t>> \notin StrictSubsetOrdering(Nat)
  BY <1>1, <1>2, <1>3, WFMin, Zenon
<1>5. PICK m \in S : t = 0 .. m
  OBVIOUS
<1>6. ASSUME NEW n \in S, n < m
      PROVE  FALSE
  <2>1. 0 .. n \in T
    OBVIOUS
  <2>2. <<0 .. n, 0 .. m>> \in (SUBSET Nat) \X (SUBSET Nat)
    OBVIOUS
  <2>3. 0 .. n \subseteq 0 .. m /\ 0 .. n # 0 .. m
    <3>1. m \in 0 .. m /\ m \notin 0 .. n
      BY <1>6
    <3> QED BY <1>6, <3>1
  <2>4. <<0 .. n, 0 .. m>> \in StrictSubsetOrdering(Nat)
    BY <2>2, <2>3 DEF StrictSubsetOrdering
  <2> QED BY <1>4, <1>5, <2>1, <2>4
<1>7. \A n \in S : m <= n
  BY <1>6
<1> QED BY <1>7

\* The ring scan ends at an element of S whenever the ring has one.
LEMMA NextInRingHit ==
  ASSUME NEW T, NEW s \in Seq(T), NEW c \in Nat, NEW S, S \cap Range(s) # {}
  PROVE /\ NextInRing(s, c, S) \in 0 .. Len(s) - 1
        /\ s[NextInRing(s, c, S) + 1] \in S
<1> DEFINE n == Len(s)
           hits == {i \in 0 .. n - 1 : s[i + 1] \in S}
           dist == {(i - c) % n : i \in hits}
<1>1. PICK k \in 1 .. n : s[k] \in S
  BY DEF Range
<1>1a. n \in Nat /\ n # 0 
  BY <1>1
<1>2. k - 1 \in hits
  BY <1>1, <1>1a
<1>3. dist \in SUBSET Nat 
  <2>1. \A i \in hits : (i - c) % n \in Nat
    BY <1>1a
  <2> QED BY <2>1
<1>4. dist # {}
  BY <1>2
<1>5. PICK d \in dist : \A e \in dist : d <= e
  BY <1>3, <1>4, LeastNat
<1>6. \E i \in hits : \A j \in hits : (i - c) % n <= (j - c) % n
  BY <1>5
<1> HIDE DEF dist
<1>7. NextInRing(s, c, S) \in hits
  BY <1>6 DEF NextInRing
<1> QED BY <1>7

\* The equation that defines Without, and what it means for f to solve it up to n.
KeptRec(s, S, f, k) ==
  IF k = 0 THEN <<>>
  ELSE IF s[k] \in S THEN f[k - 1]
  ELSE Append(f[k - 1], s[k])

KeptUpTo(s, S, f, n) == f = [k \in 0 .. n |-> KeptRec(s, S, f, k)]

\* The recursion that defines Without has a solution.
LEMMA KeptExists ==
  ASSUME NEW s \in Seq(VNs), NEW S
  PROVE  \E f : KeptUpTo(s, S, f, Len(s))
<1> DEFINE bad == {n \in Nat : ~ \E f : KeptUpTo(s, S, f, n)}
<1>1. ASSUME NEW f, NEW g, NEW k \in Nat, k # 0 => f[k - 1] = g[k - 1]
      PROVE  KeptRec(s, S, f, k) = KeptRec(s, S, g, k)
  BY <1>1 DEF KeptRec
<1>2. \A f : KeptRec(s, S, f, 0) = <<>>
  BY DEF KeptRec
<1>3. SUFFICES ASSUME bad # {} PROVE FALSE
  <2>1. Len(s) \in Nat /\ Len(s) \notin bad
    <3>1. bad = {}
      BY <1>3
    <3> HIDE DEF bad
    <3> QED BY <3>1
  <2> QED BY <2>1
<1>4. bad \in SUBSET Nat
  OBVIOUS
<1>5. PICK m \in bad : \A n \in bad : m <= n
  <2> HIDE DEF bad
  <2> QED BY <1>3, <1>4, LeastNat
<1>6. m \in Nat /\ \A f : ~ KeptUpTo(s, S, f, m)
  BY <1>5
<1>7. CASE m = 0
  <2> DEFINE f == [k \in 0 .. 0 |-> <<>>]
  <2>1. \A k \in 0 .. 0 : KeptRec(s, S, f, k) = <<>>
    BY <1>2
  <2>2. f = [k \in 0 .. 0 |-> KeptRec(s, S, f, k)]
    BY <2>1
  <2>3. KeptUpTo(s, S, f, 0)
    BY <2>2 DEF KeptUpTo
  <2> HIDE DEF f
  <2> QED BY <1>6, <1>7, <2>3
<1>8. CASE m # 0
  <2>1. m - 1 \in Nat /\ m - 1 \notin bad
    <3> HIDE DEF bad
    <3> QED BY <1>5, <1>6, <1>8
  <2>2. PICK g : KeptUpTo(s, S, g, m - 1)
    BY <2>1
  <2> DEFINE f == [k \in 0 .. m |-> KeptRec(s, S, g, k)]
  <2>3. \A k \in 0 .. m - 1 : f[k] = g[k]
    <3>1. \A k \in 0 .. m - 1 : g[k] = KeptRec(s, S, g, k)
      BY <2>2 DEF KeptUpTo
    <3>2. \A k \in 0 .. m - 1 : k \in 0 .. m
      BY <1>6
    <3> QED BY <3>1, <3>2
  <2>4. ASSUME NEW k \in 0 .. m
        PROVE  KeptRec(s, S, f, k) = KeptRec(s, S, g, k)
    <3>1. k # 0 => k - 1 \in 0 .. m - 1
      BY <1>6
    <3> HIDE DEF f
    <3> QED BY <1>1, <2>3, <3>1
  <2>5. f = [k \in 0 .. m |-> KeptRec(s, S, f, k)]
    BY <2>4
  <2>6. KeptUpTo(s, S, f, m)
    BY <2>5 DEF KeptUpTo
  <2> HIDE DEF f
  <2> QED BY <1>6, <2>6
<1> QED BY <1>7, <1>8

\* Erasing the elements of S keeps the others, each as often as before.
LEMMA WithoutElements ==
  ASSUME NEW s \in Seq(VNs), NEW S
  PROVE  /\ Without(s, S) \in Seq(VNs)
         /\ Range(Without(s, S)) = Range(s) \ S
         /\ IsInjective(s) => IsInjective(Without(s, S))
<1> DEFINE kept == CHOOSE f : KeptUpTo(s, S, f, Len(s))
<1>1. Without(s, S) = kept[Len(s)]
  BY Zenon DEF Without, KeptUpTo, KeptRec
<1>2. KeptUpTo(s, S, kept, Len(s))
  BY KeptExists
<1> HIDE DEF kept
<1>3. \A k \in 0 .. Len(s) : kept[k] = KeptRec(s, S, kept, k)
  BY <1>2 DEF KeptUpTo
<1>4. /\ kept[0] = <<>>
      /\ \A k \in 1 .. Len(s) :
            kept[k] = IF s[k] \in S THEN kept[k - 1] ELSE Append(kept[k - 1], s[k])
  <2>1. KeptRec(s, S, kept, 0) = <<>> /\ 0 \in 0 .. Len(s)
    BY DEF KeptRec
  <2>2. ASSUME NEW k \in 1 .. Len(s)
        PROVE  kept[k] = IF s[k] \in S THEN kept[k - 1] ELSE Append(kept[k - 1], s[k])
    <3>1. k \in 0 .. Len(s) /\ k # 0
      OBVIOUS
    <3>2. kept[k] = KeptRec(s, S, kept, k)
      BY <1>3, <3>1
    <3> QED BY <3>1, <3>2, Zenon DEF KeptRec
  <2> QED BY <1>3, <2>1, <2>2
<1> DEFINE Good(k) == /\ kept[k] \in Seq(VNs)
                      /\ Range(kept[k]) = {s[i] : i \in 1 .. k} \ S
                      /\ IsInjective(s) => IsInjective(kept[k])
           bad == {k \in 0 .. Len(s) : ~ Good(k)}
<1>5. bad = {}
  <2> SUFFICES ASSUME bad # {} PROVE FALSE
    OBVIOUS
  <2>1. bad \in SUBSET Nat
    OBVIOUS
  <2>2. PICK m \in bad : \A n \in bad : m <= n
    <3> HIDE DEF bad
    <3> QED BY <2>1, LeastNat
  <2>3. m \in 0 .. Len(s) /\ ~ Good(m)
    BY <2>2
  <2>4. ASSUME m = 0 PROVE FALSE
    <3>1. kept[0] = <<>>
      BY <1>4
    <3>2. Range(<< >>) = {} /\ IsInjective(<< >>) /\ << >> \in Seq(VNs)
      BY DEF Range, IsInjective
    <3>3. {s[i] : i \in 1 .. 0} \ S = {}
      OBVIOUS
    <3>4. Good(0)
      BY <3>1, <3>2, <3>3
    <3> HIDE DEF Good
    <3> QED BY <2>3, <2>4, <3>4
  <2>5. m \in 1 .. Len(s) /\ m - 1 \in 0 .. Len(s) /\ m - 1 \notin bad
    <3> HIDE DEF bad
    <3> QED BY <2>2, <2>3, <2>4
  <2>6. Good(m - 1)
    <3> HIDE DEF Good
    <3> QED BY <2>5
  <2>7. s[m] \in VNs
    BY <2>5
  <2>8. {s[i] : i \in 1 .. m} = {s[i] : i \in 1 .. m - 1} \cup {s[m]}
    <3>1. 1 .. m = (1 .. m - 1) \cup {m}
      BY <2>5
    <3> QED BY <3>1
  <2>9. CASE s[m] \in S
    <3>1. kept[m] = kept[m - 1]
      BY <1>4, <2>5, <2>9
    <3> QED BY <3>1, <2>3, <2>6, <2>8, <2>9
  <2>10. CASE s[m] \notin S
    <3> DEFINE t == kept[m - 1]
    <3>1. kept[m] = Append(t, s[m])
      BY <1>4, <2>5, <2>10, Zenon
    <3>2. t \in Seq(VNs) /\ Range(t) = {s[i] : i \in 1 .. m - 1} \ S
      BY <2>6
    <3>3. IsInjective(s) => IsInjective(t)
      BY <2>6
    <3> HIDE DEF t
    <3>4. Append(t, s[m]) \in Seq(VNs)
      BY <2>7, <3>2
    <3>5. Range(Append(t, s[m])) = Range(t) \cup {s[m]}
      <4> DEFINE u == Append(t, s[m])
      <4>1. /\ Len(u) = Len(t) + 1 /\ DOMAIN u = 1 .. Len(u)
            /\ \A i \in 1 .. Len(t) : u[i] = t[i]
            /\ u[Len(t) + 1] = s[m]
        BY <2>7, <3>2, AppendProperties
      <4>2. DOMAIN t = 1 .. Len(t) /\ Len(t) \in Nat
        BY <3>2
      <4> HIDE DEF u
      <4>3. Range(u) = Range(t) \cup {s[m]}
        BY <4>1, <4>2 DEF Range
      <4> QED BY <4>3 DEF u
    <3>6. ASSUME IsInjective(s) PROVE IsInjective(Append(t, s[m]))
      <4>1. s[m] \notin {s[i] : i \in 1 .. m - 1}
        BY <3>6, <2>5 DEF IsInjective
      <4>2. s[m] \notin Range(t)
        BY <3>2, <4>1
      <4> QED BY <4>2, <3>3, <3>6, <3>2, <2>7, AppendProperties DEF IsInjective, Range
    <3>7. Range(kept[m]) = {s[i] : i \in 1 .. m} \ S
      BY <3>1, <3>2, <3>5, <2>8, <2>10
    <3> QED BY <3>1, <3>4, <3>6, <3>7, <2>3
  <2> QED BY <2>9, <2>10
<1>6. Good(Len(s))
  <2> HIDE DEF Good
  <2>1. Len(s) \in 0 .. Len(s)
    OBVIOUS
  <2> QED BY <1>5, <2>1
<1>7. {s[i] : i \in 1 .. Len(s)} = Range(s)
  BY DEF Range
<1> QED BY <1>1, <1>6, <1>7

-----------------------------------------------------------------------------
(* One logical queue *)

\* The invariant of one logical queue.
LQInv(L) ==
    /\ L \in LogicalQueueInfo
    /\ CountersMatchFifos(L)
    /\ IsFiniteSet(Slots(L))
    /\ BackloggedIsActive(L)
    /\ IsInjective(L.active_set)
    /\ PendingHasPacket(L)
    /\ OnlyActiveHasDeficit(L)
    /\ DebtBelowOnePacket(L)
    /\ IdleIsStamped(L)
    /\ LevelWithinCeiling(L)

\* One more packet adds one slot.
LEMMA SlotsGrow ==
  ASSUME NEW L, NEW M, NEW v \in VNs, L.size \in [VNs -> Nat],
         M.size = [L.size EXCEPT ![v] = @ + 1]
  PROVE  /\ Slots(M) = Slots(L) \cup {<<v, M.size[v]>>}
         /\ <<v, M.size[v]>> \notin Slots(L)
<1>1. 1 .. L.size[v] + 1 = (1 .. L.size[v]) \cup {L.size[v] + 1}
  OBVIOUS
<1>2. \A u \in VNs : M.size[u] = IF u = v THEN L.size[v] + 1 ELSE L.size[u]
  OBVIOUS
<1>3. M.size[v] \notin 1 .. L.size[v]
  BY <1>2
<1>4. ASSUME NEW s
      PROVE  s \in Slots(M) <=> s \in Slots(L) \cup {<<v, M.size[v]>>}
  <2>1. s \in Slots(M) <=> \E u \in VNs : \E k \in 1 .. M.size[u] : s = <<u, k>>
    BY DEF Slots
  <2>2. s \in Slots(L) <=> \E u \in VNs : \E k \in 1 .. L.size[u] : s = <<u, k>>
    BY DEF Slots
  <2> QED BY <2>1, <2>2, <1>1, <1>2
<1>5. Slots(M) = Slots(L) \cup {<<v, M.size[v]>>}
  BY <1>4
<1>6. <<v, M.size[v]>> \notin Slots(L)
  BY <1>3 DEF Slots
<1> QED BY <1>5, <1>6

\* An empty logical queue has no backlogged VN, a nonempty one has at least one.
LEMMA TotalVersusSizes ==
  ASSUME NEW L, LQInv(L)
  PROVE  L.total > 0 <=> \E v \in VNs : L.size[v] > 0
<1>1. L.total = Cardinality(Slots(L)) /\ IsFiniteSet(Slots(L)) /\ L.total \in Nat
  BY DEF LQInv, CountersMatchFifos, LogicalQueueInfo
<1>2. L.total > 0 <=> Slots(L) # {}
  BY <1>1, FS_EmptySet
<1>3. L.size \in [VNs -> Nat]
  BY DEF LQInv, LogicalQueueInfo
<1>4. \A s : s \in Slots(L) <=> \E v \in VNs : \E k \in 1 .. L.size[v] : s = <<v, k>>
  BY DEF Slots
<1>5. ASSUME Slots(L) # {} PROVE \E v \in VNs : L.size[v] > 0
  <2>1. PICK v \in VNs : \E k \in 1 .. L.size[v] : TRUE
    BY <1>4, <1>5
  <2>2. L.size[v] \in Nat
    BY <1>3
  <2>3. L.size[v] > 0
    BY <2>1, <2>2
  <2> QED BY <2>3
<1>6. ASSUME NEW v \in VNs, L.size[v] > 0 PROVE Slots(L) # {}
  <2>1. 1 \in 1 .. L.size[v]
    BY <1>3, <1>6
  <2>2. <<v, 1>> \in Slots(L)
    BY <1>4, <2>1
  <2> QED BY <2>2
<1> QED BY <1>2, <1>5, <1>6

\* A port starts out empty, inactive and without credit.
LEMMA NewLogicalQueueInv ==
  ASSUME NEW cap \in Nat
  PROVE  LQInv(NewLogicalQueue(cap))
<1> DEFINE L == NewLogicalQueue(cap)
<1>1. L \in LogicalQueueInfo
  BY LQAssumption DEF NewLogicalQueue, LogicalQueueInfo
<1>2. Slots(L) = {}
  BY DEF Slots, NewLogicalQueue
<1>3. Range(L.active_set) = {} /\ IsInjective(L.active_set)
  BY DEF NewLogicalQueue, Range, IsInjective
<1>4. CountersMatchFifos(L) /\ IsFiniteSet(Slots(L))
  BY <1>2, FS_EmptySet DEF CountersMatchFifos, NewLogicalQueue
<1>5. BackloggedIsActive(L) /\ PendingHasPacket(L) /\ OnlyActiveHasDeficit(L)
  BY DEF BackloggedIsActive, PendingHasPacket, OnlyActiveHasDeficit, NewLogicalQueue
<1>6. DebtBelowOnePacket(L) /\ IdleIsStamped(L) /\ LevelWithinCeiling(L)
  BY <1>3, LQAssumption DEF DebtBelowOnePacket, IdleIsStamped, LevelWithinCeiling,
                            NewLogicalQueue
<1> QED BY <1>1, <1>3, <1>4, <1>5, <1>6 DEF LQInv

-----------------------------------------------------------------------------
(* push_front *)

\* Crediting a green arrival disturbs nothing else, packet stored or not.
LEMMA CreditedInv ==
  ASSUME NEW L, LQInv(L), NEW v \in VNs, NEW pkt \in Pkt
  PROVE  /\ LQInv(Credited(L, v, pkt))
         /\ Slots(Credited(L, v, pkt)) = Slots(L)
<1>1. CASE pkt.color # Green
  BY <1>1 DEF Credited
<1>2. CASE pkt.color = Green
  <2> DEFINE M == [L EXCEPT !.green_credit[v] = @ + pkt.size]
  <2>1. Credited(L, v, pkt) = M
    BY <1>2 DEF Credited
  <2>2. pkt.size \in Nat
    BY LQAssumption DEF Pkt
  <2>3. L \in LogicalQueueInfo
    BY DEF LQInv
  <2>4. /\ M \in LogicalQueueInfo
        /\ M.green_credit = [L.green_credit EXCEPT ![v] = @ + pkt.size]
        /\ M.fifo = L.fifo /\ M.size = L.size /\ M.total = L.total
        /\ M.active_set = L.active_set /\ M.pending_vn = L.pending_vn
        /\ M.weighted_deficit = L.weighted_deficit
        /\ M.empty_for = L.empty_for /\ M.X = L.X
    <3> DEFINE credit == [L.green_credit EXCEPT ![v] = @ + pkt.size]
    <3>1. L.green_credit \in [VNs -> Int]
      BY <2>3 DEF LogicalQueueInfo
    <3>2. credit \in [VNs -> Int]
      BY <2>2, <3>1
    <3>3. M = [L EXCEPT !.green_credit = credit]
      OBVIOUS
    <3> HIDE DEF credit, M
    <3>4. M \in LogicalQueueInfo /\ M.green_credit = credit
      BY <2>3, <3>2, <3>3 DEF LogicalQueueInfo
    <3> QED BY <2>3, <3>3, <3>4 DEF LogicalQueueInfo, credit
  <2> HIDE DEF M
  <2>5. Slots(M) = Slots(L)
    BY <2>4 DEF Slots
  <2>6. CountersMatchFifos(M) /\ BackloggedIsActive(M) /\ IsInjective(M.active_set)
    BY <2>4, <2>5 DEF LQInv, CountersMatchFifos, BackloggedIsActive
  <2>7. PendingHasPacket(M) /\ OnlyActiveHasDeficit(M)
    BY <2>4 DEF LQInv, PendingHasPacket, OnlyActiveHasDeficit
  <2>8. DebtBelowOnePacket(M)
    <3>1. \A u \in VNs : /\ L.green_credit[u] \in Int
                           /\ M.green_credit[u] \in Int
                           /\ M.green_credit[u] >= L.green_credit[u]
      <4>1. L.green_credit \in [VNs -> Int]
        BY <2>3 DEF LogicalQueueInfo
      <4> QED BY <2>2, <2>4, <4>1
    <3> QED BY <2>4, <3>1, LQAssumption DEF LQInv, DebtBelowOnePacket
  <2>9. IdleIsStamped(M) /\ LevelWithinCeiling(M)
    BY <2>4 DEF LQInv, IdleIsStamped, LevelWithinCeiling
  <2> QED BY <2>1, <2>4, <2>5, <2>6, <2>7, <2>8, <2>9 DEF LQInv
<1> QED BY <1>1, <1>2

\* Activation adds the VN, once.
LEMMA ActivatedElements ==
  ASSUME NEW s \in Seq(VNs), NEW v \in VNs
  PROVE  /\ Activated(s, v) \in Seq(VNs)
         /\ Range(Activated(s, v)) = Range(s) \cup {v}
         /\ IsInjective(s) => IsInjective(Activated(s, v))
<1>1. CASE v \in Range(s)
  BY <1>1 DEF Activated
<1>2. CASE v \notin Range(s)
  <2> DEFINE t == Append(s, v)
  <2>1. Activated(s, v) = t
    BY <1>2 DEF Activated
  <2>2. /\ t \in Seq(VNs) /\ Len(t) = Len(s) + 1
        /\ \A i \in 1 .. Len(s) : t[i] = s[i]
        /\ t[Len(s) + 1] = v
    BY AppendProperties
  <2>3. DOMAIN s = 1 .. Len(s) /\ Len(s) \in Nat /\ DOMAIN t = 1 .. Len(t)
    BY <2>2
  <2> HIDE DEF t
  <2>4. Range(t) = Range(s) \cup {v}
    BY <2>2, <2>3 DEF Range
  <2>5. ASSUME IsInjective(s) PROVE IsInjective(t)
    BY <1>2, <2>2, <2>3, <2>5 DEF IsInjective, Range
  <2> QED BY <2>1, <2>2, <2>4, <2>5
<1> QED BY <1>1, <1>2

\* Storing a packet keeps the invariant and adds exactly one slot.
LEMMA EnqueuedInv ==
  ASSUME NEW L, LQInv(L), NEW v \in VNs, NEW pkt \in Pkt
  PROVE  /\ LQInv(Enqueued(L, v, pkt))
         /\ Slots(Enqueued(L, v, pkt)) = Slots(L) \cup {<<v, L.size[v] + 1>>}
         /\ <<v, L.size[v] + 1>> \notin Slots(L)
<1> DEFINE M == Enqueued(L, v, pkt)
<1>1. L \in LogicalQueueInfo
  BY DEF LQInv
<1>2. /\ Activated(L.active_set, v) \in Seq(VNs)
      /\ Range(Activated(L.active_set, v)) = Range(L.active_set) \cup {v}
      /\ IsInjective(Activated(L.active_set, v))
  BY <1>1, ActivatedElements DEF LQInv, LogicalQueueInfo
<1>3. /\ M.fifo = [L.fifo EXCEPT ![v] = Append(@, pkt)]
      /\ M.size = [L.size EXCEPT ![v] = @ + 1]
      /\ M.total = L.total + 1
      /\ M.active_set = Activated(L.active_set, v)
      /\ M.capacity = L.capacity /\ M.green_credit = L.green_credit
      /\ M.weighted_deficit = L.weighted_deficit /\ M.empty_for = L.empty_for
      /\ M.green_scan_idx = L.green_scan_idx /\ M.wrr_idx = L.wrr_idx
      /\ M.pending_vn = L.pending_vn /\ M.X = L.X
      /\ M.lct_age = L.lct_age /\ M.rate = L.rate
  BY <1>1 DEF Enqueued, LogicalQueueInfo
<1>4. L.size \in [VNs -> Nat] /\ L.fifo \in [VNs -> Seq(Pkt)] /\ L.total \in Nat
  BY <1>1 DEF LogicalQueueInfo
<1>5. M \in LogicalQueueInfo
  <2> DEFINE fifo == [L.fifo EXCEPT ![v] = Append(@, pkt)]
             size == [L.size EXCEPT ![v] = @ + 1]
             active == Activated(L.active_set, v)
  <2>1. fifo \in [VNs -> Seq(Pkt)]
    BY <1>4, AppendProperties
  <2>2. size \in [VNs -> Nat] /\ L.total + 1 \in Nat /\ active \in Seq(VNs)
    BY <1>2, <1>4
  <2>3. M = [L EXCEPT !.fifo = fifo, !.size = size, !.total = L.total + 1,
                      !.active_set = active]
    BY DEF Enqueued
  <2> HIDE DEF fifo, size, active, M
  <2> QED BY <1>1, <2>1, <2>2, <2>3 DEF LogicalQueueInfo
<1> HIDE DEF M
<1>6. /\ Slots(M) = Slots(L) \cup {<<v, L.size[v] + 1>>}
      /\ <<v, L.size[v] + 1>> \notin Slots(L)
  <2>1. M.size[v] = L.size[v] + 1
    BY <1>3, <1>4
  <2>2. M.size = [L.size EXCEPT ![v] = @ + 1] /\ L.size \in [VNs -> Nat]
    BY <1>3, <1>4
  <2>3. /\ Slots(M) = Slots(L) \cup {<<v, M.size[v]>>}
        /\ <<v, M.size[v]>> \notin Slots(L)
    BY <2>2, SlotsGrow, Zenon
  <2> QED BY <2>1, <2>3
<1>7. IsFiniteSet(Slots(M)) /\ M.total = Cardinality(Slots(M))
  <2>1. IsFiniteSet(Slots(L)) /\ L.total = Cardinality(Slots(L))
    BY DEF LQInv, CountersMatchFifos
  <2> QED BY <1>3, <1>6, <2>1, FS_AddElement
<1>8. \A u \in VNs : M.size[u] = Len(M.fifo[u])
  <2>1. \A u \in VNs : L.size[u] = Len(L.fifo[u])
    BY DEF LQInv, CountersMatchFifos
  <2>2. Len(Append(L.fifo[v], pkt)) = Len(L.fifo[v]) + 1
    BY <1>4, AppendProperties
  <2> QED BY <1>3, <1>4, <2>1, <2>2
<1>9. BackloggedIsActive(M) /\ OnlyActiveHasDeficit(M)
  BY <1>2, <1>3, <1>4 DEF LQInv, BackloggedIsActive, OnlyActiveHasDeficit
<1>10. PendingHasPacket(M)
  BY <1>1, <1>3, <1>4 DEF LQInv, PendingHasPacket, LogicalQueueInfo
<1>11. DebtBelowOnePacket(M) /\ LevelWithinCeiling(M)
  BY <1>3 DEF LQInv, DebtBelowOnePacket, LevelWithinCeiling
<1>12. IdleIsStamped(M)
  <2>1. \A u \in VNs : M.size[u] = 0 => u # v /\ L.size[u] = 0
    BY <1>3, <1>4
  <2>2. Range(M.active_set) \subseteq VNs
    BY <1>5 DEF LogicalQueueInfo, Range
  <2> QED BY <1>2, <1>3, <2>1, <2>2 DEF LQInv, IdleIsStamped
<1>13. IsInjective(M.active_set)
  BY <1>2, <1>3
<1> QED BY <1>5, <1>6, <1>7, <1>8, <1>9, <1>10, <1>11, <1>12, <1>13
        DEF LQInv, CountersMatchFifos, M

\* push_front, whether it stores or drops, keeps the invariant.
LEMMA PushFrontInv ==
  ASSUME NEW L, LQInv(L), NEW v \in VNs, NEW pkt \in Pkt
  PROVE  LQInv(PushFront(L, v, pkt))
BY CreditedInv, EnqueuedInv DEF PushFront

-----------------------------------------------------------------------------
(* The idle sweep *)

\* The idle sweep evicts only empty VNs and clears what they leave behind.
LEMMA SweptInv ==
  ASSUME NEW L, LQInv(L), L.pending_vn = NoVN
  PROVE  /\ LQInv(Swept(L))
         /\ Slots(Swept(L)) = Slots(L)
         /\ Swept(L).total = L.total
         /\ Swept(L).pending_vn = NoVN
         /\ Swept(L).size = L.size /\ Swept(L).fifo = L.fifo
<1> DEFINE M == Swept(L)
           I == IdleVNs(L)
           active == Without(L.active_set, I)
           deficit == [v \in VNs |-> IF v \in I \cap Range(L.active_set)
                                    THEN 0 ELSE L.weighted_deficit[v]]
<1>1. L \in LogicalQueueInfo
  BY DEF LQInv
<1>2. /\ active \in Seq(VNs)
      /\ Range(active) = Range(L.active_set) \ I
      /\ IsInjective(active)
  <2>1. L.active_set \in Seq(VNs) /\ IsInjective(L.active_set)
    BY <1>1 DEF LQInv, LogicalQueueInfo
  <2> QED BY <2>1, WithoutElements
<1>3. deficit \in [VNs -> Int]
  <2>1. L.weighted_deficit \in [VNs -> Int]
    BY <1>1 DEF LogicalQueueInfo
  <2> QED BY <2>1
<1>4. M = [L EXCEPT !.weighted_deficit = deficit, !.active_set = active]
  BY DEF Swept
<1>5. \A v \in I : L.size[v] = 0
  BY DEF IdleVNs
<1>6. \A v \in VNs : deficit[v] = IF v \in I \cap Range(L.active_set)
                                  THEN 0 ELSE L.weighted_deficit[v]
  OBVIOUS
<1> HIDE DEF M, I, active, deficit
<1>7. M \in LogicalQueueInfo
  BY <1>1, <1>2, <1>3, <1>4 DEF LogicalQueueInfo
<1>8. /\ M.weighted_deficit = deficit /\ M.active_set = active
      /\ M.fifo = L.fifo /\ M.size = L.size /\ M.total = L.total
      /\ M.pending_vn = L.pending_vn /\ M.green_credit = L.green_credit
      /\ M.empty_for = L.empty_for /\ M.X = L.X
  BY <1>1, <1>4 DEF LogicalQueueInfo
<1>9. Slots(M) = Slots(L)
  BY <1>8 DEF Slots
<1>10. CountersMatchFifos(M) /\ IsFiniteSet(Slots(M))
  BY <1>8, <1>9 DEF LQInv, CountersMatchFifos
<1>11. BackloggedIsActive(M)
  <2>1. \A v \in VNs : L.size[v] > 0 => v \in Range(L.active_set) /\ v \notin I
    BY <1>5 DEF LQInv, BackloggedIsActive
  <2> QED BY <1>2, <1>8, <2>1 DEF BackloggedIsActive
<1>12. PendingHasPacket(M) /\ LevelWithinCeiling(M)
  BY <1>8 DEF LQInv, PendingHasPacket, LevelWithinCeiling
<1>13. OnlyActiveHasDeficit(M)
  BY <1>2, <1>6, <1>8 DEF LQInv, OnlyActiveHasDeficit
<1>14. DebtBelowOnePacket(M)
  BY <1>6, <1>8, LQAssumption DEF LQInv, DebtBelowOnePacket
<1>15. IdleIsStamped(M)
  BY <1>2, <1>8 DEF LQInv, IdleIsStamped
<1> QED BY <1>2, <1>7, <1>8, <1>9, <1>10, <1>11, <1>12, <1>13, <1>14, <1>15
        DEF LQInv, M

-----------------------------------------------------------------------------
(* select_vn *)

\* The head of a backlogged VN has a size the link carries.
LEMMA HeadSizeBounds ==
  ASSUME NEW L, LQInv(L), NEW v \in VNs, L.size[v] > 0
  PROVE  HeadSize(L, v) \in Nat /\ HeadSize(L, v) <= MaxSize
<1>1. L.fifo[v] \in Seq(Pkt) /\ Len(L.fifo[v]) > 0
  BY DEF LQInv, LogicalQueueInfo, CountersMatchFifos
<1>2. Head(L.fifo[v]) \in Pkt
  BY <1>1
<1> QED BY <1>2, LQAssumption DEF HeadSize, Pkt

\* What a pick changes: one counter map, one cursor, the cached decision.
LEMMA PickGreenInv ==
  ASSUME NEW L, LQInv(L), WithCredit(L) # {}
  PROVE  /\ LQInv(PickGreen(L))
         /\ PickGreen(L).pending_vn \in VNs
         /\ Slots(PickGreen(L)) = Slots(L)
         /\ PickGreen(L).fifo = L.fifo
         /\ PickGreen(L).weighted_deficit = L.weighted_deficit
         /\ PickGreen(L).X = L.X /\ PickGreen(L).lct_age = L.lct_age
         /\ PickGreen(L).rate = L.rate
<1> DEFINE M == PickGreen(L)
           i == NextInRing(L.active_set, L.green_scan_idx, WithCredit(L))
           v == L.active_set[i + 1]
           credit == [L.green_credit EXCEPT ![v] = @ - HeadSize(L, v)]
<1>1. L \in LogicalQueueInfo
  BY DEF LQInv
<1>2. L.active_set \in Seq(VNs) /\ L.green_scan_idx \in Nat
      /\ L.green_credit \in [VNs -> Int]
  BY <1>1 DEF LogicalQueueInfo
<1>3. i \in 0 .. Len(L.active_set) - 1 /\ v \in WithCredit(L)
  <2>1. WithCredit(L) \cap Range(L.active_set) # {}
    BY DEF WithCredit, Backlogged
  <2> QED BY <1>2, <2>1, NextInRingHit
<1>4. M = [L EXCEPT !.green_credit = credit, !.green_scan_idx = i + 1, !.pending_vn = v]
  BY DEF PickGreen
<1> HIDE DEF M, i, v
<1>5. v \in VNs /\ L.size[v] > 0 /\ L.green_credit[v] > 0
  <2>1. v \in Range(L.active_set) /\ L.size[v] > 0 /\ L.green_credit[v] > 0
    BY <1>3 DEF WithCredit, Backlogged
  <2> QED BY <1>2, <2>1 DEF Range
<1>6. HeadSize(L, v) \in Nat /\ HeadSize(L, v) <= MaxSize
  BY <1>5, HeadSizeBounds
<1>7. /\ credit \in [VNs -> Int] /\ i + 1 \in Nat
      /\ \A u \in VNs : credit[u] = IF u = v THEN L.green_credit[v] - HeadSize(L, v)
                                     ELSE L.green_credit[u]
  <2>1. L.green_credit[v] - HeadSize(L, v) \in Int
    BY <1>2, <1>5, <1>6
  <2>2. i + 1 \in Nat
    <3>1. Len(L.active_set) \in Nat
      BY <1>2
    <3> QED BY <1>3, <3>1
  <2> QED BY <1>2, <1>5, <2>1, <2>2
<1> HIDE DEF credit
<1>8. M \in LogicalQueueInfo
  BY <1>1, <1>4, <1>5, <1>7 DEF LogicalQueueInfo
<1>9. /\ M.green_credit = credit /\ M.pending_vn = v
      /\ M.fifo = L.fifo /\ M.size = L.size /\ M.total = L.total
      /\ M.active_set = L.active_set /\ M.weighted_deficit = L.weighted_deficit
      /\ M.empty_for = L.empty_for /\ M.X = L.X
      /\ M.lct_age = L.lct_age /\ M.rate = L.rate
  BY <1>1, <1>4 DEF LogicalQueueInfo
<1>10. Slots(M) = Slots(L)
  BY <1>9 DEF Slots
<1>11. CountersMatchFifos(M) /\ IsFiniteSet(Slots(M)) /\ BackloggedIsActive(M)
  BY <1>9, <1>10 DEF LQInv, CountersMatchFifos, BackloggedIsActive
<1>12. PendingHasPacket(M) /\ OnlyActiveHasDeficit(M)
  BY <1>5, <1>9 DEF LQInv, PendingHasPacket, OnlyActiveHasDeficit
<1>13. DebtBelowOnePacket(M)
  <2>1. L.green_credit[v] - HeadSize(L, v) > -MaxSize
    BY <1>2, <1>5, <1>6, LQAssumption
  <2> QED BY <1>7, <1>9, <2>1 DEF LQInv, DebtBelowOnePacket
<1>14. IdleIsStamped(M) /\ LevelWithinCeiling(M)
  BY <1>9 DEF LQInv, IdleIsStamped, LevelWithinCeiling
<1> QED BY <1>5, <1>8, <1>9, <1>10, <1>11, <1>12, <1>13, <1>14 DEF LQInv, M

\* Replenishing ends: after at most MaxSize rounds some backlogged VN qualifies.
LEMMA ReplenishmentsExist ==
  ASSUME NEW L, LQInv(L), Backlogged(L) # {}
  PROVE  Replenishments(L) \in 0 .. MaxSize /\ Qualified(L, Replenishments(L)) # {}
<1> DEFINE enough == {r \in 0 .. MaxSize : Qualified(L, r) # {}}
<1>1. MaxSize \in Nat /\ Q \in Nat \ {0}
  BY LQAssumption
<1>2. PICK v \in VNs : v \in Backlogged(L)
  <2>1. L.active_set \in Seq(VNs)
    BY DEF LQInv, LogicalQueueInfo
  <2> QED BY <2>1 DEF Backlogged, Range
<1>3. L.weighted_deficit[v] \in Int /\ L.weighted_deficit[v] > -MaxSize
  <2>1. L.weighted_deficit \in [VNs -> Int]
    BY DEF LQInv, LogicalQueueInfo
  <2> QED BY <1>2, <2>1 DEF LQInv, DebtBelowOnePacket
<1>4. Weight[v] * Q \in Nat /\ Weight[v] * Q >= 1
  <2>1. Weight[v] \in Nat /\ Weight[v] >= 1
    BY <1>2, LQAssumption
  <2> QED BY <1>1, <2>1
<1>5. DeficitAfter(L, v, MaxSize) > 0
  <2>1. \A a \in Nat : a >= 1 => MaxSize * a >= MaxSize /\ MaxSize * a \in Nat
    BY <1>1
  <2>2. MaxSize * (Weight[v] * Q) >= MaxSize /\ MaxSize * (Weight[v] * Q) \in Nat
    BY <1>4, <2>1, Zenon
  <2> HIDE DEF enough
  <2> QED BY <1>1, <1>3, <2>2 DEF DeficitAfter
<1>6. MaxSize \in enough
  BY <1>1, <1>2, <1>5 DEF Qualified
<1>7. enough \in SUBSET Nat
  BY <1>1
<1>8. \E r \in enough : \A s \in enough : r <= s
  <2> HIDE DEF enough
  <2> QED BY <1>6, <1>7, LeastNat
<1>9. \E r \in 0 .. MaxSize :
        /\ Qualified(L, r) # {}
        /\ \A s \in 0 .. MaxSize : Qualified(L, s) # {} => r <= s
  BY <1>8
<1> QED BY <1>9 DEF Replenishments

\* Phase 2 changes deficits, its cursor and the cached decision, nothing else;
\* no deficit falls below what one packet can overdraw.
LEMMA PickSharedInv ==
  ASSUME NEW L, LQInv(L), Backlogged(L) # {}
  PROVE  /\ LQInv(PickShared(L))
         /\ PickShared(L).pending_vn \in VNs
         /\ Slots(PickShared(L)) = Slots(L)
         /\ PickShared(L).fifo = L.fifo
         /\ PickShared(L).X = L.X /\ PickShared(L).lct_age = L.lct_age
         /\ PickShared(L).rate = L.rate
<1> DEFINE M == PickShared(L)
           r == Replenishments(L)
           i == NextInRing(L.active_set, L.wrr_idx, Qualified(L, r))
           v == L.active_set[i + 1]
           filled == [u \in VNs |-> IF u \in Range(L.active_set) THEN DeficitAfter(L, u, r)
                                    ELSE L.weighted_deficit[u]]
           deficit == [filled EXCEPT ![v] = @ - HeadSize(L, v)]
<1>1. L \in LogicalQueueInfo
  BY DEF LQInv
<1>2. /\ L.active_set \in Seq(VNs) /\ L.wrr_idx \in Nat
      /\ L.weighted_deficit \in [VNs -> Int]
  BY <1>1 DEF LogicalQueueInfo
<1>3. r \in Nat /\ Qualified(L, r) # {}
  BY ReplenishmentsExist, LQAssumption
<1>4. i \in 0 .. Len(L.active_set) - 1 /\ v \in Qualified(L, r)
  <2>1. Qualified(L, r) \cap Range(L.active_set) # {}
    BY <1>3 DEF Qualified, Backlogged
  <2> HIDE DEF r
  <2> QED BY <1>2, <2>1, NextInRingHit
<1>5. M = [L EXCEPT !.weighted_deficit = deficit, !.wrr_idx = i + 1, !.pending_vn = v]
  <2>1. Replenished(L, r) = [L EXCEPT !.weighted_deficit = filled]
    BY DEF Replenished
  <2>2. M = [Replenished(L, r) EXCEPT !.weighted_deficit[v] = @ - HeadSize(L, v),
                                      !.wrr_idx = i + 1, !.pending_vn = v]
    BY DEF PickShared
  <2> HIDE DEF filled, M, r, i, v
  <2>3. DOMAIN L = {"fifo", "size", "capacity", "green_credit", "weighted_deficit",
                    "empty_for", "total", "active_set", "green_scan_idx", "wrr_idx",
                    "pending_vn", "X", "lct_age", "rate"}
    BY <1>1 DEF LogicalQueueInfo
  <2>4. Replenished(L, r).weighted_deficit = filled
    BY <2>1, <2>3
  <2> QED BY <2>1, <2>2, <2>3, <2>4
<1> HIDE DEF M, r, i, v
<1>6. v \in VNs /\ v \in Range(L.active_set) /\ L.size[v] > 0 /\ DeficitAfter(L, v, r) > 0
  <2>1. v \in Range(L.active_set) /\ L.size[v] > 0 /\ DeficitAfter(L, v, r) > 0
    BY <1>4 DEF Qualified, Backlogged
  <2> QED BY <1>2, <2>1 DEF Range
<1>7. HeadSize(L, v) \in Nat /\ HeadSize(L, v) <= MaxSize
  BY <1>6, HeadSizeBounds
<1>8. \A u \in VNs : /\ DeficitAfter(L, u, r) \in Int
                     /\ DeficitAfter(L, u, r) >= L.weighted_deficit[u]
  <2> SUFFICES ASSUME NEW u \in VNs
               PROVE  /\ DeficitAfter(L, u, r) \in Int
                      /\ DeficitAfter(L, u, r) >= L.weighted_deficit[u]
    OBVIOUS
  <2>1. Weight[u] \in Nat /\ Q \in Nat
    BY LQAssumption
  <2>2. Weight[u] * Q \in Nat
    BY <2>1
  <2>3. \A a \in Nat : r * a \in Nat
    BY <1>3
  <2>4. r * (Weight[u] * Q) \in Nat
    BY <2>2, <2>3
  <2>5. L.weighted_deficit[u] \in Int
    BY <1>2
  <2> QED BY <2>4, <2>5 DEF DeficitAfter
<1>9. filled \in [VNs -> Int]
  BY <1>2, <1>8
<1>10. \A u \in VNs : filled[u] = IF u \in Range(L.active_set) THEN DeficitAfter(L, u, r)
                                  ELSE L.weighted_deficit[u]
  OBVIOUS
<1> HIDE DEF filled
<1>11. /\ deficit \in [VNs -> Int]
       /\ \A u \in VNs : deficit[u] = IF u = v THEN filled[v] - HeadSize(L, v) ELSE filled[u]
  <2>1. filled[v] - HeadSize(L, v) \in Int
    BY <1>6, <1>7, <1>9
  <2> QED BY <1>6, <1>9, <2>1
<1>12. i + 1 \in Nat
  <2>1. Len(L.active_set) \in Nat
    BY <1>2
  <2> QED BY <1>4, <2>1
<1> HIDE DEF deficit
<1>13. M \in LogicalQueueInfo
  BY <1>1, <1>5, <1>6, <1>11, <1>12 DEF LogicalQueueInfo
<1>14. /\ M.weighted_deficit = deficit /\ M.pending_vn = v
       /\ M.fifo = L.fifo /\ M.size = L.size /\ M.total = L.total
       /\ M.active_set = L.active_set /\ M.green_credit = L.green_credit
       /\ M.empty_for = L.empty_for /\ M.X = L.X
       /\ M.lct_age = L.lct_age /\ M.rate = L.rate
  BY <1>1, <1>5 DEF LogicalQueueInfo
<1>15. Slots(M) = Slots(L)
  BY <1>14 DEF Slots
<1>16. CountersMatchFifos(M) /\ IsFiniteSet(Slots(M)) /\ BackloggedIsActive(M)
  BY <1>14, <1>15 DEF LQInv, CountersMatchFifos, BackloggedIsActive
<1>17. PendingHasPacket(M) /\ IdleIsStamped(M) /\ LevelWithinCeiling(M)
  BY <1>6, <1>14 DEF LQInv, PendingHasPacket, IdleIsStamped, LevelWithinCeiling
<1>18. OnlyActiveHasDeficit(M)
  BY <1>6, <1>10, <1>11, <1>14 DEF LQInv, OnlyActiveHasDeficit
<1>19. DebtBelowOnePacket(M)
  <2>1. \A u \in VNs : deficit[u] > -MaxSize
    <3> SUFFICES ASSUME NEW u \in VNs PROVE deficit[u] > -MaxSize
      OBVIOUS
    <3>1. L.weighted_deficit[u] \in Int /\ L.weighted_deficit[u] > -MaxSize
      BY <1>2 DEF LQInv, DebtBelowOnePacket
    <3>2. filled[u] \in Int /\ filled[u] >= L.weighted_deficit[u]
      BY <1>8, <1>9, <1>10, <3>1
    <3>3. CASE u = v
      <4>1. filled[v] > 0
        BY <1>6, <1>10
      <4> QED BY <3>2, <3>3, <4>1, <1>7, <1>11, LQAssumption
    <3>4. CASE u # v
      BY <3>1, <3>2, <3>4, <1>11, LQAssumption
    <3> QED BY <3>3, <3>4
  <2> QED BY <1>14, <2>1 DEF LQInv, DebtBelowOnePacket
<1> QED BY <1>6, <1>13, <1>14, <1>15, <1>16, <1>17, <1>18, <1>19 DEF LQInv, M

-----------------------------------------------------------------------------
(* pop_back *)

\* A decision leaves packets, bucket and rate alone and names a VN.
LEMMA DecidedInv ==
  ASSUME NEW L, LQInv(L), L.total > 0
  PROVE  /\ LQInv(Decided(L))
         /\ Decided(L).pending_vn \in VNs
         /\ Slots(Decided(L)) = Slots(L)
         /\ Decided(L).fifo = L.fifo
         /\ Blocked(Decided(L)) = Blocked(L)
         /\ Decided(L).X = L.X /\ Decided(L).lct_age = L.lct_age /\ Decided(L).rate = L.rate
<1>1. L \in LogicalQueueInfo
  BY DEF LQInv
<1>2. CASE L.pending_vn # NoVN
  <2>1. Decided(L) = L
    BY <1>2 DEF Decided
  <2>2. L.pending_vn \in VNs
    BY <1>1, <1>2 DEF LogicalQueueInfo
  <2> QED BY <2>1, <2>2
<1>3. CASE L.pending_vn = NoVN
  <2> DEFINE S == Swept(L)
  <2>1. Decided(L) = SelectVN(S)
    BY <1>3 DEF Decided
  <2>2. /\ LQInv(S) /\ Slots(S) = Slots(L) /\ S.total = L.total
        /\ S.size = L.size /\ S.fifo = L.fifo
    BY <1>3, SweptInv
  <2>3. S.X = L.X /\ S.lct_age = L.lct_age /\ S.rate = L.rate
    BY <1>1 DEF Swept, LogicalQueueInfo
  <2> HIDE DEF S
  <2>4. Backlogged(S) # {}
    <3>1. PICK v \in VNs : S.size[v] > 0
      BY <2>2, TotalVersusSizes
    <3>2. v \in Range(S.active_set)
      BY <2>2, <3>1 DEF LQInv, BackloggedIsActive
    <3> QED BY <3>1, <3>2 DEF Backlogged
  <2> DEFINE M == SelectVN(S)
  <2>5. /\ LQInv(M) /\ M.pending_vn \in VNs /\ Slots(M) = Slots(S) /\ M.fifo = S.fifo
        /\ M.X = S.X /\ M.lct_age = S.lct_age /\ M.rate = S.rate
    <3>1. CASE WithCredit(S) # {}
      BY <2>2, <3>1, PickGreenInv DEF SelectVN
    <3>2. CASE WithCredit(S) = {}
      BY <2>2, <2>4, <3>2, PickSharedInv DEF SelectVN
    <3> QED BY <3>1, <3>2
  <2> HIDE DEF M
  <2>6. Blocked(M) = Blocked(L)
    BY <2>3, <2>5 DEF Blocked, XPrime
  <2> QED BY <2>1, <2>2, <2>3, <2>5, <2>6 DEF M
<1> QED BY <1>2, <1>3

\* Transmission removes the head of the decided VN and nothing else, and leaves
\* the bucket at most one packet above its ceiling.
LEMMA TransmittedInv ==
  ASSUME NEW L, LQInv(L), L.pending_vn \in VNs, ~Blocked(L)
  PROVE  /\ LQInv(Transmitted(L))
         /\ Transmitted(L).pending_vn = NoVN
         /\ Slots(L) = Slots(Transmitted(L)) \cup {<<L.pending_vn, L.size[L.pending_vn]>>}
         /\ <<L.pending_vn, L.size[L.pending_vn]>> \notin Slots(Transmitted(L))
         /\ Transmitted(L).fifo = [L.fifo EXCEPT ![L.pending_vn] = Tail(@)]
         /\ Head(L.fifo[L.pending_vn]) \in Pkt
<1> DEFINE v == L.pending_vn
           M == Transmitted(L)
           level == (IF XPrime(L) > 0 THEN XPrime(L) ELSE 0) + 8 * HeadSize(L, v)
           fifo == [L.fifo EXCEPT ![v] = Tail(@)]
           size == [L.size EXCEPT ![v] = @ - 1]
           empty_for == [L.empty_for EXCEPT ![v] = IF L.size[v] = 1 THEN 0 ELSE @]
<1>1. L \in LogicalQueueInfo /\ v \in VNs /\ NoVN \notin VNs
  BY LQAssumption DEF LQInv, NoVN, VNs
<1>2. /\ L.size \in [VNs -> Nat] /\ L.fifo \in [VNs -> Seq(Pkt)] /\ L.total \in Nat
      /\ L.empty_for \in [VNs -> {NeverEmpty} \cup (0 .. IdleTimeout)]
      /\ L.X \in Nat /\ L.lct_age \in Nat /\ L.rate \in Nat
  BY <1>1, LQAssumption DEF LogicalQueueInfo
<1>3. L.size[v] > 0 /\ L.size[v] \in Nat
  BY <1>1, <1>2 DEF LQInv, PendingHasPacket
<1>4. /\ L.fifo[v] \in Seq(Pkt) /\ Len(L.fifo[v]) > 0 /\ L.fifo[v] # << >>
      /\ Len(L.fifo[v]) = L.size[v]
  <2>1. L.fifo[v] \in Seq(Pkt) /\ Len(L.fifo[v]) = L.size[v]
    BY <1>1, <1>2 DEF LQInv, CountersMatchFifos
  <2> QED BY <1>3, <2>1
<1>5. /\ Tail(L.fifo[v]) \in Seq(Pkt) /\ Head(L.fifo[v]) \in Pkt
      /\ Len(Tail(L.fifo[v])) = L.size[v] - 1
  BY <1>4, HeadTailProperties
<1>6. M = [L EXCEPT !.X = level, !.lct_age = 0, !.pending_vn = NoVN, !.fifo = fifo,
                    !.size = size, !.total = @ - 1, !.empty_for = empty_for]
  <2> DEFINE C == [L EXCEPT !.X = level, !.lct_age = 0, !.pending_vn = NoVN]
  <2>1. Compliant(L) = C
    BY DEF Compliant
  <2>2. M = [C EXCEPT !.fifo[v] = Tail(@), !.size[v] = @ - 1, !.total = @ - 1,
                      !.empty_for[v] = IF C.size[v] = 1 THEN 0 ELSE @]
    BY <2>1 DEF Transmitted, Dequeued
  <2> HIDE DEF M, level
  <2>3. DOMAIN L = {"fifo", "size", "capacity", "green_credit", "weighted_deficit",
                    "empty_for", "total", "active_set", "green_scan_idx", "wrr_idx",
                    "pending_vn", "X", "lct_age", "rate"}
    BY <1>1 DEF LogicalQueueInfo
  <2>4. C.fifo = L.fifo /\ C.size = L.size /\ C.total = L.total /\ C.empty_for = L.empty_for
    BY <2>3
  <2> QED BY <2>2, <2>3, <2>4
<1>7. level \in Nat /\ level <= Tau + 8 * MaxSize
  <2>1. HeadSize(L, v) \in Nat /\ HeadSize(L, v) <= MaxSize
    BY <1>1, <1>3, HeadSizeBounds
  <2>2. XPrime(L) \in Int /\ XPrime(L) <= Tau
    <3>1. L.lct_age * L.rate \in Nat
      BY <1>2
    <3>2. XPrime(L) \in Int
      BY <1>2, <3>1 DEF XPrime
    <3> QED BY <3>2, LQAssumption DEF Blocked
  <2> QED BY <2>1, <2>2, LQAssumption
<1>8. fifo \in [VNs -> Seq(Pkt)]
  BY <1>1, <1>2, <1>5
<1>9. size \in [VNs -> Nat] /\ size[v] = L.size[v] - 1
  BY <1>1, <1>2, <1>3
<1>10. L.total - 1 \in Nat
  <2>1. L.total > 0
    BY <1>1, <1>3, TotalVersusSizes
  <2> QED BY <1>2, <2>1
<1>11. empty_for \in [VNs -> {NeverEmpty} \cup (0 .. IdleTimeout)]
  <2>1. 0 \in 0 .. IdleTimeout
    BY LQAssumption
  <2> QED BY <1>1, <1>2, <2>1
<1>12. \A u \in VNs : size[u] = 0 => empty_for[u] = IF u = v THEN 0 ELSE L.empty_for[u]
  BY <1>1, <1>2, <1>3
<1>13. \A u \in VNs : size[u] = Len(fifo[u])
  BY <1>1, <1>2, <1>5 DEF LQInv, CountersMatchFifos
<1>14. \A u \in VNs : size[u] <= L.size[u] /\ (u # v => size[u] = L.size[u])
  BY <1>1, <1>2, <1>3
<1> HIDE DEF level, size, empty_for, M
<1>15. M \in LogicalQueueInfo
  <2>1. 0 \in 0 .. MaxAge
    BY LQAssumption
  <2> HIDE DEF fifo
  <2> QED BY <1>1, <1>6, <1>7, <1>8, <1>9, <1>10, <1>11, <2>1 DEF LogicalQueueInfo
<1>16. /\ M.fifo = fifo /\ M.size = size /\ M.total = L.total - 1
       /\ M.empty_for = empty_for /\ M.X = level /\ M.pending_vn = NoVN
       /\ M.active_set = L.active_set /\ M.green_credit = L.green_credit
       /\ M.weighted_deficit = L.weighted_deficit
  <2> HIDE DEF fifo
  <2> QED BY <1>1, <1>6 DEF LogicalQueueInfo
<1>17. /\ Slots(L) = Slots(M) \cup {<<v, L.size[v]>>}
       /\ <<v, L.size[v]>> \notin Slots(M)
  <2>1. L.size = [M.size EXCEPT ![v] = @ + 1]
    <3>1. size[v] + 1 = L.size[v]
      BY <1>3, <1>9
    <3>2. \A u \in VNs : u # v => size[u] = L.size[u]
      BY <1>14
    <3> QED BY <1>1, <1>2, <1>9, <1>16, <3>1, <3>2
  <2>2. M.size \in [VNs -> Nat]
    BY <1>9, <1>16
  <2> HIDE DEF v
  <2> QED BY <1>1, <2>1, <2>2, SlotsGrow, Zenon
<1>18. IsFiniteSet(Slots(M)) /\ M.total = Cardinality(Slots(M))
  <2>1. IsFiniteSet(Slots(L)) /\ L.total = Cardinality(Slots(L))
    BY DEF LQInv, CountersMatchFifos
  <2>2. IsFiniteSet(Slots(M))
    BY <1>17, <2>1, FS_Subset
  <2>3. Cardinality(Slots(L)) = Cardinality(Slots(M)) + 1
    BY <1>17, <2>2, FS_AddElement
  <2>4. Cardinality(Slots(M)) \in Nat
    BY <2>2, FS_CardinalityType
  <2> QED BY <1>16, <2>1, <2>2, <2>3, <2>4
<1>19. CountersMatchFifos(M)
  BY <1>13, <1>16, <1>18 DEF CountersMatchFifos
<1>20. BackloggedIsActive(M)
  <2>1. \A u \in VNs : size[u] > 0 => L.size[u] > 0
    BY <1>2, <1>9, <1>14
  <2> QED BY <1>16, <2>1 DEF LQInv, BackloggedIsActive
<1>21. OnlyActiveHasDeficit(M) /\ DebtBelowOnePacket(M)
  BY <1>16 DEF LQInv, OnlyActiveHasDeficit, DebtBelowOnePacket
<1>22. PendingHasPacket(M) /\ LevelWithinCeiling(M)
  BY <1>7, <1>16 DEF PendingHasPacket, LevelWithinCeiling
<1>23. IdleIsStamped(M)
  <2>1. Range(L.active_set) \subseteq VNs
    BY <1>1 DEF LogicalQueueInfo, Range
  <2>2. \A u \in Range(L.active_set) : size[u] = 0 => empty_for[u] # NeverEmpty
    BY <1>12, <1>14, <2>1 DEF LQInv, IdleIsStamped, NeverEmpty
  <2> QED BY <1>16, <2>2 DEF IdleIsStamped
<1>24. IsInjective(M.active_set)
  BY <1>16 DEF LQInv
<1> QED BY <1>5, <1>15, <1>16, <1>17, <1>18, <1>19, <1>20, <1>21, <1>22, <1>23, <1>24
        DEF LQInv, M

-----------------------------------------------------------------------------
(* The clock and the control plane *)

\* Time changes ages only.
LEMMA AgedInv ==
  ASSUME NEW L, LQInv(L)
  PROVE  LQInv(Aged(L)) /\ Slots(Aged(L)) = Slots(L) /\ Aged(L).fifo = L.fifo
<1> DEFINE M == Aged(L)
           age == Older(L.lct_age, MaxAge)
           empty_for == [v \in VNs |-> IF L.empty_for[v] = NeverEmpty THEN NeverEmpty
                                       ELSE Older(L.empty_for[v], IdleTimeout)]
<1>1. L \in LogicalQueueInfo
  BY DEF LQInv
<1>2. age \in 0 .. MaxAge
  <2>1. L.lct_age \in 0 .. MaxAge
    BY <1>1 DEF LogicalQueueInfo
  <2> QED BY <2>1, LQAssumption DEF Older
<1>3. \A v \in VNs : /\ empty_for[v] \in {NeverEmpty} \cup (0 .. IdleTimeout)
                     /\ L.empty_for[v] # NeverEmpty => empty_for[v] # NeverEmpty
  <2> SUFFICES ASSUME NEW v \in VNs
               PROVE  /\ empty_for[v] \in {NeverEmpty} \cup (0 .. IdleTimeout)
                      /\ L.empty_for[v] # NeverEmpty => empty_for[v] # NeverEmpty
    OBVIOUS
  <2>1. L.empty_for[v] \in {NeverEmpty} \cup (0 .. IdleTimeout)
    BY <1>1 DEF LogicalQueueInfo
  <2> QED BY <2>1, LQAssumption DEF Older, NeverEmpty
<1>4. empty_for \in [VNs -> {NeverEmpty} \cup (0 .. IdleTimeout)]
  BY <1>3
<1>5. M = [L EXCEPT !.lct_age = age, !.empty_for = empty_for]
  BY DEF Aged
<1> HIDE DEF M, age, empty_for
<1>6. M \in LogicalQueueInfo
  BY <1>1, <1>2, <1>4, <1>5 DEF LogicalQueueInfo
<1>7. /\ M.empty_for = empty_for
      /\ M.fifo = L.fifo /\ M.size = L.size /\ M.total = L.total
      /\ M.active_set = L.active_set /\ M.pending_vn = L.pending_vn
      /\ M.green_credit = L.green_credit /\ M.weighted_deficit = L.weighted_deficit
      /\ M.X = L.X
  BY <1>1, <1>5 DEF LogicalQueueInfo
<1>8. Slots(M) = Slots(L)
  BY <1>7 DEF Slots
<1>9. IdleIsStamped(M)
  <2>1. Range(L.active_set) \subseteq VNs
    BY <1>1 DEF LogicalQueueInfo, Range
  <2> QED BY <1>3, <1>7, <2>1 DEF LQInv, IdleIsStamped
<1>10. CountersMatchFifos(M) /\ IsFiniteSet(Slots(M)) /\ BackloggedIsActive(M)
       /\ IsInjective(M.active_set)
  BY <1>7, <1>8 DEF LQInv, CountersMatchFifos, BackloggedIsActive
<1>11. PendingHasPacket(M) /\ OnlyActiveHasDeficit(M) /\ DebtBelowOnePacket(M)
       /\ LevelWithinCeiling(M)
  BY <1>7 DEF LQInv, PendingHasPacket, OnlyActiveHasDeficit, DebtBelowOnePacket,
              LevelWithinCeiling
<1> QED BY <1>6, <1>7, <1>8, <1>9, <1>10, <1>11 DEF LQInv, M

\* What the setters do to a logical queue.
Reconfigured(L, caps, bps) == [L EXCEPT !.capacity = caps, !.rate = bps]

\* A setter that writes capacities and the rate disturbs nothing else.
LEMMA ReconfiguredInv ==
  ASSUME NEW L, LQInv(L), NEW caps \in [VNs -> Nat], NEW bps \in Nat
  PROVE  /\ LQInv(Reconfigured(L, caps, bps))
         /\ Slots(Reconfigured(L, caps, bps)) = Slots(L)
         /\ Reconfigured(L, caps, bps).fifo = L.fifo
<1> DEFINE M == Reconfigured(L, caps, bps)
<1>0. M = [L EXCEPT !.capacity = caps, !.rate = bps]
  BY DEF Reconfigured
<1> HIDE DEF M
<1>1. L \in LogicalQueueInfo
  BY DEF LQInv
<1>2. M \in LogicalQueueInfo
  BY <1>0, <1>1 DEF LogicalQueueInfo
<1>3. /\ M.fifo = L.fifo /\ M.size = L.size /\ M.total = L.total
      /\ M.active_set = L.active_set /\ M.pending_vn = L.pending_vn
      /\ M.green_credit = L.green_credit /\ M.weighted_deficit = L.weighted_deficit
      /\ M.empty_for = L.empty_for /\ M.X = L.X
  BY <1>0, <1>1 DEF LogicalQueueInfo
<1>4. Slots(M) = Slots(L)
  BY <1>3 DEF Slots
<1>5. CountersMatchFifos(M) /\ IsFiniteSet(Slots(M)) /\ BackloggedIsActive(M)
      /\ IsInjective(M.active_set) /\ IdleIsStamped(M)
  BY <1>3, <1>4 DEF LQInv, CountersMatchFifos, BackloggedIsActive, IdleIsStamped
<1>6. PendingHasPacket(M) /\ OnlyActiveHasDeficit(M) /\ DebtBelowOnePacket(M)
      /\ LevelWithinCeiling(M)
  BY <1>3 DEF LQInv, PendingHasPacket, OnlyActiveHasDeficit, DebtBelowOnePacket,
              LevelWithinCeiling
<1> QED BY <1>2, <1>3, <1>4, <1>5, <1>6 DEF LQInv, M
=============================================================================
