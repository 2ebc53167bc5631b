---------------------------- MODULE LogicalQueue ----------------------------
(***************************************************************************)
(* The per-port half of QueueingLogicVN: one logical queue (LogicalQueueInfo *)
(* with its VNQueueInfo entries and their deques) as a record, and the pure *)
(* operators that push_front and pop_back apply to it.  There are no        *)
(* variables here; TrafficManager turns the operators into actions.         *)
(*                                                                         *)
(* Time is measured in clock ticks (the granularity of clock::duration).    *)
(* The code uses time points only in differences `now - t', so the record   *)
(* holds ages instead: empty_for[v] is now - empty_since, lct_age is        *)
(* now - LCT.  An age saturates where no comparison can tell it from a      *)
(* larger one.                                                             *)
(***************************************************************************)
EXTENDS Integers, Sequences, FiniteSets, Functions

CONSTANTS NbVNs,        \* number of virtual networks, vn_weights.size()
          Weight,       \* vn_weights: the DWRR weight of each VN
          Q,            \* DWRR quantum in bytes
          Tau,          \* burst ceiling of the dequeue bucket, in bits
          DefaultRate,  \* drain rate of a new logical queue, in bits per tick
          MaxSize,      \* largest packet the link carries, in bytes
          IdleTimeout,  \* vn_idle_timeout in ticks
          MaxAge        \* ticks after which any draining bucket is empty

VNs == 0 .. NbVNs - 1

ASSUME LQAssumption ==
    /\ NbVNs \in Nat \ {0}
    /\ Weight \in [VNs -> Nat \ {0}]
    /\ Q \in Nat \ {0}
    /\ Tau \in Nat
    /\ DefaultRate \in Nat
    /\ MaxSize \in Nat \ {0}
    /\ IdleTimeout \in Nat \ {0}
    /\ MaxAge \in Nat

NoVN == -1          \* pending_vn without a cached decision
NeverEmpty == -1    \* empty_since = time_point::min()

Green == 0
Yellow == 1

\* A queue element: what the scheduler can see of a packet.  The sentinel that
\* stops a worker (a null item) is the packet of colour 0 and size 0.
Pkt == [color : {Green, Yellow}, size : 0 .. MaxSize]
Sentinel == [color |-> Green, size |-> 0]

LogicalQueueInfo ==
    [ fifo : [VNs -> Seq(Pkt)],             \* physical_queues[qid]
      size : [VNs -> Nat],                  \* VNQueueInfo::size
      capacity : [VNs -> Nat],
      green_credit : [VNs -> Int],
      weighted_deficit : [VNs -> Int],
      empty_for : [VNs -> {NeverEmpty} \cup (0 .. IdleTimeout)],
      total : Nat,                          \* LogicalQueueInfo::size
      active_set : Seq(VNs),
      green_scan_idx : Nat,
      wrr_idx : Nat,
      pending_vn : VNs \cup {NoVN},
      X : Nat,
      lct_age : 0 .. MaxAge,
      rate : Nat ]                          \* dequeue_rate_bps

\* The record get_logical_queue creates on first access.
NewLogicalQueue(cap) ==
    [ fifo |-> [v \in VNs |-> <<>>],
      size |-> [v \in VNs |-> 0],
      capacity |-> [v \in VNs |-> cap],
      green_credit |-> [v \in VNs |-> 0],
      weighted_deficit |-> [v \in VNs |-> 0],
      empty_for |-> [v \in VNs |-> NeverEmpty],
      total |-> 0,
      active_set |-> <<>>,
      green_scan_idx |-> 0,
      wrr_idx |-> 0,
      pending_vn |-> NoVN,
      X |-> 0,
      lct_age |-> 0,
      rate |-> DefaultRate ]

-----------------------------------------------------------------------------
(* push_front *)

\* A green arrival is credited before the capacity test.
Credited(L, v, pkt) ==
    IF pkt.color = Green
    THEN [L EXCEPT !.green_credit[v] = @ + pkt.size]
    ELSE L

Full(L, v) == L.size[v] >= L.capacity[v]

\* A VN joins the tail of the scheduling order unless it is already there.
Activated(s, v) == IF v \in Range(s) THEN s ELSE Append(s, v)

\* Mutant: a VN that the sweep has evicted is not activated again.
EnqueuedActivatingOnce(L, v, pkt) ==
    [L EXCEPT !.fifo[v] = Append(@, pkt),
              !.size[v] = @ + 1,
              !.total = @ + 1,
              !.active_set = IF L.empty_for[v] = NeverEmpty THEN Activated(@, v) ELSE @]

\* Mutant: the packet is put at the end of the deque that is served next.
EnqueuedAtHead(L, v, pkt) ==
    [L EXCEPT !.fifo[v] = <<pkt>> \o @,
              !.size[v] = @ + 1,
              !.total = @ + 1,
              !.active_set = Activated(@, v)]

Enqueued(L, v, pkt) ==
    [L EXCEPT !.fifo[v] = Append(@, pkt),
              !.size[v] = @ + 1,
              !.total = @ + 1,
              !.active_set = Activated(@, v)]

PushFront(L, v, pkt) ==
    LET M == Credited(L, v, pkt)
    IN IF Full(L, v) THEN M ELSE Enqueued(M, v, pkt)

-----------------------------------------------------------------------------
(* The idle-timeout sweep of pop_back *)

IdleVNs(L) == {v \in VNs : L.size[v] = 0 /\ L.empty_for[v] >= IdleTimeout}

\* The elements of s outside S, in order: the erase loop.
Without(s, S) ==
    LET kept[k \in 0 .. Len(s)] ==
            IF k = 0 THEN <<>>
            ELSE IF s[k] \in S THEN kept[k - 1]
            ELSE Append(kept[k - 1], s[k])
    IN kept[Len(s)]

Swept(L) ==
    [L EXCEPT !.weighted_deficit =
                  [v \in VNs |-> IF v \in IdleVNs(L) \cap Range(L.active_set)
                                 THEN 0 ELSE @[v]],
              !.active_set = Without(@, IdleVNs(L))]

-----------------------------------------------------------------------------
(* select_vn *)

\* The first index of s, scanning the ring from `cursor', whose element is in S.
NextInRing(s, cursor, S) ==
    LET n == Len(s)
        hits == {i \in 0 .. n - 1 : s[i + 1] \in S}
    IN CHOOSE i \in hits : \A j \in hits : (i - cursor) % n <= (j - cursor) % n

Backlogged(L) == {v \in Range(L.active_set) : L.size[v] > 0}

HeadSize(L, v) == Head(L.fifo[v]).size

WithCredit(L) == {v \in Backlogged(L) : L.green_credit[v] > 0}

\* Mutant: Phase 1 does not advance its cursor.
PickGreenInPlace(L) ==
    LET i == NextInRing(L.active_set, L.green_scan_idx, WithCredit(L))
        v == L.active_set[i + 1]
    IN [L EXCEPT !.green_credit[v] = @ - HeadSize(L, v),
                 !.green_scan_idx = i,
                 !.pending_vn = v]

\* Phase 1: the next VN holding positive GB credit.
PickGreen(L) ==
    LET i == NextInRing(L.active_set, L.green_scan_idx, WithCredit(L))
        v == L.active_set[i + 1]
    IN [L EXCEPT !.green_credit[v] = @ - HeadSize(L, v),
                 !.green_scan_idx = i + 1,
                 !.pending_vn = v]

\* The deficit of v after r replenishments.
DeficitAfter(L, v, r) == L.weighted_deficit[v] + r * (Weight[v] * Q)

\* Mutant: a VN without deficit qualifies.
QualifiedAtZero(L, r) == {v \in Backlogged(L) : DeficitAfter(L, v, r) >= 0}

Qualified(L, r) == {v \in Backlogged(L) : DeficitAfter(L, v, r) > 0}

\* How often Phase 2 replenishes before some backlogged VN qualifies.  A debt is
\* below MaxSize bytes and a replenishment adds at least one byte.
Replenishments(L) ==
    CHOOSE r \in 0 .. MaxSize :
        /\ Qualified(L, r) # {}
        /\ \A s \in 0 .. MaxSize : Qualified(L, s) # {} => r <= s

\* Every member of the active set is replenished, backlogged or not.
Replenished(L, r) ==
    [L EXCEPT !.weighted_deficit =
        [v \in VNs |-> IF v \in Range(L.active_set) THEN DeficitAfter(L, v, r)
                       ELSE @[v]]]

\* Mutant: the packet is not charged to the deficit.
PickSharedUncharged(L) ==
    LET r == Replenishments(L)
        i == NextInRing(L.active_set, L.wrr_idx, Qualified(L, r))
    IN [Replenished(L, r) EXCEPT !.wrr_idx = i + 1, !.pending_vn = L.active_set[i + 1]]

\* Phase 2: the next VN with a positive deficit.
PickShared(L) ==
    LET r == Replenishments(L)
        i == NextInRing(L.active_set, L.wrr_idx, Qualified(L, r))
        v == L.active_set[i + 1]
    IN [Replenished(L, r) EXCEPT !.weighted_deficit[v] = @ - HeadSize(L, v),
                                 !.wrr_idx = i + 1,
                                 !.pending_vn = v]

\* Mutant: a positive deficit goes before GB credit.
SelectSharedFirst(L) ==
    IF WithCredit(L) = {} \/ Qualified(L, 0) # {} THEN PickShared(L) ELSE PickGreen(L)

SelectVN(L) == IF WithCredit(L) # {} THEN PickGreen(L) ELSE PickShared(L)

-----------------------------------------------------------------------------
(* pop_back, for one logical queue *)

\* Mutant: the cached decision is ignored.
DecidedAfresh(L) == SelectVN(Swept(L))

\* A cached decision is reused; otherwise sweep, select and cache.
Decided(L) == IF L.pending_vn # NoVN THEN L ELSE SelectVN(Swept(L))

\* The drained water level, not clamped at zero.
XPrime(L) == L.X - L.lct_age * L.rate

\* Mutant: a zero rate switches the test off, as the comments have it.
BlockedUnlessDisabled(L) == L.rate # 0 /\ XPrime(L) > Tau

\* The dequeue bucket's test does not depend on the packet.
Blocked(L) == XPrime(L) > Tau

\* Mutant: the drained level is not clamped at zero.
CompliantUnclamped(L) ==
    [L EXCEPT !.X = XPrime(L) + 8 * HeadSize(L, L.pending_vn),
              !.lct_age = 0,
              !.pending_vn = NoVN]

\* Mutant: the cached decision is not cleared.
CompliantKeepingDecision(L) ==
    [L EXCEPT !.X = (IF XPrime(L) > 0 THEN XPrime(L) ELSE 0)
                    + 8 * HeadSize(L, L.pending_vn),
              !.lct_age = 0]

Compliant(L) ==
    [L EXCEPT !.X = (IF XPrime(L) > 0 THEN XPrime(L) ELSE 0)
                    + 8 * HeadSize(L, L.pending_vn),
              !.lct_age = 0,
              !.pending_vn = NoVN]

\* Mutant: the logical queue's counter is not decremented.
DequeuedUncounted(L, v) ==
    [L EXCEPT !.fifo[v] = Tail(@),
              !.size[v] = @ - 1,
              !.empty_for[v] = IF L.size[v] = 1 THEN 0 ELSE @]

Dequeued(L, v) ==
    [L EXCEPT !.fifo[v] = Tail(@),
              !.size[v] = @ - 1,
              !.total = @ - 1,
              !.empty_for[v] = IF L.size[v] = 1 THEN 0 ELSE @]

\* The compliant branch and the dequeue that follows it, for a decided L.
Transmitted(L) == Dequeued(Compliant(L), L.pending_vn)

-----------------------------------------------------------------------------
(* Time *)

Older(age, limit) == IF age < limit THEN age + 1 ELSE limit

Aged(L) ==
    [L EXCEPT !.lct_age = Older(@, MaxAge),
              !.empty_for = [v \in VNs |-> IF @[v] = NeverEmpty THEN NeverEmpty
                                           ELSE Older(@[v], IdleTimeout)]]
-----------------------------------------------------------------------------
(* What every operation must preserve of a logical queue.  TrafficManager   *)
(* states these of all ports.                                               *)

\* The packets queued, one slot per (VN, position).
Slots(L) == UNION {{v} \X (1 .. L.size[v]) : v \in VNs}

CountersMatchFifos(L) ==
    /\ \A v \in VNs : L.size[v] = Len(L.fifo[v])
    /\ L.total = Cardinality(Slots(L))

BackloggedIsActive(L) == \A v \in VNs : L.size[v] > 0 => v \in Range(L.active_set)

PendingHasPacket(L) == L.pending_vn # NoVN => L.size[L.pending_vn] > 0

OnlyActiveHasDeficit(L) ==
    \A v \in VNs : v \notin Range(L.active_set) => L.weighted_deficit[v] = 0

DebtBelowOnePacket(L) ==
    \A v \in VNs : L.green_credit[v] > -MaxSize /\ L.weighted_deficit[v] > -MaxSize

IdleIsStamped(L) ==
    \A v \in Range(L.active_set) : L.size[v] = 0 => L.empty_for[v] # NeverEmpty

LevelWithinCeiling(L) == L.X <= Tau + 8 * MaxSize
=============================================================================
