---------------------------- MODULE MarkerWindow ----------------------------
(***************************************************************************)
(* The color marker with history variables that no action reads.  `start' is *)
(* an arbitrary instant and never changes, since[b] counts the bits bucket b *)
(* has marked green with a stamp of `start' or later, greenAt[b] is the      *)
(* stamp of its latest green packet.  What holds for an arbitrary start     *)
(* holds for every window of time.                                          *)
(***************************************************************************)
EXTENDS ColorMarker

VARIABLES start, since, greenAt

history == <<start, since, greenAt>>

wvars == <<now, stamped, LCT, X, start, since, greenAt>>

NoGreen == 0

WInit ==
    /\ Init
    /\ start \in 1 .. MaxTime
    /\ since = [b \in Buckets |-> 0]
    /\ greenAt = [b \in Buckets |-> NoGreen]

\* A metered packet that is marked green enters the history of its bucket.
Recorded(pkt) ==
    /\ greenAt' = [greenAt EXCEPT ![BucketOf(pkt.flow)] = pkt.t_a]
    /\ since' = [since EXCEPT ![BucketOf(pkt.flow)] =
                    IF pkt.t_a >= start THEN @ + 8 * pkt.size ELSE @]

WMark(r) ==
    /\ Mark(r)
    /\ IF stamped[r].flow \in Classified /\ Color(stamped[r]) = Green
       THEN Recorded(stamped[r])
       ELSE UNCHANGED <<since, greenAt>>
    /\ UNCHANGED start

WNext ==
    \/ \E r \in Receivers, f \in Flows, n \in Sizes : Receive(r, f, n) /\ UNCHANGED history
    \/ \E r \in Receivers : WMark(r)
    \/ Tick /\ UNCHANGED history

WSpec == WInit /\ [][WNext]_wvars

\* Green means guaranteed: from any instant to the stamp of the latest green
\* packet, a bucket has marked green no more than its rate allows in that time,
\* plus the burst limit and one packet, even when packets reach the marker out of
\* stamp order.
GreenWithinGuarantee ==
    \A f \in Classified :
        LET b == BucketOf(f)
        IN since[b] > 0 =>
               since[b] <= Tau + 8 * MaxSize + (greenAt[b] - start) * Rate[f]

\* The guarantee is there to be used: once the drain time of one packet has passed
\* since the last green packet of its bucket, a packet is marked green.  Excess
\* traffic, however much, cannot push the next green packet further away.
NoLockout ==
    \A pkt \in Held :
        LET last == greenAt[BucketOf(pkt.flow)]
        IN /\ pkt.flow \in Classified
           /\ last = NoGreen \/ (pkt.t_a - last) * Rate[pkt.flow] >= 8 * MaxSize
           => Color(pkt) = Green
=============================================================================
