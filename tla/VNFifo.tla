------------------------------- MODULE VNFifo -------------------------------
(***************************************************************************)
(* What the traffic manager promises, with no scheduling, no credits and no *)
(* clock: one bounded FIFO per (port, VN); a worker receives only heads of  *)
(* the queues of its own ports; a packet that is accepted is never lost,    *)
(* duplicated, reordered within its VN or reported under another port or   *)
(* VN; a packet is accepted only while its queue is below its capacity.     *)
(***************************************************************************)
EXTENDS Integers, Sequences

CONSTANTS Ports, VNs, Pkts, Workers, WorkerOf, Nothing

VARIABLES queue,   \* queue[p][v]: packets accepted and not yet delivered
          bound,   \* bound[p][v]: capacity
          out      \* what each worker last received

vars == <<queue, bound, out>>

Init ==
    /\ queue = [p \in Ports |-> [v \in VNs |-> <<>>]]
    /\ bound \in [Ports -> [VNs -> Nat]]
    /\ out = [w \in Workers |-> Nothing]

Accept(p, v, pkt) ==
    /\ Len(queue[p][v]) < bound[p][v]
    /\ queue' = [queue EXCEPT ![p][v] = Append(@, pkt)]
    /\ UNCHANGED <<bound, out>>

Deliver(w, p, v) ==
    /\ WorkerOf[p] = w
    /\ queue[p][v] # <<>>
    /\ queue' = [queue EXCEPT ![p][v] = Tail(@)]
    /\ out' = [out EXCEPT ![w] = [port |-> p, vn |-> v, pkt |-> Head(queue[p][v])]]
    /\ UNCHANGED bound

\* The worker blocks; what it received before is gone.
Block(w) ==
    /\ out' = [out EXCEPT ![w] = Nothing]
    /\ UNCHANGED <<queue, bound>>

\* Lowering a capacity never discards what is already queued.
Resize ==
    /\ bound' \in [Ports -> [VNs -> Nat]]
    /\ UNCHANGED <<queue, out>>

Next ==
    \/ \E p \in Ports, v \in VNs, pkt \in Pkts : Accept(p, v, pkt)
    \/ \E w \in Workers, p \in Ports, v \in VNs : Deliver(w, p, v)
    \/ \E w \in Workers : Block(w)
    \/ Resize

Spec == Init /\ [][Next]_vars
=============================================================================
