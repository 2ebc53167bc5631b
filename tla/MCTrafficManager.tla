-------------------------- MODULE MCTrafficManager --------------------------
(***************************************************************************)
(* Values for the constants of TrafficManager that a cfg cannot write.      *)
(* Packets of one and two bytes stand for a short and a full-size frame; a  *)
(* tick drains DefaultRate bits.                                            *)
(***************************************************************************)
EXTENDS TrafficManager, TLC

EqualWeights == [v \in VNs |-> 1]
RisingWeights == [v \in VNs |-> v + 1]

Packet(c, n) == [color |-> c, size |-> n]

GreenAndYellow == {Packet(Green, 2), Packet(Yellow, 1)}

SentinelAndYellow == {Sentinel, Packet(Yellow, 1)}
YellowOnly == {Packet(Yellow, n) : n \in 1 .. MaxSize}

OneWorker == [p \in Ports |-> "w1"]
=============================================================================
