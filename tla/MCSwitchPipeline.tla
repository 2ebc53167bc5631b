-------------------------- MODULE MCSwitchPipeline --------------------------
(* Instances of SwitchPipeline for TLC. *)
EXTENDS SwitchPipeline

CONSTANTS r1, r2   \* receivers

Forward(p) == [clone |-> NoVN, fate |-> "forward", port |-> p, vn |-> 0]

TwoPorts == {0, 1}
OneVN == {0}
ToBoth == <<0, 1>>

OneSession == {[group |-> <<1>>, port |-> 0]}

\* Straight on, to a group, round again with a clone, away.
IngressAll ==
    {Forward(0), [Forward(0) EXCEPT !.fate = "multicast"],
     [Forward(0) EXCEPT !.fate = "resubmit"],
     [Forward(0) EXCEPT !.fate = "drop", !.clone = 0]}

EgressAll ==
    {[clone |-> NoVN, fate |-> "output"], [clone |-> NoVN, fate |-> "recirculate"],
     [clone |-> 0, fate |-> "drop"]}

IngressForward == {Forward(0)}
IngressRound == {Forward(0), [Forward(0) EXCEPT !.fate = "resubmit"]}
EgressOutput == {[clone |-> NoVN, fate |-> "output"]}
NoSessions == {}

Two == [r \in {r1} |-> 2]
Three == [r \in {r1} |-> 3]
TwoAndOne == [r \in {r1, r2} |-> IF r = r1 THEN 2 ELSE 1]
=============================================================================
