----------------------- MODULE NetworkScripts_proofs -----------------------
(***************************************************************************)
(* Theorems of NetworkScripts: types, who answers on a switch's ports,       *)
(* where entries and commands end, what the exit code tells, and that every  *)
(* command is collected.                                                     *)
(***************************************************************************)
EXTENDS NetworkScripts, AppTopology_proofs, FiniteSetTheorems, TLAPS

-----------------------------------------------------------------------------
(* The inductive invariant: the network *)

Before == {"parse", "idle", "construct"}
Starting == {"start", "alive", "port"}
Commands == {"launch", "wait", "interrupt", "probe", "terminate", "collect"}
Built == Starting \cup {"up", "program", "p4runtime", "cli"} \cup Commands
         \cup {"stop", "finished"}
Over == {"failed", "killed"}
Places(s) == [phase : Before \cup Built \cup Over, at : 1 .. Len(s.switches),
              polls : 0 .. MaxPolls - 1]

\* The main thread constructs the switches in order, then goes over them again.
PlaceInv ==
    /\ script \in Scripts
    /\ net \in Places(script)
    /\ net.phase \in Before => Len(switches) = net.at - 1
    /\ net.phase \in Built => Len(switches) = Len(script.switches)

Objects == [thrift_port : Ports, grpc_port : Ports \cup {0}, device_id : Nat]

\* The ports of the switches constructed so far, and the counters behind them.
ObjectInv ==
    /\ switches \in Seq(Objects)
    /\ Len(switches) <= Len(script.switches)
    /\ counters \in [thrift : [0 .. MaxSwitches -> Nat], grpc : Nat, device : Nat]
    /\ \A c \in 0 .. MaxSwitches :
         counters.thrift[c] \in FirstThriftPort .. FirstThriftPort + Len(switches)
    /\ script.grpc => counters.grpc = FirstGrpcPort + Len(switches)
    /\ OneClass => counters.thrift[0] = FirstThriftPort + Len(switches)
    /\ \A i \in 1 .. Len(switches) :
         /\ switches[i].grpc_port = IF script.grpc THEN FirstGrpcPort + i - 1 ELSE 0
         /\ switches[i].thrift_port < FirstGrpcPort
         /\ OneClass => switches[i].thrift_port = FirstThriftPort + i - 1
    /\ \A i \in 1 .. Len(switches) :
         /\ switches[i].device_id < counters.device
         /\ \A j \in 1 .. i - 1 : switches[j].device_id < switches[i].device_id

\* Only a switch of the network listens on a port as one, and it is a port of its own.
ProcessInv ==
    /\ process \in [Ids -> {"none", "running", "hung", "dead"}]
    /\ owner \in [Ports -> Ids \cup {Free, Other}]
    /\ faults \in 0 .. MaxFaults
    /\ \A i \in Ids : process[i] \in {"running", "hung"} => i \in 1 .. Len(switches)
    /\ \A p \in Ports : owner[p] \in Ids =>
         owner[p] \in 1 .. Len(switches) /\ p \in PortsOf(owner[p])
    /\ (faults = 0 /\ script.grpc) =>
         \A i \in 1 .. Len(switches) : owner[switches[i].grpc_port] # Other

NetInv == PlaceInv /\ ObjectInv /\ ProcessInv

LEMMA Bounds ==
    ASSUME script \in Scripts
    PROVE  /\ MaxSwitches \in Nat /\ MaxPolls \in Nat \ {0} /\ MaxFaults \in Nat
           /\ FirstThriftPort + MaxSwitches <= FirstGrpcPort
           /\ Len(script.switches) \in Nat /\ 1 <= Len(script.switches)
           /\ Len(script.switches) <= MaxSwitches
           /\ DOMAIN script.switches = 1 .. Len(script.switches)
           /\ script.grpc \in BOOLEAN
           /\ script.kind \in {"exercise", "multi", "single"}
           /\ script.grpc => script.kind = "exercise"
           /\ \A i \in 1 .. Len(script.switches) : script.switches[i].program \in BOOLEAN
<1>1. /\ MaxSwitches \in Nat /\ MaxPolls \in Nat \ {0} /\ MaxFaults \in Nat
      /\ FirstThriftPort + MaxSwitches <= FirstGrpcPort
  BY NetBoundsAssumption DEF NetBoundsAssumption
<1>2. /\ Len(script.switches) \in Ids
      /\ DOMAIN script.switches = 1 .. Len(script.switches)
      /\ script.grpc \in BOOLEAN
      /\ script.kind \in {"exercise", "multi", "single"}
      /\ script.grpc => script.kind = "exercise"
      /\ \A i \in DOMAIN script.switches : script.switches[i].program \in BOOLEAN
  BY ScriptsAssumption DEF ScriptsAssumption
<1>3. Len(script.switches) \in Nat /\ 1 <= Len(script.switches)
      /\ Len(script.switches) <= MaxSwitches
  BY <1>1, <1>2 DEF Ids
<1> QED
  BY <1>1, <1>2, <1>3

LEMMA NetStarts ==
    ASSUME NEW phase \in {"parse", "idle"}, NetInit(phase)
    PROVE  NetInv
<1>0. script \in Scripts /\ switches = <<>> /\ faults = 0
      /\ net = [phase |-> phase, at |-> 1, polls |-> 0]
  BY DEF NetInit
<1>b. /\ MaxSwitches \in Nat /\ MaxPolls \in Nat \ {0} /\ MaxFaults \in Nat
      /\ Len(script.switches) \in Nat /\ 1 <= Len(script.switches)
  BY <1>0, Bounds
<1>1. PlaceInv
  <2>1. net.phase = phase /\ net.at = 1
    BY <1>0
  <2>2. net \in Places(script)
    BY <1>0, <1>b DEF Places, Before
  <2>3. net.phase \notin Built
    BY <2>1 DEF Built, Starting, Commands
  <2> QED
    BY <1>0, <2>1, <2>2, <2>3 DEF PlaceInv
<1>2. ObjectInv
  <2>1. counters = [thrift |-> [c \in 0 .. MaxSwitches |-> FirstThriftPort],
                    grpc |-> FirstGrpcPort, device |-> 0]
    BY DEF NetInit
  <2>2. counters \in [thrift : [0 .. MaxSwitches -> Nat], grpc : Nat, device : Nat]
    BY <2>1 DEF FirstThriftPort, FirstGrpcPort
  <2>3. \A c \in 0 .. MaxSwitches : counters.thrift[c] = FirstThriftPort
    BY <2>1
  <2>4. counters.grpc = FirstGrpcPort
    BY <2>1
  <2>5. 0 \in 0 .. MaxSwitches /\ Len(switches) = 0 /\ switches \in Seq(Objects)
    BY <1>0, <1>b
  <2> QED
    BY <1>0, <1>b, <2>2, <2>3, <2>4, <2>5 DEF ObjectInv, FirstThriftPort, FirstGrpcPort
<1>3. ProcessInv
  <2>1. process \in [Ids -> {"none", "running", "hung", "dead"}]
        /\ \A i \in Ids : process[i] = "none"
    BY DEF NetInit
  <2>2. /\ owner \in [Ports -> Ids \cup {Free, Other}]
        /\ \A p \in Ports : owner[p] \notin Ids
    BY <1>b DEF NetInit, Ids, Free, Other
  <2>3. Len(switches) = 0
    BY <1>0
  <2> QED
    BY <1>0, <1>b, <2>1, <2>2, <2>3 DEF ProcessInv
<1> QED
  BY <1>1, <1>2, <1>3 DEF NetInv

\* The main thread goes on over switches that are there already, or ends.
PlaceStep ==
    /\ net' \in Places(script)
    /\ \/ net.phase \in Before /\ net'.phase \in Before /\ net'.at = net.at
       \/ net.phase \in Built /\ net'.phase \in Built
       \/ net'.phase \in Over

LEMMA PlaceKeeps ==
    ASSUME NetInv, PlaceStep,
           UNCHANGED <<script, counters, switches, process, owner, faults>>
    PROVE  NetInv'
<1>0. script' = script /\ counters' = counters /\ switches' = switches
      /\ process' = process /\ owner' = owner /\ faults' = faults
  OBVIOUS
<1>1. PlaceInv'
  BY <1>0 DEF NetInv, PlaceInv, PlaceStep, Before, Built, Over, Starting, Commands
<1>2. ObjectInv'
  BY <1>0 DEF NetInv, ObjectInv, OneClass
<1>3. ProcessInv'
  BY <1>0 DEF NetInv, ProcessInv, PortsOf
<1> QED
  BY <1>1, <1>2, <1>3 DEF NetInv

LEMMA GotoSteps ==
    ASSUME NetInv, NEW phase, Goto(phase),
           \/ net.phase \in Before /\ phase \in Before
           \/ net.phase \in Built /\ phase \in Built
           \/ phase \in Over
    PROVE  PlaceStep /\ net'.phase = phase /\ net'.at = net.at
<1>1. net \in Places(script) /\ net' = [net EXCEPT !.phase = phase]
  BY DEF NetInv, PlaceInv, Goto
<1>2. phase \in Before \cup Built \cup Over
  OBVIOUS
<1>3. net' \in Places(script) /\ net'.phase = phase /\ net'.at = net.at
  BY <1>1, <1>2 DEF Places
<1> QED
  BY <1>3 DEF PlaceStep

LEMMA NextSwitchSteps ==
    ASSUME NetInv, net.phase \in Built, NEW loop \in Built, NEW after \in Built,
           net' = NextSwitch(loop, after)
    PROVE  PlaceStep /\ net'.phase \in {loop, after}
<1>1. net \in Places(script) /\ script \in Scripts
  BY DEF NetInv, PlaceInv
<1>2. /\ Len(script.switches) \in Nat /\ 1 <= Len(script.switches)
      /\ MaxPolls \in Nat \ {0}
  BY <1>1, Bounds
<1>3. net.at \in 1 .. Len(script.switches)
  BY <1>1 DEF Places
<1>4. CASE net.at = Len(script.switches)
  <2>1. net' = [phase |-> after, at |-> 1, polls |-> 0]
    BY <1>4 DEF NextSwitch
  <2>2. net' \in Places(script) /\ net'.phase = after
    BY <2>1, <1>2 DEF Places
  <2> QED
    BY <2>2 DEF PlaceStep
<1>5. CASE net.at # Len(script.switches)
  <2>1. net' = [phase |-> loop, at |-> net.at + 1, polls |-> 0]
    BY <1>5 DEF NextSwitch
  <2>2. net' \in Places(script) /\ net'.phase = loop
    BY <2>1, <1>2, <1>3, <1>5 DEF Places
  <2> QED
    BY <2>2 DEF PlaceStep
<1> QED
  BY <1>4, <1>5

-----------------------------------------------------------------------------
(* The inductive invariant: the network's steps *)

\* A new switch gets the next gRPC port, on which nobody listened.
LEMMA ConstructKeeps ==
    ASSUME NetInv, At("construct"),
           NEW g, g = IF script.grpc THEN counters.grpc ELSE 0,
           script.grpc => owner[counters.grpc] = Free,
           Constructed(NewSwitch(g)),
           UNCHANGED <<script, process, owner, faults>>
    PROVE  NetInv' /\ net'.phase \in {"construct", "start"}
<1> DEFINE n == Len(switches)
<1>0. script \in Scripts /\ net \in Places(script) /\ net.phase = "construct"
  BY DEF NetInv, PlaceInv, At
<1>b. /\ MaxSwitches \in Nat /\ MaxPolls \in Nat \ {0}
      /\ FirstThriftPort + MaxSwitches <= FirstGrpcPort
      /\ Len(script.switches) \in Nat /\ Len(script.switches) <= MaxSwitches
      /\ 1 <= Len(script.switches)
      /\ DOMAIN script.switches = 1 .. Len(script.switches) /\ script.grpc \in BOOLEAN
      /\ script.grpc => script.kind = "exercise"
  BY <1>0, Bounds
<1>a. net.at \in 1 .. Len(script.switches) /\ n = net.at - 1
  BY <1>0 DEF NetInv, PlaceInv, Places, Before
<1>n. n \in Nat /\ n + 1 <= Len(script.switches) /\ n < MaxSwitches
  BY <1>a, <1>b
<1>o. /\ switches \in Seq(Objects)
      /\ counters \in [thrift : [0 .. MaxSwitches -> Nat], grpc : Nat, device : Nat]
      /\ \A d \in 0 .. MaxSwitches :
           counters.thrift[d] \in FirstThriftPort .. FirstThriftPort + n
      /\ script.grpc => counters.grpc = FirstGrpcPort + n
      /\ OneClass => counters.thrift[0] = FirstThriftPort + n
  BY DEF NetInv, ObjectInv
<1>r. PICK next, id : /\ next = counters.thrift /\ id = counters.device
                     /\ next \in [0 .. MaxSwitches -> Nat] /\ id \in Nat
  BY <1>o
<1>c. PICK c \in 0 .. MaxSwitches : c = CounterOf(net.at) /\ (OneClass => c = 0)
  BY <1>a, <1>b DEF CounterOf, OneClass, Uses
<1>w. PICK new : /\ new = NewSwitch(g)
                 /\ new.thrift_port = next[c] /\ new.grpc_port = g /\ new.device_id = id
  BY <1>c, <1>r DEF NewSwitch
<1>s. /\ script' = script /\ process' = process /\ owner' = owner /\ faults' = faults
      /\ switches' = Append(switches, new)
      /\ counters' = [thrift |-> [counters.thrift EXCEPT ![c] = @ + 1],
                      grpc |-> counters.grpc + (IF new.grpc_port = 0 THEN 0 ELSE 1),
                      device |-> counters.device + 1]
      /\ net' = NextSwitch("construct", "start")
  BY <1>c, <1>w DEF Constructed
<1>g. g = IF script.grpc THEN FirstGrpcPort + n ELSE 0
  BY <1>o
<1>t. /\ new.thrift_port \in FirstThriftPort .. FirstThriftPort + n
      /\ OneClass => new.thrift_port = FirstThriftPort + n
  BY <1>w, <1>c, <1>r, <1>o
<1>y. new \in Objects
  <2>1. new.thrift_port \in Ports
    BY <1>t, <1>n, <1>b DEF Ports, FirstThriftPort, FirstGrpcPort
  <2>2. g \in Ports \cup {0}
    BY <1>g, <1>n, <1>b DEF Ports, FirstThriftPort, FirstGrpcPort
  <2> QED
    BY <2>1, <2>2, <1>r, <1>w DEF Objects, NewSwitch
<1>v. /\ counters'.thrift = [next EXCEPT ![c] = @ + 1]
      /\ counters'.device = id + 1
      /\ counters'.grpc = counters.grpc + (IF new.grpc_port = 0 THEN 0 ELSE 1)
      /\ \A d \in 0 .. MaxSwitches :
           next[d] \in FirstThriftPort .. FirstThriftPort + n
  BY <1>s, <1>r, <1>o
<1>l. /\ switches' \in Seq(Objects) /\ Len(switches') = n + 1
      /\ \A i \in 1 .. n : switches'[i] = switches[i]
      /\ switches'[n + 1] = new
  BY <1>s, <1>o, <1>y
<1>1. PlaceInv' /\ net'.phase \in {"construct", "start"}
  <2>1. CASE net.at = Len(script.switches)
    <3>1. net' = [phase |-> "start", at |-> 1, polls |-> 0]
      BY <2>1, <1>s DEF NextSwitch
    <3>2. net' \in Places(script) /\ net'.phase = "start"
      BY <3>1, <1>b DEF Places, Built, Starting
    <3>3. net'.phase \notin Before
      BY <3>2 DEF Before
    <3>4. Len(switches') = Len(script.switches)
      BY <1>l, <1>a, <1>b, <2>1
    <3> QED
      BY <3>2, <3>3, <3>4, <1>s, <1>0 DEF PlaceInv
  <2>2. CASE net.at # Len(script.switches)
    <3>1. net' = [phase |-> "construct", at |-> net.at + 1, polls |-> 0]
      BY <2>2, <1>s DEF NextSwitch
    <3>2. net' \in Places(script) /\ net'.phase = "construct" /\ net'.at = net.at + 1
      BY <3>1, <1>b, <1>a, <2>2 DEF Places, Before
    <3>3. net'.phase \notin Built
      BY <3>2 DEF Built, Starting, Commands
    <3>4. Len(switches') = net'.at - 1
      BY <1>l, <1>a, <3>2
    <3> QED
      BY <3>2, <3>3, <3>4, <1>s, <1>0 DEF PlaceInv
  <2> QED
    BY <2>1, <2>2
<1>2. ObjectInv'
  <2>1. counters' \in [thrift : [0 .. MaxSwitches -> Nat], grpc : Nat, device : Nat]
    <3>1. [next EXCEPT ![c] = @ + 1] \in [0 .. MaxSwitches -> Nat]
      BY <1>r, <1>c, <1>b
    <3>2. counters.grpc + (IF new.grpc_port = 0 THEN 0 ELSE 1) \in Nat
      BY <1>o
    <3>3. counters.device + 1 \in Nat
      BY <1>o
    <3> QED
      BY <1>s, <1>r, <3>1, <3>2, <3>3
  <2>2. \A d \in 0 .. MaxSwitches :
          counters'.thrift[d] \in FirstThriftPort .. FirstThriftPort + Len(switches')
    <3> SUFFICES ASSUME NEW d \in 0 .. MaxSwitches
                 PROVE  counters'.thrift[d]
                            \in FirstThriftPort .. FirstThriftPort + n + 1
      BY <1>l, <1>n DEF FirstThriftPort
    <3>1. counters'.thrift[d] = IF d = c THEN next[d] + 1 ELSE next[d]
      BY <1>v, <1>r, <1>c
    <3>2. next[d] \in FirstThriftPort .. FirstThriftPort + n
      BY <1>v
    <3> QED
      BY <3>1, <3>2, <1>n DEF FirstThriftPort
  <2>3. script'.grpc => counters'.grpc = FirstGrpcPort + Len(switches')
    BY <1>s, <1>o, <1>w, <1>g, <1>l, <1>n DEF FirstGrpcPort
  <2>4. OneClass' => counters'.thrift[0] = FirstThriftPort + Len(switches')
    <3>1. OneClass' => OneClass
      BY <1>s DEF OneClass
    <3>2. OneClass => c = 0 /\ next[0] = FirstThriftPort + n
      BY <1>c, <1>o, <1>r
    <3>3. c = 0 => counters'.thrift[0] = next[0] + 1
      BY <1>v, <1>r, <1>c
    <3> QED
      BY <3>1, <3>2, <3>3, <1>l, <1>n DEF FirstThriftPort
  <2>5. \A i \in 1 .. Len(switches') :
          /\ switches'[i].grpc_port = IF script'.grpc THEN FirstGrpcPort + i - 1 ELSE 0
          /\ switches'[i].thrift_port < FirstGrpcPort
          /\ OneClass' => switches'[i].thrift_port = FirstThriftPort + i - 1
    <3> SUFFICES ASSUME NEW i \in 1 .. n + 1
                 PROVE  /\ switches'[i].grpc_port
                            = IF script.grpc THEN FirstGrpcPort + i - 1 ELSE 0
                        /\ switches'[i].thrift_port < FirstGrpcPort
                        /\ OneClass => switches'[i].thrift_port = FirstThriftPort + i - 1
      BY <1>l, <1>s DEF OneClass
    <3>1. CASE i \in 1 .. n
      <4>1. /\ switches[i].grpc_port = IF script.grpc THEN FirstGrpcPort + i - 1 ELSE 0
            /\ switches[i].thrift_port < FirstGrpcPort
            /\ OneClass => switches[i].thrift_port = FirstThriftPort + i - 1
        BY <3>1 DEF NetInv, ObjectInv
      <4>2. switches'[i] = switches[i]
        BY <3>1, <1>l
      <4> QED
        BY <4>1, <4>2
    <3>2. CASE i = n + 1
      BY <3>2, <1>l, <1>w, <1>g, <1>t, <1>n, <1>b DEF FirstThriftPort, FirstGrpcPort
    <3> QED
      BY <3>1, <3>2, <1>n
  <2>6. \A i \in 1 .. Len(switches') :
          /\ switches'[i].device_id < counters'.device
          /\ \A j \in 1 .. i - 1 : switches'[j].device_id < switches'[i].device_id
    <3>1. counters'.device = counters.device + 1 /\ counters.device \in Nat
      BY <1>s, <1>o
    <3>2. \A i \in 1 .. n :
            /\ switches[i].device_id < counters.device /\ switches[i].device_id \in Nat
            /\ \A j \in 1 .. i - 1 : switches[j].device_id < switches[i].device_id
      <4>1. \A i \in 1 .. n : switches[i] \in Objects
        BY <1>o, <1>n
      <4>2. \A i \in 1 .. n : switches[i].device_id \in Nat
        BY <4>1 DEF Objects
      <4> QED
        BY <4>2 DEF NetInv, ObjectInv
    <3> SUFFICES ASSUME NEW i \in 1 .. n + 1
                 PROVE  /\ switches'[i].device_id < counters.device + 1
                        /\ \A j \in 1 .. i - 1 :
                             switches'[j].device_id < switches'[i].device_id
      BY <1>l, <3>1
    <3>3. CASE i \in 1 .. n
      <4>1. \A j \in 1 .. i - 1 : j \in 1 .. n
        BY <3>3, <1>n
      <4> QED
        BY <3>1, <3>2, <3>3, <4>1, <1>l
    <3>4. CASE i = n + 1
      <4>1. switches'[i].device_id = id
        BY <3>4, <1>l, <1>w
      <4>2. \A j \in 1 .. i - 1 : j \in 1 .. n /\ switches'[j] = switches[j]
        BY <3>4, <1>l, <1>n
      <4> QED
        BY <3>1, <3>2, <4>1, <4>2, <1>r
    <3> QED
      BY <3>3, <3>4, <1>n
  <2>7. Len(switches') <= Len(script'.switches)
    BY <1>l, <1>n, <1>s
  <2> QED
    BY <2>1, <2>2, <2>3, <2>4, <2>5, <2>6, <2>7, <1>l DEF ObjectInv
<1>3. ProcessInv'
  <2>1. \A i \in 1 .. n : i \in 1 .. Len(switches') /\ PortsOf(i)' = PortsOf(i)
    BY <1>l, <1>n DEF PortsOf
  <2>2. (faults' = 0 /\ script'.grpc) =>
           \A i \in 1 .. Len(switches') : owner'[switches'[i].grpc_port] # Other
    <3> SUFFICES ASSUME faults = 0, script.grpc, NEW i \in 1 .. n + 1
                 PROVE  owner[switches'[i].grpc_port] # Other
      BY <1>l, <1>s
    <3>1. CASE i \in 1 .. n
      BY <3>1, <1>l DEF NetInv, ProcessInv
    <3>2. CASE i = n + 1
      BY <3>2, <1>l, <1>w DEF Free, Other
    <3> QED
      BY <3>1, <3>2, <1>n
  <2>3. \A i \in Ids : process[i] \in {"running", "hung"} => i \in 1 .. Len(switches')
    BY <2>1 DEF NetInv, ProcessInv
  <2>4. \A p \in Ports : owner[p] \in Ids =>
          owner[p] \in 1 .. Len(switches') /\ p \in PortsOf(owner[p])'
    <3> SUFFICES ASSUME NEW p \in Ports, owner[p] \in Ids
                 PROVE  owner[p] \in 1 .. Len(switches') /\ p \in PortsOf(owner[p])'
      OBVIOUS
    <3>1. owner[p] \in 1 .. n /\ p \in PortsOf(owner[p])
      BY DEF NetInv, ProcessInv
    <3>2. PICK j : j = owner[p]
      OBVIOUS
    <3>3. PortsOf(j)' = PortsOf(j) /\ j \in 1 .. Len(switches')
      BY <2>1, <3>1, <3>2
    <3> QED
      BY <3>1, <3>2, <3>3, <1>s DEF PortsOf
  <2> QED
    BY <2>2, <2>3, <2>4, <1>s DEF NetInv, ProcessInv, PortsOf
<1> QED
  BY <1>1, <1>2, <1>3 DEF NetInv

\* Launching and polling: the switches are there.
LEMMA StartKeeps ==
    ASSUME NetInv,
           Launch \/ CheckP4RuntimeSwitch \/ CheckP4Switch \/ CheckAppSwitch
    PROVE  /\ NetInv' /\ UNCHANGED <<script, switches>>
           /\ net.phase \in Starting
           /\ net'.phase \in Starting \cup {"up", "failed"}
<1>0. script \in Scripts /\ net \in Places(script)
  BY DEF NetInv, PlaceInv
<1>b. /\ MaxSwitches \in Nat /\ MaxPolls \in Nat \ {0}
      /\ Len(script.switches) \in Nat /\ Len(script.switches) <= MaxSwitches
  BY <1>0, Bounds
<1>s. "start" \in Built /\ "alive" \in Built /\ "port" \in Built /\ "up" \in Built
      /\ "failed" \in Over
  BY DEF Built, Starting, Over
<1>1. CASE Launch
  <2>1. /\ net.phase = "start" /\ net' = [net EXCEPT !.phase = "alive", !.polls = 0]
        /\ process' = [process EXCEPT ![net.at] = "running"]
        /\ counters' = [counters EXCEPT !.device = @ + 1]
        /\ script' = script /\ switches' = switches /\ owner' = owner /\ faults' = faults
    BY <1>1 DEF Launch, At
  <2>2. net' \in Places(script) /\ net'.phase = "alive" /\ net'.at = net.at
    <3>1. net = [phase |-> net.phase, at |-> net.at, polls |-> net.polls]
          /\ net.at \in 1 .. Len(script.switches)
      BY <1>0 DEF Places
    <3>2. net' = [phase |-> "alive", at |-> net.at, polls |-> 0]
      BY <3>1, <2>1
    <3>3. 0 \in 0 .. MaxPolls - 1
      BY <1>b
    <3> QED
      BY <3>1, <3>2, <3>3, <1>s DEF Places
  <2>3. Len(switches) = Len(script.switches)
    BY <2>1, <1>s DEF NetInv, PlaceInv
  <2>4. PlaceInv'
    BY <1>0, <1>s, <2>1, <2>2, <2>3 DEF PlaceInv, Before
  <2>5. ObjectInv'
    <3>1. /\ counters' \in [thrift : [0 .. MaxSwitches -> Nat], grpc : Nat, device : Nat]
          /\ counters'.thrift = counters.thrift /\ counters'.grpc = counters.grpc
          /\ counters'.device = counters.device + 1 /\ counters.device \in Nat
      BY <2>1 DEF NetInv, ObjectInv
    <3>2. \A i \in 1 .. Len(switches) : switches[i].device_id \in Nat
      <4>1. \A i \in 1 .. Len(switches) : switches[i] \in Objects
        BY DEF NetInv, ObjectInv
      <4> QED
        BY <4>1 DEF Objects
    <3>3. \A i \in 1 .. Len(switches) :
            switches[i].device_id < counters.device + 1
      BY <3>1, <3>2 DEF NetInv, ObjectInv
    <3> QED
      BY <2>1, <3>1, <3>3 DEF NetInv, ObjectInv, OneClass
  <2>6. ProcessInv'
    <3>1. net.at \in 1 .. Len(switches) /\ net.at \in Ids
      BY <1>0, <1>b, <2>3 DEF Places, Ids
    <3>2. process' \in [Ids -> {"none", "running", "hung", "dead"}]
      BY <2>1 DEF NetInv, ProcessInv
    <3>3. \A i \in Ids : process'[i] \in {"running", "hung"} => i \in 1 .. Len(switches)
      BY <2>1, <3>1 DEF NetInv, ProcessInv
    <3> QED
      BY <2>1, <3>2, <3>3 DEF NetInv, ProcessInv, PortsOf
  <2> QED
    BY <2>1, <2>2, <2>4, <2>5, <2>6 DEF NetInv, Starting
<1>2. CASE CheckAlive
  <2>1. net.phase = "alive" /\ (Fail \/ Goto("port"))
        /\ UNCHANGED <<script, counters, switches, process, owner, faults>>
    BY <1>2 DEF CheckAlive, At
  <2>2. Goto("port") \/ Goto("failed")
    BY <2>1 DEF Fail
  <2>3. PlaceStep /\ net'.phase \in {"port", "failed"}
    BY <2>1, <2>2, <1>s, GotoSteps
  <2> QED
    BY <2>1, <2>3, PlaceKeeps DEF Starting
<1>3. ASSUME NEW port, NEW again, CheckListening(port, again),
             again => \/ Fail \/ Goto("alive")
                      \/ /\ net' = [net EXCEPT !.phase = "alive", !.polls = @ + 1]
                         /\ net.polls + 1 # MaxPolls
      PROVE  /\ NetInv' /\ UNCHANGED <<script, switches>>
             /\ net.phase \in Starting
             /\ net'.phase \in Starting \cup {"up", "failed"}
  <2>1. /\ net.phase = "port"
        /\ UNCHANGED <<script, counters, switches, process, owner, faults>>
        /\ \/ net' = NextSwitch("start", "up")
           \/ Goto("failed") \/ Goto("alive")
           \/ /\ net' = [net EXCEPT !.phase = "alive", !.polls = @ + 1]
              /\ net.polls + 1 # MaxPolls
    BY <1>3 DEF CheckListening, At, Fail
  <2>2. CASE net' = NextSwitch("start", "up")
    <3>1. PlaceStep /\ net'.phase \in {"start", "up"}
      BY <2>1, <2>2, <1>s, NextSwitchSteps
    <3> QED
      BY <2>1, <3>1, PlaceKeeps DEF Starting
  <2>3. CASE Goto("failed") \/ Goto("alive")
    <3>1. PlaceStep /\ net'.phase \in {"alive", "failed"}
      BY <2>1, <2>3, <1>s, GotoSteps
    <3> QED
      BY <2>1, <3>1, PlaceKeeps DEF Starting
  <2>4. CASE /\ net' = [net EXCEPT !.phase = "alive", !.polls = @ + 1]
             /\ net.polls + 1 # MaxPolls
    <3>1. net' \in Places(script) /\ net'.phase = "alive"
      <4>1. /\ net = [phase |-> net.phase, at |-> net.at, polls |-> net.polls]
            /\ net.at \in 1 .. Len(script.switches) /\ net.polls \in 0 .. MaxPolls - 1
        BY <1>0 DEF Places
      <4>2. net' = [phase |-> "alive", at |-> net.at, polls |-> net.polls + 1]
        BY <4>1, <2>4
      <4>3. net.polls + 1 \in 0 .. MaxPolls - 1
        BY <1>b, <4>1, <2>4
      <4> QED
        BY <4>1, <4>2, <4>3, <1>s DEF Places
    <3>2. PlaceStep
      BY <3>1, <2>1, <1>s DEF PlaceStep
    <3> QED
      BY <2>1, <3>1, <3>2, PlaceKeeps DEF Starting
  <2> QED
    BY <2>1, <2>2, <2>3, <2>4
<1>4. CASE CheckP4RuntimeSwitch
  <2>1. CASE CheckListening(switches[net.at].grpc_port,
                   IF net.polls + 1 = MaxPolls THEN Fail
                   ELSE net' = [net EXCEPT !.phase = "alive", !.polls = @ + 1])
    BY <2>1, <1>3
  <2> QED
    BY <1>2, <1>4, <2>1 DEF CheckP4RuntimeSwitch
<1>5. CASE CheckP4Switch \/ CheckAppSwitch
  <2>1. CASE CheckListening(switches[net.at].thrift_port, Goto("alive"))
    BY <2>1, <1>3
  <2> QED
    BY <1>2, <1>5, <2>1 DEF CheckP4Switch, CheckAppSwitch
<1> QED
  BY <1>1, <1>4, <1>5

\* Whatever ends a process, its ports are free afterwards.
LEMMA DiesKeeps ==
    ASSUME NetInv, NEW i \in Ids, Dies(i),
           faults' \in 0 .. MaxFaults, faults' >= faults,
           UNCHANGED <<script, counters, switches>>
    PROVE  ObjectInv' /\ ProcessInv'
<1>0. script' = script /\ counters' = counters /\ switches' = switches
  OBVIOUS
<1>1. ObjectInv'
  BY <1>0 DEF NetInv, ObjectInv, OneClass
<1>2. /\ process' = [process EXCEPT ![i] = "dead"]
      /\ owner' = [p \in Ports |-> IF owner[p] = i THEN Free ELSE owner[p]]
  BY DEF Dies
<1>3. process' \in [Ids -> {"none", "running", "hung", "dead"}]
      /\ owner' \in [Ports -> Ids \cup {Free, Other}]
  BY <1>2 DEF NetInv, ProcessInv
<1>4. \A j \in Ids : process'[j] \in {"running", "hung"} => j \in 1 .. Len(switches')
  BY <1>0, <1>2 DEF NetInv, ProcessInv
<1>5. \A p \in Ports : owner'[p] \in Ids =>
        owner'[p] \in 1 .. Len(switches) /\ p \in PortsOf(owner'[p])
  <2>1. \A p \in Ports : owner'[p] = owner[p] \/ owner'[p] \notin Ids
    BY <1>2 DEF Ids, Free
  <2>2. \A p \in Ports : owner[p] \in Ids =>
          owner[p] \in 1 .. Len(switches) /\ p \in PortsOf(owner[p])
    BY DEF NetInv, ProcessInv
  <2> QED
    BY <2>1, <2>2
<1>6. (faults' = 0 /\ script'.grpc) =>
        \A j \in 1 .. Len(switches') : owner'[switches'[j].grpc_port] # Other
  <2> SUFFICES ASSUME faults' = 0, script.grpc, NEW j \in 1 .. Len(switches)
               PROVE  owner'[switches[j].grpc_port] # Other
    BY <1>0
  <2>1. faults = 0
    BY DEF NetInv, ProcessInv
  <2>2. owner[switches[j].grpc_port] # Other
    BY <2>1 DEF NetInv, ProcessInv
  <2>3. switches[j].grpc_port \in Ports
    <3>1. script \in Scripts
      BY DEF NetInv, PlaceInv
    <3>2. switches[j] \in Objects
      BY DEF NetInv, ObjectInv
    <3>3. switches[j].grpc_port = FirstGrpcPort + j - 1 /\ Len(switches) \in Nat
      BY DEF NetInv, ObjectInv
    <3> QED
      BY <3>2, <3>3 DEF Objects, FirstGrpcPort
  <2> QED
    BY <2>2, <2>3, <1>2 DEF Free, Other
<1>7. ProcessInv'
  BY <1>0, <1>3, <1>4, <1>5, <1>6 DEF ProcessInv, PortsOf
<1> QED
  BY <1>1, <1>7

\* What NetMain may do to the phase.
NetPhases ==
    \/ /\ net.phase \in {"construct"} \cup Starting
       /\ net'.phase \in {"construct", "up", "failed"} \cup Starting
    \/ net.phase = "stop" /\ net'.phase \in {"stop", "finished"}

LEMMA NetMainKeeps ==
    ASSUME NetInv, NetMain
    PROVE  /\ NetInv' /\ NetPhases /\ script' = script
           /\ 1 .. Len(switches) \subseteq 1 .. Len(switches')
<1>0. script \in Scripts /\ net \in Places(script)
  BY DEF NetInv, PlaceInv
<1>1. ASSUME NEW g, g = IF script.grpc THEN counters.grpc ELSE 0,
             At("construct"), script.grpc => owner[counters.grpc] = Free,
             Constructed(NewSwitch(g)),
             UNCHANGED <<script, process, owner, faults>>
      PROVE  /\ NetInv' /\ NetPhases /\ script' = script
             /\ 1 .. Len(switches) \subseteq 1 .. Len(switches')
  <2>1. NetInv' /\ net'.phase \in {"construct", "start"}
    BY <1>1, ConstructKeeps
  <2>2. switches' = Append(switches, NewSwitch(g)) /\ switches \in Seq(Objects)
    BY <1>1 DEF Constructed, NetInv, ObjectInv
  <2>3. Len(switches') = Len(switches) + 1 /\ Len(switches) \in Nat
    BY <2>2
  <2> QED
    BY <2>1, <2>3, <1>1 DEF NetPhases, At, Starting
<1>2. ASSUME At("construct"), Fail,
             UNCHANGED <<script, counters, switches, process, owner, faults>>
      PROVE  /\ NetInv' /\ NetPhases /\ script' = script
             /\ 1 .. Len(switches) \subseteq 1 .. Len(switches')
  <2>1. PlaceStep /\ net'.phase = "failed"
    BY <1>2, GotoSteps DEF Fail, Over
  <2> QED
    BY <2>1, <1>2, PlaceKeeps DEF NetPhases, At
<1>3. CASE ConstructP4RuntimeSwitch
  <2>1. script.grpc /\ At("construct") /\ UNCHANGED <<script, process, owner, faults>>
    BY <1>3, <1>0, Bounds DEF ConstructP4RuntimeSwitch, Uses
  <2>2. \/ Fail /\ UNCHANGED <<counters, switches>>
        \/ Constructed(NewSwitch(counters.grpc)) /\ owner[counters.grpc] = Free
    BY <1>3 DEF ConstructP4RuntimeSwitch
  <2> QED
    BY <2>1, <2>2, <1>1, <1>2
<1>4. CASE ConstructP4Switch \/ ConstructAppSwitch
  <2>1. ~script.grpc /\ At("construct") /\ UNCHANGED <<script, process, owner, faults>>
    BY <1>4, <1>0, Bounds DEF ConstructP4Switch, ConstructAppSwitch, Uses
  <2>2. \/ Fail /\ UNCHANGED <<counters, switches>>
        \/ Constructed(NewSwitch(0))
    BY <1>4 DEF ConstructP4Switch, ConstructAppSwitch
  <2> QED
    BY <2>1, <2>2, <1>1, <1>2
<1>5. CASE \/ StartP4RuntimeSwitch \/ StartP4Switch \/ StartAppSwitch
           \/ CheckP4RuntimeSwitch \/ CheckP4Switch \/ CheckAppSwitch
  <2>1. Launch \/ CheckP4RuntimeSwitch \/ CheckP4Switch \/ CheckAppSwitch
    BY <1>5 DEF StartP4RuntimeSwitch, StartP4Switch, StartAppSwitch
  <2>2. /\ NetInv' /\ UNCHANGED <<script, switches>>
        /\ net.phase \in Starting /\ net'.phase \in Starting \cup {"up", "failed"}
    BY <2>1, StartKeeps
  <2> QED
    BY <2>2 DEF NetPhases
<1>6. CASE StopSwitch
  <2>1. /\ net.phase = "stop" /\ Dies(net.at) /\ net' = NextSwitch("stop", "finished")
        /\ UNCHANGED <<script, counters, switches, faults>>
    BY <1>6 DEF StopSwitch, At
  <2>2. PlaceStep /\ net'.phase \in {"stop", "finished"}
    BY <2>1, NextSwitchSteps DEF Built
  <2>3. PlaceInv'
    BY <2>1, <2>2 DEF NetInv, PlaceInv, PlaceStep, Before, Built, Over, Starting, Commands
  <2>4. net.at \in Ids /\ faults' = faults /\ faults \in 0 .. MaxFaults
    BY <1>0, Bounds, <2>1 DEF Places, Ids, NetInv, ProcessInv
  <2>5. faults' \in 0 .. MaxFaults /\ faults' >= faults
    BY <2>4
  <2>6. ObjectInv' /\ ProcessInv'
    BY <2>1, <2>4, <2>5, DiesKeeps
  <2> QED
    BY <2>1, <2>2, <2>3, <2>6 DEF NetInv, NetPhases
<1> QED
  BY <1>3, <1>4, <1>5, <1>6 DEF NetMain

\* The processes, others, and faults.
LEMMA ProcessKeeps ==
    ASSUME NetInv, (\E i \in Ids : Bind(i)) \/ Faults
    PROVE  NetInv' /\ UNCHANGED <<script, net, switches>>
<1>0. script \in Scripts /\ MaxFaults \in Nat /\ faults \in 0 .. MaxFaults
  BY Bounds DEF NetInv, PlaceInv, ProcessInv
<1>1. ASSUME NEW i \in Ids, Bind(i)
      PROVE  NetInv' /\ UNCHANGED <<script, net, switches>>
  <2>1. /\ process[i] = "running"
        /\ UNCHANGED <<script, net, counters, switches, faults>>
    BY <1>1 DEF Bind
  <2>2. PICK p \in PortsOf(i) :
            \/ owner[p] = Free /\ owner' = [owner EXCEPT ![p] = i] /\ UNCHANGED process
            \/ Dies(i)
    BY <1>1 DEF Bind
  <2>3. PlaceInv'
    BY <2>1 DEF NetInv, PlaceInv
  <2>4. CASE Dies(i)
    <3>1. faults' \in 0 .. MaxFaults /\ faults' >= faults
      BY <2>1, <1>0
    <3>2. ObjectInv' /\ ProcessInv'
      BY <2>1, <2>4, <3>1, DiesKeeps
    <3> QED
      BY <2>1, <2>3, <3>2 DEF NetInv
  <2>5. CASE owner[p] = Free /\ owner' = [owner EXCEPT ![p] = i] /\ UNCHANGED process
    <3>0. /\ script' = script /\ counters' = counters /\ switches' = switches
          /\ faults' = faults /\ process' = process
      BY <2>1, <2>5
    <3>1. ObjectInv'
      BY <3>0 DEF NetInv, ObjectInv, OneClass
    <3>2. i \in 1 .. Len(switches)
      BY <2>1 DEF NetInv, ProcessInv
    <3>3. owner' \in [Ports -> Ids \cup {Free, Other}]
          /\ \A q \in Ports : owner'[q] = IF q = p THEN i ELSE owner[q]
      BY <2>5 DEF NetInv, ProcessInv
    <3>4. \A q \in Ports : owner'[q] \in Ids =>
            owner'[q] \in 1 .. Len(switches) /\ q \in PortsOf(owner'[q])
      <4> SUFFICES ASSUME NEW q \in Ports, owner'[q] \in Ids
                   PROVE  owner'[q] \in 1 .. Len(switches) /\ q \in PortsOf(owner'[q])
        OBVIOUS
      <4>1. CASE q = p
        BY <4>1, <3>2, <3>3, <2>2
      <4>2. CASE q # p
        BY <4>2, <3>3 DEF NetInv, ProcessInv
      <4> QED
        BY <4>1, <4>2
    <3>5. (faults = 0 /\ script.grpc) =>
            \A j \in 1 .. Len(switches) : owner'[switches[j].grpc_port] # Other
      <4> SUFFICES ASSUME faults = 0, script.grpc, NEW j \in 1 .. Len(switches)
                   PROVE  owner'[switches[j].grpc_port] # Other
        OBVIOUS
      <4>1. owner[switches[j].grpc_port] # Other
        BY DEF NetInv, ProcessInv
      <4>2. i # Other
        BY <3>2 DEF Other
      <4> QED
        BY <4>1, <4>2, <2>5 DEF NetInv, ProcessInv
    <3>6. ProcessInv'
      BY <3>0, <3>3, <3>4, <3>5 DEF NetInv, ProcessInv, PortsOf
    <3> QED
      BY <2>1, <2>3, <3>1, <3>6 DEF NetInv
  <2> QED
    BY <2>2, <2>4, <2>5
<1>2. ASSUME NEW i \in Ids, Crash(i)
      PROVE  NetInv' /\ UNCHANGED <<script, net, switches>>
  <2>1. /\ Dies(i) /\ faults < MaxFaults /\ faults' = faults + 1
        /\ UNCHANGED <<script, net, counters, switches>>
    BY <1>2 DEF Crash
  <2>2. faults' \in 0 .. MaxFaults /\ faults' >= faults
    BY <2>1, <1>0
  <2>3. ObjectInv' /\ ProcessInv'
    BY <2>1, <2>2, DiesKeeps
  <2>4. PlaceInv'
    BY <2>1 DEF NetInv, PlaceInv
  <2> QED
    BY <2>1, <2>3, <2>4 DEF NetInv
<1>3. ASSUME NEW i \in Ids, Hang(i)
      PROVE  NetInv' /\ UNCHANGED <<script, net, switches>>
  <2>1. /\ process[i] = "running" /\ process' = [process EXCEPT ![i] = "hung"]
        /\ faults' = faults + 1 /\ faults < MaxFaults
        /\ script' = script /\ net' = net /\ counters' = counters
        /\ switches' = switches /\ owner' = owner
    BY <1>3 DEF Hang
  <2>2. PlaceInv' /\ ObjectInv'
    BY <2>1 DEF NetInv, PlaceInv, ObjectInv, OneClass
  <2>3. process' \in [Ids -> {"none", "running", "hung", "dead"}]
        /\ \A j \in Ids : process'[j] \in {"running", "hung"} => j \in 1 .. Len(switches)
    BY <2>1 DEF NetInv, ProcessInv
  <2>4. faults' \in 0 .. MaxFaults /\ faults' # 0
    BY <2>1, <1>0
  <2>5. ProcessInv'
    BY <2>1, <2>3, <2>4 DEF NetInv, ProcessInv, PortsOf
  <2> QED
    BY <2>1, <2>2, <2>5 DEF NetInv
<1>4. ASSUME NEW p \in Ports, OtherBinds(p)
      PROVE  NetInv' /\ UNCHANGED <<script, net, switches>>
  <2>1. /\ owner' = [owner EXCEPT ![p] = Other]
        /\ faults' = faults + 1 /\ faults < MaxFaults
        /\ script' = script /\ net' = net /\ counters' = counters
        /\ switches' = switches /\ process' = process
    BY <1>4 DEF OtherBinds
  <2>2. PlaceInv' /\ ObjectInv'
    BY <2>1 DEF NetInv, PlaceInv, ObjectInv, OneClass
  <2>3. owner' \in [Ports -> Ids \cup {Free, Other}]
        /\ \A q \in Ports : owner'[q] = owner[q] \/ owner'[q] \notin Ids
    BY <2>1 DEF NetInv, ProcessInv, Ids, Other
  <2>4. faults' \in 0 .. MaxFaults /\ faults' # 0
    BY <2>1, <1>0
  <2>5. ProcessInv'
    BY <2>1, <2>3, <2>4 DEF NetInv, ProcessInv, PortsOf
  <2> QED
    BY <2>1, <2>2, <2>5 DEF NetInv
<1> QED
  BY <1>1, <1>2, <1>3, <1>4 DEF Faults

-----------------------------------------------------------------------------
(* The inductive invariant: the scripts *)

\* A loader is started for a switch of the network; what it sends arrives there.
LoadInv ==
    /\ loader \in [Ids -> {"none", "running", "done"}]
    /\ programmed \subseteq (Ids \X {"cli", "p4runtime"} \X (Ids \cup {Other}))
    /\ \A i \in Ids : loader[i] = "running" => i \in 1 .. Len(switches)
    /\ CommandsReachTheirSwitch

Preparing == {"manifest", "before", "compile", "after", "backend", "external"}
AppStates == [stage : {"none", "script", "exit"} \cup Preparing,
         compiled : {"no", "yes", "killed"}, rc : 0 .. 255, host : Nat \ {0}]
Command == [state : {"none", "running", "ended"}, code : 0 .. 255]

AppTyped ==
    /\ app \in AppStates
    /\ status \in [killed : BOOLEAN, code : 0 .. 255]
    /\ command \in [CommandIds -> Command]
    /\ signal \in [CommandIds -> {"none", "INT", "TERM"}]
    /\ return_codes \in Seq(0 .. 255)

\* A script is under way in one stage only; only its hosts have commands.
StageInv ==
    /\ script.kind = "exercise" <=> app.stage = "none"
    /\ app.stage \in Preparing => net.phase = "idle"
    /\ app.stage = "exit" => net.phase \in {"idle", "finished"} \cup Over
    /\ \A h \in CommandIds : command[h].state # "none" =>
         script.kind # "exercise" /\ h \in 1 .. Len(script.hosts)

\* What an exit code of 0 rests on: nothing is run that was not compiled, and
\* nothing has been collected before the script runs.
VerdictInv ==
    /\ app.stage # "exit" => status = [killed |-> FALSE, code |-> 0]
    /\ app.stage = "after" /\ app.compiled = "no" => app.rc # 0
    /\ app.stage \in {"backend", "script", "external"} => app.compiled # "no"
    /\ app.stage \in Preparing => return_codes = <<>>
    /\ ExitReportsFailure

\* The hosts whose command's code has been taken, by how far the three loops are.
Hosts == 1 .. Len(script.hosts)
Collected ==
    CASE net.phase \in {"launch", "wait"} -> {h \in Hosts : Wait(h) /\ h < app.host}
      [] net.phase \in {"interrupt", "probe", "terminate", "collect"} ->
            {h \in Hosts : Wait(h) \/ h < app.host}
      [] net.phase \in {"stop", "finished"} -> Hosts
      [] OTHER -> {}

ReapInv ==
    script.kind = "multi" =>
        /\ net.phase \notin Commands \cup {"stop", "finished"} \cup Over =>
             app.host = 1 /\ return_codes = <<>>
        /\ net.phase = "wait" => app.host \in Hosts /\ Wait(app.host)
        /\ net.phase \in {"probe", "terminate", "collect"} =>
             app.host \in Hosts /\ ~Wait(app.host)
        /\ net.phase \notin Over =>
             /\ Len(return_codes) = Cardinality(Collected)
             /\ \A h \in Collected :
                  /\ command[h].state = "ended"
                  /\ \E i \in DOMAIN return_codes : return_codes[i] = command[h].code

Inv == NetInv /\ LoadInv /\ AppTyped /\ StageInv /\ VerdictInv /\ ReapInv

LEMMA Starts == Init => Inv
<1> SUFFICES ASSUME Init PROVE Inv
  OBVIOUS
<1>1. /\ NetInv /\ ExerciseIdle /\ switches = <<>> /\ programmed = {}
      /\ script.kind \in {"exercise", "multi", "single"}
      /\ net.phase \in {"parse", "idle"}
  <2>1. NetInit("parse") \/ NetInit("idle")
    BY DEF Init, ExerciseInit, AppInit
  <2>2. NetInv /\ switches = <<>> /\ script \in Scripts /\ net.phase \in {"parse", "idle"}
    BY <2>1, NetStarts DEF NetInit
  <2>3. ExerciseIdle
    BY DEF Init, ExerciseInit
  <2> QED
    BY <2>2, <2>3, Bounds DEF ExerciseIdle
<1>2. PICK stage \in {"none", "manifest"} :
          AppIdle(stage) /\ (script.kind = "exercise" <=> stage = "none")
          /\ (stage # "none" => net.phase = "idle")
  <2>1. CASE ExerciseInit /\ AppIdle("none")
    BY <2>1 DEF ExerciseInit
  <2>2. CASE AppInit /\ ExerciseIdle
    BY <2>2 DEF AppInit, NetInit
  <2> QED
    BY <2>1, <2>2 DEF Init
<1>3. /\ app = [stage |-> stage, compiled |-> "no", rc |-> 0, host |-> 1]
      /\ app.stage = stage /\ app.host = 1
      /\ status = [killed |-> FALSE, code |-> 0]
      /\ command = [h \in CommandIds |-> [state |-> "none", code |-> 0]]
      /\ signal = [h \in CommandIds |-> "none"]
      /\ return_codes = <<>>
  BY <1>2 DEF AppIdle
<1>4. LoadInv
  BY <1>1 DEF ExerciseIdle, LoadInv, CommandsReachTheirSwitch
<1>5. AppTyped
  <2>1. app \in AppStates
    BY <1>3 DEF AppStates, Preparing
  <2>2. command \in [CommandIds -> Command]
    BY <1>3 DEF Command
  <2> QED
    BY <1>3, <2>1, <2>2 DEF AppTyped
<1>6. StageInv
  BY <1>1, <1>2, <1>3 DEF StageInv, Preparing
<1>7. VerdictInv
  BY <1>3 DEF VerdictInv, ExitReportsFailure, Stage
<1>8. ReapInv
  <2>1. Collected = {}
    BY <1>1 DEF Collected
  <2>2. Len(return_codes) = 0 /\ Cardinality({}) = 0
    BY <1>3, FS_EmptySet
  <2> QED
    BY <1>1, <1>3, <2>1, <2>2 DEF ReapInv, Commands
<1> QED
  BY <1>1, <1>4, <1>5, <1>6, <1>7, <1>8 DEF Inv

-----------------------------------------------------------------------------
(* The inductive invariant: exercises *)

\* Who listens on a switch's port as a switch is the switch.
LEMMA OwnerOfPort ==
    ASSUME NetInv, OneClass, NEW i \in 1 .. Len(switches),
           NEW p \in Ports, owner[p] \in Ids,
           \/ p = switches[i].thrift_port
           \/ script.grpc /\ p = switches[i].grpc_port
    PROVE  owner[p] = i
<1>1. PICK j : j = owner[p]
  OBVIOUS
<1>2. j \in 1 .. Len(switches) /\ p \in PortsOf(j) /\ Len(switches) \in Nat
  BY <1>1 DEF NetInv, ProcessInv, ObjectInv
<1>3. \A k \in 1 .. Len(switches) :
        /\ switches[k].grpc_port = IF script.grpc THEN FirstGrpcPort + k - 1 ELSE 0
        /\ switches[k].thrift_port < FirstGrpcPort
        /\ switches[k].thrift_port = FirstThriftPort + k - 1
  BY DEF NetInv, ObjectInv
<1>4. p = switches[j].thrift_port \/ (p = switches[j].grpc_port /\ p # 0)
  BY <1>2 DEF PortsOf
<1>5. i = j
  BY <1>2, <1>3, <1>4 DEF FirstThriftPort, FirstGrpcPort
<1> QED
  BY <1>1, <1>5

\* A write to a switch of the network, on a port of its own.
LEMMA WriteArrives ==
    ASSUME NetInv, NEW i \in 1 .. Len(switches), i \in Ids, NEW p,
           \/ p = switches[i].thrift_port
           \/ script.grpc /\ p = switches[i].grpc_port
    PROVE  owner[p] # Free =>
             /\ owner[p] \in Ids \cup {Other}
             /\ OneClass => owner[p] \in {i, Other}
<1>1. switches[i] \in Objects /\ Len(switches) \in Nat
  BY DEF NetInv, ObjectInv
<1>2. p \in Ports
  <2>1. CASE p = switches[i].thrift_port
    BY <2>1, <1>1 DEF Objects
  <2>2. CASE script.grpc /\ p = switches[i].grpc_port
    <3>1. p = FirstGrpcPort + i - 1
      BY <2>2 DEF NetInv, ObjectInv
    <3>2. p # 0
      BY <3>1, <1>1 DEF FirstGrpcPort
    <3> QED
      BY <2>2, <3>2, <1>1 DEF Objects
  <2> QED
    BY <2>1, <2>2
<1>3. owner[p] \in Ids \cup {Free, Other}
  BY <1>2 DEF NetInv, ProcessInv
<1> QED
  BY <1>2, <1>3, OwnerOfPort

LEMMA ExerciseKeeps ==
    ASSUME NetInv, LoadInv, script.kind = "exercise", ExerciseNext
    PROVE  NetInv' /\ LoadInv' /\ script' = script
<1>0. /\ script \in Scripts /\ net \in Places(script) /\ script.grpc \in BOOLEAN
      /\ MaxSwitches \in Nat /\ Len(script.switches) \in Nat
      /\ Len(script.switches) <= MaxSwitches
      /\ net.at \in 1 .. Len(script.switches)
  <2>1. script \in Scripts /\ net \in Places(script)
    BY DEF NetInv, PlaceInv
  <2>2. net.at \in 1 .. Len(script.switches)
    BY <2>1 DEF Places
  <2> QED
    BY <2>1, <2>2, Bounds
<1>k. ASSUME script' = script, UNCHANGED exerciseVars,
             1 .. Len(switches) \subseteq 1 .. Len(switches')
      PROVE  LoadInv'
  BY <1>k DEF LoadInv, exerciseVars, CommandsReachTheirSwitch, OneClass
<1>b. /\ {"up", "program", "p4runtime", "cli", "stop"} \subseteq Built
      /\ "failed" \in Over /\ "parse" \in Before /\ "construct" \in Before
  BY DEF Built, Over, Before
<1>at. net.phase \in Built =>
          net.at \in 1 .. Len(switches) /\ net.at \in Ids
  BY <1>0 DEF NetInv, PlaceInv, Ids
<1>1. CASE NetMain /\ UNCHANGED exerciseVars
  BY <1>1, <1>k, NetMainKeeps
<1>2. CASE ReadTopology
  <2>1. /\ net.phase = "parse" /\ (Fail \/ Goto("construct"))
        /\ UNCHANGED <<script, counters, switches, process, owner, faults, exerciseVars>>
    BY <1>2 DEF ReadTopology, At
  <2>2. PlaceStep
    BY <2>1, <1>b, GotoSteps DEF Fail
  <2> QED
    BY <2>1, <2>2, <1>k, PlaceKeeps
<1>3. CASE ProgramHosts
  <2>1. /\ net.phase = "up" /\ net' = [phase |-> "program", at |-> 1, polls |-> 0]
        /\ UNCHANGED <<script, counters, switches, process, owner, faults, exerciseVars>>
    BY <1>3 DEF ProgramHosts, At
  <2>2. net' \in Places(script) /\ net'.phase = "program"
    BY <2>1, <1>b, <1>0, Bounds DEF Places
  <2>3. PlaceStep
    BY <2>1, <2>2, <1>b DEF PlaceStep
  <2> QED
    BY <2>1, <2>3, <1>k, PlaceKeeps
<1>4. CASE ProgramSwitchCLI
  <2>1. /\ net.phase = "program" /\ (Goto("p4runtime") \/ Fail)
        /\ UNCHANGED <<script, counters, switches, process, owner, faults, programmed>>
        /\ \/ loader' = [loader EXCEPT ![net.at] = "running"]
           \/ loader' = loader
    BY <1>4 DEF ProgramSwitchCLI, At
  <2>2. PlaceStep
    BY <2>1, <1>b, GotoSteps DEF Fail
  <2>3. net.at \in 1 .. Len(switches) /\ net.at \in Ids
    BY <2>1, <1>b, <1>at
  <2>4. loader' \in [Ids -> {"none", "running", "done"}]
        /\ \A i \in Ids : loader'[i] = "running" => i \in 1 .. Len(switches)
    BY <2>1, <2>3 DEF LoadInv
  <2>5. LoadInv'
    BY <2>1, <2>4 DEF LoadInv, CommandsReachTheirSwitch, OneClass
  <2> QED
    BY <2>1, <2>2, <2>5, PlaceKeeps
<1>5. CASE ProgramSwitchP4Runtime
  <2>1. /\ net.phase = "p4runtime"
        /\ UNCHANGED <<script, counters, switches, process, owner, faults, loader>>
        /\ net' = NextSwitch("program", "cli") \/ Fail
        /\ \/ programmed' = programmed
           \/ /\ script.grpc /\ owner[switches[net.at].grpc_port] # Free
              /\ programmed' = programmed \cup
                    {<<net.at, "p4runtime", owner[switches[net.at].grpc_port]>>}
    BY <1>5 DEF ProgramSwitchP4Runtime, At
  <2>2. PlaceStep
    BY <2>1, <1>b, GotoSteps, NextSwitchSteps DEF Fail
  <2>3. net.at \in 1 .. Len(switches) /\ net.at \in Ids
    BY <2>1, <1>b, <1>at
  <2>4. CASE programmed' = programmed
    BY <2>1, <2>2, <2>4, <1>k, PlaceKeeps DEF exerciseVars
  <2>5. CASE /\ script.grpc /\ owner[switches[net.at].grpc_port] # Free
             /\ programmed' = programmed \cup
                    {<<net.at, "p4runtime", owner[switches[net.at].grpc_port]>>}
    <3>1. PICK o : o = owner[switches[net.at].grpc_port]
      OBVIOUS
    <3>2. o \in Ids \cup {Other} /\ (OneClass => o \in {net.at, Other})
      BY <2>3, <2>5, <3>1, WriteArrives
    <3>3. programmed' = programmed \cup {<<net.at, "p4runtime", o>>}
      BY <2>5, <3>1
    <3>4. LoadInv'
      BY <2>1, <2>3, <3>2, <3>3 DEF LoadInv, CommandsReachTheirSwitch, OneClass
    <3> QED
      BY <2>1, <2>2, <3>4, PlaceKeeps
  <2> QED
    BY <2>1, <2>4, <2>5
<1>6. CASE RunCLI
  <2>1. /\ net.phase = "cli"
        /\ net' = [phase |-> "stop", at |-> 1, polls |-> 0] \/ Fail
        /\ UNCHANGED <<script, counters, switches, process, owner, faults, exerciseVars>>
    BY <1>6 DEF RunCLI, At
  <2>2. CASE net' = [phase |-> "stop", at |-> 1, polls |-> 0]
    <3>1. net' \in Places(script) /\ net'.phase = "stop"
      BY <2>2, <1>b, <1>0, Bounds DEF Places
    <3>2. PlaceStep
      BY <2>1, <3>1, <1>b DEF PlaceStep
    <3> QED
      BY <2>1, <3>2, <1>k, PlaceKeeps
  <2>3. CASE Fail
    <3>1. PlaceStep
      BY <2>3, <1>b, GotoSteps DEF Fail
    <3> QED
      BY <2>1, <3>1, <1>k, PlaceKeeps
  <2> QED
    BY <2>1, <2>2, <2>3
<1>7. ASSUME NEW i \in Ids, Load(i)
      PROVE  NetInv' /\ LoadInv' /\ script' = script
  <2>1. /\ loader[i] = "running" /\ loader' = [loader EXCEPT ![i] = "done"]
        /\ script' = script /\ switches' = switches /\ net' = net
        /\ counters' = counters /\ process' = process /\ owner' = owner
        /\ faults' = faults
        /\ \/ programmed' = programmed
           \/ /\ owner[switches[i].thrift_port] # Free
              /\ programmed' = programmed \cup {<<i, "cli", owner[switches[i].thrift_port]>>}
    BY <1>7 DEF Load, netVars
  <2>2. NetInv'
    BY <2>1 DEF NetInv, PlaceInv, ObjectInv, ProcessInv, OneClass, PortsOf
  <2>3. i \in 1 .. Len(switches)
    BY <2>1 DEF LoadInv
  <2>4. loader' \in [Ids -> {"none", "running", "done"}]
        /\ \A j \in Ids : loader'[j] = "running" => j \in 1 .. Len(switches)
    BY <2>1 DEF LoadInv
  <2>5. PICK o : o = owner[switches[i].thrift_port]
    OBVIOUS
  <2>6. o # Free => o \in Ids \cup {Other} /\ (OneClass => o \in {i, Other})
    BY <2>3, <2>5, WriteArrives
  <2>7. programmed' = programmed \/ (o # Free /\ programmed' = programmed \cup {<<i, "cli", o>>})
    BY <2>1, <2>5
  <2>8. LoadInv'
    BY <2>1, <2>4, <2>6, <2>7 DEF LoadInv, CommandsReachTheirSwitch, OneClass
  <2> QED
    BY <2>1, <2>2, <2>8
<1>8. CASE ((\E i \in Ids : Bind(i)) \/ Faults) /\ UNCHANGED exerciseVars
  BY <1>8, <1>k, ProcessKeeps
<1> QED
  BY <1>1, <1>2, <1>3, <1>4, <1>5, <1>6, <1>7, <1>8 DEF ExerciseNext, ExerciseMain

-----------------------------------------------------------------------------
(* The inductive invariant: p4apprunner.py *)

AppInv == AppTyped /\ StageInv /\ VerdictInv /\ ReapInv

\* run_command's results are exit codes.
LEMMA StatusesTyped ==
    ASSUME NEW s \in Ends({0, 1}) \cup Ends({0, 3}), NEW rv \in ExitStatuses(s)
    PROVE  /\ rv \in 0 .. 255 /\ s \in [killed : BOOLEAN, code : 0 .. 255]
           /\ rv = 0 => s.killed \/ s.code = 0
<1>1. s \in [killed : {FALSE}, code : {0, 1, 3}] \cup [killed : {TRUE}, code : {2}]
  BY DEF Ends, Sigint
<1>2. s \in [killed : BOOLEAN, code : 0 .. 255] /\ s.code \in {0, 1, 2, 3}
  <2>1. CASE s \in [killed : {FALSE}, code : {0, 1, 3}]
    <3>1. s = [killed |-> s.killed, code |-> s.code] /\ s.killed \in {FALSE}
          /\ s.code \in {0, 1, 3}
      BY <2>1
    <3>2. s.killed \in BOOLEAN
      BY <3>1
    <3>3. s.code \in 0 .. 255
      BY <3>1
    <3> QED
      BY <3>1, <3>2, <3>3
  <2>2. CASE s \in [killed : {TRUE}, code : {2}]
    <3>1. s = [killed |-> s.killed, code |-> s.code] /\ s.killed \in {TRUE}
          /\ s.code \in {2}
      BY <2>2
    <3>2. s.killed \in BOOLEAN
      BY <3>1
    <3>3. s.code \in 0 .. 255
      BY <3>1
    <3> QED
      BY <3>1, <3>2, <3>3
  <2> QED
    BY <1>1, <2>1, <2>2
<1>3. rv \in {0, s.code, 128 + s.code} /\ (~s.killed => rv = s.code)
  BY DEF ExitStatuses
<1> QED
  BY <1>2, <1>3

\* A step of p4apprunner.py itself leaves commands and codes alone.
LEMMA RunnerKeepsReaping ==
    ASSUME NetInv, AppInv, script' = script, net' = net, app'.host = app.host,
           UNCHANGED <<command, return_codes>>
    PROVE  ReapInv'
<1>1. Collected' = Collected
  BY DEF Collected, Hosts, Wait
<1> QED
  BY <1>1 DEF AppInv, ReapInv, Hosts, Wait

LEMMA RunnerKeeps ==
    ASSUME NetInv, AppInv,
           \/ ReadManifest \/ PrepareCompile \/ Compile \/ FinishCompile
           \/ RunExternal \/ ScriptEnded
    PROVE  NetInv' /\ AppInv' /\ script' = script
<1>0. app \in AppStates /\ status \in [killed : BOOLEAN, code : 0 .. 255]
  BY DEF AppInv, AppTyped
<1>u. UNCHANGED <<netVars, command, signal, return_codes>>
  BY DEF ReadManifest, PrepareCompile, Compile, FinishCompile, RunExternal, ScriptEnded
<1>n. /\ script' = script /\ net' = net /\ counters' = counters /\ switches' = switches
      /\ process' = process /\ owner' = owner /\ faults' = faults
      /\ command' = command /\ signal' = signal /\ return_codes' = return_codes
  BY <1>u DEF netVars
<1>v. NetInv'
  BY <1>n DEF NetInv, PlaceInv, ObjectInv, ProcessInv, OneClass, PortsOf
<1>k. ASSUME app' \in AppStates, app'.host = app.host,
             app.stage \in Preparing \cup {"script"},
             app'.stage \in Preparing \cup {"exit"},
             app.stage = "script" => app'.stage = "exit"
                                     /\ net.phase \in {"finished"} \cup Over,
             status' \in [killed : BOOLEAN, code : 0 .. 255],
             app'.stage # "exit" => status' = status,
             app'.stage = "after" /\ app'.compiled = "no" => app'.rc # 0,
             app'.stage \in {"backend", "external"} => app'.compiled # "no",
             (app'.stage = "exit" /\ app'.rc = 0) =>
                 /\ app'.compiled # "no"
                 /\ status'.killed \/ (/\ status'.code = 0
                                       /\ \A i \in DOMAIN return_codes : return_codes[i] = 0)
      PROVE  AppInv'
  <2>1. AppTyped'
    BY <1>k, <1>n DEF AppInv, AppTyped
  <2>2. StageInv'
    <3>1. app.stage # "none" /\ app'.stage # "none" /\ app.stage # "exit"
      BY <1>k DEF Preparing
    <3>2. app'.stage \in Preparing => net.phase = "idle"
      BY <1>k DEF AppInv, StageInv, Preparing
    <3>3. app'.stage = "exit" => net.phase \in {"idle", "finished"} \cup Over
      BY <1>k DEF AppInv, StageInv
    <3> QED
      BY <3>1, <3>2, <3>3, <1>n DEF AppInv, StageInv
  <2>3. VerdictInv'
    <3>1. app'.stage # "exit" => status' = [killed |-> FALSE, code |-> 0]
      BY <1>k DEF AppInv, VerdictInv, Preparing
    <3>2. app'.stage # "script"
      BY <1>k DEF Preparing
    <3>3. app'.stage \in Preparing => return_codes = <<>>
      BY <1>k DEF AppInv, VerdictInv, Preparing
    <3> QED
      BY <3>1, <3>2, <3>3, <1>k, <1>n DEF VerdictInv, ExitReportsFailure, Stage
  <2>4. ReapInv'
    BY <1>k, <1>n, RunnerKeepsReaping
  <2> QED
    BY <2>1, <2>2, <2>3, <2>4 DEF AppInv
<1>g. ASSUME NEW stage \in Preparing, GotoStage(stage)
      PROVE  app' \in AppStates /\ app'.stage = stage /\ app'.host = app.host
             /\ app'.compiled = app.compiled /\ app'.rc = app.rc
  BY <1>0, <1>g DEF GotoStage, AppStates
<1>e. ASSUME NEW rc \in 0 .. 255, Exit(rc)
      PROVE  app' \in AppStates /\ app'.stage = "exit" /\ app'.host = app.host
             /\ app'.compiled = app.compiled /\ app'.rc = rc
  BY <1>0, <1>e DEF Exit, AppStates
<1>p. \A s \in {"manifest", "before", "compile", "after", "backend", "external"} :
          s \in Preparing /\ s # "exit" /\ s # "script"
  BY DEF Preparing
<1>1. CASE ReadManifest
  <2>1. app.stage = "manifest" /\ status' = status
        /\ (GotoStage("before") \/ Exit(1))
    BY <1>1 DEF ReadManifest, Stage
  <2>2. CASE GotoStage("before")
    BY <2>1, <2>2, <1>0, <1>g, <1>k, <1>p, <1>v, <1>n
  <2>3. CASE Exit(1)
    BY <2>1, <2>3, <1>0, <1>e, <1>k, <1>p, <1>v, <1>n
  <2> QED
    BY <2>1, <2>2, <2>3
<1>2. CASE PrepareCompile
  <2>1. app.stage = "before" /\ status' = status
        /\ (GotoStage("compile") \/ Exit(1))
    BY <1>2 DEF PrepareCompile, Stage
  <2>2. CASE GotoStage("compile")
    BY <2>1, <2>2, <1>0, <1>g, <1>k, <1>p, <1>v, <1>n
  <2>3. CASE Exit(1)
    BY <2>1, <2>3, <1>0, <1>e, <1>k, <1>p, <1>v, <1>n
  <2> QED
    BY <2>1, <2>2, <2>3
<1>3. CASE Compile
  <2>1. PICK s \in Ends({0, 1}) : \E rv \in ExitStatuses(s) :
            app' = [app EXCEPT !.stage = "after", !.rc = rv,
                               !.compiled = IF s.killed THEN "killed"
                                            ELSE IF s.code = 0 THEN "yes" ELSE "no"]
    BY <1>3 DEF Compile
  <2>2. PICK rv \in ExitStatuses(s) :
            app' = [app EXCEPT !.stage = "after", !.rc = rv,
                               !.compiled = IF s.killed THEN "killed"
                                            ELSE IF s.code = 0 THEN "yes" ELSE "no"]
    BY <2>1
  <2>3. rv \in 0 .. 255
    BY StatusesTyped
  <2>4. PICK result \in {"no", "yes", "killed"} :
            result = IF s.killed THEN "killed" ELSE IF s.code = 0 THEN "yes" ELSE "no"
    OBVIOUS
  <2>5. app' = [app EXCEPT !.stage = "after", !.rc = rv, !.compiled = result]
    BY <2>2, <2>4
  <2>6. /\ app' \in AppStates /\ app'.stage = "after" /\ app'.host = app.host
        /\ app'.rc = rv /\ app'.compiled = result
    <3>1. app = [stage |-> app.stage, compiled |-> app.compiled, rc |-> app.rc,
                 host |-> app.host] /\ app.host \in Nat \ {0}
      BY <1>0 DEF AppStates
    <3>2. app' = [stage |-> "after", compiled |-> result, rc |-> rv, host |-> app.host]
      BY <3>1, <2>5
    <3> QED
      BY <3>1, <3>2, <2>3, <1>p DEF AppStates
  <2>7. app'.compiled = "no" => ~s.killed /\ s.code # 0
    BY <2>4, <2>6
  <2>8. app'.compiled = "no" => app'.rc # 0
    BY <2>6, <2>7 DEF ExitStatuses
  <2>9. app.stage = "compile" /\ status' = status
    BY <1>3 DEF Compile, Stage
  <2> QED
    BY <2>6, <2>8, <2>9, <1>0, <1>k, <1>p, <1>v, <1>n
<1>4. CASE FinishCompile
  <2>1. app.stage = "after" /\ status' = status
        /\ ((GotoStage("backend") /\ app.rc = 0) \/ Exit(1))
    BY <1>4 DEF FinishCompile, Stage
  <2>2. CASE GotoStage("backend") /\ app.rc = 0
    <3>1. app.compiled # "no"
      BY <2>1, <2>2 DEF AppInv, VerdictInv
    <3> QED
      BY <2>1, <2>2, <3>1, <1>0, <1>g, <1>k, <1>p, <1>v, <1>n
  <2>3. CASE Exit(1)
    BY <2>1, <2>3, <1>0, <1>e, <1>k, <1>p, <1>v, <1>n
  <2> QED
    BY <2>1, <2>2, <2>3
<1>5. CASE RunExternal
  <2>1. PICK s \in Ends({0, 3}) :
            /\ status' = s
            /\ \E rv \in ExitStatuses(s) : Exit(IF rv # 0 THEN 1 ELSE 0)
    BY <1>5 DEF RunExternal
  <2>2. PICK rv \in ExitStatuses(s) : Exit(IF rv # 0 THEN 1 ELSE 0)
    BY <2>1
  <2>3. app.stage = "external"
    BY <1>5 DEF RunExternal, Stage
  <2>4. s \in [killed : BOOLEAN, code : 0 .. 255] /\ (rv = 0 => s.killed \/ s.code = 0)
    BY StatusesTyped
  <2>5. PICK rc \in 0 .. 255 : rc = (IF rv # 0 THEN 1 ELSE 0)
    OBVIOUS
  <2>6. Exit(rc) /\ (rc = 0 => rv = 0)
    BY <2>2, <2>5
  <2>7. return_codes = <<>> /\ app.compiled # "no"
    BY <2>3, <1>p DEF AppInv, VerdictInv
  <2>8. /\ app' \in AppStates /\ app'.stage = "exit" /\ app'.host = app.host
        /\ app'.compiled = app.compiled /\ app'.rc = rc
    BY <2>6, <1>e
  <2> QED
    BY <2>1, <2>3, <2>4, <2>6, <2>7, <2>8, <1>k, <1>p, <1>v, <1>n
<1>6. CASE ScriptEnded
  <2>1. PICK rv \in ExitStatuses(ScriptStatus) : Exit(rv)
    BY <1>6 DEF ScriptEnded
  <2>2. app.stage = "script" /\ net.phase \in {"finished"} \cup Over /\ status' = ScriptStatus
    BY <1>6 DEF ScriptEnded, Stage, Over
  <2>3. /\ ScriptStatus \in [killed : BOOLEAN, code : {0, 1, 2}]
        /\ ScriptStatus.killed \/ ScriptStatus.code = 0
             => ScriptStatus.killed \/ \A i \in DOMAIN return_codes : return_codes[i] = 0
    BY DEF ScriptStatus, At, Sigint
  <2>4. rv \in 0 .. 255 /\ (rv = 0 => ScriptStatus.killed \/ ScriptStatus.code = 0)
    BY <2>3 DEF ExitStatuses
  <2>5. /\ app' \in AppStates /\ app'.stage = "exit" /\ app'.host = app.host
        /\ app'.compiled = app.compiled /\ app'.rc = rv
    BY <2>1, <2>4, <1>e
  <2>6. app.compiled # "no"
    BY <2>2 DEF AppInv, VerdictInv
  <2>7. status' \in [killed : BOOLEAN, code : 0 .. 255]
    BY <2>2, <2>3
  <2>8. app'.rc = 0 => status'.killed \/ (/\ status'.code = 0
                                          /\ \A i \in DOMAIN return_codes : return_codes[i] = 0)
    BY <2>2, <2>3, <2>4, <2>5
  <2> QED
    BY <2>2, <2>5, <2>6, <2>7, <2>8, <1>k, <1>p, <1>v, <1>n
<1> QED
  BY <1>1, <1>2, <1>3, <1>4, <1>5, <1>6

-----------------------------------------------------------------------------
(* The inductive invariant: the p4app scripts *)

LEMMA HostsTyped ==
    ASSUME script \in Scripts, script.kind # "exercise"
    PROVE  /\ Hosts \subseteq CommandIds /\ Len(script.hosts) \in Nat
           /\ \A h \in Hosts : script.hosts[h].wait \in BOOLEAN
                 /\ script.hosts[h].acts \in {"ok", "fails", "server", "stubborn", "immune"}
<1>1. /\ MaxHosts \in Nat /\ Len(script.hosts) \in 0 .. MaxHosts
      /\ \A h \in 1 .. Len(script.hosts) : script.hosts[h].wait \in BOOLEAN
           /\ script.hosts[h].acts \in {"ok", "fails", "server", "stubborn", "immune"}
  BY HostsAssumption DEF HostsAssumption
<1>2. Len(script.hosts) \in Nat /\ Hosts \subseteq CommandIds
  BY <1>1 DEF CommandIds, Hosts
<1> QED
  BY <1>1, <1>2 DEF Hosts

\* Idle, over or done: else its script is under way.
UnderWay == script.kind # "exercise" /\ net.phase \notin {"idle", "finished"} \cup Over

\* Steps of a script leave p4apprunner where it is.
ScriptStep ==
    /\ script' = script /\ status' = status
    /\ app' \in AppStates /\ app'.stage = app.stage /\ app'.compiled = app.compiled
    /\ command' \in [CommandIds -> Command]
    /\ signal' \in [CommandIds -> {"none", "INT", "TERM"}]
    /\ return_codes' \in Seq(0 .. 255)
    /\ \A h \in CommandIds : command'[h].state # "none" => h \in Hosts

LEMMA ScriptKeeps ==
    ASSUME AppInv, UnderWay, ScriptStep, ReapInv'
    PROVE  AppInv'
<1>1. app.stage = "script"
  BY DEF AppInv, AppTyped, StageInv, UnderWay, AppStates
<1>2. app'.stage = "script" /\ app'.compiled # "no"
  BY <1>1 DEF ScriptStep, AppInv, VerdictInv
<1>3. AppTyped'
  BY DEF ScriptStep, AppInv, AppTyped
<1>4. StageInv'
  BY <1>2 DEF ScriptStep, UnderWay, StageInv, Preparing, Hosts
<1>5. VerdictInv'
  BY <1>1, <1>2 DEF ScriptStep, AppInv, VerdictInv, ExitReportsFailure, Stage, Preparing
<1> QED
  BY <1>3, <1>4, <1>5 DEF AppInv

\* Steps that leave the commands alone, too, only have to keep the set of those collected.
LEMMA QuietStep ==
    ASSUME AppInv, script' = script, script.kind # "exercise",
           UNCHANGED <<app, status, command, signal, return_codes>>
    PROVE  ScriptStep
BY DEF AppInv, AppTyped, StageInv, ScriptStep, Hosts

LEMMA QuietReaping ==
    ASSUME AppInv, script' = script, UNCHANGED <<app, command, return_codes>>,
           \/ net'.phase \in Over
           \/ /\ net.phase \notin Commands \cup {"stop", "finished"} \cup Over
              /\ net'.phase \notin Commands \cup {"stop", "finished"}
           \/ net.phase \in {"stop", "finished"} /\ net'.phase \in {"stop", "finished"}
    PROVE  ReapInv'
<1>1. CASE net'.phase \in Over
  BY <1>1 DEF ReapInv, Over, Commands
<1>2. CASE /\ net.phase \notin Commands \cup {"stop", "finished"} \cup Over
           /\ net'.phase \notin Commands \cup {"stop", "finished"} \cup Over
  <2>1. Collected = {} /\ Collected' = {}
    BY <1>2 DEF Collected, Commands
  <2> QED
    BY <1>2, <2>1 DEF AppInv, ReapInv, Commands
<1>3. CASE net.phase \in {"stop", "finished"} /\ net'.phase \in {"stop", "finished"}
  <2>1. Collected = Hosts /\ Collected' = Hosts
    BY <1>3 DEF Collected, Hosts
  <2>2. net.phase \notin Over /\ net'.phase \notin Commands
    BY <1>3 DEF Over, Commands
  <2> QED
    BY <1>3, <2>1, <2>2 DEF AppInv, ReapInv, Commands
<1> QED
  BY <1>1, <1>2, <1>3

LEMMA NetMainInApp ==
    ASSUME NetInv, AppInv, script.kind # "exercise", NetMain, UNCHANGED appVars
    PROVE  NetInv' /\ AppInv' /\ script' = script
           /\ 1 .. Len(switches) \subseteq 1 .. Len(switches')
<1>1. /\ NetInv' /\ NetPhases /\ script' = script
      /\ 1 .. Len(switches) \subseteq 1 .. Len(switches')
  BY NetMainKeeps
<1>2. UNCHANGED <<app, status, command, signal, return_codes>>
  BY DEF appVars
<1>3. UnderWay
  BY <1>1 DEF NetPhases, UnderWay, Starting, Over
<1>4. \/ net'.phase \in Over
      \/ /\ net.phase \notin Commands \cup {"stop", "finished"} \cup Over
         /\ net'.phase \notin Commands \cup {"stop", "finished"}
      \/ net.phase \in {"stop", "finished"} /\ net'.phase \in {"stop", "finished"}
  BY <1>1 DEF NetPhases, Commands, Starting, Over
<1>5. ReapInv'
  BY <1>1, <1>2, <1>4, QuietReaping
<1>6. ScriptStep
  BY <1>1, <1>2, QuietStep
<1> QED
  BY <1>1, <1>3, <1>5, <1>6, ScriptKeeps

\* Before the hosts' commands.
LEMMA SetUpKeeps ==
    ASSUME NetInv, AppInv, script.kind # "exercise",
           ConfigureSingle \/ ControllerRoute \/ ControllerDone \/ LeaveCLI
    PROVE  NetInv' /\ AppInv' /\ script' = script /\ switches' = switches
<1>0. UNCHANGED <<script, switches, counters, process, owner, faults,
                  app, status, command, signal, return_codes>>
  BY DEF ConfigureSingle, ControllerRoute, ControllerDone, LeaveCLI, appVars, netVars
<1>s. script \in Scripts /\ net \in Places(script)
  BY DEF NetInv, PlaceInv
<1>b. {"up", "cli", "launch", "stop"} \subseteq Built /\ "failed" \in Over
  BY DEF Built, Commands, Over
<1>1. CASE ConfigureSingle \/ ControllerDone
  <2>1. net.phase = "up" /\ (Goto("cli") \/ Goto("failed"))
    BY <1>1 DEF ConfigureSingle, ControllerDone, At, Fail
  <2>2. PlaceStep /\ net'.phase \in {"cli", "failed"}
    BY <2>1, <1>b, GotoSteps
  <2>3. ReapInv'
    BY <2>1, <2>2, <1>0, QuietReaping DEF Over, Commands
  <2>4. ScriptStep /\ UnderWay
    BY <2>1, <1>0, QuietStep DEF UnderWay, Over
  <2> QED
    BY <1>0, <2>2, <2>3, <2>4, ScriptKeeps, PlaceKeeps
<1>2. CASE ControllerRoute
  <2>1. net.phase = "up" /\ net' = net
    BY <1>2 DEF ControllerRoute, At, netVars
  <2>2. PlaceStep
    BY <2>1, <1>b, <1>s DEF PlaceStep
  <2>3. ReapInv'
    BY <2>1, <1>0, QuietReaping DEF Over, Commands
  <2>4. ScriptStep /\ UnderWay
    BY <2>1, <1>0, QuietStep DEF UnderWay, Over
  <2> QED
    BY <1>0, <2>2, <2>3, <2>4, ScriptKeeps, PlaceKeeps
<1>3. CASE LeaveCLI
  <2>1. net.phase = "cli"
        /\ net' = [phase |-> IF script.kind = "single" THEN "stop" ELSE "launch",
                   at |-> 1, polls |-> 0]
    BY <1>3 DEF LeaveCLI, At
  <2>2. net' \in Places(script)
        /\ net'.phase = IF script.kind = "single" THEN "stop" ELSE "launch"
    BY <2>1, <1>b, <1>s, Bounds DEF Places
  <2>3. PlaceStep
    BY <2>1, <2>2, <1>b DEF PlaceStep
  <2>4. ReapInv'
    <3> SUFFICES ASSUME script.kind = "multi" PROVE ReapInv'
      BY <1>0 DEF ReapInv
    <3>1. net'.phase = "launch" /\ net.phase \notin Commands \cup {"stop", "finished"} \cup Over
      BY <2>1, <2>2 DEF Commands, Over
    <3>2. app.host = 1 /\ return_codes = <<>>
      BY <3>1 DEF AppInv, ReapInv
    <3>3. Collected' = {}
      <4>1. Len(script.hosts) \in Nat
        BY <1>s, HostsTyped
      <4> QED
        BY <3>1, <3>2, <4>1, <1>0 DEF Collected, Hosts
    <3>4. Cardinality({}) = 0
      BY FS_EmptySet
    <3>5. Len(return_codes') = 0
      BY <3>2, <1>0
    <3> QED
      BY <3>1, <3>3, <3>4, <3>5 DEF ReapInv, Commands
  <2>5. ScriptStep /\ UnderWay
    BY <2>1, <1>0, QuietStep DEF UnderWay, Over
  <2> QED
    BY <1>0, <2>3, <2>4, <2>5, ScriptKeeps, PlaceKeeps
<1> QED
  BY <1>1, <1>2, <1>3

LEMMA BackendKeeps ==
    ASSUME NetInv, AppInv, script.kind # "exercise", RunBackend
    PROVE  NetInv' /\ AppInv' /\ script' = script /\ switches' = switches
<1>0. /\ app.stage = "backend"
      /\ UNCHANGED <<script, switches, counters, process, owner, faults,
                     status, command, signal, return_codes>>
  BY DEF RunBackend, Stage
<1>t. app \in AppStates /\ net.phase = "idle" /\ app.compiled # "no"
      /\ return_codes = <<>> /\ status = [killed |-> FALSE, code |-> 0]
  BY <1>0 DEF AppInv, AppTyped, StageInv, VerdictInv, Preparing
<1>1. \/ GotoStage("script") /\ Goto("construct")
      \/ net' = net /\ \E rc \in {0, 1} : Exit(rc)
      \/ net' = net /\ GotoStage("external")
  BY DEF RunBackend, RunScript
<1>2. PICK stage \in {"script", "external", "exit"}, rc \in 0 .. 255 :
          /\ app' = [app EXCEPT !.stage = stage, !.rc = rc]
          /\ stage = "script" => Goto("construct")
          /\ stage # "script" => net' = net
  <2>1. app.rc \in 0 .. 255
    BY <1>t DEF AppStates
  <2>2. CASE GotoStage("script") /\ Goto("construct")
    <3>1. app' = [app EXCEPT !.stage = "script", !.rc = app.rc]
      BY <2>2, <1>t DEF GotoStage, AppStates
    <3> QED
      BY <2>1, <2>2, <3>1
  <2>3. CASE net' = net /\ \E rc \in {0, 1} : Exit(rc)
    <3>1. PICK rc \in {0, 1} : Exit(rc)
      BY <2>3
    <3>2. rc \in 0 .. 255 /\ app' = [app EXCEPT !.stage = "exit", !.rc = rc]
      BY <3>1 DEF Exit
    <3> QED
      BY <2>3, <3>2
  <2>4. CASE net' = net /\ GotoStage("external")
    <3>1. app' = [app EXCEPT !.stage = "external", !.rc = app.rc]
      BY <2>4, <1>t DEF GotoStage, AppStates
    <3> QED
      BY <2>1, <2>4, <3>1
  <2> QED
    BY <1>1, <2>2, <2>3, <2>4
<1>3. /\ app' \in AppStates /\ app'.stage = stage /\ app'.host = app.host
      /\ app'.compiled = app.compiled
  BY <1>2, <1>t DEF AppStates, Preparing
<1>4. PlaceStep /\ net'.phase = IF stage = "script" THEN "construct" ELSE "idle"
  <2>1. net \in Places(script)
    BY DEF NetInv, PlaceInv
  <2>2. CASE stage = "script"
    BY <1>2, <1>t, <2>2, GotoSteps DEF Before
  <2>3. CASE stage # "script"
    BY <1>2, <1>t, <2>1, <2>3 DEF PlaceStep, Before
  <2> QED
    BY <2>2, <2>3
<1>5. AppTyped'
  BY <1>0, <1>3 DEF AppInv, AppTyped
<1>6. StageInv'
  BY <1>0, <1>3, <1>4 DEF AppInv, StageInv, Preparing
<1>7. VerdictInv'
  BY <1>0, <1>3, <1>t DEF VerdictInv, ExitReportsFailure, Stage
<1>8. ReapInv'
  <2>1. Collected' = {}
    BY <1>4 DEF Collected
  <2>2. Len(return_codes') = 0 /\ Cardinality({}) = 0
    BY <1>0, <1>t, FS_EmptySet
  <2>3. app.host = 1 \/ script.kind # "multi"
    BY <1>t DEF AppInv, ReapInv, Commands, Over
  <2> QED
    BY <1>0, <1>3, <1>4, <1>t, <2>1, <2>2, <2>3 DEF ReapInv
<1> QED
  BY <1>0, <1>4, <1>5, <1>6, <1>7, <1>8, PlaceKeeps DEF AppInv

\* The codes of those collected stay collected when nothing else moves.
LEMMA SameCollected ==
    ASSUME AppInv, script' = script, script.kind = "multi",
           Collected' = Collected, return_codes' = return_codes,
           net.phase \notin Over,
           \A h \in Collected : command'[h] = command[h]
    PROVE  /\ Len(return_codes') = Cardinality(Collected')
           /\ \A h \in Collected' :
                /\ command'[h].state = "ended"
                /\ \E i \in DOMAIN return_codes' : return_codes'[i] = command'[h].code
BY DEF AppInv, ReapInv

LEMMA HostMoves ==
    ASSUME app \in AppStates, NEW h \in Nat \ {0}, app' = [app EXCEPT !.host = h]
    PROVE  app' \in AppStates /\ app'.stage = app.stage /\ app'.compiled = app.compiled
           /\ app'.host = h
<1>1. app = [stage |-> app.stage, compiled |-> app.compiled, rc |-> app.rc,
             host |-> app.host]
  BY DEF AppStates
<1>2. app' = [stage |-> app.stage, compiled |-> app.compiled, rc |-> app.rc, host |-> h]
  BY <1>1
<1> QED
  BY <1>2 DEF AppStates

LEMMA LaunchKeeps ==
    ASSUME NetInv, AppInv, script.kind # "exercise", LaunchCommand
    PROVE  NetInv' /\ AppInv' /\ script' = script /\ switches' = switches
<1>0. /\ net.phase = "launch" /\ app.host <= Len(script.hosts)
      /\ command' = [command EXCEPT ![app.host].state = "running"]
      /\ script' = script /\ switches' = switches /\ counters' = counters
      /\ process' = process /\ owner' = owner /\ faults' = faults
      /\ status' = status /\ signal' = signal /\ return_codes' = return_codes
      /\ \/ Wait(app.host) /\ Goto("wait") /\ app' = app
         \/ ~Wait(app.host) /\ app' = [app EXCEPT !.host = @ + 1] /\ net' = net
  BY DEF LaunchCommand, AtHost, At
<1>s. script \in Scripts /\ net \in Places(script) /\ app \in AppStates
  BY DEF NetInv, PlaceInv, AppInv, AppTyped
<1>h. app.host \in Hosts /\ app.host \in CommandIds /\ app.host \in Nat
      /\ Hosts \subseteq CommandIds
  BY <1>0, <1>s, HostsTyped DEF AppStates, Hosts
<1>c. /\ command' \in [CommandIds -> Command]
      /\ \A h \in CommandIds : h # app.host => command'[h] = command[h]
  <2>1. command \in [CommandIds -> Command]
    BY DEF AppInv, AppTyped
  <2>2. [command[app.host] EXCEPT !.state = "running"] \in Command
    BY <2>1, <1>h DEF Command
  <2>3. command' = [command EXCEPT ![app.host] =
                        [command[app.host] EXCEPT !.state = "running"]]
    BY <1>0
  <2> QED
    BY <2>1, <2>2, <2>3, <1>h
<1>1. PlaceStep /\ net'.phase \in {"launch", "wait"}
      /\ (net'.phase = "wait" => Wait(app.host) /\ app' = app)
  <2>1. CASE Wait(app.host) /\ Goto("wait") /\ app' = app
    BY <1>0, <2>1, GotoSteps DEF Built, Commands
  <2>2. CASE net' = net
    BY <1>0, <1>s, <2>2 DEF PlaceStep, Built, Commands
  <2> QED
    BY <1>0, <2>1, <2>2
<1>2. app' \in AppStates /\ app'.stage = app.stage /\ app'.compiled = app.compiled
      /\ (app' = app \/ (~Wait(app.host) /\ app'.host = app.host + 1))
  <2>1. app.host + 1 \in Nat \ {0}
    BY <1>h
  <2>2. CASE app' = app
    BY <2>2, <1>s
  <2>3. CASE ~Wait(app.host) /\ app' = [app EXCEPT !.host = app.host + 1]
    BY <2>1, <2>3, <1>s, HostMoves
  <2> QED
    BY <2>2, <2>3, <1>0
<1>3. ScriptStep /\ UnderWay
  <2>1. \A h \in CommandIds : command'[h].state # "none" => h \in Hosts
    BY <1>c, <1>h DEF AppInv, StageInv, Hosts
  <2> QED
    BY <1>0, <1>2, <1>c, <2>1 DEF ScriptStep, UnderWay, Over, AppInv, AppTyped
<1>4. Collected' = Collected
  <2>1. Collected = {h \in Hosts : Wait(h) /\ h < app.host}
    BY <1>0 DEF Collected
  <2>2. Collected' = {h \in Hosts : Wait(h) /\ h < app'.host}
    BY <1>1, <1>0 DEF Collected, Hosts, Wait
  <2>3. \A h \in Hosts : Wait(h) => (h < app.host <=> h < app'.host)
    BY <1>2, <1>h DEF Hosts
  <2> QED
    BY <2>1, <2>2, <2>3
<1>5. ReapInv'
  <2> SUFFICES ASSUME script.kind = "multi" PROVE ReapInv'
    BY <1>0 DEF ReapInv
  <2>1. app.host \notin Collected
    BY <1>0, <1>h DEF Collected
  <2>2. \A h \in Collected : h \in CommandIds /\ command'[h] = command[h]
    BY <2>1, <1>0, <1>c, <1>h DEF Collected
  <2>3. net.phase \notin Over
    BY <1>0 DEF Over
  <2>4. /\ Len(return_codes') = Cardinality(Collected')
        /\ \A h \in Collected' :
             /\ command'[h].state = "ended"
             /\ \E i \in DOMAIN return_codes' : return_codes'[i] = command'[h].code
    BY <2>2, <2>3, <1>0, <1>4, SameCollected
  <2>5. net'.phase = "wait" => app'.host \in Hosts' /\ Wait(app.host)'
    BY <1>0, <1>1, <1>h DEF Hosts, Wait
  <2> QED
    BY <2>4, <2>5, <1>0, <1>1 DEF ReapInv, Commands, Wait
<1> QED
  BY <1>0, <1>1, <1>3, <1>5, PlaceKeeps, ScriptKeeps

\* The code of one more host, which had not been taken.
LEMMA WaitKeeps ==
    ASSUME NetInv, AppInv, script.kind # "exercise",
           WaitForExit("wait", "launch") \/ WaitForExit("collect", "interrupt")
    PROVE  NetInv' /\ AppInv' /\ script' = script /\ switches' = switches
<1> PICK from, to : /\ \/ from = "wait" /\ to = "launch"
                       \/ from = "collect" /\ to = "interrupt"
                    /\ WaitForExit(from, to)
  OBVIOUS
<1>0. /\ net.phase = from /\ app.host <= Len(script.hosts)
      /\ command[app.host].state = "ended"
      /\ return_codes' = Append(return_codes, command[app.host].code)
      /\ app' = [app EXCEPT !.host = @ + 1] /\ Goto(to)
      /\ script' = script /\ switches' = switches /\ counters' = counters
      /\ process' = process /\ owner' = owner /\ faults' = faults
      /\ status' = status /\ signal' = signal /\ command' = command
  BY DEF WaitForExit, AtHost, At
<1>s. script \in Scripts /\ net \in Places(script) /\ app \in AppStates
      /\ return_codes \in Seq(0 .. 255) /\ command \in [CommandIds -> Command]
  BY DEF NetInv, PlaceInv, AppInv, AppTyped
<1>h. app.host \in Hosts /\ app.host \in CommandIds /\ app.host \in Nat
      /\ Hosts \subseteq CommandIds
  BY <1>0, <1>s, HostsTyped DEF AppStates, Hosts
<1>c. PICK code \in 0 .. 255 : code = command[app.host].code
  BY <1>s, <1>h DEF Command
<1>r. /\ return_codes' \in Seq(0 .. 255)
      /\ Len(return_codes') = Len(return_codes) + 1
      /\ return_codes'[Len(return_codes) + 1] = code
      /\ \A i \in DOMAIN return_codes :
           i \in DOMAIN return_codes' /\ return_codes'[i] = return_codes[i]
      /\ Len(return_codes) + 1 \in DOMAIN return_codes'
  BY <1>0, <1>s, <1>c
<1>1. PlaceStep /\ net'.phase = to
  BY <1>0, GotoSteps DEF Built, Commands
<1>2. app' \in AppStates /\ app'.stage = app.stage /\ app'.compiled = app.compiled
      /\ app'.host = app.host + 1
  <2>1. app.host + 1 \in Nat \ {0}
    BY <1>h
  <2> QED
    BY <2>1, <1>0, <1>s, HostMoves
<1>3. ScriptStep /\ UnderWay
  <2>1. \A h \in CommandIds : command'[h].state # "none" => h \in Hosts
    BY <1>0 DEF AppInv, StageInv, Hosts
  <2> QED
    BY <1>0, <1>2, <1>r, <2>1 DEF ScriptStep, UnderWay, Over, AppInv, AppTyped
<1>5. ReapInv'
  <2> SUFFICES ASSUME script.kind = "multi" PROVE ReapInv'
    BY <1>0 DEF ReapInv
  <2>1. Collected' = Collected \cup {app.host} /\ app.host \notin Collected
    <3>1. CASE from = "wait"
      <4>1. Collected = {h \in Hosts : Wait(h) /\ h < app.host}
        BY <1>0, <3>1 DEF Collected
      <4>2. Collected' = {h \in Hosts : Wait(h) /\ h < app'.host}
        BY <1>0, <1>1, <3>1 DEF Collected, Hosts, Wait
      <4>3. Wait(app.host)
        BY <1>0, <3>1 DEF AppInv, ReapInv
      <4>4. \A h \in Hosts : h < app'.host <=> h < app.host \/ h = app.host
        BY <1>2, <1>h DEF Hosts
      <4> QED
        BY <4>1, <4>2, <4>3, <4>4, <1>h
    <3>2. CASE from = "collect"
      <4>1. Collected = {h \in Hosts : Wait(h) \/ h < app.host}
        BY <1>0, <3>2 DEF Collected
      <4>2. Collected' = {h \in Hosts : Wait(h) \/ h < app'.host}
        BY <1>0, <1>1, <3>2 DEF Collected, Hosts, Wait
      <4>3. ~Wait(app.host)
        BY <1>0, <3>2 DEF AppInv, ReapInv
      <4>4. \A h \in Hosts : h < app'.host <=> h < app.host \/ h = app.host
        BY <1>2, <1>h DEF Hosts
      <4> QED
        BY <4>1, <4>2, <4>3, <4>4, <1>h
    <3> QED
      BY <3>1, <3>2
  <2>2. Collected \subseteq Hosts /\ IsFiniteSet(Collected)
    <3>1. Collected \subseteq Hosts
      BY <1>0 DEF Collected
    <3>2. IsFiniteSet(Hosts)
      BY <1>s, HostsTyped, FS_Interval DEF Hosts
    <3> QED
      BY <3>1, <3>2, FS_Subset
  <2>3. Cardinality(Collected') = Cardinality(Collected) + 1
    BY <2>1, <2>2, FS_AddElement
  <2>4. net.phase \notin Over
    BY <1>0 DEF Over
  <2>5. /\ Len(return_codes) = Cardinality(Collected)
        /\ \A h \in Collected :
             /\ command[h].state = "ended"
             /\ \E i \in DOMAIN return_codes : return_codes[i] = command[h].code
    BY <2>4 DEF AppInv, ReapInv
  <2>6. \A h \in Collected' :
          /\ command'[h].state = "ended"
          /\ \E i \in DOMAIN return_codes' : return_codes'[i] = command'[h].code
    <3> SUFFICES ASSUME NEW h \in Collected \cup {app.host}
                 PROVE  /\ command[h].state = "ended"
                        /\ \E i \in DOMAIN return_codes' : return_codes'[i] = command[h].code
      BY <2>1, <1>0
    <3>1. CASE h \in Collected
      BY <3>1, <2>5, <1>r
    <3>2. CASE h = app.host
      BY <3>2, <1>0, <1>r, <1>c
    <3> QED
      BY <3>1, <3>2
  <2> QED
    BY <2>3, <2>5, <2>6, <1>1, <1>r DEF ReapInv, Commands
<1> QED
  BY <1>0, <1>1, <1>3, <1>5, PlaceKeeps, ScriptKeeps

\* The steps that send signals, and those between the loops.
LEMMA SignalKeeps ==
    ASSUME NetInv, AppInv, script.kind # "exercise",
           \/ AllLaunched \/ InterruptCommand \/ ProbeCommand \/ TerminateCommand
           \/ AllCollected
    PROVE  NetInv' /\ AppInv' /\ script' = script /\ switches' = switches
<1>0. /\ script' = script /\ switches' = switches /\ counters' = counters
      /\ process' = process /\ owner' = owner /\ faults' = faults
      /\ status' = status /\ command' = command /\ return_codes' = return_codes
  BY DEF AllLaunched, InterruptCommand, ProbeCommand, TerminateCommand, AllCollected, appVars
<1>s. script \in Scripts /\ net \in Places(script) /\ app \in AppStates
      /\ signal \in [CommandIds -> {"none", "INT", "TERM"}]
      /\ app.host \in Nat \ {0} /\ Len(script.hosts) \in Nat
  BY HostsTyped DEF NetInv, PlaceInv, AppInv, AppTyped, AppStates
<1>k. ASSUME net.phase \in Commands, PlaceStep, app' \in AppStates,
             app'.stage = app.stage, app'.compiled = app.compiled,
             signal' \in [CommandIds -> {"none", "INT", "TERM"}],
             script.kind = "multi" =>
               /\ Collected' = Collected
               /\ net'.phase \in {"probe", "terminate", "collect"} =>
                     app'.host \in Hosts /\ ~Wait(app'.host)
               /\ net'.phase \in {"interrupt", "probe", "terminate", "collect", "stop"}
      PROVE  NetInv' /\ AppInv'
  <2>1. \A h \in CommandIds : command'[h].state # "none" => h \in Hosts
    BY <1>0 DEF AppInv, StageInv, Hosts
  <2>2. ScriptStep /\ UnderWay
    BY <1>0, <1>k, <2>1
       DEF ScriptStep, UnderWay, Over, Commands, AppInv, AppTyped
  <2>3. ReapInv'
    <3> SUFFICES ASSUME script.kind = "multi" PROVE ReapInv'
      BY <1>0 DEF ReapInv
    <3>1. net.phase \notin Over
      BY <1>k DEF Commands, Over
    <3>2. /\ Len(return_codes') = Cardinality(Collected')
          /\ \A h \in Collected' :
               /\ command'[h].state = "ended"
               /\ \E i \in DOMAIN return_codes' : return_codes'[i] = command'[h].code
      BY <3>1, <1>0, <1>k, SameCollected
    <3>3. Hosts' = Hosts /\ (~Wait(app'.host) => ~Wait(app.host)')
      BY <1>0 DEF Hosts, Wait
    <3> QED
      BY <3>2, <3>3, <1>k DEF ReapInv, Commands
  <2> QED
    BY <1>0, <1>k, <2>2, <2>3, PlaceKeeps, ScriptKeeps
<1>w. \A h : Wait(h)' <=> Wait(h)
  BY <1>0 DEF Wait
<1>1. CASE AllLaunched
  <2>1. /\ net.phase = "launch" /\ app.host > Len(script.hosts)
        /\ Goto("interrupt") /\ app' = [app EXCEPT !.host = 1] /\ signal' = signal
    BY <1>1 DEF AllLaunched, NoHostLeft, At
  <2>2. PlaceStep /\ net'.phase = "interrupt"
    BY <2>1, GotoSteps DEF Built, Commands
  <2>3. app' \in AppStates /\ app'.stage = app.stage /\ app'.compiled = app.compiled
        /\ app'.host = 1
    BY <2>1, <1>s, HostMoves
  <2>4. Collected' = Collected
    <3>1. Collected = {h \in Hosts : Wait(h) /\ h < app.host}
      BY <2>1 DEF Collected
    <3>2. Collected' = {h \in Hosts : Wait(h) \/ h < 1}
      BY <2>2, <2>3, <1>0 DEF Collected, Hosts, Wait
    <3>3. \A h \in Hosts : h < app.host /\ ~(h < 1)
      BY <2>1, <1>s DEF Hosts
    <3> QED
      BY <3>1, <3>2, <3>3
  <2> QED
    BY <2>1, <2>2, <2>3, <2>4, <1>0, <1>k, <1>s DEF Commands
<1>2. CASE InterruptCommand
  <2>1. /\ net.phase = "interrupt" /\ app.host <= Len(script.hosts)
        /\ \/ /\ Wait(app.host) /\ app' = [app EXCEPT !.host = @ + 1]
              /\ net' = net /\ signal' = signal
           \/ /\ ~Wait(app.host) /\ Goto("probe") /\ app' = app
              /\ signal' = [signal EXCEPT ![app.host] = "INT"]
    BY <1>2 DEF InterruptCommand, AtHost, At
  <2>2. app.host \in Hosts
    BY <2>1, <1>s DEF Hosts
  <2>3. CASE /\ Wait(app.host) /\ app' = [app EXCEPT !.host = @ + 1]
             /\ net' = net /\ signal' = signal
    <3>1. PlaceStep /\ net'.phase = "interrupt"
      BY <2>1, <2>3, <1>s DEF PlaceStep, Built, Commands
    <3>2. app' \in AppStates /\ app'.stage = app.stage /\ app'.compiled = app.compiled
          /\ app'.host = app.host + 1
      <4>1. app.host + 1 \in Nat \ {0}
        BY <1>s
      <4> QED
        BY <4>1, <2>3, <1>s, HostMoves
    <3>3. Collected' = Collected
      <4>1. Collected = {h \in Hosts : Wait(h) \/ h < app.host}
        BY <2>1 DEF Collected
      <4>2. Collected' = {h \in Hosts : Wait(h) \/ h < app.host + 1}
        BY <3>1, <3>2, <1>0 DEF Collected, Hosts, Wait
      <4>3. \A h \in Hosts : h < app.host + 1 => h < app.host \/ Wait(h)
        BY <2>3, <1>s DEF Hosts
      <4>4. \A h \in Hosts : h < app.host => h < app.host + 1
        BY <1>s DEF Hosts
      <4> QED
        BY <4>1, <4>2, <4>3, <4>4
    <3> QED
      BY <2>1, <2>3, <3>1, <3>2, <3>3, <1>0, <1>k, <1>s DEF Commands
  <2>4. CASE /\ ~Wait(app.host) /\ Goto("probe") /\ app' = app
             /\ signal' = [signal EXCEPT ![app.host] = "INT"]
    <3>1. PlaceStep /\ net'.phase = "probe"
      BY <2>1, <2>4, GotoSteps DEF Built, Commands
    <3>2. Collected' = Collected
      BY <2>1, <2>4, <3>1, <1>0 DEF Collected, Hosts, Wait
    <3> QED
      BY <2>1, <2>2, <2>4, <3>1, <3>2, <1>0, <1>k, <1>s DEF Commands
  <2> QED
    BY <2>1, <2>3, <2>4
<1>3. CASE ProbeCommand \/ TerminateCommand
  <2>1. /\ net.phase \in {"probe", "terminate"}
        /\ Goto("terminate") \/ Goto("collect")
        /\ app' = app /\ signal' \in [CommandIds -> {"none", "INT", "TERM"}]
    BY <1>3, <1>s DEF ProbeCommand, TerminateCommand, At, appVars
  <2>2. PlaceStep /\ net'.phase \in {"terminate", "collect"}
    BY <2>1, GotoSteps DEF Built, Commands
  <2>3. Collected' = Collected
    <3>1. Collected = {h \in Hosts : Wait(h) \/ h < app.host}
      BY <2>1 DEF Collected
    <3>2. Collected' = {h \in Hosts : Wait(h) \/ h < app.host}
      BY <2>1, <2>2, <1>0 DEF Collected, Hosts, Wait
    <3> QED
      BY <3>1, <3>2
  <2>4. script.kind = "multi" => app.host \in Hosts /\ ~Wait(app.host)
    BY <2>1 DEF AppInv, ReapInv
  <2> QED
    BY <2>1, <2>2, <2>3, <2>4, <1>0, <1>k, <1>s DEF Commands
<1>4. CASE AllCollected
  <2>1. /\ net.phase = "interrupt" /\ app.host > Len(script.hosts)
        /\ net' = [phase |-> "stop", at |-> 1, polls |-> 0]
        /\ app' = app /\ signal' = signal
    BY <1>4 DEF AllCollected, NoHostLeft, At, appVars
  <2>2. net' \in Places(script) /\ net'.phase = "stop"
    BY <2>1, <1>s, Bounds DEF Places, Built
  <2>3. PlaceStep
    BY <2>1, <2>2 DEF PlaceStep, Built, Commands
  <2>4. Collected' = Collected
    <3>1. Collected = {h \in Hosts : Wait(h) \/ h < app.host}
      BY <2>1 DEF Collected
    <3>2. Collected' = Hosts
      BY <2>2, <1>0 DEF Collected, Hosts
    <3>3. \A h \in Hosts : h < app.host
      BY <2>1, <1>s DEF Hosts
    <3> QED
      BY <3>1, <3>2, <3>3
  <2> QED
    BY <2>1, <2>2, <2>3, <2>4, <1>0, <1>k, <1>s DEF Commands
<1> QED
  BY <1>0, <1>1, <1>2, <1>3, <1>4

LEMMA KillKeeps ==
    ASSUME NetInv, AppInv, script.kind # "exercise", KillScript
    PROVE  NetInv' /\ AppInv' /\ script' = script /\ switches' = switches
<1>0. /\ app.stage = "script" /\ net.phase \notin {"finished", "failed", "killed"}
      /\ Goto("killed") /\ faults' = faults + 1 /\ faults < MaxFaults
      /\ script' = script /\ counters' = counters /\ switches' = switches
      /\ process' = process /\ owner' = owner
      /\ UNCHANGED <<app, status, command, signal, return_codes>>
  BY DEF KillScript, Stage, appVars
<1>1. PlaceStep /\ net'.phase = "killed"
  BY <1>0, GotoSteps DEF Over
<1>2. NetInv'
  <2>1. PlaceInv'
    BY <1>0, <1>1 DEF NetInv, PlaceInv, PlaceStep, Before, Built, Starting, Commands, Over
  <2>2. ObjectInv'
    BY <1>0 DEF NetInv, ObjectInv, OneClass
  <2>3. faults' \in 0 .. MaxFaults /\ faults' # 0
    BY <1>0, Bounds DEF NetInv, PlaceInv, ProcessInv
  <2>4. ProcessInv'
    BY <1>0, <2>3 DEF NetInv, ProcessInv, PortsOf
  <2> QED
    BY <2>1, <2>2, <2>4 DEF NetInv
<1>3. AppTyped'
  BY <1>0 DEF AppInv, AppTyped
<1>4. StageInv' /\ VerdictInv'
  BY <1>0, <1>1 DEF AppInv, StageInv, VerdictInv, ExitReportsFailure, Stage, Preparing
<1>5. ReapInv'
  BY <1>0, <1>1, QuietReaping DEF Over
<1> QED
  BY <1>0, <1>2, <1>3, <1>4, <1>5 DEF AppInv

\* A command that ends was running, so its code had not been taken.
LEMMA CommandEndsKeeps ==
    ASSUME NetInv, AppInv, script.kind # "exercise", NEW h \in CommandIds, CommandEnds(h)
    PROVE  NetInv' /\ AppInv' /\ script' = script /\ switches' = switches
<1>0. /\ command[h].state = "running"
      /\ app' = app /\ status' = status /\ signal' = signal /\ return_codes' = return_codes
      /\ script' = script /\ net' = net /\ counters' = counters /\ switches' = switches
      /\ process' = process /\ owner' = owner /\ faults' = faults
  BY DEF CommandEnds, netVars
<1>1. PICK code \in EndsWith(script.hosts[h].acts, signal[h]) :
          command' = [command EXCEPT ![h] = [state |-> "ended", code |-> code]]
  BY DEF CommandEnds
<1>2. code \in 0 .. 255
  <2>1. h \in Hosts /\ script \in Scripts
    BY <1>0 DEF AppInv, StageInv, Hosts, NetInv, PlaceInv
  <2>2. script.hosts[h].acts \in {"ok", "fails", "server", "stubborn", "immune"}
    BY <2>1, HostsTyped
  <2>3. code \in {0, 1, 130, 143}
    BY <2>2 DEF EndsWith
  <2> QED
    BY <2>3
<1>3. /\ command' \in [CommandIds -> Command]
      /\ \A g \in CommandIds : g # h => command'[g] = command[g]
      /\ \A g \in CommandIds : command'[g].state # "none" => command[g].state # "none"
  <2>1. command \in [CommandIds -> Command] /\ [state |-> "ended", code |-> code] \in Command
    BY <1>2 DEF AppInv, AppTyped, Command
  <2> QED
    BY <2>1, <1>0, <1>1
<1>4. NetInv'
  BY <1>0 DEF NetInv, PlaceInv, ObjectInv, ProcessInv, OneClass, PortsOf
<1>5. AppTyped'
  BY <1>0, <1>3 DEF AppInv, AppTyped
<1>6. StageInv' /\ VerdictInv'
  BY <1>0, <1>3 DEF AppInv, StageInv, VerdictInv, ExitReportsFailure, Stage
<1>7. ReapInv'
  <2> SUFFICES ASSUME script.kind = "multi" PROVE ReapInv'
    BY <1>0 DEF ReapInv
  <2>1. Collected' = Collected /\ Hosts' = Hosts
    BY <1>0 DEF Collected, Hosts, Wait
  <2>2. CASE net.phase \in Over
    BY <2>2, <1>0, <2>1 DEF ReapInv, AppInv, Over, Commands
  <2>3. CASE net.phase \notin Over
    <3>1. h \notin Collected
      BY <2>3, <1>0 DEF AppInv, ReapInv
    <3>2. Collected \subseteq CommandIds
      <4>1. script \in Scripts
        BY DEF NetInv, PlaceInv
      <4> QED
        BY <4>1, HostsTyped DEF Collected
    <3>3. /\ Len(return_codes') = Cardinality(Collected')
          /\ \A g \in Collected' :
               /\ command'[g].state = "ended"
               /\ \E i \in DOMAIN return_codes' : return_codes'[i] = command'[g].code
      BY <3>1, <3>2, <2>1, <2>3, <1>0, <1>3, SameCollected
    <3>4. Wait(app.host)' <=> Wait(app.host)
      BY <1>0 DEF Wait
    <3> QED
      BY <3>3, <3>4, <2>1, <1>0 DEF ReapInv, AppInv
  <2> QED
    BY <2>2, <2>3
<1> QED
  BY <1>0, <1>4, <1>5, <1>6, <1>7 DEF AppInv

LEMMA AppKeeps ==
    ASSUME NetInv, AppInv, script.kind # "exercise", AppNext
    PROVE  /\ NetInv' /\ AppInv' /\ script' = script
           /\ 1 .. Len(switches) \subseteq 1 .. Len(switches')
<1>1. CASE \/ ReadManifest \/ PrepareCompile \/ Compile \/ FinishCompile
           \/ RunExternal \/ ScriptEnded
  <2>1. switches' = switches
    BY <1>1 DEF ReadManifest, PrepareCompile, Compile, FinishCompile, RunExternal,
                ScriptEnded, netVars
  <2> QED
    BY <1>1, <2>1, RunnerKeeps
<1>2. CASE RunBackend
  BY <1>2, BackendKeeps
<1>3. CASE NetMain /\ UNCHANGED appVars
  BY <1>3, NetMainInApp
<1>4. CASE ConfigureSingle \/ ControllerRoute \/ ControllerDone \/ LeaveCLI
  BY <1>4, SetUpKeeps
<1>5. CASE MultiMain
  <2>1. CASE LaunchCommand
    BY <2>1, LaunchKeeps
  <2>2. CASE WaitForExit("wait", "launch") \/ WaitForExit("collect", "interrupt")
    BY <2>2, WaitKeeps
  <2>3. CASE \/ AllLaunched \/ InterruptCommand \/ ProbeCommand \/ TerminateCommand
             \/ AllCollected
    BY <2>3, SignalKeeps
  <2> QED
    BY <1>5, <2>1, <2>2, <2>3 DEF MultiMain
<1>6. CASE KillScript
  BY <1>6, KillKeeps
<1>7. CASE \E h \in CommandIds : CommandEnds(h)
  BY <1>7, CommandEndsKeeps
<1>8. CASE ((\E i \in Ids : Bind(i)) \/ Faults) /\ UNCHANGED appVars
  <2>1. /\ NetInv' /\ script' = script /\ net' = net /\ switches' = switches
        /\ UNCHANGED <<app, status, command, signal, return_codes>>
    BY <1>8, ProcessKeeps DEF appVars
  <2>2. AppTyped' /\ StageInv' /\ VerdictInv'
    BY <2>1 DEF AppInv, AppTyped, StageInv, VerdictInv, ExitReportsFailure, Stage
  <2>3. ReapInv'
    BY <2>1, RunnerKeepsReaping
  <2> QED
    BY <2>1, <2>2, <2>3 DEF AppInv
<1> QED
  BY <1>1, <1>2, <1>3, <1>4, <1>5, <1>6, <1>7, <1>8 DEF AppNext, AppMain

-----------------------------------------------------------------------------
(* The theorems *)

LEMMA StepKeeps ==
    ASSUME Inv, [Next]_vars
    PROVE  Inv'
<1>i. NetInv /\ LoadInv /\ AppInv
  BY DEF Inv, AppInv
<1>1. CASE script.kind = "exercise" /\ ExerciseNext /\ UNCHANGED appVars
  <2>1. NetInv' /\ LoadInv' /\ script' = script
    BY <1>1, <1>i, ExerciseKeeps
  <2>2. UNCHANGED <<app, status, command, signal, return_codes>>
    BY <1>1 DEF appVars
  <2>3. app.stage = "none"
    BY <1>1, <1>i DEF AppInv, StageInv
  <2>4. AppTyped' /\ StageInv' /\ VerdictInv' /\ ReapInv'
    BY <1>1, <1>i, <2>1, <2>2, <2>3
       DEF AppInv, AppTyped, StageInv, VerdictInv, ReapInv, ExitReportsFailure, Stage, Preparing
  <2> QED
    BY <2>1, <2>4 DEF Inv
<1>2. CASE script.kind # "exercise" /\ AppNext /\ UNCHANGED exerciseVars
  <2>1. /\ NetInv' /\ AppInv' /\ script' = script
        /\ 1 .. Len(switches) \subseteq 1 .. Len(switches')
    BY <1>2, <1>i, AppKeeps
  <2>2. LoadInv'
    BY <1>2, <1>i, <2>1 DEF LoadInv, exerciseVars, CommandsReachTheirSwitch, OneClass
  <2> QED
    BY <2>1, <2>2 DEF Inv, AppInv
<1>3. CASE UNCHANGED vars
  <2>1. UNCHANGED <<script, net, counters, switches, process, owner, faults, loader,
                    programmed, app, status, command, signal, return_codes>>
    BY <1>3 DEF vars, netVars, exerciseVars, appVars
  <2>2. NetInv'
    BY <2>1, <1>i DEF NetInv, PlaceInv, ObjectInv, ProcessInv, OneClass, PortsOf
  <2>3. LoadInv'
    BY <2>1, <1>i DEF LoadInv, CommandsReachTheirSwitch, OneClass
  <2>4. AppTyped' /\ StageInv' /\ VerdictInv'
    BY <2>1, <1>i DEF AppInv, AppTyped, StageInv, VerdictInv, ExitReportsFailure, Stage
  <2>5. ReapInv'
    BY <2>1, <1>i, RunnerKeepsReaping
  <2> QED
    BY <2>2, <2>3, <2>4, <2>5 DEF Inv
<1> QED
  BY <1>1, <1>2, <1>3 DEF Next

LEMMA SpecInv == Spec => []Inv
<1>1. Inv /\ [Next]_vars => Inv'
  BY StepKeeps
<1> QED
  BY <1>1, Starts, PTL DEF Spec

\* Scripts, networks, processes, commands and codes keep their types.
THEOREM TypeCorrect == Spec => []TypeOK
<1>1. Inv => TypeOK
  <2> SUFFICES ASSUME Inv PROVE TypeOK
    OBVIOUS
  <2>1. /\ script \in Scripts /\ net \in Places(script)
        /\ counters \in [thrift : [0 .. MaxSwitches -> Nat], grpc : Nat, device : Nat]
    BY DEF Inv, NetInv, PlaceInv, ObjectInv
  <2>2. /\ net.phase \in Phases /\ net.at \in 1 .. Len(script.switches)
        /\ net.polls \in 0 .. MaxPolls - 1
    <3>1. net.phase \in Before \cup Built \cup Over
      BY <2>1 DEF Places
    <3>2. net.phase \in Phases
      BY <3>1 DEF Phases, Before, Built, Over, Starting, Commands
    <3> QED
      BY <2>1, <3>2 DEF Places
  <2>3. NetTypeOK
    BY <2>1, <2>2 DEF Inv, NetInv, ObjectInv, ProcessInv, NetTypeOK, Objects
  <2>4. ExerciseTypeOK
    BY DEF Inv, LoadInv, ExerciseTypeOK
  <2>5. AppTypeOK
    BY DEF Inv, AppTyped, AppTypeOK, AppStates, Preparing, Command
  <2> QED
    BY <2>3, <2>4, <2>5 DEF TypeOK
<1> QED
  BY <1>1, SpecInv, PTL

\* On the gRPC port of a started switch listens that switch or nobody, or else a
\* stranger that came after the constructor's look: no other switch of the network,
\* whatever crashes, hangs or is taken.
THEOREM GrpcPortAlwaysOwn == Spec => []GrpcPortIsOwn
<1>1. Inv => GrpcPortIsOwn
  <2> SUFFICES ASSUME Inv, script.grpc, NEW i \in DOMAIN switches
               PROVE  owner[switches[i].grpc_port] \in
                          {i, Free} \cup (IF faults = 0 THEN {} ELSE {Other})
    BY DEF GrpcPortIsOwn
  <2>1. i \in 1 .. Len(switches) /\ Len(switches) \in Nat /\ switches[i] \in Objects
    BY DEF Inv, NetInv, ObjectInv
  <2>2. switches[i].grpc_port = FirstGrpcPort + i - 1
    BY <2>1 DEF Inv, NetInv, ObjectInv
  <2>3. switches[i].grpc_port \in Ports
    BY <2>1, <2>2 DEF Objects, FirstGrpcPort
  <2>4. /\ owner[switches[i].grpc_port] \in Ids \cup {Free, Other}
        /\ faults = 0 => owner[switches[i].grpc_port] # Other
    BY <2>1, <2>3 DEF Inv, NetInv, ProcessInv
  <2>5. OneClass /\ NetInv
    BY DEF OneClass, Inv
  <2>6. PICK p \in Ports : p = switches[i].grpc_port
    BY <2>3
  <2>7. owner[p] \in Ids => owner[p] = i
    BY <2>1, <2>5, <2>6, OwnerOfPort
  <2> QED
    BY <2>4, <2>6, <2>7
<1> QED
  BY <1>1, SpecInv, PTL

\* Entries and commands never end in another switch of the network when all
\* switches share their counters of ports, whoever starts, dies or is late.
THEOREM CommandsAlwaysArrive == Spec => []CommandsReachTheirSwitch
<1>1. Inv => CommandsReachTheirSwitch
  BY DEF Inv, LoadInv
<1> QED
  BY <1>1, SpecInv, PTL

\* No two switches of a network have a device id or a gRPC port in common.
THEOREM IdentitiesAlwaysUnique == Spec => []IdentitiesUnique
<1>1. Inv => IdentitiesUnique
  <2> SUFFICES ASSUME Inv, NEW i \in DOMAIN switches, NEW j \in DOMAIN switches, i # j
               PROVE  /\ switches[i].device_id # switches[j].device_id
                      /\ switches[i].grpc_port # 0 =>
                           switches[i].grpc_port # switches[j].grpc_port
    BY DEF IdentitiesUnique
  <2>1. i \in 1 .. Len(switches) /\ j \in 1 .. Len(switches) /\ Len(switches) \in Nat
        /\ switches[i] \in Objects /\ switches[j] \in Objects
    BY DEF Inv, NetInv, ObjectInv
  <2>2. switches[i].device_id # switches[j].device_id
    <3>1. switches[i].device_id \in Nat /\ switches[j].device_id \in Nat
      BY <2>1 DEF Objects
    <3>2. CASE i < j
      BY <3>1, <3>2, <2>1 DEF Inv, NetInv, ObjectInv
    <3>3. CASE j < i
      BY <3>1, <3>3, <2>1 DEF Inv, NetInv, ObjectInv
    <3> QED
      BY <3>2, <3>3, <2>1
  <2>3. /\ switches[i].grpc_port = IF script.grpc THEN FirstGrpcPort + i - 1 ELSE 0
        /\ switches[j].grpc_port = IF script.grpc THEN FirstGrpcPort + j - 1 ELSE 0
    BY <2>1 DEF Inv, NetInv, ObjectInv
  <2> QED
    BY <2>1, <2>2, <2>3 DEF FirstGrpcPort
<1> QED
  BY <1>1, SpecInv, PTL

\* p4apprunner's exit code of 0: compiled, and every command and the backend ended
\* well, unless a signal hid it.
THEOREM ExitCodesAlwaysTell == Spec => []ExitReportsFailure
<1>1. Inv => ExitReportsFailure
  BY DEF Inv, VerdictInv
<1> QED
  BY <1>1, SpecInv, PTL

\* When the network is stopped every host's command has ended and its code has
\* been taken exactly once.
THEOREM CommandsAlwaysReaped == Spec => []CommandsReaped
<1>1. Inv => CommandsReaped
  <2> SUFFICES ASSUME Inv, script.kind = "multi", net.phase \in {"stop", "finished"}
               PROVE  /\ \A h \in 1 .. Len(script.hosts) : command[h].state = "ended"
                      /\ Len(return_codes) = Len(script.hosts)
                      /\ \A h \in 1 .. Len(script.hosts) :
                           \E i \in DOMAIN return_codes : return_codes[i] = command[h].code
    BY DEF CommandsReaped
  <2>1. Collected = 1 .. Len(script.hosts) /\ net.phase \notin Over
    BY DEF Collected, Hosts, Over
  <2>2. script \in Scripts /\ Len(script.hosts) \in Nat
    BY HostsTyped DEF Inv, NetInv, PlaceInv
  <2>3. Cardinality(1 .. Len(script.hosts)) = Len(script.hosts)
    BY <2>2, FS_Interval
  <2> QED
    BY <2>1, <2>3 DEF Inv, ReapInv
<1> QED
  BY <1>1, SpecInv, PTL

-----------------------------------------------------------------------------
(* The hosts' routes *)

\* Each was added for a pair of hosts and a path between them, and the CLI opens when
\* no pair is left.
RoutesInv ==
    script.kind = "multi" =>
        /\ \A r \in routes : \E h, h2 \in HostsOf(script.links) :
              h # h2 /\ \E path \in ShortestPaths(script.links, h, h2) :
                            r = Route(script.links, h, h2, path)
        /\ (At("cli") /\ script.auto) => PairsLeft = {}

\* Nothing else adds a route or opens the CLI.
LEMMA RoutesAndCLI ==
    ASSUME NetInv, AppNext, script.kind = "multi"
    PROVE  \/ ControllerRoute \/ ControllerDone
           \/ routes' = routes /\ (net'.phase = "cli" => net.phase = "cli")
<1>1. CASE \/ ReadManifest \/ PrepareCompile \/ Compile \/ FinishCompile
           \/ RunExternal \/ ScriptEnded
  BY <1>1 DEF ReadManifest, PrepareCompile, Compile, FinishCompile, RunExternal,
              ScriptEnded, netVars
<1>2. CASE RunBackend
  <2>1. routes' = routes /\ (net' = net \/ net' = [net EXCEPT !.phase = "construct"])
    BY <1>2 DEF RunBackend, RunScript, Goto
  <2>2. script \in Scripts /\ net \in Places(script)
    BY DEF NetInv, PlaceInv
  <2> QED
    BY <2>1, <2>2 DEF Places
<1>3. CASE NetMain /\ UNCHANGED appVars
  <2>1. NetPhases
    BY <1>3, NetMainKeeps
  <2> QED
    BY <1>3, <2>1 DEF NetPhases, Starting, appVars
<1>4. CASE ConfigureSingle
  BY <1>4 DEF ConfigureSingle
<1>5. CASE LeaveCLI
  <2>1. routes' = routes /\ net'.phase \in {"stop", "launch"}
    BY <1>5 DEF LeaveCLI, appVars
  <2> QED
    BY <2>1
<1>6. CASE MultiMain
  <2>1. script \in Scripts /\ net \in Places(script)
    BY DEF NetInv, PlaceInv
  <2>2. ASSUME NEW phase, phase # "cli", Goto(phase) PROVE net'.phase # "cli"
    BY <2>1, <2>2 DEF Goto, Places
  <2>3. CASE LaunchCommand
    BY <2>3, <2>2 DEF LaunchCommand
  <2>4. CASE WaitForExit("wait", "launch")
    BY <2>4, <2>2 DEF WaitForExit
  <2>5. CASE WaitForExit("collect", "interrupt")
    BY <2>5, <2>2 DEF WaitForExit
  <2>6. CASE AllLaunched
    BY <2>6, <2>2 DEF AllLaunched
  <2>7. CASE InterruptCommand
    BY <2>7, <2>2 DEF InterruptCommand
  <2>8. CASE ProbeCommand
    BY <2>8, <2>2 DEF ProbeCommand, appVars
  <2>9. CASE TerminateCommand
    BY <2>9, <2>2 DEF TerminateCommand
  <2>10. CASE AllCollected
    <3>1. routes' = routes /\ net'.phase = "stop"
      BY <2>10 DEF AllCollected, appVars
    <3> QED
      BY <3>1
  <2> QED
    BY <1>6, <2>3, <2>4, <2>5, <2>6, <2>7, <2>8, <2>9, <2>10 DEF MultiMain
<1>7. CASE KillScript
  <2>1. script \in Scripts /\ net \in Places(script)
    BY DEF NetInv, PlaceInv
  <2>2. routes' = routes /\ net' = [net EXCEPT !.phase = "killed"]
    BY <1>7 DEF KillScript, Goto, appVars
  <2> QED
    BY <2>1, <2>2 DEF Places
<1>8. CASE \E h \in CommandIds : CommandEnds(h)
  BY <1>8 DEF CommandEnds, netVars
<1>9. CASE ((\E i \in Ids : Bind(i)) \/ Faults) /\ UNCHANGED appVars
  <2>1. net' = net /\ routes' = routes
    BY <1>9, ProcessKeeps DEF appVars
  <2> QED
    BY <2>1
<1> QED
  BY <1>1, <1>2, <1>3, <1>4, <1>5, <1>6, <1>7, <1>8, <1>9 DEF AppNext, AppMain

LEMMA RoutesKeep ==
    ASSUME Inv, RoutesInv, [Next]_vars
    PROVE  RoutesInv'
<1>i. NetInv /\ LoadInv /\ AppInv
  BY DEF Inv, AppInv
<1>1. CASE script.kind = "exercise" /\ ExerciseNext /\ UNCHANGED appVars
  <2>1. script' = script
    BY <1>1, <1>i, ExerciseKeeps
  <2> QED
    BY <1>1, <2>1 DEF RoutesInv
<1>2. CASE UNCHANGED vars
  <2>1. UNCHANGED <<script, net, routes>>
    BY <1>2 DEF vars, netVars, appVars
  <2> QED
    BY <2>1 DEF RoutesInv, PairsLeft, At
<1>3. CASE script.kind # "exercise" /\ AppNext /\ UNCHANGED exerciseVars
  <2> SUFFICES ASSUME script'.kind = "multi" PROVE RoutesInv'
    BY DEF RoutesInv
  <2>1. script' = script
    BY <1>3, <1>i, AppKeeps
  <2> DEFINE links == script.links
             Led(r) == \E h, h2 \in HostsOf(links) : h # h2 /\
                          \E path \in ShortestPaths(links, h, h2) : r = Route(links, h, h2, path)
  <2>2. /\ script.kind = "multi" /\ links' = links
        /\ \A r \in routes : Led(r)
        /\ (At("cli") /\ script.auto) => PairsLeft = {}
    BY <2>1 DEF RoutesInv
  <2>3. CASE ControllerRoute
    <3>1. /\ PairsLeft # {} /\ net.phase = "up" /\ net' = net
          /\ LET pair == CHOOSE p \in PairsLeft : TRUE IN
             \E path \in ShortestPaths(links, pair[1], pair[2]) :
                routes' = routes \cup {Route(links, pair[1], pair[2], path)}
      BY <2>3 DEF ControllerRoute, At, netVars
    <3>2. PICK pair \in PairsLeft :
             \E path \in ShortestPaths(links, pair[1], pair[2]) :
                routes' = routes \cup {Route(links, pair[1], pair[2], path)}
      BY <3>1
    <3>3. pair[1] \in HostsOf(links) /\ pair[2] \in HostsOf(links) /\ pair[1] # pair[2]
      BY DEF PairsLeft, HostPairs
    <3>4. \A r \in routes' : Led(r)
      <4> HIDE DEF links
      <4> QED
        BY <2>2, <3>2, <3>3
    <3>5. net'.phase # "cli"
      BY <3>1
    <3> QED
      BY <2>1, <3>4, <3>5 DEF RoutesInv, At
  <2>4. CASE ControllerDone
    <3>1. routes' = routes /\ (script.auto => PairsLeft = {})
      BY <2>4 DEF ControllerDone, appVars
    <3>2. PairsLeft' = PairsLeft
      BY <2>1, <3>1 DEF PairsLeft
    <3> QED
      BY <2>1, <2>2, <3>1, <3>2 DEF RoutesInv
  <2>5. CASE routes' = routes /\ (net'.phase = "cli" => net.phase = "cli")
    <3>1. PairsLeft' = PairsLeft
      BY <2>1, <2>5 DEF PairsLeft
    <3> QED
      BY <2>1, <2>2, <2>5, <3>1 DEF RoutesInv, At
  <2> QED
    BY <1>3, <1>i, <2>2, <2>3, <2>4, <2>5, RoutesAndCLI
<1> QED
  BY <1>1, <1>2, <1>3 DEF Next

\* A route that was added for a path leads along it.
LEMMA RouteLeads ==
    ASSUME NEW links \in Seq(Link), NEW h \in HostsOf(links), NEW h2 \in HostsOf(links),
           h # h2, NEW path \in ShortestPaths(links, h, h2),
           NEW r, r = Route(links, h, h2, path)
    PROVE  /\ r.host = h /\ r.dest = h2
           /\ Joined(links, <<"s", r.via[1]>>, h2)
           /\ Hops(links, h, h2) = Hops(links, <<"s", r.via[1]>>, h2) + 1
           /\ r.to \in Addresses(links, h2)
           /\ Cardinality(Neighbors(links, h2)) = 1 => r.to = Address(links, h2)
<1>1. h \in Nodes(links) /\ h2 \in Nodes(links) /\ IsHost(h) /\ IsHost(h2)
  BY DEF HostsOf
<1>2. /\ path[2] \in Neighbors(links, h) /\ Joined(links, path[2], h2)
      /\ Hops(links, h, h2) = Hops(links, path[2], h2) + 1
  BY <1>1, PathsLead
<1>3. /\ r.host = h /\ r.dest = h2 /\ r.via = <<path[2][2], 254>>
      /\ r.to = <<FirstSwitch(links, h2)[2], h2[2]>>
  BY DEF Route, HostLink
<1>4. path[2] = <<"s", r.via[1]>>
  <2>1. path[2] \in Nodes(links) /\ ~IsHost(path[2])
    BY <1>1, <1>2, NeighborsAreNodes
  <2>2. path[2] \in Node
    BY <2>1, NodesFinite
  <2> QED
    BY <1>3, <2>1, <2>2 DEF Node, IsHost
<1>5. ASSUME Cardinality(Neighbors(links, h2)) = 1 PROVE r.to = Address(links, h2)
  <2>1. IsFiniteSet(Neighbors(links, h2))
    BY NodesFinite, NeighborsAreNodes, FS_Subset
  <2>2. PICK sw : Neighbors(links, h2) = {sw}
    BY <1>5, <2>1, FS_Singleton
  <2>3. FirstSwitch(links, h2) = LastSwitch(links, h2)
    BY <2>2, OneSwitch
  <2> QED
    BY <1>3, <2>3 DEF Address, HostLink
<1>6. r.to \in Addresses(links, h2)
  BY <1>1, <1>3, FirstSwitchExists DEF Addresses, HostLink
<1> QED
  BY <1>2, <1>3, <1>4, <1>5, <1>6

\* Whatever the links are, every route the controller adds leads to its destination
\* on a shortest path and is for the address of one of the destination's links, the
\* one it keeps if it is at one switch only; and when the CLI opens no two connected
\* hosts are without a route.  A host at several switches keeps the address of its
\* last link, while the routes to it are for that of its first.
THEOREM RoutesAlwaysLead == Spec => []RoutesLead
<1>1. Init => RoutesInv
  <2> SUFFICES ASSUME Init PROVE RoutesInv
    OBVIOUS
  <2>1. routes = {}
    BY DEF Init, AppInit, AppIdle
  <2>2. script.kind = "multi" => net.phase = "idle"
    BY DEF Init, AppInit, NetInit, ExerciseInit
  <2> QED
    BY <2>1, <2>2 DEF RoutesInv, At
<1>2. Inv /\ RoutesInv /\ [Next]_vars => RoutesInv'
  BY RoutesKeep
<1>3. Inv /\ RoutesInv => RoutesLead
  <2> SUFFICES ASSUME Inv, RoutesInv, script.kind = "multi" PROVE RoutesLead
    BY DEF RoutesLead
  <2> DEFINE links == script.links
  <2>1. links \in Seq(Link)
    BY LinksAssumption DEF LinksAssumption, Inv, NetInv, PlaceInv
  <2>2. ASSUME NEW r \in routes
        PROVE  /\ Joined(links, <<"s", r.via[1]>>, r.dest)
               /\ Hops(links, r.host, r.dest) = Hops(links, <<"s", r.via[1]>>, r.dest) + 1
               /\ r.to \in Addresses(links, r.dest)
               /\ Cardinality(Neighbors(links, r.dest)) = 1 => r.to = Address(links, r.dest)
    <3>1. PICK h \in HostsOf(links), h2 \in HostsOf(links) :
              h # h2 /\ \E path \in ShortestPaths(links, h, h2) : r = Route(links, h, h2, path)
      BY DEF RoutesInv
    <3>2. PICK path \in ShortestPaths(links, h, h2) : r = Route(links, h, h2, path)
      BY <3>1
    <3> HIDE DEF links
    <3> QED
      BY <2>1, <3>1, <3>2, RouteLeads
  <2>3. ASSUME At("cli"), script.auto, NEW a \in HostsOf(links), NEW b \in HostsOf(links),
               a # b, Joined(links, a, b)
        PROVE  \E r \in routes : r.host = a /\ r.dest = b
    <3>1. ShortestPaths(links, a, b) # {}
      BY <2>1, <2>3, PathsLead DEF HostsOf
    <3>2. <<a, b>> \in HostPairs(links)
      BY <2>3, <3>1 DEF HostPairs
    <3>3. PairsLeft = {}
      BY <2>3 DEF RoutesInv
    <3>4. PICK r \in routes : <<r.host, r.dest>> = <<a, b>>
      BY <3>2, <3>3 DEF PairsLeft
    <3> QED
      BY <3>4
  <2> QED
    BY <2>2, <2>3 DEF RoutesLead
<1> QED
  BY <1>1, <1>2, <1>3, SpecInv, PTL DEF Spec

=============================================================================
