----------------------------- MODULE MininetNet -----------------------------
(***************************************************************************)
(* Starting and stopping the BMv2 switches of an emulated network: the      *)
(* switch classes of utils/p4runtime_switch.py, utils/p4_mininet.py and      *)
(* utils/mininet/p4_mininet.py and the port numbers their subclasses hand    *)
(* out, with the switch processes, which are external.  All switches share   *)
(* the host's ports.  ExerciseRunner and P4App are the scripts that use it.  *)
(***************************************************************************)
EXTENDS Integers, Sequences, FiniteSets, Functions

CONSTANTS
    Scripts,      \* what may be run
    MaxSwitches,  \* bound: switches of a network
    MaxPolls,     \* SWITCH_START_TIMEOUT * 2
    MaxFaults     \* bound: crashes, hangs and ports taken by others

(* A script is a record with at least [kind, grpc, json, switches, taken]:   *)
(* "exercise" (run_exercise.py), "multi" or "single" (the p4app scripts);     *)
(* whether bmv2_exe names a gRPC target and a compiled program is given; its  *)
(* switches; the ports others listen on already.                              *)

FirstThriftPort == 9090
FirstGrpcPort == 50051
Ids == 1 .. MaxSwitches
Ports == FirstThriftPort .. FirstThriftPort + MaxSwitches - 1
         \cup FirstGrpcPort .. FirstGrpcPort + MaxSwitches - 1

ASSUME ScriptsAssumption ==
    \A s \in Scripts :
        /\ s.kind \in {"exercise", "multi", "single"}
        /\ s.grpc \in BOOLEAN /\ s.json \in BOOLEAN
        /\ Len(s.switches) \in Ids /\ DOMAIN s.switches = 1 .. Len(s.switches)
        /\ \A i \in DOMAIN s.switches : s.switches[i].program \in BOOLEAN
        /\ s.taken \subseteq Ports
        /\ s.grpc => s.kind = "exercise"
        /\ s.kind = "exercise" \/ s.json
ASSUME NetBoundsAssumption ==
    MaxSwitches \in Nat /\ MaxPolls \in Nat \ {0} /\ MaxFaults \in Nat
    /\ FirstThriftPort + MaxSwitches <= FirstGrpcPort

Free == 0
Other == -1

VARIABLES
    script,      \* what is run
    net,         \* where its main thread is: phase, switch, polls of it so far
    counters,    \* next_thrift_port of each class, next_grpc_port, P4Switch.device_id
    switches,    \* the switch objects constructed: [thrift_port, grpc_port, device_id]
    process,     \* their processes: "none", "running", "hung" or "dead"
    owner,       \* who listens on each port: a switch, Other or Free
    faults       \* faults so far

netVars == <<script, net, counters, switches, process, owner, faults>>

Uses(kinds, grpc) == script.kind \in kinds /\ script.grpc = grpc
At(phase) == net.phase = phase
Goto(phase) == net' = [net EXCEPT !.phase = phase]
Fail == Goto("failed")

NetInit(phase) ==
    /\ script \in Scripts
    /\ net = [phase |-> phase, at |-> 1, polls |-> 0]
    /\ counters = [thrift |-> [c \in 0 .. MaxSwitches |-> FirstThriftPort],
                   grpc |-> FirstGrpcPort, device |-> 0]
    /\ switches = <<>>
    /\ process = [i \in Ids |-> "none"]
    /\ owner = [p \in Ports |-> IF p \in script.taken THEN Other ELSE Free]
    /\ faults = 0

\* Mutant: the loop does not end.
NextSwitchForEver(loop, after) ==
    [phase |-> loop, at |-> net.at + 1, polls |-> 0]

\* The next switch of a loop over all of them, or the phase after it.
NextSwitch(loop, after) ==
    IF net.at = Len(script.switches)
    THEN [phase |-> after, at |-> 1, polls |-> 0]
    ELSE [phase |-> loop, at |-> net.at + 1, polls |-> 0]

-----------------------------------------------------------------------------
(* Construction, when Mininet builds the topology. *)

\* Mutant: a counter for each switch.
CounterOfEach(i) == i

\* Which counter thrift_port comes from: with a non-gRPC target, run_exercise's
\* configureP4Switch makes a class with its own for each switch that names its
\* program, and one for all others; else there is one.
CounterOf(i) ==
    IF Uses({"exercise"}, FALSE) /\ script.switches[i].program THEN i ELSE 0

NewSwitch(grpc_port) ==
    [thrift_port |-> counters.thrift[CounterOf(net.at)], grpc_port |-> grpc_port,
     device_id |-> counters.device]

Constructed(switch) ==
    /\ switches' = Append(switches, switch)
    /\ counters' = [thrift |-> [counters.thrift EXCEPT ![CounterOf(net.at)] = @ + 1],
                    grpc |-> counters.grpc + (IF switch.grpc_port = 0 THEN 0 ELSE 1),
                    device |-> counters.device + 1]
    /\ net' = NextSwitch("construct", "start")

\* Mutant: the port is not looked at.
ConstructP4RuntimeSwitchAny ==
    /\ At("construct") /\ Uses({"exercise"}, TRUE)
    /\ Constructed(NewSwitch(counters.grpc))
    /\ UNCHANGED <<script, process, owner, faults>>

\* P4RuntimeSwitch.__init__ exits if its gRPC port is taken; it does not look at
\* its thrift port, and needs no program.
ConstructP4RuntimeSwitch ==
    /\ At("construct") /\ Uses({"exercise"}, TRUE)
    /\ IF owner[counters.grpc] # Free
       THEN Fail /\ UNCHANGED <<counters, switches>>
       ELSE Constructed(NewSwitch(counters.grpc))
    /\ UNCHANGED <<script, process, owner, faults>>

\* P4Switch.__init__ of run_exercise.py asserts a program; its error message for
\* a port that is taken raises itself.
ConstructP4Switch ==
    /\ At("construct") /\ Uses({"exercise"}, FALSE)
    /\ IF \/ ~script.json /\ ~script.switches[net.at].program
          \/ owner[NewSwitch(0).thrift_port] # Free
       THEN Fail /\ UNCHANGED <<counters, switches>>
       ELSE Constructed(NewSwitch(0))
    /\ UNCHANGED <<script, process, owner, faults>>

\* That of the p4app scripts checks no port.
ConstructAppSwitch ==
    /\ At("construct") /\ Uses({"multi", "single"}, FALSE)
    /\ Constructed(NewSwitch(0))
    /\ UNCHANGED <<script, process, owner, faults>>

-----------------------------------------------------------------------------
(* start: launch the process and wait for its server. *)

\* The class's device_id moves on a second time here.
Launch ==
    /\ At("start")
    /\ process' = [process EXCEPT ![net.at] = "running"]
    /\ counters' = [counters EXCEPT !.device = @ + 1]
    /\ net' = [net EXCEPT !.phase = "alive", !.polls = 0]
    /\ UNCHANGED <<script, switches, owner, faults>>

StartP4RuntimeSwitch == Uses({"exercise"}, TRUE) /\ Launch
StartP4Switch == Uses({"exercise"}, FALSE) /\ Launch
StartAppSwitch == Uses({"multi", "single"}, FALSE) /\ Launch

\* check_switch_started looks for the process first ...
CheckAlive ==
    /\ At("alive")
    /\ IF process[net.at] = "dead" THEN Fail ELSE Goto("port")
    /\ UNCHANGED <<script, counters, switches, process, owner, faults>>

\* ... and then whether anyone listens on the port.
CheckListening(port, again) ==
    /\ At("port")
    /\ IF owner[port] # Free THEN net' = NextSwitch("start", "up") ELSE again
    /\ UNCHANGED <<script, counters, switches, process, owner, faults>>

\* Mutant: polling without end.
CheckP4RuntimeSwitchForEver ==
    /\ Uses({"exercise"}, TRUE)
    /\ CheckAlive \/ CheckListening(switches[net.at].grpc_port, Goto("alive"))

CheckP4RuntimeSwitch ==
    /\ Uses({"exercise"}, TRUE)
    /\ \/ CheckAlive
       \/ CheckListening(switches[net.at].grpc_port,
                         IF net.polls + 1 = MaxPolls THEN Fail
                         ELSE net' = [net EXCEPT !.phase = "alive", !.polls = @ + 1])

\* P4Switch's loop has no end of its own.
CheckP4Switch ==
    /\ Uses({"exercise"}, FALSE)
    /\ CheckAlive \/ CheckListening(switches[net.at].thrift_port, Goto("alive"))

CheckAppSwitch ==
    /\ Uses({"multi", "single"}, FALSE)
    /\ CheckAlive \/ CheckListening(switches[net.at].thrift_port, Goto("alive"))

-----------------------------------------------------------------------------
(* The switch processes. *)

PortsOf(i) == {switches[i].thrift_port} \cup ({switches[i].grpc_port} \ {0})

Dies(i) ==
    /\ process' = [process EXCEPT ![i] = "dead"]
    /\ owner' = [p \in Ports |-> IF owner[p] = i THEN Free ELSE owner[p]]

\* A process opens its ports one by one and ends if one is taken.
Bind(i) ==
    /\ process[i] = "running"
    /\ \E p \in PortsOf(i) :
         /\ owner[p] # i
         /\ IF owner[p] = Free
            THEN owner' = [owner EXCEPT ![p] = i] /\ UNCHANGED process
            ELSE Dies(i)
    /\ UNCHANGED <<script, net, counters, switches, faults>>

Crash(i) ==
    /\ process[i] \in {"running", "hung"} /\ faults < MaxFaults
    /\ Dies(i)
    /\ faults' = faults + 1
    /\ UNCHANGED <<script, net, counters, switches>>

\* It neither opens another port nor ends.
Hang(i) ==
    /\ process[i] = "running" /\ faults < MaxFaults
    /\ process' = [process EXCEPT ![i] = "hung"]
    /\ faults' = faults + 1
    /\ UNCHANGED <<script, net, counters, switches, owner>>

OtherBinds(p) ==
    /\ owner[p] = Free /\ faults < MaxFaults
    /\ owner' = [owner EXCEPT ![p] = Other]
    /\ faults' = faults + 1
    /\ UNCHANGED <<script, net, counters, switches, process>>

Faults == \/ \E i \in Ids : Crash(i) \/ Hang(i)
          \/ \E p \in Ports : OtherBinds(p)

-----------------------------------------------------------------------------
\* net.stop: P4Switch.stop kills the process and waits for it.
StopSwitch ==
    /\ At("stop")
    /\ Dies(net.at)
    /\ net' = NextSwitch("stop", "finished")
    /\ UNCHANGED <<script, counters, switches, faults>>

NetMain ==
    \/ ConstructP4RuntimeSwitch \/ ConstructP4Switch \/ ConstructAppSwitch
    \/ StartP4RuntimeSwitch \/ StartP4Switch \/ StartAppSwitch
    \/ CheckP4RuntimeSwitch \/ CheckP4Switch \/ CheckAppSwitch
    \/ StopSwitch

-----------------------------------------------------------------------------
(* Properties of the network, whichever script runs it. *)

Phases ==
    {"parse", "idle", "construct", "start", "alive", "port", "up", "program", "p4runtime",
     "cli", "launch", "wait", "interrupt", "probe", "terminate", "collect", "stop",
     "finished", "failed", "killed"}

NetTypeOK ==
    /\ script \in Scripts
    /\ net.phase \in Phases /\ net.at \in 1 .. Len(script.switches)
    /\ net.polls \in 0 .. MaxPolls - 1
    /\ counters.thrift \in [0 .. MaxSwitches -> Nat]
    /\ counters.grpc \in Nat /\ counters.device \in Nat
    /\ switches \in Seq([thrift_port : Ports, grpc_port : Ports \cup {0}, device_id : Nat])
    /\ Len(switches) <= Len(script.switches)
    /\ process \in [Ids -> {"none", "running", "hung", "dead"}]
    /\ owner \in [Ports -> Ids \cup {Free, Other}]
    /\ faults \in 0 .. MaxFaults

\* No two switches of a network have a device id or a gRPC port in common
\* (counters shared by all classes, incremented in __init__ and in start).
IdentitiesUnique ==
    \A i, j \in DOMAIN switches : i # j =>
        /\ switches[i].device_id # switches[j].device_id
        /\ switches[i].grpc_port # 0 => switches[i].grpc_port # switches[j].grpc_port

\* "The purpose is to ensure each switch's thrift server is using a unique port"
\* (configureP4Switch, run_exercise.py:29-31).
ThriftPortsUnique ==
    \A i, j \in DOMAIN switches :
        i # j => switches[i].thrift_port # switches[j].thrift_port

\* On the gRPC port of a switch that start() took for started listens the switch
\* itself or, when it is gone, nobody: never another switch, whatever failed, and
\* never what listened there before the network was built (the check in
\* P4RuntimeSwitch.__init__).  A stranger that comes between that check and the
\* process's own bind is a fault, which the code does not notice.
Started(i) ==
    process[i] # "none" /\ ~(net.at = i /\ net.phase \in {"start", "alive", "port"})
GrpcPortIsOwn ==
    script.grpc =>
        \A i \in DOMAIN switches :
            Started(i) => owner[switches[i].grpc_port] \in
                              {i, Free} \cup (IF faults = 0 THEN {} ELSE {Other})

=============================================================================
