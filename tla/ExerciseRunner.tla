--------------------------- MODULE ExerciseRunner ---------------------------
(***************************************************************************)
(* utils/run_exercise.py: read a topology, build and start its network,      *)
(* configure hosts and switches, run the CLI or the experiment, stop.         *)
(* program_switch, which configures a switch over P4Runtime, is the module    *)
(* P4RuntimeClient; here it is a step that ends like it, or never.            *)
(***************************************************************************)
EXTENDS MininetNet

(* An exercise also has links, whether it is a test, and for each switch     *)
(* `cli' (its cli_input: "none", "ok", or "missing", a file or a loader that  *)
(* cannot be opened or started) and `conf' (its runtime_json: "none", "ok",   *)
(* "missing", "invalid" or "raises", which ends program_switch with an        *)
(* exception).  A link is a pair of nodes [kind, port], kind "h" or "s", port *)
(* 0 if not written sN-pM.                                                    *)

VARIABLES
    loader,      \* simple_switch_CLI of each switch: "none", "running", "done"
    programmed   \* what was written into which switch: <<i, by, the owner of the port>>

exerciseVars == <<loader, programmed>>
exVars == <<netVars, exerciseVars>>

ExerciseIdle == loader = [i \in Ids |-> "none"] /\ programmed = {}

ExerciseInit ==
    /\ NetInit("parse") /\ script.kind = "exercise"
    /\ ExerciseIdle

Sw == script.switches[net.at]

\* parse_links puts the node first that is the first in the alphabet.
Ordered(link) ==
    IF link[1].kind = "s" /\ link[2].kind = "h" THEN <<link[2], link[1]>> ELSE link

\* Its assertion, and parse_switch_node's about each node taken for a switch.
LinkIsValid(link) ==
    LET l == Ordered(link) IN
    /\ l[1].kind = "h" => l[2].kind = "s"
    /\ l[2].port # 0
    /\ l[1].kind = "s" => l[1].port # 0

\* ExerciseRunner.__init__ and ExerciseTopo.__init__
ReadTopology ==
    /\ At("parse")
    /\ IF \E l \in Range(script.links) : ~LinkIsValid(l) THEN Fail ELSE Goto("construct")
    /\ UNCHANGED <<script, counters, switches, process, owner, faults, exerciseVars>>

\* The hosts' commands run before any switch is programmed.
ProgramHosts ==
    /\ At("up")
    /\ net' = [phase |-> "program", at |-> 1, polls |-> 0]
    /\ UNCHANGED <<script, counters, switches, process, owner, faults, exerciseVars>>

\* program_switch_cli starts the loader and does not wait for it.
ProgramSwitchCLI ==
    /\ At("program")
    /\ IF Sw.cli = "missing" THEN Fail ELSE Goto("p4runtime")
    /\ IF Sw.cli = "ok" THEN loader' = [loader EXCEPT ![net.at] = "running"] ELSE UNCHANGED loader
    /\ UNCHANGED <<script, counters, switches, process, owner, faults, programmed>>

\* program_switch_p4runtime: a P4Switch has no grpc_port; a file that is not
\* there raises before anything is sent.  If nobody listens on
\* the switch's port (any more), its arbitration is never answered.
ProgramSwitchP4Runtime ==
    /\ At("p4runtime")
    /\ LET port == switches[net.at].grpc_port IN
       \/ /\ Sw.conf = "none" \/ (script.grpc /\ Sw.conf = "invalid")
          /\ net' = NextSwitch("program", "cli") /\ UNCHANGED programmed
       \/ /\ Sw.conf = "missing" \/ (Sw.conf # "none" /\ ~script.grpc)
          /\ Fail /\ UNCHANGED programmed
       \/ /\ Sw.conf \in {"ok", "raises"} /\ script.grpc /\ owner[port] # Free
          /\ programmed' = programmed \cup {<<net.at, "p4runtime", owner[port]>>}
          /\ IF Sw.conf = "ok" THEN net' = NextSwitch("program", "cli") ELSE Fail
    /\ UNCHANGED <<script, counters, switches, process, owner, faults, loader>>

\* The loader, whenever it gets to it: its commands go to who has the port then.
Load(i) ==
    /\ loader[i] = "running"
    /\ loader' = [loader EXCEPT ![i] = "done"]
    /\ LET to == owner[switches[i].thrift_port] IN
       programmed' = IF to = Free THEN programmed ELSE programmed \cup {<<i, "cli", to>>}
    /\ UNCHANGED netVars

\* do_net_cli: the CLI returns when its user leaves it; run_experiment may raise,
\* and then nothing stops the network.
RunCLI ==
    /\ At("cli")
    /\ \/ net' = [phase |-> "stop", at |-> 1, polls |-> 0]
       \/ script.test /\ Fail
    /\ UNCHANGED <<script, counters, switches, process, owner, faults, exerciseVars>>

ExerciseMain ==
    \/ NetMain /\ UNCHANGED exerciseVars
    \/ ReadTopology \/ ProgramHosts \/ ProgramSwitchCLI \/ ProgramSwitchP4Runtime \/ RunCLI

ExerciseNext ==
    \/ ExerciseMain
    \/ \E i \in Ids : Load(i)
    \/ ((\E i \in Ids : Bind(i)) \/ Faults) /\ UNCHANGED exerciseVars

ExerciseSpec == ExerciseInit /\ [][ExerciseNext]_exVars

-----------------------------------------------------------------------------
(* Properties. *)

ExerciseTypeOK ==
    /\ loader \in [Ids -> {"none", "running", "done"}]
    /\ programmed \subseteq (Ids \X {"cli", "p4runtime"} \X (Ids \cup {Other}))

\* When all switches are of one class, entries and commands for a switch never
\* end in another switch of the network, however late they arrive (the port
\* numbers of configureP4Switch, the loaders nobody waits for).
OneClass ==
    script.grpc \/ \A i \in DOMAIN script.switches : ~script.switches[i].program
CommandsReachTheirSwitch ==
    OneClass => \A w \in programmed : w[3] \in {w[1], Other}

\* Starting a gRPC switch is decided in bounded time, also when its process
\* hangs: the script goes on or exits (SWITCH_START_TIMEOUT).
StartDecided ==
    (script.grpc /\ net.phase \in {"alive", "port"})
        ~> (net.phase \in {"start", "up", "failed"})

=============================================================================
