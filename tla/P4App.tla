------------------------------- MODULE P4App -------------------------------
(***************************************************************************)
(* utils/p4apprunner.py and the scripts it runs: compile the program of a    *)
(* package, run its target's backend, return an exit code.  The backends are  *)
(* utils/mininet/multi_switch_mininet.py, single_switch_mininet.py (their     *)
(* network is MininetNet) and two external programs.                          *)
(***************************************************************************)
EXTENDS MininetNet, AppTopology

CONSTANT MaxHosts   \* bound: hosts with commands

(* A p4app script also has its manifest and what its commands are like:       *)
(*   manifest: [complete, found, language, before, flags, after, backend, key] *)
(*     with before, flags, after in {"none", "list", "bad"}, key whether the    *)
(*     backend finds the entry it needs;                                       *)
(*   links, auto (a controller is wanted), entries (it has some to write),      *)
(*   config (what a single switch's configuration script holds),                *)
(*   hosts: the commands in order of host names, [wait, acts].                  *)
(* A command acts as "ok" or "fails" (it ends by itself), "server" (it ends     *)
(* well when interrupted), "stubborn" (when terminated) or "immune" (never).    *)
(* `pkill -P' reaches the children of a command's shell: a shell that became     *)
(* the command is never signalled, and then a server is "immune" too.           *)

CommandIds == 1 .. MaxHosts

ASSUME HostsAssumption ==
    /\ MaxHosts \in Nat
    /\ \A s \in Scripts : s.kind # "exercise" =>
           /\ Len(s.hosts) \in 0 .. MaxHosts
           /\ \A h \in 1 .. Len(s.hosts) :
                  /\ s.hosts[h].wait \in BOOLEAN
                  /\ s.hosts[h].acts \in {"ok", "fails", "server", "stubborn", "immune"}

\* What AppTopo asserts of the links.
ASSUME LinksAssumption ==
    \A s \in Scripts : s.kind = "multi" => s.links \in Seq(Link)

VARIABLES
    app,        \* p4apprunner: stage, whether the program compiled, exit code; and the
                \* host whose command the script is at
    status,     \* of the last child: [killed, code], code a signal if killed
    command,    \* of each host: its state ("none", "running", "ended") and exit code
    signal,     \* the last signal sent to it: "none", "INT" or "TERM"
    return_codes,
    routes      \* what the controller added on the hosts

appVars == <<app, status, command, signal, return_codes, routes>>
allAppVars == <<netVars, appVars>>

Sigint == 2

AppIdle(stage) ==
    /\ app = [stage |-> stage, compiled |-> "no", rc |-> 0, host |-> 1]
    /\ status = [killed |-> FALSE, code |-> 0]
    /\ command = [h \in CommandIds |-> [state |-> "none", code |-> 0]]
    /\ signal = [h \in CommandIds |-> "none"]
    /\ return_codes = <<>>
    /\ routes = {}

AppInit ==
    /\ NetInit("idle") /\ script.kind \in {"multi", "single"}
    /\ AppIdle("manifest")

Manifest == script.manifest
Stage(stage) == app.stage = stage
GotoStage(stage) == app' = [app EXCEPT !.stage = stage]
Exit(rc) == app' = [app EXCEPT !.stage = "exit", !.rc = rc]

-----------------------------------------------------------------------------
(* p4apprunner.py *)

\* run_command: WEXITSTATUS of os.system.  A shell that became the command is
\* itself killed, and WEXITSTATUS of that is 0; one that waited for it reports
\* 128 + n.
ExitStatuses(s) == IF s.killed THEN {0, 128 + s.code} ELSE {s.code}

\* A child ends with one of some codes, or is killed.
Ends(codes) == [killed : {FALSE}, code : codes] \cup [killed : {TRUE}, code : {Sigint}]

\* read_manifest; main's dispatch on the target or its `use' refuses a backend it
\* does not know before anything is compiled.
ReadManifest ==
    /\ Stage("manifest")
    /\ IF Manifest.complete /\ Manifest.found /\ Manifest.backend # "unknown"
       THEN GotoStage("before") ELSE Exit(1)
    /\ UNCHANGED <<netVars, status, command, signal, return_codes, routes>>

\* run_compile_bmv2 up to the compiler: the results of the commands before it are
\* not looked at, the language and the flags are.
PrepareCompile ==
    /\ Stage("before")
    /\ IF \/ Manifest.before = "bad" \/ Manifest.language \notin {"p4-14", "p4-16"}
          \/ Manifest.flags = "bad"
       THEN Exit(1) ELSE GotoStage("compile")
    /\ UNCHANGED <<netVars, status, command, signal, return_codes, routes>>

\* The compiler ends well, fails, or is killed.
Compile ==
    /\ Stage("compile")
    /\ \E s \in Ends({0, 1}) :
         \E rv \in ExitStatuses(s) :
           app' = [app EXCEPT !.stage = "after", !.rc = rv,
                              !.compiled = IF s.killed THEN "killed"
                                           ELSE IF s.code = 0 THEN "yes" ELSE "no"]
    /\ UNCHANGED <<netVars, status, command, signal, return_codes, routes>>

\* Mutant: the exit code is not looked at.
FinishCompileAnyway ==
    /\ Stage("after")
    /\ IF Manifest.after = "bad" THEN Exit(1) ELSE GotoStage("backend")
    /\ UNCHANGED <<netVars, status, command, signal, return_codes, routes>>

\* The commands after it run whether it compiled or not.
FinishCompile ==
    /\ Stage("after")
    /\ IF Manifest.after = "bad" \/ app.rc # 0 THEN Exit(1) ELSE GotoStage("backend")
    /\ UNCHANGED <<netVars, status, command, signal, return_codes, routes>>

\* run_mininet, run_multiswitch: the script starts with a network of its own.
RunScript == GotoStage("script") /\ Goto("construct")

\* The backend, once its program is compiled.
RunBackend ==
    /\ Stage("backend")
    /\ \/ Manifest.backend \in {"mininet", "multiswitch"} /\ RunScript
       \/ /\ Manifest.backend \in {"stf", "custom"}
          /\ IF Manifest.key THEN GotoStage("external") ELSE Exit(1)
          /\ UNCHANGED net
       \/ Manifest.backend = "compile-bmv2" /\ Exit(0) /\ UNCHANGED net
    /\ UNCHANGED <<script, counters, switches, process, owner, faults,
                   status, command, signal, return_codes, routes>>

\* run_stf, run_custom: whatever is wrong is an exit code of 1.
RunExternal ==
    /\ Stage("external")
    /\ \E s \in Ends({0, 3}) :
         /\ status' = s
         /\ \E rv \in ExitStatuses(s) : Exit(IF rv # 0 THEN 1 ELSE 0)
    /\ UNCHANGED <<netVars, command, signal, return_codes, routes>>

\* How the script ended: exit(1) and exceptions, multi's own verdict, or killed.
ScriptStatus ==
    [killed |-> At("killed"),
     code |-> IF At("killed") THEN Sigint
              ELSE IF At("failed") \/ \E i \in DOMAIN return_codes : return_codes[i] # 0
              THEN 1 ELSE 0]

\* ... and main exits with what run_command returned of it.
ScriptEnded ==
    /\ Stage("script") /\ net.phase \in {"finished", "failed", "killed"}
    /\ status' = ScriptStatus
    /\ \E rv \in ExitStatuses(ScriptStatus) : Exit(rv)
    /\ UNCHANGED <<netVars, command, signal, return_codes, routes>>

KillScript ==
    /\ Stage("script") /\ net.phase \notin {"finished", "failed", "killed"}
    /\ faults < MaxFaults
    /\ Goto("killed") /\ faults' = faults + 1
    /\ UNCHANGED <<script, counters, switches, process, owner, appVars>>

-----------------------------------------------------------------------------
(* After net.start. *)

\* single_switch_mininet.py reads the configuration from the file, or from
\* standard input if there is none (open(False)), and its str is refused by the
\* CLI's pipe.
ConfigureSingle ==
    /\ At("up") /\ script.kind = "single"
    /\ IF script.config = "empty" THEN Goto("cli") ELSE Fail
    /\ UNCHANGED <<script, counters, switches, process, owner, faults, appVars>>

\* AppController.start: the hosts' routes one by one ...
PairsLeft ==
    {p \in HostPairs(script.links) : \A r \in routes : <<r.host, r.dest>> # p}
ControllerRoute ==
    /\ At("up") /\ script.kind = "multi" /\ script.auto
    /\ PairsLeft # {}
    /\ LET pair == CHOOSE p \in PairsLeft : TRUE IN
       \E path \in ShortestPaths(script.links, pair[1], pair[2]) :
          routes' = routes \cup {Route(script.links, pair[1], pair[2], path)}
    /\ UNCHANGED <<netVars, app, status, command, signal, return_codes>>

\* ... then the entries, which add_entries cannot write: the same str.
ControllerDone ==
    /\ At("up") /\ script.kind = "multi"
    /\ script.auto => PairsLeft = {}
    /\ IF script.auto /\ script.entries THEN Fail ELSE Goto("cli")
    /\ UNCHANGED <<script, counters, switches, process, owner, faults, appVars>>

\* The CLI, if it is wanted; a single switch is stopped after it.
LeaveCLI ==
    /\ At("cli") /\ Stage("script")
    /\ net' = [phase |-> IF script.kind = "single" THEN "stop" ELSE "launch",
               at |-> 1, polls |-> 0]
    /\ UNCHANGED <<script, counters, switches, process, owner, faults, appVars>>

Wait(h) == script.hosts[h].wait
AtHost(phase) == At(phase) /\ app.host <= Len(script.hosts)
NoHostLeft(phase) == At(phase) /\ app.host > Len(script.hosts)

\* The commands start in the order of their hosts.
LaunchCommand ==
    /\ AtHost("launch")
    /\ command' = [command EXCEPT ![app.host].state = "running"]
    /\ IF Wait(app.host) THEN Goto("wait") /\ UNCHANGED app
       ELSE app' = [app EXCEPT !.host = @ + 1] /\ UNCHANGED net
    /\ UNCHANGED <<script, counters, switches, process, owner, faults,
                   status, signal, return_codes, routes>>

\* _wait_for_exit: right after its start for one with `wait', else when all have
\* been started and it has been told to end.
WaitForExit(from, to) ==
    /\ AtHost(from) /\ command[app.host].state = "ended"
    /\ return_codes' = Append(return_codes, command[app.host].code)
    /\ app' = [app EXCEPT !.host = @ + 1]
    /\ Goto(to)
    /\ UNCHANGED <<script, counters, switches, process, owner, faults,
                   status, command, signal, routes>>

AllLaunched ==
    /\ NoHostLeft("launch")
    /\ Goto("interrupt") /\ app' = [app EXCEPT !.host = 1]
    /\ UNCHANGED <<script, counters, switches, process, owner, faults,
                   status, command, signal, return_codes, routes>>

\* pkill -INT, whether the command still runs or not.
InterruptCommand ==
    /\ AtHost("interrupt")
    /\ IF Wait(app.host)
       THEN app' = [app EXCEPT !.host = @ + 1] /\ UNCHANGED <<net, signal>>
       ELSE /\ signal' = [signal EXCEPT ![app.host] = "INT"]
            /\ Goto("probe") /\ UNCHANGED app
    /\ UNCHANGED <<script, counters, switches, process, owner, faults,
                   status, command, return_codes, routes>>

\* Mutant: a command that ended is not collected.
ProbeCommandGone ==
    /\ At("probe")
    /\ IF command[app.host].state = "running" THEN Goto("terminate") /\ UNCHANGED app
       ELSE Goto("interrupt") /\ app' = [app EXCEPT !.host = @ + 1]
    /\ UNCHANGED <<script, counters, switches, process, owner, faults,
                   status, command, signal, return_codes, routes>>

\* Mutant: no second signal.
ProbeCommandOnce ==
    /\ At("probe")
    /\ Goto("collect")
    /\ UNCHANGED <<script, counters, switches, process, owner, faults, appVars>>

\* pkill -0, after a while: if it still runs, wait again and terminate it.
ProbeCommand ==
    /\ At("probe")
    /\ Goto(IF command[app.host].state = "running" THEN "terminate" ELSE "collect")
    /\ UNCHANGED <<script, counters, switches, process, owner, faults, appVars>>

TerminateCommand ==
    /\ At("terminate")
    /\ signal' = [signal EXCEPT ![app.host] = "TERM"]
    /\ Goto("collect")
    /\ UNCHANGED <<script, counters, switches, process, owner, faults,
                   app, status, command, return_codes, routes>>

\* The commands `after', the controller's stop, which does nothing, and net.stop.
AllCollected ==
    /\ NoHostLeft("interrupt")
    /\ net' = [phase |-> "stop", at |-> 1, polls |-> 0]
    /\ UNCHANGED <<script, counters, switches, process, owner, faults, appVars>>

MultiMain ==
    \/ LaunchCommand \/ WaitForExit("wait", "launch") \/ AllLaunched
    \/ InterruptCommand \/ ProbeCommand \/ TerminateCommand
    \/ WaitForExit("collect", "interrupt") \/ AllCollected

-----------------------------------------------------------------------------
(* The hosts' commands. *)

\* The codes a command may end with, given the last signal sent to it, which one
\* that ends by itself need not have got.
EndsWith(acts, sig) ==
    CASE acts = "ok" -> IF sig = "none" THEN {0} ELSE {0, 130}
      [] acts = "fails" -> IF sig = "none" THEN {1} ELSE {1, 130}
      [] acts = "server" -> IF sig = "none" THEN {} ELSE IF sig = "INT" THEN {0} ELSE {0, 143}
      [] acts = "stubborn" -> IF sig = "TERM" THEN {143} ELSE {}
      [] acts = "immune" -> {}

CommandEnds(h) ==
    /\ command[h].state = "running"
    /\ \E code \in EndsWith(script.hosts[h].acts, signal[h]) :
         command' = [command EXCEPT ![h] = [state |-> "ended", code |-> code]]
    /\ UNCHANGED <<netVars, app, status, signal, return_codes, routes>>

-----------------------------------------------------------------------------

AppMain ==
    \/ ReadManifest \/ PrepareCompile \/ Compile \/ FinishCompile \/ RunBackend
    \/ RunExternal \/ ScriptEnded
    \/ NetMain /\ UNCHANGED appVars
    \/ ConfigureSingle \/ ControllerRoute \/ ControllerDone \/ LeaveCLI \/ MultiMain

AppNext ==
    \/ AppMain
    \/ KillScript
    \/ \E h \in CommandIds : CommandEnds(h)
    \/ ((\E i \in Ids : Bind(i)) \/ Faults) /\ UNCHANGED appVars

AppSpec == AppInit /\ [][AppNext]_allAppVars

-----------------------------------------------------------------------------
(* Properties. *)

AppTypeOK ==
    /\ app.stage \in {"none", "manifest", "before", "compile", "after", "backend", "script",
                      "external", "exit"}
    /\ app.compiled \in {"no", "yes", "killed"}
    /\ app.rc \in 0 .. 255 /\ app.host \in Nat
    /\ status \in [killed : BOOLEAN, code : 0 .. 255]
    /\ command \in [CommandIds -> [state : {"none", "running", "ended"}, code : 0 .. 255]]
    /\ signal \in [CommandIds -> {"none", "INT", "TERM"}]
    /\ return_codes \in Seq(0 .. 255)

\* An exit code of 0 means that the program was compiled and every host's command
\* and the backend ended well, unless the compiler or the backend was killed by a
\* signal, which WEXITSTATUS may not show (run_command and its callers).
ExitReportsFailure ==
    (Stage("exit") /\ app.rc = 0) =>
        /\ app.compiled # "no"
        /\ status.killed \/ (/\ status.code = 0
                             /\ \A i \in DOMAIN return_codes : return_codes[i] = 0)

\* The network outlives the commands: before it is stopped each has ended and its
\* code has been taken, once (the three loops of multi_switch_mininet.py).
CommandsReaped ==
    (script.kind = "multi" /\ net.phase \in {"stop", "finished"}) =>
        /\ \A h \in 1 .. Len(script.hosts) : command[h].state = "ended"
        /\ Len(return_codes) = Len(script.hosts)
        /\ \A h \in 1 .. Len(script.hosts) :
             \E i \in DOMAIN return_codes : return_codes[i] = command[h].code

\* A route on a host leads to its destination on a shortest path, and is for the
\* address of one of the destination's links: the one the destination keeps if it
\* is at one switch only.  Once the CLI opens, hosts that are connected have routes
\* to each other (ShortestPath, AppTopo, AppController.start).
RoutesLead ==
    script.kind = "multi" =>
        LET links == script.links IN
        /\ \A r \in routes :
             LET via == <<"s", r.via[1]>> IN
             /\ Joined(links, via, r.dest)
             /\ Hops(links, r.host, r.dest) = Hops(links, via, r.dest) + 1
             /\ r.to \in Addresses(links, r.dest)
             /\ Cardinality(Neighbors(links, r.dest)) = 1 => r.to = Address(links, r.dest)
        /\ (At("cli") /\ script.auto) =>
             \A a, b \in HostsOf(links) :
                (a # b /\ Joined(links, a, b)) => \E r \in routes : r.host = a /\ r.dest = b

\* If nothing is killed, crashes or hangs, each command to wait for ends by
\* itself and none ignores SIGTERM, p4apprunner comes to its end.
Ending ==
    \A h \in 1 .. Len(script.hosts) :
        IF Wait(h) THEN script.hosts[h].acts \in {"ok", "fails"}
        ELSE script.hosts[h].acts # "immune"
AppEnds ==
    (~Stage("none") /\ Ending /\ [](faults = 0)) => <>Stage("exit")

=============================================================================
