-------------------------- MODULE MCNetworkScripts --------------------------
(* Values for TLC: exercises like topology.json and ones with what it may hold  *)
(* besides, and packages for each backend and each way their parts may go.       *)
EXTENDS NetworkScripts, TLC

Switch(program, cli, conf) == [program |-> program, cli |-> cli, conf |-> conf]
HostNode == [kind |-> "h", port |-> 0]
SwitchNode(port) == [kind |-> "s", port |-> port]
GoodLinks == <<<<SwitchNode(1), HostNode>>, <<SwitchNode(2), SwitchNode(2)>>>>

Exercise(grpc, json, sws, taken, test) ==
    [kind |-> "exercise", grpc |-> grpc, json |-> json, switches |-> sws, taken |-> taken,
     links |-> GoodLinks, test |-> test]

Exercises == {
    Exercise(TRUE, TRUE, <<Switch(FALSE, "ok", "ok"), Switch(TRUE, "none", "ok")>>, {}, TRUE),
    Exercise(TRUE, FALSE, <<Switch(FALSE, "ok", "invalid"), Switch(FALSE, "ok", "raises")>>, {}, FALSE),
    Exercise(TRUE, TRUE, <<Switch(FALSE, "none", "none"), Switch(FALSE, "none", "ok")>>, {50052}, FALSE),
    Exercise(TRUE, TRUE, <<Switch(FALSE, "ok", "none"), Switch(FALSE, "none", "ok")>>, {9091}, FALSE),
    Exercise(FALSE, TRUE, <<Switch(FALSE, "ok", "none"), Switch(FALSE, "ok", "none")>>, {}, FALSE),
    Exercise(FALSE, TRUE, <<Switch(FALSE, "ok", "none"), Switch(FALSE, "ok", "none")>>, {9091}, FALSE),
    Exercise(TRUE, TRUE, <<Switch(FALSE, "ok", "ok"), Switch(FALSE, "missing", "none")>>, {}, FALSE),
    Exercise(TRUE, TRUE, <<Switch(FALSE, "ok", "missing")>>, {}, FALSE),
    Exercise(FALSE, FALSE, <<Switch(FALSE, "none", "none")>>, {}, FALSE),
    Exercise(FALSE, TRUE, <<Switch(FALSE, "ok", "ok"), Switch(FALSE, "ok", "none")>>, {}, FALSE)}

\* A switch with a program of its own beside one without, and two of them.
Programs == {
    Exercise(FALSE, TRUE, <<Switch(FALSE, "ok", "none"), Switch(TRUE, "ok", "none")>>, {}, FALSE),
    Exercise(FALSE, TRUE, <<Switch(TRUE, "ok", "none"), Switch(TRUE, "none", "none")>>, {}, FALSE)}

BadExercises ==
    LET e == CHOOSE e \in Exercises : TRUE
    IN  {[e EXCEPT !.links = <<l>>] :
            l \in {<<HostNode, HostNode>>, <<SwitchNode(0), HostNode>>,
                   <<SwitchNode(0), SwitchNode(1)>>}}

GoodManifest(backend) ==
    [complete |-> TRUE, found |-> TRUE, language |-> "p4-16", before |-> "list",
     flags |-> "none", after |-> "list", backend |-> backend, key |-> TRUE]

H(n) == <<"h", n>>
S(n) == <<"s", n>>
Line == <<<<H(1), S(1)>>, <<S(2), S(1)>>, <<H(2), S(2)>>>>
\* A ring of three switches, the first host at two of them.
Ring == <<<<H(1), S(1)>>, <<H(1), S(2)>>, <<S(1), S(2)>>, <<S(2), S(3)>>, <<S(3), S(1)>>,
          <<S(3), H(2)>>>>
\* The same host, but one of its switches is nearer.
Chain == <<<<H(1), S(2)>>, <<H(1), S(1)>>, <<S(2), S(1)>>, <<S(1), S(3)>>, <<H(2), S(3)>>>>

App(manifest, kind, sws, taken, links, auto, entries, config, hosts) ==
    [kind |-> kind, grpc |-> FALSE, json |-> TRUE,
     switches |-> [i \in 1 .. sws |-> Switch(FALSE, "none", "none")], taken |-> taken,
     manifest |-> manifest, links |-> links, auto |-> auto, entries |-> entries,
     config |-> config, hosts |-> hosts, test |-> FALSE]

Cmd(wait, acts) == [wait |-> wait, acts |-> acts]

Multi(links, auto, entries, hosts) ==
    App(GoodManifest("multiswitch"), "multi", Cardinality(SwitchesOf(links)), {}, links, auto, entries, "", hosts)
Single(config, taken) ==
    App(GoodManifest("mininet"), "single", 1, taken, <<>>, FALSE, FALSE, config, <<>>)

Apps == {
    Multi(Line, FALSE, FALSE, <<Cmd(FALSE, "server"), Cmd(TRUE, "ok")>>),
    Multi(Line, TRUE, FALSE, <<Cmd(FALSE, "stubborn"), Cmd(FALSE, "ok"), Cmd(TRUE, "fails")>>),
    Multi(Line, TRUE, TRUE, <<Cmd(TRUE, "ok")>>),
    Multi(<<<<H(1), S(1)>>>>, FALSE, FALSE, <<Cmd(FALSE, "immune")>>),
    Multi(Ring, TRUE, FALSE, <<>>), Multi(Chain, TRUE, FALSE, <<>>),
    Single("empty", {}), Single("commands", {}), Single("empty", {9090})}

Package(manifest) == App(manifest, "single", 1, {}, <<>>, FALSE, FALSE, "empty", <<>>)
Packages ==
    LET good == GoodManifest("stf")
    IN  {Package(m) : m \in {good, GoodManifest("compile-bmv2"), GoodManifest("unknown"),
                             [good EXCEPT !.complete = FALSE], [good EXCEPT !.found = FALSE],
                             [good EXCEPT !.before = "bad"], [good EXCEPT !.language = "p4"],
                             [good EXCEPT !.flags = "bad"], [good EXCEPT !.after = "bad"],
                             [GoodManifest("custom") EXCEPT !.key = FALSE]}}

MCScripts == Exercises \cup BadExercises \cup Apps \cup Packages

=============================================================================
