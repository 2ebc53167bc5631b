---------------------------- MODULE AppTopology ----------------------------
(***************************************************************************)
(* utils/mininet/apptopo.py, shortest_path.py and the routes of              *)
(* appcontroller.py: what a list of links makes of a p4app network.  A node   *)
(* is <<"h", number>> or <<"s", number>>, a link a pair of nodes, at least     *)
(* one of them a switch; numbers have one digit, so names sort like them.     *)
(***************************************************************************)
EXTENDS Integers, Sequences, FiniteSets, SequencesExt

IsHost(n) == n[1] = "h"
Node == {"h", "s"} \X Nat
Link == {l \in Node \X Node : ~IsHost(l[1]) \/ ~IsHost(l[2])}

Nodes(links) == {l[1] : l \in Range(links)} \cup {l[2] : l \in Range(links)}
HostsOf(links) == {n \in Nodes(links) : IsHost(n)}
SwitchesOf(links) == Nodes(links) \ HostsOf(links)

\* ShortestPath.addEdge
Neighbors(links, a) ==
    {l[2] : l \in {l \in Range(links) : l[1] = a}} \cup
    {l[1] : l \in {l \in Range(links) : l[2] = a}}

-----------------------------------------------------------------------------
(* AppTopo._host_links[host], a dict with an entry for each switch it is at. *)

HostLink(host, sw) ==
    [host_ip |-> <<sw[2], host[2]>>, sw_ip |-> <<sw[2], 254>>]

\* The entries are in the order of the first links to their switches.
FirstLink(links, host, sw) ==
    CHOOSE i \in DOMAIN links :
        /\ links[i] \in {<<host, sw>>, <<sw, host>>}
        /\ \A k \in 1 .. i - 1 : links[k] \notin {<<host, sw>>, <<sw, host>>}

\* links.values()[0], and the one that a loop over them comes to last.
FirstSwitch(links, host) ==
    CHOOSE sw \in Neighbors(links, host) : \A other \in Neighbors(links, host) :
        FirstLink(links, host, sw) <= FirstLink(links, host, other)
LastSwitch(links, host) ==
    CHOOSE sw \in Neighbors(links, host) : \A other \in Neighbors(links, host) :
        FirstLink(links, host, sw) >= FirstLink(links, host, other)

-----------------------------------------------------------------------------
(* ShortestPath *)

\* Mutant: sorted the other way round.
Longest(paths) == {p \in paths : \A q \in paths : Len(p) >= Len(q)}

Shortest(paths) == {p \in paths : \A q \in paths : Len(p) <= Len(q)}

\* Where _recPath goes on from a: not back, and through no host.
Onward(links, b, a, visited) ==
    {n \in Neighbors(links, a) \ (visited \cup {a}) : IsHost(n) => n = b}

\* The paths from a to b that _recPath may return, given those its calls may: which
\* one depends on the order of a set.  None is the empty set.
RecPath(links, b, rec, a, visited) ==
    IF a = b THEN {<<a>>}
    ELSE UNION {Shortest(paths) : paths \in
            {{<<a>> \o p : p \in UNION {rec[<<n, visited \cup {a}>>] :
                                       n \in Onward(links, b, a, visited)}}}}

Paths(links, b) ==
    LET rec[v \in Nodes(links) \X SUBSET Nodes(links)] == RecPath(links, b, rec, v[1], v[2])
    IN  rec

ShortestPaths(links, a, b) == Paths(links, b)[<<a, {}>>]

-----------------------------------------------------------------------------
(* AppController.start: what it does to the hosts. *)

\* setIP for each link in turn: the last one's address stays.
Address(links, host) == HostLink(host, LastSwitch(links, host)).host_ip

\* `ip route add <h2's first address> via <h's switch on the path>'
HostPairs(links) == {p \in HostsOf(links) \X HostsOf(links) :
                        p[1] # p[2] /\ ShortestPaths(links, p[1], p[2]) # {}}
Route(links, h, h2, path) ==
    [host |-> h, dest |-> h2, to |-> HostLink(h2, FirstSwitch(links, h2)).host_ip,
     via |-> HostLink(h, path[2]).sw_ip]

-----------------------------------------------------------------------------
(* References for the properties. *)

\* The nodes from which b can be reached in k hops or less without passing a host.
Within(links, b) ==
    LET ball[k \in Nat] ==
            IF k = 0 THEN {b}
            ELSE LET inner == ball[k - 1]
                 IN  inner \cup {a \in Nodes(links) : \E n \in Neighbors(links, a) \cap inner :
                                    n = b \/ ~IsHost(n)}
    IN  ball

\* What a host is called at its links, whichever of them its interface keeps.
Addresses(links, host) ==
    {HostLink(host, sw).host_ip : sw \in Neighbors(links, host)}

Joined(links, a, b) == a \in Within(links, b)[Cardinality(Nodes(links))]

Hops(links, a, b) ==
    CHOOSE k \in 0 .. Cardinality(Nodes(links)) :
        a \in Within(links, b)[k] /\ \A i \in 0 .. k - 1 : a \notin Within(links, b)[i]

=============================================================================
