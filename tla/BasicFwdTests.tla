--------------------------- MODULE BasicFwdTests ---------------------------
(***************************************************************************)
(* ptf/basic_fwd.py: what its tests install, send and expect, the tables of *)
(* the program they run against, and what that program does with a packet.  *)
(* Addresses are their bytes; prefix lengths are whole bytes.               *)
(***************************************************************************)
EXTENDS P4InfoHelper

\* The tables and actions of color_markers.p4 as p4info lists them.
ColorMarkers ==
    [tables |-> {[name |-> "MyIngress.ipv4_lpm", alias |-> "ipv4_lpm",
                  match_fields |-> {[name |-> "hdr.ipv4.dstAddr", match_type |-> "LPM",
                                     bitwidth |-> 32]}],
                 [name |-> "MyIngress.vn_classifier", alias |-> "vn_classifier",
                  match_fields |-> {[name |-> "hdr.ipv4.srcAddr", match_type |-> "EXACT",
                                     bitwidth |-> 32],
                                    [name |-> "hdr.ipv4.dstAddr", match_type |-> "EXACT",
                                     bitwidth |-> 32]}]},
     actions |-> {[name |-> "MyIngress.ipv4_forward", alias |-> "ipv4_forward",
                   params |-> {[name |-> "dstAddr", bitwidth |-> 48],
                               [name |-> "port", bitwidth |-> 9]}],
                  [name |-> "MyIngress.drop", alias |-> "drop", params |-> {}],
                  [name |-> "MyIngress.set_vn_params", alias |-> "set_vn_params",
                   params |-> {[name |-> "vn_id_param", bitwidth |-> 8],
                               [name |-> "guaranteed_bandwidth_param", bitwidth |-> 48]}]}]

\* add_ipv4_lpm_entry
Route(address, prefix_len, mac, port) ==
    [kind |-> "table", complete |-> TRUE, table |-> "MyIngress.ipv4_lpm",
     match |-> {[field |-> "hdr.ipv4.dstAddr",
                 value |-> ListOf(<<Address(address), Num(prefix_len)>>)]},
     priority |-> 0, default_action |-> FALSE, action |-> "MyIngress.ipv4_forward",
     params |-> {[param |-> "dstAddr", value |-> Address(mac)],
                 [param |-> "port", value |-> Num(port)]}]

-----------------------------------------------------------------------------
(* The program: ipv4_lpm, with its longest prefix and its default action. *)

Prefix(entity) ==
    LET m == CHOOSE m \in entity.match : TRUE
    IN  SubSeq(m.bytes[1], 1, m.prefix_len \div 8)

Lookup(table, address) ==
    LET hits == {e \in table : /\ e.kind = "table" /\ e.table = "MyIngress.ipv4_lpm"
                               /\ ~e.is_default_action
                               /\ Prefix(e) = SubSeq(address, 1, Len(Prefix(e)))}
    IN  {e \in hits : \A f \in hits : Len(Prefix(f)) <= Len(Prefix(e))}

Param(entity, name) == (CHOOSE a \in entity.params : a.param = name).bytes

Dropped == [port |-> -1]

\* A packet that is not IPv4 keeps egress_spec 0.
Forwarded(table, pkt) ==
    IF ~pkt.ipv4 THEN [port |-> 0, pkt |-> pkt]
    ELSE IF Lookup(table, pkt.ip_dst) = {} THEN Dropped
    ELSE LET e == CHOOSE e \in Lookup(table, pkt.ip_dst) : TRUE IN
         IF e.action # "MyIngress.ipv4_forward" THEN Dropped
         ELSE [port |-> decodeNum(Param(e, "port")),
               pkt |-> [pkt EXCEPT !.eth_src = pkt.eth_dst, !.eth_dst = Param(e, "dstAddr"),
                                   !.ip_ttl = (@ - 1) % 256]]

-----------------------------------------------------------------------------
(* The tests. *)

in_dmac == <<238, 48, 202, 157, 30, 0>>
in_smac == <<238, 205, 0, 126, 112, 0>>
OutMac(n) == <<8, 0, 0, 0, n, 17 * n>>

Tcp(src, dst, ip_dst, ttl) ==
    [ipv4 |-> TRUE, eth_src |-> src, eth_dst |-> dst, ip_dst |-> ip_dst, ip_ttl |-> ttl]

Arp == [Tcp(<<0, 222, 173, 190, 239, 1>>, <<255, 255, 255, 255, 255, 255>>,
            <<10, 0, 1, 1>>, 0) EXCEPT !.ipv4 = FALSE]

\* One send_packet and the verification after it.
Expect(ip_dst, ttl, mac, port) ==
    [send |-> Tcp(in_smac, in_dmac, ip_dst, ttl),
     expect |-> [port |-> port, pkt |-> Tcp(in_dmac, mac, ip_dst, ttl - 1)]]

DropTest ==
    [entries |-> <<>>,
     steps |-> <<[send |-> Tcp(in_smac, in_dmac, <<10, 0, 1, 1>>, 64), expect |-> Dropped]>>]

FwdTest ==
    [entries |-> <<Route(<<10, 0, 1, 1>>, 32, OutMac(2), 2)>>,
     steps |-> <<Expect(<<10, 0, 1, 1>>, 64, OutMac(2), 2)>>]

MultiEntryTest ==
    [entries |-> <<Route(<<10, 0, 1, 1>>, 32, OutMac(1), 1),
                   Route(<<10, 0, 2, 0>>, 24, OutMac(2), 2),
                   Route(<<10, 0, 3, 0>>, 24, OutMac(3), 3)>>,
     steps |-> <<Expect(<<10, 0, 1, 1>>, 64, OutMac(1), 1),
                 Expect(<<10, 0, 2, 99>>, 54, OutMac(2), 2),
                 Expect(<<10, 0, 3, 1>>, 44, OutMac(3), 3)>>]

LpmTiebreakerTest ==
    LET less_specific == <<8, 0, 0, 0, 17, 17>>
        more_specific == <<8, 0, 0, 0, 34, 34>>
    IN  [entries |-> <<Route(<<10, 0, 0, 0>>, 16, less_specific, 1),
                       Route(<<10, 0, 1, 0>>, 24, more_specific, 2)>>,
         steps |-> <<Expect(<<10, 0, 1, 99>>, 64, more_specific, 2)>>]

TtlBoundaryTest ==
    [entries |-> <<Route(<<10, 0, 9, 9>>, 32, <<8, 0, 0, 0, 9, 153>>, 3)>>,
     steps |-> <<Expect(<<10, 0, 9, 9>>, 1, <<8, 0, 0, 0, 9, 153>>, 3)>>]

NonIpv4DropTest ==
    [entries |-> <<>>, steps |-> <<[send |-> Arp, expect |-> [port |-> 0, pkt |-> Arp]]>>]

=============================================================================
