-------------------------- MODULE MCP4RuntimeClient --------------------------
(* Values for TLC: runtime configurations like those of sN-runtime.json with    *)
(* the entries that go wrong, and the tests in the order ptf runs them.          *)
EXTENDS P4RuntimeClient, TLC

S1 == "s1"
S2 == "s2"

\* A program with a match of each type, a table default and a 3-bit parameter.
Acl ==
    [tables |-> {[name |-> "acl", alias |-> "a",
                  match_fields |-> {[name |-> "src", match_type |-> "TERNARY", bitwidth |-> 16],
                                    [name |-> "len", match_type |-> "RANGE", bitwidth |-> 9]}],
                 [name |-> "l2", alias |-> "l2",
                  match_fields |-> {[name |-> "dst", match_type |-> "EXACT", bitwidth |-> 16]}]},
     actions |-> {[name |-> "mark", alias |-> "m",
                   params |-> {[name |-> "dscp", bitwidth |-> 3], [name |-> "port", bitwidth |-> 9]}],
                  [name |-> "drop", alias |-> "d", params |-> {}]}]

Entry(table, match, priority, default, action, params) ==
    [kind |-> "table", complete |-> TRUE, table |-> table, match |-> match, priority |-> priority,
     default_action |-> default, action |-> action, params |-> params]

Mark(dscp, port) == {[param |-> "dscp", value |-> Num(dscp)], [param |-> "port", value |-> port]}
Src(value, mask) == {[field |-> "src", value |-> ListOf(<<Num(value), Num(mask)>>)]}
Len9(low, high) == {[field |-> "len", value |-> ListOf(<<Num(low), Num(high)>>)]}
Dst(value) == {[field |-> "dst", value |-> value]}

Good ==
    <<Entry("a", {}, 0, TRUE, "d", {}),
      Entry("acl", Src(258, 65280), 1, FALSE, "mark", Mark(-1, Num(511))),
      Entry("l2", Dst(Address(<<1, 2>>)), 0, FALSE, "mark", Mark(-4, ListOf(<<Num(256)>>))),
      Entry("acl", {}, 0, TRUE, "mark", Mark(7, Num(0))),
      [kind |-> "group", id |-> 1, replicas |-> {[complete |-> TRUE, port |-> 1]}],
      [kind |-> "clone", id |-> 1, replicas |-> {[complete |-> TRUE, port |-> 2]},
       packet_length_bytes |-> 0]>>

\* What a configuration may get wrong: a number that does not fit, an address of
\* the wrong length, text, a field, an action or a key that is not there, an alias
\* of a table with a match, no priority, a mask that is missing, a key twice, an
\* incomplete replica.
Bad == {
    Entry("l2", Dst(Num(2)), 0, FALSE, "mark", Mark(8, Num(1))),
    Entry("l2", Dst(Num(2)), 0, FALSE, "mark", Mark(-5, Num(1))),
    Entry("l2", Dst(Num(2)), 0, FALSE, "mark", Mark(1, Num(512))),
    Entry("l2", Dst(Address(<<1, 2, 3>>)), 0, FALSE, "drop", {}),
    Entry("l2", Dst(Text), 0, FALSE, "drop", {}),
    Entry("l2", {[field |-> "src", value |-> Num(2)]}, 0, FALSE, "drop", {}),
    Entry("a", Src(1, 1), 1, FALSE, "d", {}),
    Entry("l2", Dst(Num(2)), 0, FALSE, "forward", {}),
    [Entry("l2", Dst(Num(2)), 0, FALSE, "drop", {}) EXCEPT !.complete = FALSE],
    Entry("acl", Src(1, 1), 0, FALSE, "drop", {}),
    Entry("acl", {[field |-> "src", value |-> Num(2)]}, 1, FALSE, "drop", {}),
    Entry("l2", Dst(Num(258)), 0, FALSE, "drop", {}),
    [kind |-> "group", id |-> 2, replicas |-> {[complete |-> FALSE, port |-> 1]}],
    [kind |-> "group", id |-> 1, replicas |-> {}]}

Program(sw, conf, entries) ==
    [kind |-> "program", switch |-> sw, conf |-> conf, p4info |-> Acl,
     entries |-> entries, steps |-> <<>>]

Test(conf, test) ==
    [kind |-> "test", switch |-> S1, conf |-> conf, p4info |-> ColorMarkers,
     entries |-> test.entries, steps |-> test.steps]

MCPrograms ==
    {<<Program(S1, "ok", Good), Program(S2, conf, <<Good[3]>>)>> :
         conf \in {"ok", "invalid", "bad p4info"}}
    \cup {<<Program(S1, "ok", <<Good[3], Good[5], bad>>), Program(S2, "ok", <<>>)>> : bad \in Bad}
    \cup {<<Program(S1, "invalid", <<>>), Program(S2, "ok", 
          <<Good[2], Entry("acl", Len9(1, 511), 2, FALSE, "drop", {})>>)>>}
    \cup {<<Test("ok", MultiEntryTest), Test("ok", LpmTiebreakerTest)>>,
           <<Test("ok", FwdTest), Test("bad p4info", TtlBoundaryTest), Test("ok", DropTest)>>,
           <<Test("ok", TtlBoundaryTest), Test("ok", NonIpv4DropTest)>>}

=============================================================================
