---------------------------- MODULE P4InfoHelper ----------------------------
(***************************************************************************)
(* p4runtime_lib/helper.py and the checks of simple_controller.py: the      *)
(* entries of a runtime configuration as P4Runtime entities.  A program's   *)
(* p4info is a record of its tables and actions.  Where the code raises, no *)
(* entity exists: CanBuild is false.                                        *)
(***************************************************************************)
EXTENDS Encoding, FiniteSets

\* Match fields and parameters are looked up by name only, tables and actions
\* by name or alias.
Find(entities, name) == {o \in entities : name \in {o.name, o.alias}}
MatchField(p4info, table, field) ==
    UNION {{mf \in t.match_fields : mf.name = field} :
           t \in {t \in p4info.tables : t.name = table}}
ActionParam(p4info, action, param) ==
    UNION {{p \in a.params : p.name = param} :
           a \in {a \in p4info.actions : a.name = action}}

\* Match types that need a priority.
MatchTypesWithPriority == {"TERNARY", "RANGE", "OPTIONAL"}

\* validateTableEntry.  `match' holds [field, value] records; priority 0 is none.
ValidateTableEntry(p4info, entry) ==
    entry.priority = 0 =>
        \A m \in entry.match :
            LET mf == MatchField(p4info, entry.table, m.field)
            IN  mf # {} /\ \A f \in mf : f.match_type \notin MatchTypesWithPriority

\* The parts of a field's value that are encoded; the prefix length is not.
Encoded(match_type, value) ==
    CASE match_type = "EXACT" -> <<value>>
      [] match_type = "LPM" -> <<value.values[1]>>
      [] match_type \in {"TERNARY", "RANGE"} -> SubSeq(value.values, 1, 2)

\* Whether get_match_field_pb returns: the value has the shape of the match
\* type, which is one of four, and fits.
CanMatch(mf, value) ==
    /\ \/ mf.match_type = "EXACT"
       \/ /\ mf.match_type \in {"LPM", "TERNARY", "RANGE"}
          /\ value.kind = "list" /\ Len(value.values) >= 2
          /\ mf.match_type = "LPM" => value.values[2].kind = "number"
    /\ LET parts == Encoded(mf.match_type, value)
       IN  \A i \in DOMAIN parts : CanEncode(parts[i], mf.bitwidth)

\* get_match_field_pb and get_action_param_pb
MatchFieldPb(mf, value) ==
    LET parts == Encoded(mf.match_type, value) IN
    [field |-> mf.name, match_type |-> mf.match_type,
     bytes |-> [i \in DOMAIN parts |-> encode(parts[i], mf.bitwidth)],
     prefix_len |-> IF mf.match_type = "LPM" THEN value.values[2].number ELSE 0]

ActionParamPb(p, value) == [param |-> p.name, bytes |-> encode(value, p.bitwidth)]

\* insertTableEntry: whether the entry has its keys and buildTableEntry returns.
CanBuildTableEntry(p4info, entry) ==
    /\ entry.complete
    /\ Find(p4info.tables, entry.table) # {}
    /\ \A m \in entry.match :
         \E mf \in MatchField(p4info, entry.table, m.field) : CanMatch(mf, m.value)
    /\ Find(p4info.actions, entry.action) # {}
    /\ \A a \in entry.params :
         \E p \in ActionParam(p4info, entry.action, a.param) :
             CanEncode(a.value, p.bitwidth)

\* buildTableEntry
BuildTableEntry(p4info, entry) ==
    [kind |-> "table",
     table |-> (CHOOSE t \in Find(p4info.tables, entry.table) : TRUE).name,
     match |-> {MatchFieldPb(CHOOSE mf \in MatchField(p4info, entry.table, m.field) : TRUE,
                             m.value) : m \in entry.match},
     is_default_action |-> entry.default_action,
     priority |-> entry.priority,
     action |-> (CHOOSE a \in Find(p4info.actions, entry.action) : TRUE).name,
     params |-> {ActionParamPb(CHOOSE p \in ActionParam(p4info, entry.action, a.param) : TRUE,
                               a.value) : a \in entry.params}]

\* buildMulticastGroupEntry, buildCloneSessionEntry: every replica needs its
\* `egress_port' and `instance'.
CanBuildPREEntry(entry) == \A r \in entry.replicas : r.complete
BuildMulticastGroupEntry(entry) ==
    [kind |-> "group", id |-> entry.id, replicas |-> entry.replicas]
BuildCloneSessionEntry(entry) ==
    [kind |-> "clone", id |-> entry.id, replicas |-> entry.replicas,
     packet_length_bytes |-> entry.packet_length_bytes]

\* One step of program_switch's three loops: insertTableEntry after
\* validateTableEntry, insertMulticastGroupEntry, insertCloneGroupEntry.
CanBuild(p4info, entry) ==
    IF entry.kind = "table"
    THEN ValidateTableEntry(p4info, entry) /\ CanBuildTableEntry(p4info, entry)
    ELSE CanBuildPREEntry(entry)

Build(p4info, entry) ==
    CASE entry.kind = "table" -> BuildTableEntry(p4info, entry)
      [] entry.kind = "group" -> BuildMulticastGroupEntry(entry)
      [] entry.kind = "clone" -> BuildCloneSessionEntry(entry)

=============================================================================
