------------------------------- MODULE Mapping ------------------------------
(***************************************************************************)
(* crates/mapping/src/{resolve,constraints,namespace}.rs, and resolve_all  *)
(* of crates/gateway/src/server_task.rs, which drives them: the device     *)
(* types in force are bound to the nodes of one server, in one session.    *)
(*                                                                         *)
(* Device types name namespaces by URI, a session numbers them; which      *)
(* number a URI has is the server's choice.  A browse path segment is text *)
(* in which colons separate URI and name and occur in both: it is modelled *)
(* as the sequence of what is between the colons.  Reading of JSON, blanks *)
(* and letter case, and the warnings, are left out.                        *)
(*                                                                         *)
(* Its Init, Next, Spec and the like have names of their own: proofs are   *)
(* about this machine and ServerTask's in one module.                      *)
(***************************************************************************)
EXTENDS Integers, Sequences, SequencesExt, FiniteSetsExt

CONSTANTS
    Catalogs,       \* what the device type provider may have published
    Tables,         \* what Server_NamespaceArray may be, the OPC UA URI first
    Space,          \* the address space: [root, path] -> the targets, by URI
    Numeral,        \* segment parts that are numbers, and which
    Server,         \* this server's id
    KnownIds,       \* what known_server_ids may be
    AllowLists,     \* what the server's device_types may be; empty is no list
    ValidParameters,\* subscription parameters that OPC UA accepts
    NoText,         \* an id that is absent
    NoId            \* an identifier that does not parse

DEFAULT_READ_RATE_MS == 5000

UaUri == <<"ua">>

Kinds == {"measurement", "event", "alarm"}

Segments == [uri : Seq(STRING), name : Seq(STRING) \ {<<>>}]

Paths(t) ==
    {t.mappings[i].path : i \in DOMAIN t.mappings} \cup {t.overrides[i].path : i \in DOMAIN t.overrides}

NodeTexts(t) ==
    t.nodeIds \cup (({t.root} \cup {t.mappings[i].ref : i \in DOMAIN t.mappings}) \ {NoText})

ASSUME TableAssumption ==
    \A uris \in Tables :
        uris \in Seq(Seq(STRING) \ {<<>>}) /\ IsInjective(uris) /\ uris # <<>> /\ uris[1] = UaUri

ASSUME NumeralAssumption == \A part \in DOMAIN Numeral : Numeral[part] \in Nat

\* The provider merges what it has by id.
ASSUME CatalogAssumption ==
    \A catalog \in Catalogs :
        /\ catalog \in Seq(ToSet(catalog))
        /\ \A i, j \in DOMAIN catalog : catalog[i].id = catalog[j].id => i = j
        /\ \A t \in ToSet(catalog) :
            /\ t.mappings \in Seq(ToSet(t.mappings)) /\ t.overrides \in Seq(ToSet(t.overrides))
            /\ Paths(t) \subseteq Seq(Segments)
            /\ \A text \in NodeTexts(t) : text.index \in Nat
            /\ \A entry \in ToSet(t.mappings) : entry.creations \subseteq Kinds

ASSUME SpaceAssumption ==
    \A from \in DOMAIN Space : from.path # <<>> /\ Space[from] \in Seq(ToSet(Space[from]))

ASSUME IdAssumption == NoId # "root"

VARIABLES
    loaded,         \* the device types in force
    table,          \* the NamespaceTable of this session
    known,          \* known_server_ids
    allowed,        \* the server's device_types
    at,             \* where resolve_all is
    todo,           \* device types it has yet to look at
    plan,           \* of the first of these, while its paths are translated
    out             \* the mappings so far

inputs == <<loaded, table, known, allowed>>
resolveVars == <<loaded, table, known, allowed, at, todo, plan, out>>

-----------------------------------------------------------------------------
(* namespace.rs.                                                           *)

\* Position of a URI in the table; -1 if it has none.
index_of(uri) == SelectInSeq(table, LAMBDA u : u = uri) - 1

\* What stands before a colon names a namespace, by number or by URI; or not, -1.
Prefix(parts) ==
    IF Len(parts) = 1 /\ parts[1] \in DOMAIN Numeral THEN Numeral[parts[1]] ELSE index_of(parts)

\* Mistake: the segment is split at its first colon that makes sense.
to_qualified_name_Forward(segment) ==
    LET ends == {k \in 1 .. Len(segment) - 1 : Prefix(SubSeq(segment, 1, k)) >= 0}
    IN  IF ends = {} THEN [ns |-> 0, name |-> segment]
        ELSE [ns |-> Prefix(SubSeq(segment, 1, Min(ends))),
              name |-> SubSeq(segment, Min(ends) + 1, Len(segment))]

\* The last colon is the delimiter before which a namespace stands; without one
\* the whole segment is a name in namespace 0.
to_qualified_name(segment) ==
    LET ends == {k \in 1 .. Len(segment) - 1 : Prefix(SubSeq(segment, 1, k)) >= 0}
    IN  IF ends = {} THEN [ns |-> 0, name |-> segment]
        ELSE [ns |-> Prefix(SubSeq(segment, 1, Max(ends))),
              name |-> SubSeq(segment, Max(ends) + 1, Len(segment))]

\* A segment as its author meant it, [uri, name], is written uri:name.
Text(segment) == segment.uri \o segment.name

to_qualified_names(path) == [i \in DOMAIN path |-> to_qualified_name(Text(path[i]))]

is_regex(segment) == Text(segment) = <<"regex(.*)">>

NoNode == [ns |-> -1, id |-> NoId]

\* `nsu=<uri>;<id>`, or `ns=<index>;<id>` where the URI is empty.
parse_node_id(text) ==
    LET ns == IF text.uri = <<>> THEN text.index ELSE index_of(text.uri)
    IN  IF ns < 0 \/ text.id = NoId THEN NoNode ELSE [ns |-> ns, id |-> text.id]

-----------------------------------------------------------------------------
(* constraints.rs, and the allow-list before it.                           *)

matches_server_ids(t) == t.serverIds # {} /\ Server \notin t.serverIds => t.serverIds \cap known = {}

matches_node_ids(t) ==
    t.nodeIds # {} =>
        /\ t.root # NoText
        /\ parse_node_id(t.root) # NoNode
        /\ \E candidate \in t.nodeIds : parse_node_id(candidate) = parse_node_id(t.root)

accepts_device_type(t) == allowed = {} \/ t.id \in allowed

applies(t) == t.enabled /\ matches_server_ids(t) /\ matches_node_ids(t)

-----------------------------------------------------------------------------
(* resolve.rs.                                                             *)

NoDelivery == [mode |-> "none"]

\* How a subscriptionType delivers; a rate of 0 stands for one that is absent.
delivery_of(type) ==
    CASE type.kind = "subscription" /\ type.params \in ValidParameters ->
            [mode |-> "subscription", params |-> type.params]
      [] type.kind = "cyclic" ->
            [mode |-> "cyclic", maxAge |-> type.maxAge,
             rate |-> IF type.rate > 0 THEN type.rate ELSE DEFAULT_READ_RATE_MS]
      [] OTHER -> NoDelivery

read_schedule_of(delivery) ==
    IF delivery.mode = "cyclic" THEN <<delivery.rate, Max({0, delivery.maxAge})>> ELSE <<>>

\* The first overridden subscription of that path wins over the device type's own.
DeliveryFor(t, path) ==
    LET first == SelectInSeq(t.overrides, LAMBDA o : /\ o.path # <<>>
                                                     /\ to_qualified_names(o.path) = path)
    IN  delivery_of(IF first = 0 THEN t.default ELSE t.overrides[first].type)

\* What the i-th mapping creates; an action is known by where it is from.
actions_of(t, i) ==
    LET Action(kind) ==
            IF kind \in t.mappings[i].creations THEN <<[mapping |-> i, kind |-> kind]>> ELSE <<>>
    IN  Action("measurement") \o Action("event") \o Action("alarm")

\* In place of an entry that is ignored.
NoEntry == [ref |-> NoNode, path |-> <<>>, delivery |-> NoDelivery, actions |-> <<>>]

\* The entry the i-th mapping makes, if it is one this gateway supports.
EntryOf(t, i) ==
    LET entry == t.mappings[i]
        path == to_qualified_names(entry.path)
        delivery == DeliveryFor(t, path)
        ref == IF entry.ref = NoText THEN NoNode ELSE parse_node_id(entry.ref)
    IN  IF \/ entry.creations = {}
           \/ \E j \in DOMAIN entry.path : is_regex(entry.path[j])
           \/ entry.ref # NoText /\ ref = NoNode
           \/ entry.ref = NoText /\ path = <<>>
           \/ delivery = NoDelivery
        THEN NoEntry
        ELSE [ref |-> ref, path |-> path, delivery |-> delivery, actions |-> actions_of(t, i)]

RootFolder == [uri |-> <<>>, index |-> 0, id |-> "root"]

\* Which device type, where to start from, and the entries to bind.
plan_of(t) ==
    [id |-> t.id,
     root |-> parse_node_id(IF t.root = NoText THEN RootFolder ELSE t.root),
     entries |-> [i \in DOMAIN t.mappings |-> EntryOf(t, i)]]

\* Entries that have a path and no node, and the place of one among them.
Pending(p) == {i \in DOMAIN p.entries : p.entries[i].ref = NoNode /\ p.entries[i] # NoEntry}

Place(p, i) == Cardinality({j \in Pending(p) : j <= i})

\* Which entries ask, in order.
pending_paths(p) ==
    [n \in 1 .. Cardinality(Pending(p)) |-> CHOOSE i \in Pending(p) : Place(p, i) = n]

\* Mistake: the answers go to the first entries.
set_resolved_FromTheFirst(p, answers) ==
    [p EXCEPT !.entries =
        [i \in DOMAIN @ |-> IF i \in DOMAIN answers THEN [@[i] EXCEPT !.ref = answers[i]] ELSE @[i]]]

\* The answers, one for each pending path, go to the entries that asked.
set_resolved(p, answers) ==
    [p EXCEPT !.entries =
        [i \in DOMAIN @ |->
            IF i \in Pending(p) THEN [@[i] EXCEPT !.ref = answers[Place(p, i)]] ELSE @[i]]]

\* What is collected for an entry alone.
NodeOf(entry) == [id |-> entry.ref, delivery |-> entry.delivery, actions |-> entry.actions]

\* Nodes that are delivered alike: in the same mode and on the same schedule.
Alike(n, other) ==
    /\ n.id = other.id
    /\ n.delivery.mode = other.delivery.mode
    /\ read_schedule_of(n.delivery) = read_schedule_of(other.delivery)

\* Mistake: every entry has a node of its own.
Bind_Always(nodes, entry) == Append(nodes, NodeOf(entry))

\* An entry joins the node that is delivered like it, whose subscription
\* parameters it takes over.
Bind(nodes, entry) ==
    LET existing == SelectInSeq(nodes, LAMBDA n : Alike(n, NodeOf(entry)))
    IN  IF existing > 0 THEN [nodes EXCEPT ![existing].actions = @ \o entry.actions]
        ELSE Append(nodes, NodeOf(entry))

\* Entries without a node are dropped, the others bound one after the other.
Bound(entries) ==
    LET nodes[n \in 0 .. Len(entries)] ==
            IF n = 0 THEN <<>>
            ELSE IF entries[n].ref = NoNode THEN nodes[n - 1] ELSE Bind(nodes[n - 1], entries[n])
    IN  nodes

finish(p) == [id |-> p.id, nodes |-> Bound(p.entries)[Len(p.entries)]]

-----------------------------------------------------------------------------
(* The server.                                                             *)

\* What a NodeId and a qualified name are to the server; their namespace may be a
\* number it does not use.
NodeAt(node) ==
    IF node.ns < Len(table) THEN [uri |-> table[node.ns + 1], id |-> node.id]
    ELSE [number |-> node.ns, id |-> node.id]

NameAt(name) ==
    IF name.ns < Len(table) THEN [uri |-> table[name.ns + 1], name |-> name.name]
    ELSE [number |-> name.ns, name |-> name.name]

\* Targets of a path.
TargetsOf(root, path) ==
    LET from == [root |-> NodeAt(root), path |-> [i \in DOMAIN path |-> NameAt(path[i])]]
    IN  IF from \in DOMAIN Space THEN Space[from] ELSE <<>>

\* translate_browse_paths for one path: the first target that is the path's end,
\* unless the server has no number for its namespace.
Translated(root, path) ==
    LET targets == TargetsOf(root, path)
        end == SelectInSeq(targets, LAMBDA target : target.whole)
    IN  IF end = 0 \/ index_of(targets[end].uri) < 0 THEN NoNode
        ELSE [ns |-> index_of(targets[end].uri), id |-> targets[end].id]

\* Those of one request, for every pending path.
Answers(p) ==
    LET pending == pending_paths(p)
    IN  [n \in DOMAIN pending |-> Translated(p.root, p.entries[pending[n]].path)]

-----------------------------------------------------------------------------
(* resolve_all.                                                            *)

NoPlan == [id |-> NoText, root |-> NoNode, entries |-> <<>>]

ResolveInit ==
    /\ loaded \in Catalogs
    /\ table \in Tables
    /\ known \in KnownIds
    /\ allowed \in AllowLists
    /\ at = "table"
    /\ todo = loaded
    /\ plan = NoPlan
    /\ out = <<>>

\* namespace_array answers.
ReadTable ==
    /\ at = "table"
    /\ at' = "next"
    /\ UNCHANGED <<inputs, todo, plan, out>>

\* One device type is done with; it is left out if no node of it resolved.
Conclude(p) ==
    /\ out' = IF finish(p).nodes = <<>> THEN out ELSE Append(out, finish(p))
    /\ todo' = Tail(todo)
    /\ plan' = NoPlan
    /\ at' = "next"

\* A device type that does not apply here, or whose root has no meaning here.
PassOver ==
    /\ at = "next"
    /\ todo # <<>>
    /\ \/ ~accepts_device_type(Head(todo))
       \/ ~applies(Head(todo))
       \/ plan_of(Head(todo)).root = NoNode
    /\ todo' = Tail(todo)
    /\ UNCHANGED <<inputs, at, plan, out>>

\* The next device type is planned, and bound at once if no path is pending.
PlanNext ==
    /\ at = "next"
    /\ todo # <<>>
    /\ accepts_device_type(Head(todo))
    /\ applies(Head(todo))
    /\ LET p == plan_of(Head(todo))
       IN  /\ p.root # NoNode
           /\ IF Pending(p) = {}
              THEN Conclude(p)
              ELSE /\ plan' = p
                   /\ at' = "translate"
                   /\ UNCHANGED <<todo, out>>
    /\ UNCHANGED inputs

\* One request translates the pending paths of the device type.
Translate ==
    /\ at = "translate"
    /\ Conclude(set_resolved(plan, Answers(plan)))
    /\ UNCHANGED inputs

\* Either request fails, and with it resolve_all: nothing is applied.
RequestFails ==
    /\ at \in {"table", "translate"}
    /\ at' = "failed"
    /\ out' = <<>>
    /\ todo' = <<>>
    /\ plan' = NoPlan
    /\ UNCHANGED inputs

AllDone ==
    /\ at = "next"
    /\ todo = <<>>
    /\ at' = "done"
    /\ UNCHANGED <<inputs, todo, plan, out>>

ResolveNext ==
    \/ ReadTable
    \/ PassOver
    \/ PlanNext
    \/ Translate
    \/ RequestFails
    \/ AllDone

ResolveSpec == ResolveInit /\ [][ResolveNext]_resolveVars

-----------------------------------------------------------------------------
(* What the author of a device type means, in terms of URIs alone.         *)

Uris == {table[i] : i \in DOMAIN table}

\* A namespace may be written as a number.
IsNumber(uri) == Len(uri) = 1 /\ uri[1] \in DOMAIN Numeral

\* A name with a namespace the server does not have is one of the OPC UA namespace.
NameMeant(segment) ==
    IF IsNumber(segment.uri) THEN NameAt([ns |-> Numeral[segment.uri[1]], name |-> segment.name])
    ELSE IF segment.uri \in Uris THEN [uri |-> segment.uri, name |-> segment.name]
    ELSE [uri |-> UaUri, name |-> Text(segment)]

PathMeant(path) == [i \in DOMAIN path |-> NameMeant(path[i])]

NodeMeant(text) ==
    IF text.uri = <<>> THEN NodeAt([ns |-> text.index, id |-> text.id])
    ELSE [uri |-> text.uri, id |-> text.id]

\* An id that is written well, by number or in a namespace the server has.
IsMeaningful(text) == text.id # NoId /\ (text.uri = <<>> \/ text.uri \in Uris)

RootMeant(t) == NodeMeant(IF t.root = NoText THEN RootFolder ELSE t.root)

\* Where an entry's values come from: the node it names, or else the first one at
\* the end of its path, if the server has a number for its namespace.
NodesMeant(t, entry) ==
    LET from == [root |-> RootMeant(t), path |-> PathMeant(entry.path)]
        Ends == {i \in DOMAIN Space[from] : Space[from][i].whole}
        first == {Space[from][i] : i \in {j \in Ends : \A k \in Ends : j <= k}}
    IN  IF entry.ref # NoText
        THEN IF IsMeaningful(entry.ref) THEN {NodeMeant(entry.ref)} ELSE {}
        ELSE IF from \in DOMAIN Space
             THEN {[uri |-> end.uri, id |-> end.id] : end \in {e \in first : e.uri \in Uris}}
             ELSE {}

\* How its values come: as the first override of its path has it, or the default.
DeliveryMeant(t, entry) ==
    LET first == SelectInSeq(t.overrides, LAMBDA o : /\ o.path # <<>>
                                                     /\ PathMeant(o.path) = PathMeant(entry.path))
    IN  delivery_of(IF first = 0 THEN t.default ELSE t.overrides[first].type)

\* Device types that are to be applied on this server.
Applicable(t) ==
    /\ t.enabled
    /\ allowed # {} => t.id \in allowed
    /\ t.serverIds = {} \/ Server \in t.serverIds \/ t.serverIds \cap known = {}
    /\ t.root # NoText => IsMeaningful(t.root)
    /\ t.nodeIds # {} =>
        t.root # NoText /\ \E n \in t.nodeIds : IsMeaningful(n) /\ NodeMeant(n) = NodeMeant(t.root)

\* What the i-th mapping of a device type asks for: this of that node, delivered
\* in such a way.
AskedBy(t, i) ==
    LET delivery == DeliveryMeant(t, t.mappings[i])
    IN  {[node |-> node, mode |-> delivery.mode, schedule |-> read_schedule_of(delivery),
          mapping |-> i, kind |-> kind] :
            node \in NodesMeant(t, t.mappings[i]), kind \in t.mappings[i].creations}

\* Mappings this gateway supports.
IsSupported(t, i) ==
    /\ DeliveryMeant(t, t.mappings[i]) # NoDelivery
    /\ \A k \in DOMAIN t.mappings[i].path : ~is_regex(t.mappings[i].path[k])

Asked(t) == UNION {AskedBy(t, i) : i \in {j \in DOMAIN t.mappings : IsSupported(t, j)}}

\* What is collected, and what a device type got.
CollectedBy(node) ==
    {[node |-> NodeAt(node.id), mode |-> node.delivery.mode, schedule |-> read_schedule_of(node.delivery),
      mapping |-> node.actions[k].mapping, kind |-> node.actions[k].kind] : k \in DOMAIN node.actions}

Collected(nodes) == UNION {CollectedBy(nodes[j]) : j \in DOMAIN nodes}

Got(id) == UNION {Collected(out[m].nodes) : m \in {l \in DOMAIN out : out[l].id = id}}

\* A segment whose text reads in one way only: of all its colons just the
\* author's has the URI of a namespace before it.
ReadsOneWay(segment) ==
    \A k \in 1 .. Len(Text(segment)) - 1 :
        Prefix(SubSeq(Text(segment), 1, k)) >= 0 =>
            k = Len(segment.uri) \/ (k < Len(segment.uri) /\ Prefix(segment.uri) >= 0)

IsUnambiguous(t) == \A path \in Paths(t) : \A i \in DOMAIN path : ReadsOneWay(path[i])

\* A device type got what it asks for, which is nothing if it does not apply.
GotAsMeant(t) == IsUnambiguous(t) => Got(t.id) = IF Applicable(t) THEN Asked(t) ELSE {}

-----------------------------------------------------------------------------
\* "Device types are authored against namespace URIs, while a live session
\* addresses namespaces by index": every device type that applies gets, of each
\* of its entries this gateway supports, the node its author meant, delivered the
\* way the author meant, whatever index the server gives a URI and whatever else
\* is wrong with its other entries or with other device types.
AsAuthored == at = "done" => \A t \in ToSet(loaded) : GotAsMeant(t)

\* Nodes differ in identity, mode or schedule.
IsApart(nodes) == \A j, k \in DOMAIN nodes : Alike(nodes[j], nodes[k]) => j = k

\* An action hangs on one node, once.
IsInOnePlace(nodes) ==
    \A j, k \in DOMAIN nodes : \A a \in DOMAIN nodes[j].actions, b \in DOMAIN nodes[k].actions :
        nodes[j].actions[a] = nodes[k].actions[b] => j = k /\ a = b

\* No value is collected twice for one purpose: an action hangs on one node only,
\* and nodes of a device type differ in identity, mode or schedule.
CollectedOnce ==
    \A m \in DOMAIN out : IsApart(out[m].nodes) /\ IsInOnePlace(out[m].nodes)

-----------------------------------------------------------------------------
(* What the proofs add: how far the loop is, and what it has by then.      *)

\* How many device types are done with, and which.
Passed == Len(loaded) - Len(todo)

PassedTypes == {loaded[i] : i \in 1 .. Passed}

ResolveTypeOK ==
    /\ loaded \in Catalogs
    /\ table \in Tables
    /\ known \in KnownIds
    /\ allowed \in AllowLists
    /\ at \in {"table", "next", "translate", "done", "failed"}
    /\ todo \in Seq(ToSet(loaded))
    /\ out \in Seq(ToSet(out))

\* The rest is what is left of the device types; a plan is of the first of these.
InTurn ==
    /\ at # "failed" => Passed >= 0 /\ todo = SubSeq(loaded, Passed + 1, Len(loaded))
    /\ at = "done" => todo = <<>>
    /\ at = "translate" =>
        /\ todo # <<>>
        /\ \E t \in ToSet(loaded) :
            /\ t = Head(todo)
            /\ accepts_device_type(t) /\ applies(t)
            /\ plan = plan_of(t) /\ plan.root # NoNode
    /\ at # "translate" => plan = NoPlan

\* Mappings are of device types that are done with, and these got what they ask for.
ByPassed ==
    at # "failed" =>
        /\ \A m \in DOMAIN out : \E t \in PassedTypes : out[m].id = t.id
        /\ \A t \in PassedTypes : GotAsMeant(t)

ResolveIInv ==
    /\ ResolveTypeOK
    /\ InTurn
    /\ ByPassed
    /\ CollectedOnce

=============================================================================
