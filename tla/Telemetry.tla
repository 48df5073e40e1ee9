------------------------------ MODULE Telemetry -----------------------------
(***************************************************************************)
(* Where a value ends up: the topic ids of the entities, from the server   *)
(* definitions of crates/gateway/src/config.rs and the managed objects of  *)
(* cloud_servers.rs through tedge/src/topic.rs to server_task.rs; and the  *)
(* measurement, from a reading through mapping/src/value.rs and payload.rs *)
(* to a message, with the units declared for it.                           *)
(*                                                                         *)
(* A name is a sequence of words and of the characters between them.  A    *)
(* device type has one measurement type.  When readers run, and what they  *)
(* lose, is in ServerTask and Publisher; here one batch is put together at *)
(* a time.                                                                 *)
(***************************************************************************)
EXTENDS Maps, Sequences, SequencesExt

CONSTANTS
    Files,          \* [inline, pushed]: server definitions there may be, in order, the
                    \* pushed ones one to a file
    Objects,        \* ids of the server objects in Cumulocity
    GatewayId,      \* gateway.id
    Lowered,        \* word or character -> what sanitize_id makes of it
    Digits,         \* the words that ids of managed objects are made of
    Types,          \* device types: [id, pulled, nodes]
    Readings,       \* what may be read of a node: [good, kind, n]
    MaxReadings     \* bound on the readings of a batch

None == "none"

NoServer == [id |-> <<>>, name |-> <<>>, topic_id |-> <<>>]
NoType == [id |-> <<>>, pulled |-> FALSE, nodes |-> <<>>]

\* A pushed file that cannot be read or does not parse.
Malformed == NoServer

\* The definitions that can be read, and the nodes of all device types.
Definitions == (UNION {ToSet(f.inline) \cup ToSet(f.pushed) : f \in Files}) \ {Malformed}

Nodes == UNION {ToSet(t.nodes) : t \in Types}

ASSUME NamesAssumption == \A word \in DOMAIN Lowered : Lowered[word] \in DOMAIN Lowered

ASSUME BoundsAssumption == MaxReadings \in Nat \ {0}

\* An inline definition that is malformed is no configuration, and no file sets
\* a topic id.
ASSUME FilesAssumption ==
    /\ \A f \in Files :
        f.inline \in Seq(Definitions) /\ f.pushed \in Seq(Definitions \cup {Malformed})
    /\ \A s \in Definitions : s.topic_id = <<>>

\* Cumulocity gives every device type an id of its own.
ASSUME TypesAssumption ==
    /\ NoType \notin Types
    /\ \A t \in Types : t.nodes \in Seq(Nodes)
    /\ \A t, u \in Types : t.pulled /\ u.pulled /\ t.id = u.id => t = u

VARIABLES
    files,          \* the definitions found
    pc,             \* loading, merging, refused or running
    entries,        \* entries of the server directory that were looked at
    pushed,         \* the definitions read from them
    lost,           \* history: one of them could not be looked at
    merged,         \* pushed definitions that are merged
    servers,        \* config.servers
    cloud,          \* servers listed in Cumulocity
    devices,        \* entities registered, and for what: [entity, server, type]
    meta,           \* entity -> series -> unit, retained
    batch,          \* the MeasurementBuilder, and the device it is for
    added,          \* history: the readings it was offered: [node, reading, time]
    sent            \* the message just sent: [entity, fragments, time, from]

config == <<files, pc, entries, pushed, lost, merged, servers>>
vars == <<files, pc, entries, pushed, lost, merged, servers, cloud, devices, meta, batch, added, sent>>

-----------------------------------------------------------------------------
(* topic.rs.                                                               *)

\* Characters a topic must not have become dashes, runs of dashes one, and there
\* is none at either end.
sanitize_id(name) ==
    LET Dash(out, c) == IF c = "-" /\ (out = <<>> \/ Last(out) = "-") THEN out ELSE Append(out, c)
        out == FoldLeft(Dash, <<>>, [i \in DOMAIN name |-> Lowered[name[i]]])
    IN  IF out = <<>> THEN <<"unnamed">>
        ELSE IF Last(out) = "-" THEN Front(out) ELSE out

main_device == <<"main">>

gateway_entity == sanitize_id(GatewayId)

Device(entity, s, t) == [entity |-> entity, server |-> s, type |-> t]

\* An adopted server is known by its managed object, any other by its name.
topic_id(s) == sanitize_id(IF s.topic_id = <<>> THEN s.name ELSE s.topic_id)

\* Mistake: nothing separates the ids.
applied_entity_Joined(s, t) == topic_id(s) \o sanitize_id(t.id)

applied_entity(s, t) == topic_id(s) \o <<"-">> \o sanitize_id(t.id)

\* Ids of managed objects are digits: no dashes, and nothing to sanitize.
ASSUME ObjectsAssumption ==
    /\ "-" \notin Digits /\ <<>> \notin Objects
    /\ \A id \in Objects \cup {t.id : t \in {u \in Types : u.pulled}} :
        id \in Seq(Digits) /\ sanitize_id(id) = id

\* The gateway is not named like a managed object.
ASSUME GatewayAssumption ==
    \A entity \in {main_device, gateway_entity} : entity \notin Seq(Digits \cup {"-"})

-----------------------------------------------------------------------------
(* config.rs.                                                              *)

Ids(list) == [i \in DOMAIN list |-> list[i].id]

\* Mistake: of two definitions of a server the first stays.
Put_FirstWins(out, s) == IF s.id \in ToSet(Ids(out)) THEN out ELSE Append(out, s)

\* A definition takes the place of the first one with its id.
Put(out, s) ==
    LET Replaced(i) == out[i].id = s.id /\ \A k \in 1 .. i - 1 : out[k].id # s.id
    IN  IF s.id \in ToSet(Ids(out))
        THEN [i \in DOMAIN out |-> IF Replaced(i) THEN s ELSE out[i]]
        ELSE Append(out, s)

\* One turn of its loops.  One malformed file and the gateway does not start; but
\* an entry of the directory that is an error is passed over.
load_server_dir ==
    /\ pc = "loading"
    /\ entries < Len(files.pushed)
    /\ entries' = entries + 1
    /\ LET file == files.pushed[entries + 1] IN
        \/ lost' = TRUE /\ UNCHANGED <<pc, pushed>>
        \/ file = Malformed /\ pc' = "refused" /\ UNCHANGED <<pushed, lost>>
        \/ file # Malformed /\ pushed' = Append(pushed, file) /\ UNCHANGED <<pc, lost>>
    /\ UNCHANGED <<files, merged, servers, cloud, devices, meta, batch, added, sent>>

load ==
    /\ pc = "loading"
    /\ entries = Len(files.pushed)
    /\ pc' = "merging"
    /\ servers' = files.inline
    /\ UNCHANGED <<files, entries, pushed, lost, merged, cloud, devices, meta, batch, added, sent>>

\* One turn of its loop.
merge_servers ==
    /\ pc = "merging" /\ merged < Len(pushed)
    /\ servers' = Put(servers, pushed[merged + 1])
    /\ merged' = merged + 1
    /\ UNCHANGED <<files, pc, entries, pushed, lost, cloud, devices, meta, batch, added, sent>>

\* Nor does it with two servers of one id, or one with a blank id or name, unless
\* a pushed definition took its place.
validate ==
    /\ pc = "merging" /\ merged = Len(pushed)
    /\ IF IsInjective(Ids(servers)) /\ \A s \in ToSet(servers) : <<>> \notin {s.id, s.name}
       THEN /\ pc' = "running"
            /\ devices' = {Device(e, NoServer, NoType) : e \in {main_device, gateway_entity}}
       ELSE pc' = "refused" /\ UNCHANGED devices
    /\ UNCHANGED <<files, entries, pushed, lost, merged, servers, cloud, meta, batch, added, sent>>

-----------------------------------------------------------------------------
(* cloud_servers.rs, supervisor.rs and server_task.rs.                     *)

\* A managed object may have any name.
Adopted(object) == [id |-> object, name |-> <<"-">>, topic_id |-> object]

Adopt(object) ==
    /\ pc = "running"
    /\ Adopted(object) \notin cloud
    /\ cloud' = cloud \cup {Adopted(object)}
    /\ UNCHANGED <<config, devices, meta, batch, added, sent>>

\* What runs: a server configured on the device wins.
desired == ToSet(servers) \cup {s \in cloud : s.id \notin ToSet(Ids(servers))}

Register(s) ==
    /\ pc = "running"
    /\ devices' = devices \cup {Device(topic_id(s), s, NoType)}
    /\ UNCHANGED <<config, cloud, meta, batch, added, sent>>

-----------------------------------------------------------------------------
(* model.rs and value.rs.                                                  *)

series_name(node) == IF node.series = None THEN <<"series", node.simplified>> ELSE <<node.series>>

fragment_name(node) ==
    IF node.fragment = None THEN <<"measurement", node.simplified>> ELSE <<node.fragment>>

is_bad(r) == ~r.good \/ r.kind = "empty"

\* Numbers, truth values as 0 and 1, and texts that are numbers.
is_number(r) == r.kind \in {"number", "flag", "numeral"}

-----------------------------------------------------------------------------
(* resolve.rs and payload.rs.                                              *)

\* Where a device type declares units, and where one of a series.
Units(t) == {i \in DOMAIN t.nodes : t.nodes[i].unit # None}

UnitsOf(t, series) == {i \in Units(t) : series_name(t.nodes[i]) = series}

\* Of nodes that share a series the last one gives the unit.
LastUnit(t, series) ==
    LET last == CHOOSE i \in UnitsOf(t, series) : \A k \in UnitsOf(t, series) : k <= i
    IN  t.nodes[last].unit

\* Mistake: the unit is declared for the series as it is configured.
measurement_meta_Raw(t) ==
    LET Raw(i) == <<t.nodes[i].series>>
    IN  [series \in {Raw(i) : i \in Units(t)} |->
            t.nodes[CHOOSE i \in Units(t) : Raw(i) = series].unit]

measurement_meta(t) ==
    [series \in {series_name(t.nodes[i]) : i \in Units(t)} |-> LastUnit(t, series)]

\* A device type is applied to a server: a device below it, and its units.
Apply(s, t) ==
    /\ Device(topic_id(s), s, NoType) \in devices
    /\ LET e == applied_entity(s, t) IN
        /\ devices' = devices \cup {Device(e, s, t)}
        /\ meta' = IF Units(t) = {} THEN meta ELSE MapInsert(meta, e, measurement_meta(t))
    /\ UNCHANGED <<config, cloud, batch, added, sent>>

Empty == [entity |-> <<>>, fragments |-> EmptyMap, time |-> 0]

NoMessage == [entity |-> <<>>, fragments |-> EmptyMap, time |-> 0, from |-> <<>>]

\* Mistake: a static fragment replaces the one that is there.
Statics_Insert(fragments, names) ==
    [f \in DOMAIN fragments \cup names |-> IF f \in names THEN EmptyMap ELSE fragments[f]]

\* Static fragments are empty, and leave one that is there alone.
Statics(fragments, names) ==
    [f \in DOMAIN fragments \cup names |-> IF f \in DOMAIN fragments THEN fragments[f] ELSE EmptyMap]

\* MeasurementBuilder::add: series by fragment; the first number dates the message.
add(builder, node, r, time) ==
    LET f == fragment_name(node)
        series == IF f \in DOMAIN builder.fragments THEN builder.fragments[f] ELSE EmptyMap
        fragments == MapInsert(builder.fragments, f, MapInsert(series, series_name(node), r.n))
    IN  [builder EXCEPT !.fragments = Statics(fragments, node.statics),
                        !.time = IF @ = 0 THEN time ELSE @]

\* Publisher::accept.
Accept(d, node, r) ==
    /\ added = <<>> \/ batch.entity = d.entity
    /\ Len(added) < MaxReadings
    /\ added' = Append(added, [node |-> node, reading |-> r, time |-> Len(added) + 1])
    /\ batch' = IF is_bad(r) \/ ~is_number(r) THEN [batch EXCEPT !.entity = d.entity]
                ELSE add([batch EXCEPT !.entity = d.entity], node, r, Len(added) + 1)
    /\ sent' = NoMessage
    /\ UNCHANGED <<config, cloud, devices, meta>>

Reads ==
    \E d \in devices : \E node \in ToSet(d.type.nodes), r \in Readings : Accept(d, node, r)

\* Publisher::flush: a batch without a number is no message.
flush ==
    /\ added # <<>>
    /\ sent' = IF batch.time = 0 THEN NoMessage
               ELSE [entity |-> batch.entity, fragments |-> batch.fragments, time |-> batch.time,
                     from |-> added]
    /\ batch' = Empty
    /\ added' = <<>>
    /\ UNCHANGED <<config, cloud, devices, meta>>

Init ==
    /\ files \in Files
    /\ pc = "loading" /\ entries = 0 /\ pushed = <<>> /\ lost = FALSE /\ merged = 0
    /\ servers = <<>> /\ cloud = {}
    /\ devices = {} /\ meta = EmptyMap
    /\ batch = Empty /\ added = <<>> /\ sent = NoMessage

Next ==
    \/ load_server_dir \/ load \/ merge_servers \/ validate \/ Reads \/ flush
    \/ \E object \in Objects : Adopt(object)
    \/ \E s \in desired : Register(s) \/ \E t \in Types : Apply(s, t)

Spec == Init /\ [][Next]_vars

-----------------------------------------------------------------------------
\* config.rs:470, "a server we cannot read means data silently never arrives from
\* it": a gateway that starts runs every server that is defined, once, as its
\* last definition says, a pushed one before an inline one; and when entries of
\* the directory could not be looked at, all that the others define.
\* (`Latest` are the last definitions of each id.)
Latest(list) ==
    {list[i] : i \in {j \in DOMAIN list : \A k \in j + 1 .. Len(list) : list[k].id # list[j].id}}

ServedAsWritten ==
    pc = "running" =>
        /\ IsInjective(Ids(servers))
        /\ ToSet(servers) = Latest(files.inline \o pushed)
        /\ ~lost => pushed = files.pushed

\* The device is the main one, the gateway, or known by managed objects alone.
OfCumulocity(d) ==
    \/ d.server = NoServer
    \/ d.server.topic_id # <<>> /\ (d.type = NoType \/ d.type.pulled)

\* server_task.rs:36, "each applied device type is its own device": no two
\* devices share an entity when their servers and device types were registered
\* in Cumulocity, whatever the names there and whatever else is configured.
DevicesApart ==
    \A d, e \in devices :
        OfCumulocity(d) /\ OfCumulocity(e) /\ d.entity = e.entity => d = e

\* A message says what was read, in whatever order: the newest number of every
\* series, dated by the first, all static fragments, and nothing else: no series
\* and no fragment that no number was read for.
Numbers(from) == {i \in DOMAIN from : ~is_bad(from[i].reading) /\ is_number(from[i].reading)}

Says(message, from) ==
    LET F(i) == fragment_name(from[i].node)
        S(i) == series_name(from[i].node)
    IN  /\ \E i \in Numbers(from) :
            message.time = from[i].time /\ \A k \in Numbers(from) : i <= k
        /\ \A i \in Numbers(from) :
            /\ from[i].node.statics \subseteq DOMAIN message.fragments
            /\ F(i) \in DOMAIN message.fragments /\ S(i) \in DOMAIN message.fragments[F(i)]
            /\ \/ message.fragments[F(i)][S(i)] = from[i].reading.n
               \/ \E k \in Numbers(from) : i < k /\ F(k) = F(i) /\ S(k) = S(i)
        /\ \A f \in DOMAIN message.fragments : \A s \in DOMAIN message.fragments[f] :
            \E i \in Numbers(from) : F(i) = f /\ S(i) = s
        /\ \A f \in DOMAIN message.fragments :
            \E i \in Numbers(from) : f \in {F(i)} \cup from[i].node.statics

AsRead == sent # NoMessage => Says(sent, sent.from)

\* The unit of every node that was read for a message was declared, under the
\* name its series has there, before the message is sent: unless another node of
\* the device gives that name another unit, or a device type that shares the
\* entity declares its units in place of these.
UnitsFit ==
    LET Sharing == {d \in devices : d.entity = sent.entity /\ Units(d.type) # {}}
        Contested(node) ==
            \E d \in Sharing :
                \/ node \notin ToSet(d.type.nodes)
                \/ \E other \in ToSet(d.type.nodes) :
                    series_name(other) = series_name(node) /\ other.unit \notin {None, node.unit}
    IN  \A i \in DOMAIN sent.from : LET node == sent.from[i].node IN
            node.unit # None /\ ~Contested(node)
            => /\ sent.entity \in DOMAIN meta
               /\ series_name(node) \in DOMAIN meta[sent.entity]
               /\ meta[sent.entity][series_name(node)] = node.unit

-----------------------------------------------------------------------------
(* What the proofs add: the types, and why the four are kept.              *)

Servers == Definitions \cup {Adopted(object) : object \in Objects}

Entities ==
    {main_device, gateway_entity} \cup {topic_id(s) : s \in Servers}
        \cup {applied_entity(s, t) : s \in Servers, t \in Types}

Fragments == {fragment_name(node) : node \in Nodes} \cup UNION {node.statics : node \in Nodes}

Series == {series_name(node) : node \in Nodes}

Contents == MapsOf(Fragments, MapsOf(Series, {r.n : r \in Readings}))

Offers == [node : Nodes, reading : Readings, time : 1 .. MaxReadings]

Batches == [entity : Entities \cup {<<>>}, fragments : Contents, time : 0 .. MaxReadings]

Sent == [entity : Entities \cup {<<>>}, fragments : Contents, time : 0 .. MaxReadings, from : Seq(Offers)]

TypeOK ==
    /\ files \in Files
    /\ pc \in {"loading", "merging", "refused", "running"}
    /\ entries \in 0 .. Len(files.pushed) /\ pushed \in Seq(Definitions) /\ lost \in BOOLEAN
    /\ merged \in 0 .. Len(pushed)
    /\ servers \in Seq(Definitions)
    /\ cloud \subseteq {Adopted(object) : object \in Objects}
    /\ devices \subseteq [entity : Entities, server : Servers \cup {NoServer}, type : Types \cup {NoType}]
    /\ IsMap(meta, Entities, MapsOf(Series, {node.unit : node \in Nodes}))
    /\ batch \in Batches
    /\ added \in Seq(Offers)
    /\ sent \in Sent

\* What was merged so far: the inline definitions, and so many pushed ones.
Written == files.inline \o SubSeq(pushed, 1, merged)

\* As long as no id is there twice, the last definition of each id is there.
Merged ==
    /\ pc = "loading" => merged = 0
    /\ pc \in {"merging", "running"} => entries = Len(files.pushed)
    /\ ~lost /\ pc # "refused" => pushed = SubSeq(files.pushed, 1, entries)
    /\ pc = "running" => merged = Len(pushed) /\ IsInjective(Ids(servers))
    /\ pc \in {"merging", "running"} /\ IsInjective(Ids(servers)) =>
        ToSet(servers) = Latest(Written)

\* A device has the entity of what it was registered for, by a gateway that runs.
NamedFor ==
    /\ pc # "running" => devices = {}
    /\ \A d \in devices :
        \/ d.server = NoServer /\ d.type = NoType /\ d.entity \in {main_device, gateway_entity}
        \/ d.server \in Servers /\ d.type = NoType /\ d.entity = topic_id(d.server)
        \/ d.server \in Servers /\ d.type \in Types /\ d.entity = applied_entity(d.server, d.type)

\* Units declared for an entity are those of a device that has it.
Declared ==
    \A d \in devices : Units(d.type) # {} =>
        \E e \in devices :
            /\ e.entity = d.entity /\ Units(e.type) # {}
            /\ d.entity \in DOMAIN meta /\ meta[d.entity] = measurement_meta(e.type)

\* A batch is of one device, or of devices that share an entity.
ReadOf(from, entity) ==
    \A i \in DOMAIN from :
        \E d \in devices : d.entity = entity /\ from[i].node \in ToSet(d.type.nodes)

OfOneEntity == ReadOf(added, batch.entity) /\ ReadOf(sent.from, sent.entity)

\* A batch says what was read as a message does, and nothing without a number.
SaysSoFar(builder, from) ==
    IF Numbers(from) = {} THEN builder.time = 0 /\ builder.fragments = EmptyMap
    ELSE builder.time # 0 /\ Says(builder, from)

BatchSays == SaysSoFar(batch, added)

\* The inductive invariant.
IInv ==
    /\ TypeOK
    /\ Merged
    /\ NamedFor
    /\ Declared
    /\ OfOneEntity
    /\ BatchSays
    /\ AsRead

=============================================================================
