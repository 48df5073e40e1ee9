------------------------------ MODULE Publisher -----------------------------
(***************************************************************************)
(* crates/gateway/src/publish.rs, the two loops of server_task.rs that     *)
(* feed it, and the notification callback of opcua-conn: the way of a      *)
(* value from the OPC UA server to the broker.                             *)
(*                                                                         *)
(* A subscription delivers through a bounded channel that drops what finds *)
(* no room; a cyclic read takes all nodes at once.  Measurements are       *)
(* batched, events and alarms are published as they come.  Every publish   *)
(* waits for room among the MQTT client's requests.  When a generation of  *)
(* readers ends its token is cancelled and the readers are aborted.        *)
(*                                                                         *)
(* Changes of values are numbered: the number stands for value and time of *)
(* a measurement.  `level` is what events and alarms make of it.  A type   *)
(* stands for device and type, so no two devices share one.                *)
(***************************************************************************)
EXTENDS Maps, Sequences, SequencesExt

CONSTANTS
    NodeOrder,          \* the nodes that are read, in the order of the mapping
    ActionsOf,          \* node -> its actions: a sequence of [kind, type]
    LevelsOf,           \* node -> what its value may become
    ChannelCapacity,    \* subscription.channel_capacity
    FlushMaxSeries,     \* subscription.flush_max_series
    Capacity,           \* room among the MQTT client's requests
    MaxChanges,         \* bound on changes of values
    MaxGenerations      \* bound on generations of readers

Nodes == {NodeOrder[i] : i \in DOMAIN NodeOrder}

ActionKinds == {"measurement", "event", "alarm"}

Types == UNION {{ActionsOf[n][i].type : i \in DOMAIN ActionsOf[n]} : n \in Nodes}

\* The nodes that call for something of a kind and type.
HasAction(n, kind, type) ==
    \E i \in DOMAIN ActionsOf[n] : ActionsOf[n][i] = [kind |-> kind, type |-> type]

\* A measurement message holds the series of a type, one per node.
Series == {s \in Nodes \X Types : HasAction(s[1], "measurement", s[2])}

ASSUME NodeAssumption == NodeOrder \in Seq(Nodes) /\ IsInjective(NodeOrder)

ASSUME ActionAssumption == ActionsOf \in [Nodes -> Seq([kind : ActionKinds, type : Types])]

\* What a value may be: on or off, which are numbers too, a text that is no number,
\* something else that is none, or of bad status.
Levels == {"on", "off", "text", "odd", "bad"}

ASSUME LevelAssumption == LevelsOf \in [Nodes -> SUBSET Levels]

ASSUME BoundAssumption ==
    /\ ChannelCapacity \in Nat \ {0} /\ FlushMaxSeries \in Nat \ {0} /\ Capacity \in Nat \ {0}
    /\ MaxChanges \in Nat \ {0} /\ MaxGenerations \in Nat

VARIABLES
    delivery,       \* how the nodes are read: by "subscription" or "cyclic"
    value,          \* node -> its value on the server: [seq, level]
    changes,        \* how often a value changed
    generation,     \* generations of readers so far
    told,           \* the generation's token is cancelled
    due,            \* monitored items that have not reported for the first time
    channel,        \* notifications: [node, reading]
    lost,           \* history: nodes whose newest notification was dropped
    pc,             \* where the reader is
    cycle,          \* values of this cyclic read still to accept: [node, reading]
    todo,           \* actions still to perform on the value being accepted
    batch,          \* type -> the measurement put together: [time, readings]
    pending,        \* pending_series
    sending,        \* what a flush has yet to publish
    returns,        \* the reader returns after this flush
    last_event,     \* <<node, type>> -> the last event's text
    last_alarm,     \* <<node, type>> -> the last alarm's state
    outbox,         \* the MQTT client's requests, in order
    shown,          \* series -> the newest measurement the broker was given
    texts,          \* <<node, type>> -> the last event the broker was given
    raised,         \* alarm types whose last message raised them
    accepted,       \* history: series -> the newest measurement of this generation
    sent            \* history: series -> the newest published in this generation

server == <<delivery, value, changes>>
incoming == <<due, channel, lost>>
memory == <<last_event, last_alarm>>
broker == <<shown, texts, raised>>
history == <<accepted, sent>>
work == <<cycle, todo, batch, pending, sending, returns>>
vars == <<delivery, value, changes, generation, told, due, channel, lost, pc, cycle, todo, batch,
          pending, sending, returns, last_event, last_alarm, outbox, shown, texts, raised,
          accepted, sent>>

Nothing == [s \in Series |-> 0]

Init ==
    /\ delivery \in {"subscription", "cyclic"}
    /\ value = [n \in Nodes |-> [seq |-> 1, level |-> "off"]]
    /\ changes = 1
    /\ generation = 0
    /\ told = FALSE
    /\ due = {}
    /\ channel = <<>>
    /\ lost = {}
    /\ pc = "gone"
    /\ cycle = <<>>
    /\ todo = <<>>
    /\ batch = EmptyMap
    /\ pending = 0
    /\ sending = EmptyMap
    /\ returns = FALSE
    /\ last_event = EmptyMap
    /\ last_alarm = EmptyMap
    /\ outbox = <<>>
    /\ shown = Nothing
    /\ texts = EmptyMap
    /\ raised = {}
    /\ accepted = Nothing
    /\ sent = Nothing

-----------------------------------------------------------------------------
(* The OPC UA server and the notification callback.                        *)

\* Mistake: the callback makes room by taking out the newest notification.
Notify_ReplacesNewest(n, reading) ==
    /\ channel' = IF Len(channel) < ChannelCapacity
                  THEN Append(channel, [node |-> n, reading |-> reading])
                  ELSE Append(Front(channel), [node |-> n, reading |-> reading])
    /\ lost' = lost \ {n}

\* The callback does not wait: a notification that finds no room is dropped.
Notify(n, reading) ==
    IF Len(channel) < ChannelCapacity
    THEN /\ channel' = Append(channel, [node |-> n, reading |-> reading])
         /\ lost' = lost \ {n}
    ELSE /\ lost' = lost \cup {n}
         /\ UNCHANGED channel

\* A monitored item reports its value at first.
FirstReport(n) ==
    /\ n \in due
    /\ pc # "returned"
    /\ due' = due \ {n}
    /\ Notify(n, value[n])
    /\ UNCHANGED <<server, generation, told, pc, work, memory, outbox, broker, history>>

\* A value changes, and a monitored item that has reported reports that.
Change(n, level) ==
    LET reading == [seq |-> changes + 1, level |-> level]
    IN  /\ changes < MaxChanges
        /\ changes' = changes + 1
        /\ value' = [value EXCEPT ![n] = reading]
        /\ IF delivery = "subscription" /\ pc \notin {"returned", "gone"} /\ n \notin due
           THEN Notify(n, reading)
           ELSE UNCHANGED <<channel, lost>>
        /\ UNCHANGED <<delivery, generation, told, due, pc, work, memory, outbox, broker, history>>

-----------------------------------------------------------------------------
(* The loops.                                                              *)

\* What can be measured, and what is on or off: a text that is no number is off,
\* and anything else that is no number is neither.
as_number(level) == level \in {"on", "off"}

as_bool(level) == level \in {"on", "off", "text"}

\* What a good reading of a node calls for; a bad one is dropped.
Items(n, reading) ==
    IF reading.level = "bad" THEN <<>>
    ELSE [i \in DOMAIN ActionsOf[n] |-> [node |-> n, action |-> ActionsOf[n][i],
                                         reading |-> reading]]

\* `rx.recv()` gives a notification.
Receive ==
    /\ pc = "idle"
    /\ channel # <<>>
    /\ todo' = Items(Head(channel).node, Head(channel).reading)
    /\ channel' = Tail(channel)
    /\ pc' = "accept"
    /\ UNCHANGED <<server, generation, told, due, lost, cycle, batch, pending, sending, returns,
                   memory, outbox, broker, history>>

\* A cycle begins: all nodes are read in one request.
ReadCycle ==
    /\ pc = "idle"
    /\ delivery = "cyclic"
    /\ cycle' = [i \in DOMAIN NodeOrder |-> [node |-> NodeOrder[i],
                                             reading |-> value[NodeOrder[i]]]]
    /\ pc' = "accept"
    /\ UNCHANGED <<server, generation, told, incoming, todo, batch, pending, sending, returns,
                   memory, outbox, broker, history>>

\* What was read of the next node is accepted.
NextValue ==
    /\ pc = "accept"
    /\ todo = <<>>
    /\ cycle # <<>>
    /\ todo' = Items(Head(cycle).node, Head(cycle).reading)
    /\ cycle' = Tail(cycle)
    /\ UNCHANGED <<server, generation, told, incoming, pc, batch, pending, sending, returns,
                   memory, outbox, broker, history>>

\* Mistake: the batch is published but stays.
StartFlush_KeepsBatch(last) ==
    /\ pc' = "flush"
    /\ sending' = batch
    /\ pending' = 0
    /\ returns' = last
    /\ UNCHANGED batch

\* `flush` takes the whole batch, and then publishes type by type.
StartFlush(last) ==
    /\ pc' = "flush"
    /\ sending' = batch
    /\ batch' = EmptyMap
    /\ pending' = 0
    /\ returns' = last

\* The flush interval is over.
Tick ==
    /\ pc = "idle"
    /\ delivery = "subscription"
    /\ batch # EmptyMap
    /\ StartFlush(FALSE)
    /\ UNCHANGED <<server, generation, told, incoming, cycle, todo, memory, outbox, broker, history>>

\* The loop sees its token: a subscription flushes, a cyclic read just returns.
SeeToken ==
    /\ pc = "idle"
    /\ told
    /\ IF delivery = "subscription"
       THEN StartFlush(TRUE)
       ELSE /\ pc' = "returned"
            /\ UNCHANGED <<batch, pending, sending, returns>>
    /\ UNCHANGED <<server, generation, told, incoming, cycle, todo, memory, outbox, broker, history>>

\* `rx.recv()` gives nothing: the session dropped the subscription, and all it
\* had reported is accepted.
SubscriptionDropped ==
    /\ pc = "idle"
    /\ delivery = "subscription"
    /\ channel = <<>>
    /\ StartFlush(TRUE)
    /\ UNCHANGED <<server, generation, told, incoming, cycle, todo, memory, outbox, broker, history>>

-----------------------------------------------------------------------------
(* `accept`, one action at a time, and `flush`.                            *)

\* The last thing published under this key was the same.
Repeats(memorized, key, x) == key \in DOMAIN memorized /\ memorized[key] = x

Accepting(kind) == pc = "accept" /\ todo # <<>> /\ Head(todo).action.kind = kind

\* A publish waits for room.
Publishes(kind, type, body) ==
    /\ Len(outbox) < Capacity
    /\ outbox' = Append(outbox, [kind |-> kind, type |-> type, body |-> body])

\* `MeasurementBuilder::add`: a later reading of a series replaces an earlier one,
\* and the first reading dates the message.
Added(builder, n, seq) ==
    [time |-> builder.time, readings |-> MapInsert(builder.readings, n, seq)]

AddMeasurement ==
    LET item == Head(todo)
        type == item.action.type
        seq == item.reading.seq
        builder == IF type \in DOMAIN batch THEN batch[type]
                   ELSE [time |-> seq, readings |-> EmptyMap]
    IN  /\ Accepting("measurement")
        /\ IF ~as_number(item.reading.level)
           THEN UNCHANGED <<batch, pending, accepted>>
           ELSE /\ batch' = MapInsert(batch, type, Added(builder, item.node, seq))
                /\ pending' = pending + 1
                /\ accepted' = [accepted EXCEPT ![<<item.node, type>>] = seq]
        /\ todo' = Tail(todo)
        /\ UNCHANGED <<server, generation, told, incoming, pc, cycle, sending, returns, memory,
                       outbox, broker, sent>>

\* A cyclic read suppresses an event whose text is the last one's.
PublishEvent ==
    LET item == Head(todo)
        key == <<item.node, item.action.type>>
        text == item.reading.level
        dedup == delivery = "cyclic"
    IN  /\ Accepting("event")
        /\ IF dedup /\ Repeats(last_event, key, text)
           THEN UNCHANGED <<last_event, outbox>>
           ELSE /\ last_event' = IF dedup THEN MapInsert(last_event, key, text) ELSE last_event
                /\ Publishes("event", item.action.type, <<item.node, text>>)
        /\ todo' = Tail(todo)
        /\ UNCHANGED <<server, generation, told, incoming, pc, cycle, batch, pending, sending, returns,
                       last_alarm, broker, history>>

\* Mistake: an alarm this publisher has not raised is not cleared.
PublishAlarm_ClearsOwn ==
    LET item == Head(todo)
        key == <<item.node, item.action.type>>
        active == item.reading.level = "on"
    IN  /\ Accepting("alarm")
        /\ IF ~as_bool(item.reading.level) \/ Repeats(last_alarm, key, active)
              \/ (~active /\ key \notin DOMAIN last_alarm)
           THEN UNCHANGED <<last_alarm, outbox>>
           ELSE /\ last_alarm' = MapInsert(last_alarm, key, active)
                /\ Publishes("alarm", item.action.type, active)
        /\ todo' = Tail(todo)
        /\ UNCHANGED <<server, generation, told, incoming, pc, cycle, batch, pending, sending, returns,
                       last_event, broker, history>>

\* Only transitions of an alarm are published.
PublishAlarm ==
    LET item == Head(todo)
        key == <<item.node, item.action.type>>
        active == item.reading.level = "on"
    IN  /\ Accepting("alarm")
        /\ IF ~as_bool(item.reading.level) \/ Repeats(last_alarm, key, active)
           THEN UNCHANGED <<last_alarm, outbox>>
           ELSE /\ last_alarm' = MapInsert(last_alarm, key, active)
                /\ Publishes("alarm", item.action.type, active)
        /\ todo' = Tail(todo)
        /\ UNCHANGED <<server, generation, told, incoming, pc, cycle, batch, pending, sending, returns,
                       last_event, broker, history>>

\* Everything received is accepted: a cyclic read flushes, a subscription when
\* enough series are pending.
Accepted ==
    /\ pc = "accept"
    /\ todo = <<>>
    /\ cycle = <<>>
    /\ IF delivery = "cyclic" \/ pending >= FlushMaxSeries
       THEN StartFlush(FALSE)
       ELSE /\ pc' = "idle"
            /\ UNCHANGED <<batch, pending, sending, returns>>
    /\ UNCHANGED <<server, generation, told, incoming, cycle, todo, memory, outbox, broker, history>>

\* What a measurement message tells of each series.
Measured(known, type, builder) ==
    [s \in Series |-> IF s[2] = type /\ s[1] \in DOMAIN builder.readings
                      THEN builder.readings[s[1]] ELSE known[s]]

\* Mistake: without room the message is dropped.
FlushType_DoesNotWait(type) ==
    /\ pc = "flush"
    /\ type \in DOMAIN sending
    /\ IF Len(outbox) < Capacity
       THEN Publishes("measurement", type, sending[type])
       ELSE UNCHANGED outbox
    /\ sent' = Measured(sent, type, sending[type])
    /\ sending' = MapRemove(sending, type)
    /\ UNCHANGED <<server, generation, told, incoming, pc, cycle, todo, batch, pending, returns,
                   memory, broker, accepted>>

FlushType(type) ==
    /\ pc = "flush"
    /\ type \in DOMAIN sending
    /\ Publishes("measurement", type, sending[type])
    /\ sent' = Measured(sent, type, sending[type])
    /\ sending' = MapRemove(sending, type)
    /\ UNCHANGED <<server, generation, told, incoming, pc, cycle, todo, batch, pending, returns,
                   memory, broker, accepted>>

Flushed ==
    /\ pc = "flush"
    /\ sending = EmptyMap
    /\ pc' = IF returns THEN "returned" ELSE "idle"
    /\ UNCHANGED <<server, generation, told, incoming, work, memory, outbox, broker, history>>

-----------------------------------------------------------------------------
(* The server task and the MQTT client.                                    *)

\* `generation.cancel()`: device types changed, the task is to end, or the reader
\* has returned.
EndGeneration ==
    /\ pc # "gone"
    /\ ~told
    /\ told' = TRUE
    /\ UNCHANGED <<server, generation, incoming, pc, work, memory, outbox, broker, history>>

\* `readers.shutdown()` aborts the reader wherever it is, and awaits that.  All it
\* had is dropped.
Abort ==
    /\ pc # "gone"
    /\ told
    /\ pc' = "gone"
    /\ due' = {}
    /\ channel' = <<>>
    /\ cycle' = <<>>
    /\ todo' = <<>>
    /\ batch' = EmptyMap
    /\ pending' = 0
    /\ sending' = EmptyMap
    /\ returns' = FALSE
    /\ last_event' = EmptyMap
    /\ last_alarm' = EmptyMap
    /\ UNCHANGED <<server, generation, told, lost, outbox, broker, history>>

\* The next generation: a new subscription and a new publisher.
NewGeneration ==
    /\ pc = "gone"
    /\ generation < MaxGenerations
    /\ generation' = generation + 1
    /\ told' = FALSE
    /\ pc' = "idle"
    /\ due' = IF delivery = "subscription" THEN Nodes ELSE {}
    /\ lost' = {}
    /\ accepted' = Nothing
    /\ sent' = Nothing
    /\ UNCHANGED <<server, channel, work, memory, outbox, broker>>

\* The event loop takes the oldest request, and the broker has it.
Deliver ==
    LET message == Head(outbox)
    IN  /\ outbox # <<>>
        /\ outbox' = Tail(outbox)
        /\ \/ /\ message.kind = "measurement"
              /\ shown' = Measured(shown, message.type, message.body)
              /\ UNCHANGED <<texts, raised>>
           \/ /\ message.kind = "event"
              /\ texts' = MapInsert(texts, <<message.body[1], message.type>>, message.body[2])
              /\ UNCHANGED <<shown, raised>>
           \/ /\ message.kind = "alarm"
              /\ raised' = IF message.body THEN raised \cup {message.type}
                           ELSE raised \ {message.type}
              /\ UNCHANGED <<shown, texts>>
        /\ UNCHANGED <<server, generation, told, incoming, pc, work, memory, history>>

Reader ==
    \/ Receive
    \/ ReadCycle
    \/ NextValue
    \/ Tick
    \/ SeeToken
    \/ AddMeasurement
    \/ PublishEvent
    \/ PublishAlarm
    \/ Accepted
    \/ \E type \in Types : FlushType(type)
    \/ Flushed

Next ==
    \/ Reader
    \/ SubscriptionDropped
    \/ \E n \in Nodes : FirstReport(n)
    \/ \E n \in Nodes : \E level \in LevelsOf[n] : Change(n, level)
    \/ EndGeneration
    \/ Abort
    \/ NewGeneration
    \/ Deliver

Spec == Init /\ [][Next]_vars

\* The server task notices a reader that returned, its abort takes effect, and it
\* starts the next generation: at most one of these can happen at a time.
Replaces == (pc = "returned" /\ EndGeneration) \/ Abort \/ NewGeneration

\* The runtime polls a ready reader and the server task, the server reports every
\* monitored item and the broker comes back.
FairSpec ==
    /\ Spec
    /\ WF_vars(Reader)
    /\ WF_vars(Replaces)
    /\ WF_vars(\E n \in Nodes : FirstReport(n))
    /\ WF_vars(Deliver)

-----------------------------------------------------------------------------
Readings == [seq : 1 .. MaxChanges, level : Levels]

Reports == [node : Nodes, reading : Readings]

Actions == [kind : ActionKinds, type : Types]

Calls == [node : Nodes, action : Actions, reading : Readings]

Builders == [time : 1 .. MaxChanges, readings : MapsOf(Nodes, 1 .. MaxChanges)]

Keys == Nodes \X Types

Messages ==
    [kind : {"measurement"}, type : Types, body : Builders]
        \cup [kind : {"event"}, type : Types, body : Nodes \X Levels]
        \cup [kind : {"alarm"}, type : Types, body : BOOLEAN]

TypeOK ==
    /\ delivery \in {"subscription", "cyclic"}
    /\ value \in [Nodes -> Readings]
    /\ changes \in 1 .. MaxChanges
    /\ generation \in 0 .. MaxGenerations
    /\ told \in BOOLEAN
    /\ due \subseteq Nodes
    /\ channel \in Seq(Reports)
    /\ Len(channel) <= ChannelCapacity
    /\ lost \subseteq Nodes
    /\ pc \in {"idle", "accept", "flush", "returned", "gone"}
    /\ cycle \in Seq(Reports)
    /\ todo \in Seq(Calls)
    /\ IsMap(batch, Types, Builders)
    /\ pending \in Nat
    /\ IsMap(sending, Types, Builders)
    /\ returns \in BOOLEAN
    /\ IsMap(last_event, Keys, Levels)
    /\ IsMap(last_alarm, Keys, BOOLEAN)
    /\ outbox \in Seq(Messages)
    /\ Len(outbox) <= Capacity
    /\ shown \in [Series -> 0 .. MaxChanges]
    /\ IsMap(texts, Keys, Levels)
    /\ raised \subseteq Types
    /\ accepted \in [Series -> 0 .. MaxChanges]
    /\ sent \in [Series -> 0 .. MaxChanges]

\* Messages put together of a type: in the batch, being sent, and with the client.
Builds(type) ==
    {batch[t] : t \in DOMAIN batch \cap {type}}
        \cup {sending[t] : t \in DOMAIN sending \cap {type}}
        \cup {outbox[i].body : i \in {j \in DOMAIN outbox :
                                        /\ outbox[j].kind = "measurement"
                                        /\ outbox[j].type = type}}

\* Measurements of a series on their way to the broker, or there.
OnItsWay(s) ==
    {shown[s]} \cup {b.readings[s[1]] : b \in {c \in Builds(s[2]) : s[1] \in DOMAIN c.readings}}

\* A measurement that was accepted is in the batch, on its way or published, or a
\* newer one of its series is.
Kept == \A s \in Series : \E seq \in OnItsWay(s) : seq >= accepted[s]

\* "Batched measurements are flushed at least this often": nothing a subscription
\* batched is ever lost.
BatchIsFlushed == delivery = "subscription" => Kept

\* What the code does achieve: so it is until the reader is aborted, whether or
\* not the client has room, and when the reader returns by itself.
KeptUntilTheEnd == pc # "gone" => Kept

\* One reader never publishes a measurement of a subscription twice, or one older
\* than it has published: batches are taken whole and flushed in order.
PublishedOnce ==
    [][delivery = "subscription" /\ Len(outbox') > Len(outbox) /\ Last(outbox').kind = "measurement"
        => \A n \in DOMAIN Last(outbox').body.readings :
              Last(outbox').body.readings[n] > sent[<<n, Last(outbox').type>>]]_vars

\* Once values stop changing the broker has the newest measurement and event of
\* every node whose last notification was not dropped, while a reader is left.
Follows ==
    <>[](\/ pc \in {"returned", "gone"}
         \/ \A n \in Nodes \ lost : \A type \in Types :
                /\ HasAction(n, "measurement", type) /\ as_number(value[n].level) =>
                    shown[<<n, type>>] = value[n].seq
                /\ HasAction(n, "event", type) /\ value[n].level # "bad" =>
                    <<n, type>> \in DOMAIN texts /\ texts[<<n, type>>] = value[n].level)

\* Likewise its alarms are those of the nodes, across generations and transitions,
\* when a single node of the device maps to the alarm type.
AlarmsFollow ==
    <>[](\/ pc \in {"returned", "gone"}
         \/ \A n \in Nodes \ lost : \A type \in Types :
                as_bool(value[n].level) /\ {m \in Nodes : HasAction(m, "alarm", type)} = {n}
                => (type \in raised <=> value[n].level = "on"))

-----------------------------------------------------------------------------
(* Why nothing is lost or told twice.                                      *)

\* What is put together or waits to be, by where the reader is.
ByPhase ==
    /\ sending # EmptyMap => pc = "flush"
    /\ pc \in {"flush", "gone"} => batch = EmptyMap
    /\ todo # <<>> \/ cycle # <<>> => pc = "accept"
    /\ delivery = "cyclic" \/ pc = "gone" => due = {} /\ channel = <<>>
    /\ cycle # <<>> => delivery = "cyclic"

\* A builder that tells of a series.
Tells(builders, s) == s[2] \in DOMAIN builders /\ s[1] \in DOMAIN builders[s[2]].readings

\* The message at place i tells of it.
TellsAt(i, s) ==
    /\ outbox[i].kind = "measurement"
    /\ outbox[i].type = s[2]
    /\ s[1] \in DOMAIN outbox[i].body.readings

\* A series put together is the newest accepted.
Newest ==
    /\ \A s \in Nodes \X Types : Tells(batch, s) =>
          s \in Series /\ batch[s[2]].readings[s[1]] = accepted[s]
    /\ \A s \in Nodes \X Types : Tells(sending, s) =>
          s \in Series /\ sending[s[2]].readings[s[1]] = accepted[s]

\* It is with the broker or among the requests, and nothing older comes after it.
Shipped(s) ==
    \E i \in 0 .. Len(outbox) :
        /\ IF i = 0 THEN shown[s] >= accepted[s]
           ELSE TellsAt(i, s) /\ outbox[i].body.readings[s[1]] >= accepted[s]
        /\ \A j \in i + 1 .. Len(outbox) :
              TellsAt(j, s) => outbox[j].body.readings[s[1]] >= accepted[s]

\* Every series accepted is put together, or has been shipped.
Carried ==
    pc # "gone" => \A s \in Series : Tells(batch, s) \/ Tells(sending, s) \/ Shipped(s)

\* What is accepted is what the mapping calls for.
CalledFor ==
    \A i \in DOMAIN todo : HasAction(todo[i].node, todo[i].action.kind, todo[i].action.type)

\* A value reported is not newer than the node's, and follows all that was reported
\* before; a node that has yet to report has reported nothing.
InOrder ==
    /\ \A n \in Nodes : value[n].seq <= changes
    /\ \A i \in DOMAIN channel :
          /\ channel[i].node \notin due
          /\ channel[i].reading.seq <= value[channel[i].node].seq
          /\ \A s \in Series : s[1] = channel[i].node => accepted[s] < channel[i].reading.seq
          /\ \A j \in i + 1 .. Len(channel) :
                channel[j].node = channel[i].node =>
                    channel[i].reading.seq < channel[j].reading.seq
          /\ \A j \in DOMAIN todo : todo[j].node = channel[i].node =>
                todo[j].reading.seq < channel[i].reading.seq

\* Likewise what is being accepted, all of one value.
AtHand ==
    \A i \in DOMAIN todo :
        /\ todo[i].node \notin due
        /\ todo[i].reading.seq <= value[todo[i].node].seq
        /\ \A s \in Series : s[1] = todo[i].node =>
              accepted[s] <= todo[i].reading.seq /\ sent[s] < todo[i].reading.seq
        /\ \A j \in DOMAIN todo : todo[j].node = todo[i].node => todo[j].reading = todo[i].reading

\* What was sent was accepted, and what is put together has not been sent.
NotSentYet ==
    \A s \in Series :
        /\ sent[s] <= accepted[s]
        /\ pc # "gone" => accepted[s] <= value[s[1]].seq
        /\ s[1] \in due => accepted[s] = 0
        /\ Tells(batch, s) \/ Tells(sending, s) => sent[s] < accepted[s]

IInv ==
    /\ TypeOK
    /\ ByPhase
    /\ Newest
    /\ Carried
    /\ CalledFor
    /\ delivery = "subscription" => InOrder /\ AtHand /\ NotSentYet

=============================================================================
