--------------------------- MODULE Publisher_proofs ---------------------------
(***************************************************************************)
(* What a reader accepts reaches the broker once and in order, for every   *)
(* mapping, any room among the MQTT client's requests and any number of    *)
(* generations of readers, checked by TLAPS.                               *)
(***************************************************************************)
EXTENDS Publisher, SequenceTheorems, TLAPS

-----------------------------------------------------------------------------
(* Maps and messages.                                                      *)

\* A map is one of those between two sets exactly when it has their type.
LEMMA MapsAreTyped ==
    ASSUME NEW K, NEW V, NEW m
    PROVE  m \in MapsOf(K, V) <=> IsMap(m, K, V)
BY DEF MapsOf, IsMap

\* No entry at all.
LEMMA EmptyIsMap == ASSUME NEW K, NEW V PROVE IsMap(EmptyMap, K, V) /\ DOMAIN EmptyMap = {}
BY DEF IsMap, EmptyMap

\* An empty map is known by its keys.
LEMMA EmptyByKeys ==
    ASSUME NEW K, NEW V, NEW m, IsMap(m, K, V)
    PROVE  m = EmptyMap <=> DOMAIN m = {}
BY DEF IsMap, EmptyMap

\* An entry is put in.
LEMMA Inserted ==
    ASSUME NEW K, NEW V, NEW m, IsMap(m, K, V), NEW k \in K, NEW v \in V
    PROVE  /\ IsMap(MapInsert(m, k, v), K, V)
           /\ DOMAIN MapInsert(m, k, v) = DOMAIN m \cup {k}
           /\ MapInsert(m, k, v)[k] = v
           /\ \A x \in DOMAIN m : x # k => MapInsert(m, k, v)[x] = m[x]
BY DEF IsMap, MapInsert

\* An entry is taken out.
LEMMA Removed ==
    ASSUME NEW K, NEW V, NEW m, IsMap(m, K, V), NEW k
    PROVE  /\ IsMap(MapRemove(m, k), K, V)
           /\ DOMAIN MapRemove(m, k) = DOMAIN m \ {k}
           /\ \A x \in DOMAIN m : x # k => MapRemove(m, k)[x] = m[x]
BY DEF IsMap, MapRemove

\* What accept makes of a value: the actions of its node.
LEMMA ItemsType ==
    ASSUME NEW n \in Nodes, NEW reading \in Readings
    PROVE  /\ Items(n, reading) \in Seq(Calls)
           /\ \A i \in DOMAIN Items(n, reading) :
                 /\ Items(n, reading)[i].node = n
                 /\ Items(n, reading)[i].reading = reading
                 /\ HasAction(n, Items(n, reading)[i].action.kind, Items(n, reading)[i].action.type)
<1>1. CASE reading.level = "bad"
  BY <1>1, EmptySeq DEF Items
<1>2. CASE reading.level # "bad"
  <2> DEFINE a == ActionsOf[n]
  <2>1. /\ Items(n, reading) =
              [i \in DOMAIN a |-> [node |-> n, action |-> a[i], reading |-> reading]]
        /\ a \in Seq(Actions)
    BY <1>2, ActionAssumption DEF Items, Actions
  <2>2. /\ DOMAIN a = 1 .. Len(a) /\ Len(a) \in Nat
        /\ \A i \in DOMAIN a : a[i] \in Actions
    BY <2>1, LenProperties, ElementOfSeq
  <2>3. Items(n, reading) \in [1 .. Len(a) -> Calls]
    BY <2>1, <2>2 DEF Calls
  <2>4. Items(n, reading) \in Seq(Calls)
    BY <2>2, <2>3, SeqDef
  <2>5. \A i \in DOMAIN a : a[i] = [kind |-> a[i].kind, type |-> a[i].type]
    BY <2>2 DEF Actions
  <2>6. \A i \in DOMAIN a : HasAction(n, a[i].kind, a[i].type)
    BY <2>5 DEF HasAction
  <2>7. /\ DOMAIN Items(n, reading) = DOMAIN a
        /\ \A i \in DOMAIN a : /\ Items(n, reading)[i].node = n
                              /\ Items(n, reading)[i].reading = reading
                              /\ Items(n, reading)[i].action = a[i]
    BY <2>1
  <2> HIDE DEF a
  <2> QED
    BY <2>4, <2>6, <2>7
<1> QED
  BY <1>1, <1>2

\* A message is put together of readings.
LEMMA AddedType ==
    ASSUME NEW b \in Builders, NEW n \in Nodes, NEW seq \in 1 .. MaxChanges
    PROVE  /\ Added(b, n, seq) \in Builders
           /\ DOMAIN Added(b, n, seq).readings = DOMAIN b.readings \cup {n}
           /\ Added(b, n, seq).readings[n] = seq
           /\ \A x \in DOMAIN b.readings : x # n => Added(b, n, seq).readings[x] = b.readings[x]
<1>1. IsMap(b.readings, Nodes, 1 .. MaxChanges)
  BY MapsAreTyped DEF Builders
<1>2. /\ IsMap(MapInsert(b.readings, n, seq), Nodes, 1 .. MaxChanges)
      /\ DOMAIN MapInsert(b.readings, n, seq) = DOMAIN b.readings \cup {n}
      /\ MapInsert(b.readings, n, seq)[n] = seq
      /\ \A x \in DOMAIN b.readings : x # n => MapInsert(b.readings, n, seq)[x] = b.readings[x]
  BY <1>1 DEF IsMap, MapInsert
<1>3. MapInsert(b.readings, n, seq) \in MapsOf(Nodes, 1 .. MaxChanges)
  BY <1>2, MapsAreTyped
<1> QED
  BY <1>2, <1>3 DEF Added, Builders

\* A message that nothing has been put into yet.
LEMMA NewBuilder ==
    ASSUME NEW seq \in 1 .. MaxChanges
    PROVE  /\ [time |-> seq, readings |-> EmptyMap] \in Builders
           /\ DOMAIN EmptyMap = {}
<1>1. EmptyMap \in MapsOf(Nodes, 1 .. MaxChanges) /\ DOMAIN EmptyMap = {}
  BY EmptyIsMap, MapsAreTyped
<1> QED
  BY <1>1 DEF Builders

\* What a message tells of a series is a measurement.
LEMMA MeasuredType ==
    ASSUME NEW known \in [Series -> 0 .. MaxChanges], NEW type \in Types, NEW b \in Builders
    PROVE  Measured(known, type, b) \in [Series -> 0 .. MaxChanges]
<1>1. IsMap(b.readings, Nodes, 1 .. MaxChanges)
  BY MapsAreTyped DEF Builders
<1>2. \A n \in DOMAIN b.readings : b.readings[n] \in 0 .. MaxChanges
  BY <1>1, BoundAssumption DEF IsMap
<1> QED
  BY <1>2 DEF Measured

\* A sequence without its head.
LEMMA Behead ==
    ASSUME NEW S, NEW q \in Seq(S), q # <<>>
    PROVE  /\ Head(q) \in S /\ Head(q) = q[1]
           /\ Tail(q) \in Seq(S)
           /\ DOMAIN q = 1 .. Len(q) /\ Len(q) \in Nat \ {0}
           /\ DOMAIN Tail(q) = 1 .. Len(q) - 1
           /\ Len(Tail(q)) = Len(q) - 1
           /\ \A i \in 1 .. Len(q) - 1 : Tail(q)[i] = q[i + 1]
BY HeadTailProperties, LenProperties, EmptySeq

\* A sequence with one more at its end.
LEMMA Extended ==
    ASSUME NEW S, NEW q \in Seq(S), NEW x \in S
    PROVE  /\ Append(q, x) \in Seq(S)
           /\ DOMAIN q = 1 .. Len(q) /\ Len(q) \in Nat
           /\ Len(Append(q, x)) = Len(q) + 1
           /\ DOMAIN Append(q, x) = 1 .. Len(q) + 1
           /\ \A i \in 1 .. Len(q) : Append(q, x)[i] = q[i]
           /\ Append(q, x)[Len(q) + 1] = x
           /\ \A i \in 1 .. Len(q) + 1 : i \in 1 .. Len(q) \/ i = Len(q) + 1
BY AppendProperties, LenProperties

-----------------------------------------------------------------------------
(* Types.                                                                  *)

\* No reader has been there at the start.
LEMMA InitInv == Init => IInv
<1> SUFFICES ASSUME Init PROVE IInv
  OBVIOUS
<1>1. /\ 1 \in 1 .. MaxChanges /\ 0 \in 0 .. MaxChanges /\ 0 \in 0 .. MaxGenerations
      /\ Nothing \in [Series -> 0 .. MaxChanges]
  BY BoundAssumption DEF Nothing
<1>2. /\ \A S : <<>> \in Seq(S)
      /\ Len(<<>>) = 0 /\ DOMAIN <<>> = {}
  BY EmptySeq
<1>3. value \in [Nodes -> Readings]
  BY <1>1 DEF Init, Readings, Levels
<1>4. /\ IsMap(batch, Types, Builders) /\ IsMap(sending, Types, Builders)
      /\ IsMap(last_event, Keys, Levels) /\ IsMap(last_alarm, Keys, BOOLEAN)
      /\ IsMap(texts, Keys, Levels)
      /\ DOMAIN batch = {} /\ DOMAIN sending = {}
  BY EmptyIsMap DEF Init
<1>5. TypeOK
  <2>1. Len(channel) <= ChannelCapacity /\ Len(outbox) <= Capacity
    BY <1>2, BoundAssumption DEF Init
  <2> QED
    BY <1>1, <1>2, <1>3, <1>4, <2>1 DEF Init, TypeOK
<1>6. ByPhase /\ Newest /\ Carried /\ CalledFor
  BY <1>2, <1>4 DEF Init, ByPhase, Newest, Carried, CalledFor, Tells
<1>7. InOrder /\ AtHand /\ NotSentYet
  BY <1>1, <1>2, <1>4 DEF Init, InOrder, AtHand, NotSentYet, Nothing, Tells
<1> QED
  BY <1>5, <1>6, <1>7 DEF IInv

\* The head of what is to be done is a call for an action of a node.
LEMMA ItemType ==
    ASSUME TypeOK, todo # <<>>
    PROVE  /\ Head(todo).node \in Nodes
           /\ Head(todo).action.kind \in ActionKinds
           /\ Head(todo).action.type \in Types
           /\ Head(todo).reading \in Readings
           /\ Head(todo).reading.seq \in 1 .. MaxChanges
           /\ Head(todo).reading.level \in Levels
           /\ <<Head(todo).node, Head(todo).action.type>> \in Keys
           /\ Tail(todo) \in Seq(Calls)
<1>1. Head(todo) \in Calls /\ Tail(todo) \in Seq(Calls)
  BY Behead DEF TypeOK
<1> QED
  BY <1>1 DEF Calls, Actions, Readings, Keys

\* A callback reports, or drops what it cannot.
LEMMA NotifyType ==
    ASSUME TypeOK, NEW n \in Nodes, NEW reading \in Readings, Notify(n, reading)
    PROVE  channel' \in Seq(Reports) /\ Len(channel') <= ChannelCapacity /\ lost' \subseteq Nodes
<1>1. [node |-> n, reading |-> reading] \in Reports
  BY DEF Reports
<1>2. CASE Len(channel) < ChannelCapacity
  BY <1>1, <1>2, Extended, BoundAssumption DEF Notify, TypeOK
<1>3. CASE ~(Len(channel) < ChannelCapacity)
  BY <1>3 DEF Notify, TypeOK
<1> QED
  BY <1>2, <1>3

\* A flush takes the batch.
LEMMA FlushTakes ==
    ASSUME TypeOK, NEW last \in BOOLEAN, StartFlush(last)
    PROVE  /\ pc' = "flush" /\ pending' \in Nat /\ returns' \in BOOLEAN
           /\ IsMap(batch', Types, Builders) /\ IsMap(sending', Types, Builders)
           /\ batch' = EmptyMap /\ sending' = batch
BY EmptyIsMap DEF StartFlush, TypeOK

\* A measurement is put into its message.
LEMMA AddTakes ==
    ASSUME TypeOK, AddMeasurement
    PROVE  LET item == Head(todo)
               type == item.action.type
               n == item.node
               seq == item.reading.seq
           IN  /\ IsMap(batch', Types, Builders)
               /\ \/ UNCHANGED <<batch, pending, accepted>>
                  \/ /\ \A s \in Nodes \X Types :
                           Tells(batch', s) <=> Tells(batch, s) \/ s = <<n, type>>
                     /\ batch'[type].readings[n] = seq
                     /\ \A s \in Nodes \X Types :
                           Tells(batch, s) /\ s # <<n, type>> =>
                               batch'[s[2]].readings[s[1]] = batch[s[2]].readings[s[1]]
                     /\ accepted' = [accepted EXCEPT ![<<n, type>>] = seq]
                     /\ pending' = pending + 1
<1> DEFINE item == Head(todo)
           type == item.action.type
           n == item.node
           seq == item.reading.seq
           old == IF type \in DOMAIN batch THEN batch[type]
                  ELSE [time |-> seq, readings |-> EmptyMap]
           new == Added(old, n, seq)
<1>1. /\ n \in Nodes /\ type \in Types /\ seq \in 1 .. MaxChanges
      /\ IsMap(batch, Types, Builders)
  BY ItemType DEF AddMeasurement, Accepting, TypeOK
<1>2. \/ UNCHANGED <<batch, pending, accepted>>
      \/ /\ batch' = MapInsert(batch, type, new)
         /\ pending' = pending + 1
         /\ accepted' = [accepted EXCEPT ![<<n, type>>] = seq]
  BY DEF AddMeasurement
<1> HIDE DEF type, n, seq, item
<1>3. CASE UNCHANGED <<batch, pending, accepted>>
  BY <1>1, <1>3 DEF type, n, seq, item
<1>4. CASE /\ batch' = MapInsert(batch, type, new)
           /\ pending' = pending + 1
           /\ accepted' = [accepted EXCEPT ![<<n, type>>] = seq]
  <2>1. /\ old \in Builders
        /\ type \notin DOMAIN batch => DOMAIN old.readings = {}
        /\ type \in DOMAIN batch => old = batch[type]
    BY <1>1, NewBuilder DEF IsMap
  <2> HIDE DEF old
  <2>2. /\ new \in Builders
        /\ DOMAIN new.readings = DOMAIN old.readings \cup {n}
        /\ new.readings[n] = seq
        /\ \A x \in DOMAIN old.readings : x # n => new.readings[x] = old.readings[x]
    BY <1>1, <2>1, AddedType
  <2> HIDE DEF new
  <2>3. /\ IsMap(batch', Types, Builders)
        /\ DOMAIN batch' = DOMAIN batch \cup {type}
        /\ batch'[type] = new
        /\ \A x \in DOMAIN batch : x # type => batch'[x] = batch[x]
    BY <1>1, <1>4, <2>2 DEF IsMap, MapInsert
  <2>4. ASSUME NEW t \in Types, NEW m \in Nodes
        PROVE  /\ Tells(batch', <<m, t>>) <=> Tells(batch, <<m, t>>) \/ <<m, t>> = <<n, type>>
               /\ Tells(batch, <<m, t>>) /\ <<m, t>> # <<n, type>> =>
                      batch'[t].readings[m] = batch[t].readings[m]
    <3>1. CASE t = type
      BY <2>1, <2>2, <2>3, <3>1 DEF Tells
    <3>2. CASE t # type
      BY <2>3, <3>2 DEF Tells
    <3> QED
      BY <3>1, <3>2
  <2>5. \A s \in Nodes \X Types : s = <<s[1], s[2]>> /\ s[1] \in Nodes /\ s[2] \in Types
    OBVIOUS
  <2>6. /\ \A s \in Nodes \X Types : Tells(batch', s) <=> Tells(batch, s) \/ s = <<n, type>>
        /\ \A s \in Nodes \X Types :
              Tells(batch, s) /\ s # <<n, type>> =>
                  batch'[s[2]].readings[s[1]] = batch[s[2]].readings[s[1]]
    BY <2>4, <2>5
  <2> QED
    BY <1>4, <2>2, <2>3, <2>6 DEF type, n, seq, item
<1> QED
  BY <1>2, <1>3, <1>4

\* Every message published joins the requests, if there is room.
LEMMA PublishType ==
    ASSUME TypeOK, NEW kind, NEW type, NEW body,
           [kind |-> kind, type |-> type, body |-> body] \in Messages,
           Publishes(kind, type, body)
    PROVE  outbox' \in Seq(Messages) /\ Len(outbox') <= Capacity
BY Extended, BoundAssumption DEF Publishes, TypeOK

\* An event or alarm is published, or left out as a repetition.
LEMMA MomentType ==
    ASSUME TypeOK, PublishEvent \/ PublishAlarm
    PROVE  /\ outbox' \in Seq(Messages) /\ Len(outbox') <= Capacity
           /\ IsMap(last_event', Keys, Levels) /\ IsMap(last_alarm', Keys, BOOLEAN)
           /\ \/ outbox' = outbox
              \/ \E message \in Messages :
                    message.kind # "measurement" /\ outbox' = Append(outbox, message)
<1> DEFINE item == Head(todo)
           key == <<item.node, item.action.type>>
           text == item.reading.level
           active == item.reading.level = "on"
<1>1. todo # <<>>
  BY DEF PublishEvent, PublishAlarm, Accepting
<1>2. /\ item.node \in Nodes /\ item.action.type \in Types /\ text \in Levels /\ key \in Keys
  BY <1>1, ItemType
<1>3. CASE PublishEvent
  <2>1. [kind |-> "event", type |-> item.action.type, body |-> <<item.node, text>>] \in Messages
    BY <1>2 DEF Messages
  <2>2. IsMap(last_event', Keys, Levels)
    <3>1. last_event' = last_event \/ last_event' = MapInsert(last_event, key, text)
      BY <1>3 DEF PublishEvent
    <3> QED
      BY <1>2, <3>1 DEF IsMap, MapInsert, TypeOK
  <2>3. CASE outbox' = outbox
    BY <1>3, <2>2, <2>3 DEF PublishEvent, TypeOK
  <2>4. CASE Publishes("event", item.action.type, <<item.node, text>>)
    <3>1. outbox' \in Seq(Messages) /\ Len(outbox') <= Capacity
      BY <2>1, <2>4, PublishType
    <3> QED
      BY <1>3, <2>1, <2>2, <2>4, <3>1 DEF PublishEvent, Publishes, TypeOK
  <2> QED
    BY <1>3, <2>3, <2>4 DEF PublishEvent
<1>4. CASE PublishAlarm
  <2>1. [kind |-> "alarm", type |-> item.action.type, body |-> active] \in Messages
    BY <1>2 DEF Messages
  <2>2. IsMap(last_alarm', Keys, BOOLEAN)
    <3>1. last_alarm' = last_alarm \/ last_alarm' = MapInsert(last_alarm, key, active)
      BY <1>4 DEF PublishAlarm
    <3>2. active \in BOOLEAN
      OBVIOUS
    <3> QED
      BY <1>2, <3>1, <3>2 DEF IsMap, MapInsert, TypeOK
  <2>3. CASE outbox' = outbox
    BY <1>4, <2>2, <2>3 DEF PublishAlarm, TypeOK
  <2>4. CASE Publishes("alarm", item.action.type, active)
    <3>1. outbox' \in Seq(Messages) /\ Len(outbox') <= Capacity
      BY <2>1, <2>4, PublishType
    <3> QED
      BY <1>4, <2>1, <2>2, <2>4, <3>1 DEF PublishAlarm, Publishes, TypeOK
  <2> QED
    BY <1>4, <2>3, <2>4 DEF PublishAlarm
<1> QED
  BY <1>3, <1>4

\* The reader's steps.
LEMMA ReaderType ==
    ASSUME TypeOK, Reader \/ SubscriptionDropped
    PROVE  TypeOK'
<1> USE DEF server, incoming, memory, broker, history
<1>1. CASE Receive
  <2>1. /\ Head(channel) \in Reports /\ Tail(channel) \in Seq(Reports)
        /\ Len(Tail(channel)) <= ChannelCapacity
    BY <1>1, Behead, BoundAssumption DEF Receive, TypeOK
  <2>2. todo' \in Seq(Calls)
    BY <1>1, <2>1, ItemsType DEF Receive, Reports
  <2> QED
    BY <1>1, <2>1, <2>2 DEF Receive, TypeOK
<1>2. CASE ReadCycle
  <2>1. /\ NodeOrder \in Seq(Nodes) /\ DOMAIN NodeOrder = 1 .. Len(NodeOrder)
        /\ Len(NodeOrder) \in Nat /\ \A i \in DOMAIN NodeOrder : NodeOrder[i] \in Nodes
    BY NodeAssumption, LenProperties, ElementOfSeq
  <2>2. cycle' \in [1 .. Len(NodeOrder) -> Reports]
    BY <1>2, <2>1 DEF ReadCycle, Reports, TypeOK
  <2>3. cycle' \in Seq(Reports)
    BY <2>1, <2>2, SeqDef
  <2> QED
    BY <1>2, <2>3 DEF ReadCycle, TypeOK
<1>3. CASE NextValue
  <2>1. Head(cycle) \in Reports /\ Tail(cycle) \in Seq(Reports)
    BY <1>3, Behead DEF NextValue, TypeOK
  <2>2. todo' \in Seq(Calls)
    BY <1>3, <2>1, ItemsType DEF NextValue, Reports
  <2> QED
    BY <1>3, <2>1, <2>2 DEF NextValue, TypeOK
<1>4. CASE Tick \/ SeeToken \/ SubscriptionDropped \/ Accepted
  <2>1. /\ pc' \in {"flush", "returned", "idle"} /\ pending' \in Nat /\ returns' \in BOOLEAN
        /\ IsMap(batch', Types, Builders) /\ IsMap(sending', Types, Builders)
    BY <1>4, FlushTakes DEF Tick, SeeToken, SubscriptionDropped, Accepted, TypeOK
  <2>2. UNCHANGED <<server, generation, told, incoming, cycle, todo, memory, outbox, broker,
                    history>>
    BY <1>4 DEF Tick, SeeToken, SubscriptionDropped, Accepted
  <2> QED
    BY <2>1, <2>2 DEF TypeOK
<1>5. CASE AddMeasurement
  <2>1. todo # <<>>
    BY <1>5 DEF AddMeasurement, Accepting
  <2>2. /\ IsMap(batch', Types, Builders) /\ pending' \in Nat
        /\ accepted' \in [Series -> 0 .. MaxChanges]
    <3>1. Head(todo).reading.seq \in 0 .. MaxChanges
      BY <2>1, ItemType, BoundAssumption
    <3>2. /\ IsMap(batch', Types, Builders)
          /\ pending' \in {pending, pending + 1}
          /\ \/ accepted' = accepted
             \/ accepted' = [accepted EXCEPT ![<<Head(todo).node, Head(todo).action.type>>]
                                                = Head(todo).reading.seq]
      BY <1>5, AddTakes
    <3>3. pending \in Nat /\ accepted \in [Series -> 0 .. MaxChanges]
      BY DEF TypeOK
    <3>4. pending' \in Nat
      BY <3>2, <3>3
    <3>5. accepted' \in [Series -> 0 .. MaxChanges]
      BY <3>1, <3>2, <3>3
    <3> QED
      BY <3>2, <3>4, <3>5
  <2>3. Tail(todo) \in Seq(Calls)
    BY <2>1, ItemType
  <2> QED
    BY <1>5, <2>2, <2>3 DEF AddMeasurement, TypeOK
<1>6. CASE PublishEvent \/ PublishAlarm
  <2>1. todo # <<>>
    BY <1>6 DEF PublishEvent, PublishAlarm, Accepting
  <2>2. todo' \in Seq(Calls)
    BY <1>6, <2>1, ItemType DEF PublishEvent, PublishAlarm
  <2>3. UNCHANGED <<server, generation, told, incoming, pc, cycle, batch, pending, sending,
                    returns, broker, history>>
    BY <1>6 DEF PublishEvent, PublishAlarm
  <2> QED
    BY <1>6, <2>2, <2>3, MomentType DEF TypeOK
<1>7. CASE \E type \in Types : FlushType(type)
  <2>1. PICK type \in Types : FlushType(type)
    BY <1>7
  <2>2. sending[type] \in Builders
    BY <2>1 DEF FlushType, TypeOK, IsMap
  <2>3. [kind |-> "measurement", type |-> type, body |-> sending[type]] \in Messages
    BY <2>2 DEF Messages
  <2>4. outbox' \in Seq(Messages) /\ Len(outbox') <= Capacity
    BY <2>1, <2>3, PublishType DEF FlushType
  <2>5. IsMap(sending', Types, Builders)
    BY <2>1, Removed DEF FlushType, TypeOK
  <2>6. sent' \in [Series -> 0 .. MaxChanges]
    BY <2>1, <2>2, MeasuredType DEF FlushType, TypeOK
  <2> QED
    BY <2>1, <2>4, <2>5, <2>6 DEF FlushType, TypeOK
<1>8. CASE Flushed
  BY <1>8 DEF Flushed, TypeOK, work
<1> QED
  BY <1>1, <1>2, <1>3, <1>4, <1>5, <1>6, <1>7, <1>8 DEF Reader

\* Values, generations and deliveries.
LEMMA OutsideType ==
    ASSUME TypeOK,
           \/ \E n \in Nodes : FirstReport(n)
           \/ \E n \in Nodes : \E level \in LevelsOf[n] : Change(n, level)
           \/ EndGeneration \/ Abort \/ NewGeneration \/ Deliver \/ UNCHANGED vars
    PROVE  TypeOK'
<1> USE DEF server, incoming, memory, broker, history, work
<1>1. CASE \E n \in Nodes : FirstReport(n)
  <2>1. PICK n \in Nodes : FirstReport(n)
    BY <1>1
  <2>2. channel' \in Seq(Reports) /\ Len(channel') <= ChannelCapacity /\ lost' \subseteq Nodes
    BY <2>1, NotifyType DEF FirstReport, TypeOK
  <2> QED
    BY <2>1, <2>2 DEF FirstReport, TypeOK
<1>2. CASE \E n \in Nodes : \E level \in LevelsOf[n] : Change(n, level)
  <2>1. PICK n \in Nodes, level \in Levels : Change(n, level)
    BY <1>2, LevelAssumption
  <2>2. changes + 1 \in 1 .. MaxChanges
    BY <2>1, BoundAssumption DEF Change, TypeOK
  <2>3. [seq |-> changes + 1, level |-> level] \in Readings
    BY <2>2 DEF Readings
  <2>4. channel' \in Seq(Reports) /\ Len(channel') <= ChannelCapacity /\ lost' \subseteq Nodes
    BY <2>1, <2>3, NotifyType DEF Change, TypeOK
  <2>5. value' \in [Nodes -> Readings] /\ changes' \in 1 .. MaxChanges
    BY <2>1, <2>2, <2>3 DEF Change, TypeOK
  <2> QED
    BY <2>1, <2>4, <2>5 DEF Change, TypeOK
<1>3. CASE EndGeneration \/ UNCHANGED vars
  BY <1>3 DEF EndGeneration, TypeOK, vars
<1>4. CASE Abort
  <2>1. <<>> \in Seq(Reports) /\ <<>> \in Seq(Calls) /\ Len(<<>>) = 0
    BY EmptySeq
  <2>2. /\ IsMap(EmptyMap, Types, Builders) /\ IsMap(EmptyMap, Keys, Levels)
        /\ IsMap(EmptyMap, Keys, BOOLEAN)
    BY EmptyIsMap
  <2>3. Len(channel') <= ChannelCapacity
    BY <1>4, <2>1, BoundAssumption DEF Abort
  <2>4. UNCHANGED <<server, generation, told, lost, outbox, broker, history>>
    BY <1>4 DEF Abort
  <2>5. /\ channel' = <<>> /\ cycle' = <<>> /\ todo' = <<>> /\ pc' = "gone" /\ due' = {}
        /\ batch' = EmptyMap /\ pending' = 0 /\ sending' = EmptyMap /\ returns' = FALSE
        /\ last_event' = EmptyMap /\ last_alarm' = EmptyMap
    BY <1>4 DEF Abort
  <2> QED
    BY <2>1, <2>2, <2>3, <2>4, <2>5 DEF TypeOK
<1>5. CASE NewGeneration
  <2>1. generation' \in 0 .. MaxGenerations /\ Nothing \in [Series -> 0 .. MaxChanges]
    BY <1>5, BoundAssumption DEF NewGeneration, TypeOK, Nothing
  <2> QED
    BY <1>5, <2>1 DEF NewGeneration, TypeOK
<1>6. CASE Deliver
  <2>1. /\ Head(outbox) \in Messages /\ Tail(outbox) \in Seq(Messages)
        /\ Len(Tail(outbox)) <= Capacity
    BY <1>6, Behead, BoundAssumption DEF Deliver, TypeOK
  <2>2. shown' \in [Series -> 0 .. MaxChanges]
    <3>1. Head(outbox).kind = "measurement" =>
              Head(outbox).type \in Types /\ Head(outbox).body \in Builders
      BY <2>1 DEF Messages
    <3>2. \/ shown' = shown
          \/ /\ Head(outbox).kind = "measurement"
             /\ shown' = Measured(shown, Head(outbox).type, Head(outbox).body)
      BY <1>6 DEF Deliver
    <3>3. shown \in [Series -> 0 .. MaxChanges]
      BY DEF TypeOK
    <3>4. Head(outbox).kind = "measurement" =>
              Measured(shown, Head(outbox).type, Head(outbox).body) \in [Series -> 0 .. MaxChanges]
      BY <3>1, <3>3, MeasuredType
    <3> QED
      BY <3>2, <3>3, <3>4
  <2>3. IsMap(texts', Keys, Levels)
    <3>1. Head(outbox).kind = "event" =>
              /\ <<Head(outbox).body[1], Head(outbox).type>> \in Keys
              /\ Head(outbox).body[2] \in Levels
      BY <2>1 DEF Messages, Keys
    <3>2. \/ texts' = texts
          \/ /\ Head(outbox).kind = "event"
             /\ texts' = MapInsert(texts, <<Head(outbox).body[1], Head(outbox).type>>,
                                   Head(outbox).body[2])
      BY <1>6 DEF Deliver
    <3> QED
      BY <3>1, <3>2 DEF IsMap, MapInsert, TypeOK
  <2>4. raised' \subseteq Types
    BY <1>6, <2>1 DEF Deliver, TypeOK, Messages
  <2> QED
    BY <1>6, <2>1, <2>2, <2>3, <2>4 DEF Deliver, TypeOK
<1> QED
  BY <1>1, <1>2, <1>3, <1>4, <1>5, <1>6

\* Every step keeps the types.
LEMMA TypeInv == TypeOK /\ [Next]_vars => TypeOK'
BY ReaderType, OutsideType DEF Next

-----------------------------------------------------------------------------
(* Where the reader is, and what it holds.                                 *)

\* A flush begins only when nothing is being accepted and nothing is being sent.
LEMMA PhaseInv == IInv /\ [Next]_vars => ByPhase'
<1> SUFFICES ASSUME IInv, [Next]_vars PROVE ByPhase'
  OBVIOUS
<1> USE DEF server, incoming, memory, broker, history
<1>1. CASE Receive \/ ReadCycle \/ NextValue
  BY <1>1 DEF Receive, ReadCycle, NextValue, IInv, ByPhase
<1>2. CASE Tick \/ SeeToken \/ SubscriptionDropped \/ Accepted
  BY <1>2 DEF Tick, SeeToken, SubscriptionDropped, Accepted, StartFlush, IInv, ByPhase
<1>3. CASE AddMeasurement
  BY <1>3 DEF AddMeasurement, Accepting, IInv, ByPhase
<1>4. CASE PublishEvent \/ PublishAlarm
  BY <1>4 DEF PublishEvent, PublishAlarm, Accepting, IInv, ByPhase
<1>5. CASE \E type \in Types : FlushType(type)
  BY <1>5 DEF FlushType, IInv, ByPhase
<1>6. CASE Flushed
  BY <1>6 DEF Flushed, IInv, ByPhase, work
<1>7. CASE \E n \in Nodes : FirstReport(n)
  BY <1>7 DEF FirstReport, IInv, ByPhase, work
<1>8. CASE \E n \in Nodes : \E level \in LevelsOf[n] : Change(n, level)
  BY <1>8 DEF Change, IInv, ByPhase, work
<1>9. CASE EndGeneration \/ Deliver \/ UNCHANGED vars
  BY <1>9 DEF EndGeneration, Deliver, IInv, ByPhase, work, vars
<1>10. CASE Abort \/ NewGeneration
  BY <1>10 DEF Abort, NewGeneration, IInv, ByPhase, work
<1> QED
  BY <1>1, <1>2, <1>3, <1>4, <1>5, <1>6, <1>7, <1>8, <1>9, <1>10 DEF Next, Reader

\* Whatever is performed, the mapping calls for it.
LEMMA CalledForInv == IInv /\ [Next]_vars => CalledFor'
<1> SUFFICES ASSUME IInv, [Next]_vars PROVE CalledFor'
  OBVIOUS
<1>1. CASE Receive
  <2>1. Head(channel) \in Reports
    BY <1>1, Behead DEF Receive, IInv, TypeOK
  <2> QED
    BY <1>1, <2>1, ItemsType DEF Receive, CalledFor, Reports
<1>2. CASE NextValue
  <2>1. Head(cycle) \in Reports
    BY <1>2, Behead DEF NextValue, IInv, TypeOK
  <2> QED
    BY <1>2, <2>1, ItemsType DEF NextValue, CalledFor, Reports
<1>3. CASE AddMeasurement \/ PublishEvent \/ PublishAlarm
  <2>1. todo # <<>> /\ todo' = Tail(todo)
    BY <1>3 DEF AddMeasurement, PublishEvent, PublishAlarm, Accepting
  <2>2. /\ DOMAIN todo = 1 .. Len(todo) /\ Len(todo) \in Nat \ {0}
        /\ DOMAIN todo' = 1 .. Len(todo) - 1
        /\ \A i \in 1 .. Len(todo) - 1 : todo'[i] = todo[i + 1]
    BY <2>1, Behead DEF IInv, TypeOK
  <2>3. \A i \in DOMAIN todo' : i + 1 \in DOMAIN todo /\ todo'[i] = todo[i + 1]
    BY <2>2
  <2> QED
    BY <2>3 DEF IInv, CalledFor
<1>4. CASE Abort
  BY <1>4, EmptySeq DEF Abort, CalledFor
<1>5. CASE todo' = todo
  BY <1>5 DEF IInv, CalledFor
<1>6. \/ Receive \/ NextValue \/ AddMeasurement \/ PublishEvent \/ PublishAlarm \/ Abort
      \/ todo' = todo
  BY DEF Next, Reader, ReadCycle, Tick, SeeToken,
         SubscriptionDropped, Accepted, FlushType, Flushed, FirstReport,
         Change, EndGeneration, NewGeneration, Deliver, work, vars
<1> QED
  BY <1>1, <1>2, <1>3, <1>4, <1>5, <1>6

\* Only four kinds of steps touch what is put together, and what was accepted.
LEMMA OthersHold ==
    ASSUME [Next]_vars
    PROVE  \/ UNCHANGED <<batch, sending, accepted>>
           \/ AddMeasurement
           \/ \E last \in BOOLEAN :
                 StartFlush(last) /\ pc \in {"idle", "accept"} /\ todo = todo'
                 /\ UNCHANGED <<shown, outbox, accepted, sent>>
           \/ \E type \in Types : FlushType(type)
           \/ Abort
           \/ NewGeneration
BY DEF Next, Reader, Receive, ReadCycle, NextValue, Tick, SeeToken,
       SubscriptionDropped, Accepted, PublishEvent,
       PublishAlarm, Flushed, FirstReport, Change, EndGeneration, Deliver, work, history, broker,
       vars

\* Nothing is told of by what is empty.
LEMMA NothingTold == \A s : ~Tells(EmptyMap, s)
BY DEF Tells, EmptyMap

\* What is put together is the newest accepted of its series.
LEMMA NewestInv == IInv /\ [Next]_vars => Newest'
<1> SUFFICES ASSUME IInv, [Next]_vars PROVE Newest'
  OBVIOUS
<1>1. CASE UNCHANGED <<batch, sending, accepted>>
  BY <1>1 DEF IInv, Newest, Tells
<1>2. CASE AddMeasurement
  <2> DEFINE item == Head(todo)
             type == item.action.type
             n == item.node
  <2>1. /\ pc = "accept" /\ sending' = sending /\ todo # <<>>
        /\ item.action.kind = "measurement"
    BY <1>2 DEF AddMeasurement, Accepting
  <2>2. sending' = EmptyMap
    BY <2>1 DEF IInv, ByPhase
  <2>3. n \in Nodes /\ type \in Types
    BY <2>1, ItemType DEF IInv
  <2>4. <<n, type>> \in Series
    <3>1. 1 \in DOMAIN todo /\ Head(todo) = todo[1]
      BY <2>1, Behead DEF IInv, TypeOK
    <3>2. HasAction(n, "measurement", type)
      BY <2>1, <3>1 DEF IInv, CalledFor
    <3> QED
      BY <2>3, <3>2 DEF Series
  <2>5. accepted \in [Series -> 0 .. MaxChanges]
    BY DEF IInv, TypeOK
  <2>6. ASSUME NEW s \in Nodes \X Types, Tells(batch', s)
        PROVE  s \in Series /\ batch'[s[2]].readings[s[1]] = accepted'[s]
    <3>1. CASE UNCHANGED <<batch, accepted>>
      BY <2>6, <3>1 DEF IInv, Newest
    <3>2. CASE /\ \A x \in Nodes \X Types :
                     Tells(batch', x) <=> Tells(batch, x) \/ x = <<n, type>>
               /\ batch'[type].readings[n] = item.reading.seq
               /\ \A x \in Nodes \X Types :
                     Tells(batch, x) /\ x # <<n, type>> =>
                         batch'[x[2]].readings[x[1]] = batch[x[2]].readings[x[1]]
               /\ accepted' = [accepted EXCEPT ![<<n, type>>] = item.reading.seq]
      <4>1. CASE s = <<n, type>>
        BY <2>4, <2>5, <3>2, <4>1
      <4>2. CASE s # <<n, type>>
        <5>1. Tells(batch, s)
          BY <2>6, <3>2, <4>2
        <5>2. s \in Series /\ batch[s[2]].readings[s[1]] = accepted[s]
          BY <5>1 DEF IInv, Newest
        <5> QED
          BY <2>4, <2>5, <3>2, <4>2, <5>1, <5>2
      <4> QED
        BY <4>1, <4>2
    <3> QED
      BY <1>2, <3>1, <3>2, AddTakes DEF IInv
  <2> QED
    BY <2>2, <2>6, NothingTold DEF Newest
<1>3. CASE \E last \in BOOLEAN : StartFlush(last) /\ accepted' = accepted
  <2>1. sending' = batch /\ batch' = EmptyMap /\ accepted' = accepted
    BY <1>3 DEF StartFlush
  <2> QED
    BY <2>1, NothingTold DEF IInv, Newest
<1>4. CASE \E type \in Types : FlushType(type)
  <2>1. PICK type \in Types : FlushType(type)
    BY <1>4
  <2>2. /\ DOMAIN sending' = DOMAIN sending \ {type}
        /\ \A x \in DOMAIN sending' : sending'[x] = sending[x]
        /\ UNCHANGED <<batch, accepted>>
    BY <2>1 DEF FlushType, MapRemove
  <2>3. \A s \in Nodes \X Types : Tells(sending', s) =>
            Tells(sending, s) /\ sending'[s[2]] = sending[s[2]]
    BY <2>2 DEF Tells
  <2> QED
    BY <2>2, <2>3 DEF IInv, Newest
<1>5. CASE Abort
  <2>1. batch' = EmptyMap /\ sending' = EmptyMap
    BY <1>5 DEF Abort
  <2> QED
    BY <2>1, NothingTold DEF Newest
<1>6. CASE NewGeneration
  <2>1. batch' = EmptyMap /\ sending' = EmptyMap
    BY <1>6 DEF NewGeneration, work, IInv, ByPhase
  <2> QED
    BY <2>1, NothingTold DEF Newest
<1> QED
  BY <1>1, <1>2, <1>3, <1>4, <1>5, <1>6, OthersHold

-----------------------------------------------------------------------------
(* Nothing accepted is lost.                                               *)

\* A message that says nothing of a series may follow.
LEMMA ShippedBefore ==
    ASSUME TypeOK, NEW s \in Series, Shipped(s), NEW message \in Messages,
           outbox' = Append(outbox, message), shown' = shown, accepted'[s] = accepted[s],
           \/ message.kind # "measurement"
           \/ message.type # s[2]
           \/ s[1] \notin DOMAIN message.body.readings
    PROVE  Shipped(s)'
<1> PICK k : k = Len(outbox) + 1
  OBVIOUS
<1>1. /\ Len(outbox) \in Nat /\ Len(outbox') = k /\ k = Len(outbox) + 1
      /\ \A i \in 1 .. Len(outbox) : outbox'[i] = outbox[i]
      /\ outbox'[k] = message
  BY Extended DEF TypeOK
<1>2. ~TellsAt(k, s)'
  BY <1>1 DEF TellsAt
<1>3. PICK i \in 0 .. Len(outbox) :
          /\ IF i = 0 THEN shown[s] >= accepted[s]
             ELSE TellsAt(i, s) /\ outbox[i].body.readings[s[1]] >= accepted[s]
          /\ \A j \in i + 1 .. Len(outbox) :
                TellsAt(j, s) => outbox[j].body.readings[s[1]] >= accepted[s]
  BY DEF Shipped
<1>4. i \in 0 .. Len(outbox')
  BY <1>1
<1>5. IF i = 0 THEN shown'[s] >= accepted'[s]
      ELSE TellsAt(i, s)' /\ outbox'[i].body.readings[s[1]] >= accepted'[s]
  <2>1. i # 0 => i \in 1 .. Len(outbox)
    BY <1>1
  <2> QED
    BY <1>1, <1>3, <2>1 DEF TellsAt
<1>6. ASSUME NEW j \in i + 1 .. Len(outbox'), TellsAt(j, s)'
      PROVE  outbox'[j].body.readings[s[1]] >= accepted'[s]
  <2>1. j # k
    BY <1>2, <1>6
  <2>2. j \in i + 1 .. Len(outbox) /\ j \in 1 .. Len(outbox)
    BY <1>1, <2>1
  <2> QED
    BY <1>1, <1>3, <1>6, <2>2 DEF TellsAt
<1> QED
  BY <1>4, <1>5, <1>6 DEF Shipped

\* A message that tells the newest of a series ships it.
LEMMA ShippedByIt ==
    ASSUME TypeOK, NEW s \in Series, NEW message \in Messages,
           outbox' = Append(outbox, message),
           message.kind = "measurement", message.type = s[2], s[1] \in DOMAIN message.body.readings,
           message.body.readings[s[1]] = accepted'[s], accepted'[s] \in Nat
    PROVE  Shipped(s)'
<1> PICK k : k = Len(outbox) + 1
  OBVIOUS
<1>1. /\ Len(outbox) \in Nat /\ Len(outbox') = k /\ k = Len(outbox) + 1
      /\ outbox'[k] = message
  BY Extended DEF TypeOK
<1>2. TellsAt(k, s)'
  BY <1>1 DEF TellsAt
<1>3. k \in 0 .. Len(outbox') /\ k # 0 /\ k + 1 .. Len(outbox') = {}
  BY <1>1
<1>4. outbox'[k].body.readings[s[1]] >= accepted'[s]
  BY <1>1
<1> QED
  BY <1>2, <1>3, <1>4 DEF Shipped

\* The broker takes the oldest request, and what was shipped stays so.
LEMMA ShippedOn ==
    ASSUME TypeOK, NEW s \in Series, Shipped(s), Deliver
    PROVE  Shipped(s)'
<1>1. /\ outbox # <<>> /\ outbox' = Tail(outbox) /\ accepted' = accepted
      /\ \/ /\ Head(outbox).kind = "measurement"
            /\ shown' = Measured(shown, Head(outbox).type, Head(outbox).body)
         \/ Head(outbox).kind # "measurement" /\ shown' = shown
  BY DEF Deliver, history
<1>2. /\ Head(outbox) = outbox[1]
      /\ Len(outbox) \in Nat \ {0} /\ Len(outbox') = Len(outbox) - 1
      /\ \A i \in 1 .. Len(outbox) - 1 : outbox'[i] = outbox[i + 1]
  BY <1>1, Behead DEF TypeOK
<1>3. shown'[s] = IF TellsAt(1, s) THEN outbox[1].body.readings[s[1]] ELSE shown[s]
  BY <1>1, <1>2 DEF Measured, TellsAt, TypeOK
<1>4. PICK i \in 0 .. Len(outbox) :
          /\ IF i = 0 THEN shown[s] >= accepted[s]
             ELSE TellsAt(i, s) /\ outbox[i].body.readings[s[1]] >= accepted[s]
          /\ \A j \in i + 1 .. Len(outbox) :
                TellsAt(j, s) => outbox[j].body.readings[s[1]] >= accepted[s]
  BY DEF Shipped
<1>5. ASSUME NEW k \in 1 .. Len(outbox), k >= i, k >= 1
      PROVE  \A j \in k .. Len(outbox') : TellsAt(j, s)' =>
                 outbox'[j].body.readings[s[1]] >= accepted'[s]
  <2> SUFFICES ASSUME NEW j \in k .. Len(outbox'), TellsAt(j, s)'
               PROVE  outbox'[j].body.readings[s[1]] >= accepted'[s]
    OBVIOUS
  <2>1. j \in 1 .. Len(outbox) - 1 /\ j + 1 \in i + 1 .. Len(outbox)
    BY <1>2, <1>5
  <2>2. outbox'[j] = outbox[j + 1] /\ TellsAt(j + 1, s)
    BY <1>2, <2>1 DEF TellsAt
  <2> QED
    BY <1>1, <1>4, <2>1, <2>2
<1>6. CASE i <= 1
  <2>1. shown'[s] >= accepted'[s]
    <3>1. CASE i = 0
      <4>1. 1 \in i + 1 .. Len(outbox)
        BY <1>2, <3>1
      <4> QED
        BY <1>1, <1>3, <1>4, <3>1, <4>1
    <3>2. CASE i = 1
      BY <1>1, <1>3, <1>4, <3>2
    <3> QED
      BY <1>6, <3>1, <3>2
  <2>2. /\ 1 \in 1 .. Len(outbox) /\ 1 >= i /\ 1 >= 1
        /\ 0 \in 0 .. Len(outbox') /\ 0 + 1 .. Len(outbox') = 1 .. Len(outbox')
    BY <1>2, <1>6
  <2>3. \A j \in 1 .. Len(outbox') : TellsAt(j, s)' =>
            outbox'[j].body.readings[s[1]] >= accepted'[s]
    BY <1>5, <2>2
  <2> QED
    BY <2>1, <2>2, <2>3 DEF Shipped
<1>7. CASE i > 1
  <2>1. i - 1 \in 0 .. Len(outbox') /\ i - 1 # 0 /\ i - 1 + 1 = i /\ i - 1 \in 1 .. Len(outbox) - 1
        /\ i >= i /\ i >= 1 /\ i \in 1 .. Len(outbox)
    BY <1>2, <1>7
  <2>2. outbox'[i - 1] = outbox[i]
    BY <1>2, <2>1
  <2>3. TellsAt(i - 1, s)' /\ outbox'[i - 1].body.readings[s[1]] >= accepted'[s]
    BY <1>1, <1>4, <1>7, <2>2 DEF TellsAt
  <2>4. \A j \in i .. Len(outbox') : TellsAt(j, s)' =>
            outbox'[j].body.readings[s[1]] >= accepted'[s]
    BY <1>5, <2>1
  <2> QED
    BY <2>1, <2>3, <2>4 DEF Shipped
<1> QED
  BY <1>6, <1>7

\* Every step keeps what was accepted put together or shipped.
LEMMA CarriedInv == IInv /\ [Next]_vars => Carried'
<1> SUFFICES ASSUME IInv, [Next]_vars, pc' # "gone", NEW s \in Series
             PROVE  Tells(batch', s) \/ Tells(sending', s) \/ Shipped(s)'
  BY DEF Carried
<1>1. /\ s \in Nodes \X Types /\ TypeOK /\ accepted \in [Series -> 0 .. MaxChanges]
      /\ pc # "gone" => Tells(batch, s) \/ Tells(sending, s) \/ Shipped(s)
  BY DEF Series, IInv, TypeOK, Carried
<1>2. CASE UNCHANGED <<batch, sending, accepted, shown, outbox>> /\ pc # "gone"
  BY <1>1, <1>2 DEF Shipped, TellsAt
<1>3. CASE AddMeasurement
  <2>1. /\ UNCHANGED <<sending, shown, outbox>> /\ pc # "gone"
        /\ todo # <<>>
    BY <1>3 DEF AddMeasurement, Accepting, broker
  <2>2. \/ UNCHANGED <<batch, accepted>>
        \/ Tells(batch', s)
        \/ accepted'[s] = accepted[s] /\ ~Tells(batch, s)
    BY <1>1, <1>3, AddTakes
  <2>3. accepted'[s] = accepted[s] => (Shipped(s) => Shipped(s)')
    BY <2>1 DEF Shipped, TellsAt
  <2> QED
    BY <1>1, <2>1, <2>2, <2>3
<1>4. CASE PublishEvent \/ PublishAlarm
  <2>1. UNCHANGED <<batch, sending, accepted, shown>> /\ pc # "gone"
    BY <1>4 DEF PublishEvent, PublishAlarm, Accepting, broker, history
  <2>2. CASE outbox' = outbox
    BY <1>2, <2>1, <2>2
  <2>3. CASE \E message \in Messages :
                message.kind # "measurement" /\ outbox' = Append(outbox, message)
    BY <1>1, <2>1, <2>3, ShippedBefore
  <2> QED
    BY <1>1, <1>4, <2>2, <2>3, MomentType
<1>5. CASE \E last \in BOOLEAN : StartFlush(last) /\ pc \in {"idle", "accept"}
                                 /\ UNCHANGED <<shown, outbox, accepted>>
  <2>1. sending' = batch /\ UNCHANGED <<shown, outbox, accepted>> /\ pc \in {"idle", "accept"}
    BY <1>5 DEF StartFlush
  <2>2. ~Tells(sending, s)
    BY <2>1, NothingTold DEF IInv, ByPhase
  <2> QED
    BY <1>1, <2>1, <2>2 DEF Shipped, TellsAt
<1>6. CASE \E type \in Types : FlushType(type)
  <2>1. PICK type \in Types : FlushType(type)
    BY <1>6
  <2> DEFINE message == [kind |-> "measurement", type |-> type, body |-> sending[type]]
  <2>2. /\ DOMAIN sending' = DOMAIN sending \ {type}
        /\ \A x \in DOMAIN sending' : sending'[x] = sending[x]
        /\ UNCHANGED <<batch, accepted, shown>> /\ pc # "gone" /\ type \in DOMAIN sending
        /\ outbox' = Append(outbox, message)
    BY <2>1 DEF FlushType, MapRemove, Publishes, broker
  <2>3. message \in Messages
    BY <2>2 DEF Messages, IInv, TypeOK, IsMap
  <2>4. CASE Tells(sending, s) /\ s[2] = type
    <3>1. sending[type].readings[s[1]] = accepted[s]
      BY <1>1, <2>4 DEF IInv, Newest
    <3>2. /\ message.kind = "measurement" /\ message.type = s[2]
          /\ s[1] \in DOMAIN message.body.readings
          /\ message.body.readings[s[1]] = accepted'[s] /\ accepted'[s] \in Nat
      BY <1>1, <2>2, <2>4, <3>1 DEF Tells
    <3> HIDE DEF message
    <3> QED
      BY <1>1, <2>2, <2>3, <3>2, ShippedByIt
  <2>5. CASE Tells(sending, s) /\ s[2] # type
    BY <2>2, <2>5 DEF Tells
  <2>6. CASE ~Tells(sending, s)
    <3>1. message.type # s[2] \/ s[1] \notin DOMAIN message.body.readings
      BY <2>2, <2>6 DEF Tells
    <3> HIDE DEF message
    <3>2. Shipped(s) => Shipped(s)'
      BY <1>1, <2>2, <2>3, <3>1, ShippedBefore
    <3> QED
      BY <1>1, <2>2, <2>6, <3>2
  <2> QED
    BY <2>4, <2>5, <2>6
<1>7. CASE Deliver
  <2>1. UNCHANGED <<batch, sending, accepted, pc>>
    BY <1>7 DEF Deliver, work, history
  <2> QED
    BY <1>1, <1>7, <2>1, ShippedOn
<1>8. CASE NewGeneration
  <2>1. accepted'[s] = 0 /\ UNCHANGED <<shown, outbox>>
    BY <1>8 DEF NewGeneration, Nothing, broker
  <2>2. shown[s] \in Nat /\ Len(outbox) \in Nat
    BY <1>1, LenProperties DEF TypeOK
  <2>3. ASSUME NEW j \in 1 .. Len(outbox), TellsAt(j, s)
        PROVE  outbox[j].body.readings[s[1]] >= 0
    <3>1. outbox[j] \in Messages /\ outbox[j].kind = "measurement"
          /\ s[1] \in DOMAIN outbox[j].body.readings
      BY <2>3, ElementOfSeq DEF TellsAt, IInv, TypeOK
    <3>2. outbox[j].body \in Builders
      BY <3>1 DEF Messages
    <3>3. IsMap(outbox[j].body.readings, Nodes, 1 .. MaxChanges)
      BY <3>2, MapsAreTyped DEF Builders
    <3> QED
      BY <3>1, <3>3 DEF IsMap
  <2>4. Shipped(s)'
    BY <2>1, <2>2, <2>3 DEF Shipped, TellsAt
  <2> QED
    BY <2>4
<1>9. \/ UNCHANGED <<batch, sending, accepted, shown, outbox>> /\ pc # "gone"
      \/ AddMeasurement \/ PublishEvent \/ PublishAlarm
      \/ \E last \in BOOLEAN : StartFlush(last) /\ pc \in {"idle", "accept"}
                               /\ UNCHANGED <<shown, outbox, accepted>>
      \/ \E type \in Types : FlushType(type)
      \/ Deliver \/ NewGeneration
  BY DEF Next, Reader, Receive, ReadCycle, NextValue, Tick, SeeToken,
         SubscriptionDropped, Accepted, Flushed,
         FirstReport, Change, EndGeneration, Abort, work, history, broker, vars, IInv, ByPhase
<1> QED
  BY <1>2, <1>3, <1>4, <1>5, <1>6, <1>7, <1>8, <1>9

-----------------------------------------------------------------------------
(* Nothing is told twice.                                                  *)

\* What a subscription's history is bound to.
Ordered == InOrder /\ AtHand /\ NotSentYet

\* The types that numbers are compared with.
LEMMA Numbers ==
    ASSUME TypeOK
    PROVE  /\ changes \in Nat
           /\ \A n \in Nodes : value[n].seq \in Nat /\ value[n].seq >= 1
           /\ \A s \in Series : accepted[s] \in Nat /\ sent[s] \in Nat /\ s[1] \in Nodes
           /\ DOMAIN channel = 1 .. Len(channel) /\ Len(channel) \in Nat
           /\ \A i \in DOMAIN channel :
                 channel[i].node \in Nodes /\ channel[i].reading.seq \in Nat
           /\ DOMAIN todo = 1 .. Len(todo) /\ Len(todo) \in Nat
           /\ \A i \in DOMAIN todo : todo[i].node \in Nodes /\ todo[i].reading.seq \in Nat
<1>1. /\ changes \in Nat
      /\ \A n \in Nodes : value[n].seq \in Nat /\ value[n].seq >= 1
  BY BoundAssumption DEF TypeOK, Readings
<1>2. \A s \in Series : accepted[s] \in Nat /\ sent[s] \in Nat /\ s[1] \in Nodes
  BY DEF TypeOK, Series
<1>3. /\ DOMAIN channel = 1 .. Len(channel) /\ Len(channel) \in Nat
      /\ \A i \in DOMAIN channel : channel[i] \in Reports
  BY LenProperties, ElementOfSeq DEF TypeOK
<1>4. /\ DOMAIN todo = 1 .. Len(todo) /\ Len(todo) \in Nat
      /\ \A i \in DOMAIN todo : todo[i] \in Calls
  BY LenProperties, ElementOfSeq DEF TypeOK
<1> QED
  BY <1>1, <1>2, <1>3, <1>4 DEF Reports, Calls, Readings

\* The oldest notification is taken: all that comes after it is newer.
LEMMA ReceiveOrdered ==
    ASSUME IInv, Ordered, Receive
    PROVE  Ordered'
<1> DEFINE n == Head(channel).node
           r == Head(channel).reading
<1>1. /\ channel # <<>> /\ channel' = Tail(channel) /\ todo' = Items(n, r)
      /\ UNCHANGED <<value, changes, due, accepted, sent, batch, sending>>
      /\ pc = "idle"
  BY DEF Receive, server, history
<1>2. /\ Head(channel) \in Reports /\ Head(channel) = channel[1]
      /\ DOMAIN channel = 1 .. Len(channel) /\ Len(channel) \in Nat \ {0}
      /\ DOMAIN channel' = 1 .. Len(channel) - 1 /\ Len(channel') = Len(channel) - 1
      /\ \A i \in 1 .. Len(channel) - 1 : channel'[i] = channel[i + 1]
  BY <1>1, Behead DEF IInv, TypeOK
<1>3. /\ n \in Nodes /\ r \in Readings
      /\ \A i \in DOMAIN todo' : todo'[i].node = n /\ todo'[i].reading = r
  BY <1>1, <1>2, ItemsType DEF Reports
<1>4. /\ n = channel[1].node /\ r = channel[1].reading /\ 1 \in DOMAIN channel
      /\ n \notin due /\ r.seq <= value[n].seq /\ r.seq \in Nat
      /\ \A s \in Series : s[1] = n => accepted[s] < r.seq
      /\ \A j \in 1 + 1 .. Len(channel) : channel[j].node = n => r.seq < channel[j].reading.seq
  BY <1>2, <1>3 DEF Ordered, InOrder, Readings
<1> HIDE DEF n, r
<1>5. InOrder'
  <2>1. ASSUME NEW i \in DOMAIN channel'
        PROVE  /\ i + 1 \in DOMAIN channel /\ channel'[i] = channel[i + 1]
               /\ i + 1 \in 1 + 1 .. Len(channel)
               /\ \A j \in i + 1 .. Len(channel') :
                     j + 1 \in i + 1 + 1 .. Len(channel) /\ channel'[j] = channel[j + 1]
    BY <1>2
  <2>2. \A i \in DOMAIN channel' :
            /\ channel'[i].node \notin due
            /\ channel'[i].reading.seq <= value[channel'[i].node].seq
            /\ \A s \in Series : s[1] = channel'[i].node => accepted[s] < channel'[i].reading.seq
            /\ \A j \in i + 1 .. Len(channel') : channel'[j].node = channel'[i].node =>
                  channel'[i].reading.seq < channel'[j].reading.seq
    BY <2>1 DEF Ordered, InOrder
  <2>3. \A i \in DOMAIN channel' : \A j \in DOMAIN todo' :
            todo'[j].node = channel'[i].node => todo'[j].reading.seq < channel'[i].reading.seq
    BY <1>3, <1>4, <2>1
  <2> QED
    BY <1>1, <2>2, <2>3 DEF Ordered, InOrder
<1>6. AtHand'
  <2>1. \A s \in Series : s[1] = n => accepted[s] <= r.seq /\ sent[s] < r.seq
    BY <1>4, Numbers DEF Ordered, NotSentYet, IInv
  <2> QED
    BY <1>1, <1>3, <1>4, <2>1 DEF AtHand
<1>7. NotSentYet'
  BY <1>1 DEF Ordered, NotSentYet, Tells
<1> QED
  BY <1>5, <1>6, <1>7 DEF Ordered

\* One action of what is at hand is performed.
LEMMA PerformOrdered ==
    ASSUME IInv, Ordered, AddMeasurement \/ PublishEvent \/ PublishAlarm
    PROVE  Ordered'
<1> DEFINE h == Head(todo)
           new == <<h.node, h.action.type>>
<1>1. /\ todo # <<>> /\ todo' = Tail(todo) /\ pc = "accept" /\ pc' = pc
      /\ UNCHANGED <<value, changes, due, channel, sent, sending>>
      /\ sending = EmptyMap
  BY DEF AddMeasurement, PublishEvent, PublishAlarm, Accepting, server, incoming, history, IInv,
         ByPhase
<1>2. /\ h = todo[1] /\ 1 \in DOMAIN todo
      /\ DOMAIN todo = 1 .. Len(todo) /\ Len(todo) \in Nat \ {0}
      /\ DOMAIN todo' = 1 .. Len(todo) - 1
      /\ \A i \in 1 .. Len(todo) - 1 : todo'[i] = todo[i + 1]
  BY <1>1, Behead DEF IInv, TypeOK
<1>3. \A i \in DOMAIN todo' : i + 1 \in DOMAIN todo /\ todo'[i] = todo[i + 1]
  BY <1>2
<1>4. /\ h.node \notin due /\ h.reading.seq <= value[h.node].seq /\ h.reading.seq \in Nat
      /\ \A s \in Series : s[1] = h.node => accepted[s] <= h.reading.seq /\ sent[s] < h.reading.seq
      /\ \A j \in DOMAIN todo : todo[j].node = h.node => todo[j].reading = h.reading
      /\ \A i \in DOMAIN channel : channel[i].node = h.node =>
            h.reading.seq < channel[i].reading.seq
  BY <1>2, Numbers DEF Ordered, AtHand, InOrder, IInv
<1>5. \A s \in Series :
          \/ accepted'[s] = accepted[s] /\ (Tells(batch', s) <=> Tells(batch, s))
          \/ s[1] = h.node /\ accepted'[s] = h.reading.seq
  <2>1. CASE AddMeasurement
    <3>1. accepted \in [Series -> 0 .. MaxChanges] /\ Series \subseteq Nodes \X Types
      BY DEF IInv, TypeOK, Series
    <3>2. \/ UNCHANGED <<batch, accepted>>
          \/ /\ \A s \in Nodes \X Types : Tells(batch', s) <=> Tells(batch, s) \/ s = new
             /\ accepted' = [accepted EXCEPT ![new] = h.reading.seq]
      BY <2>1, AddTakes DEF IInv
    <3> QED
      BY <3>1, <3>2
  <2>2. CASE PublishEvent \/ PublishAlarm
    BY <2>2 DEF PublishEvent, PublishAlarm, history
  <2> QED
    BY <2>1, <2>2
<1> HIDE DEF h, new
<1>6. InOrder'
  <2>1. \A i \in DOMAIN channel : \A s \in Series :
            s[1] = channel[i].node => accepted'[s] < channel[i].reading.seq
    BY <1>4, <1>5 DEF Ordered, InOrder
  <2> QED
    BY <1>1, <1>3, <2>1 DEF Ordered, InOrder
<1>7. AtHand'
  <2>1. \A i \in DOMAIN todo' : \A s \in Series :
            s[1] = todo'[i].node => accepted'[s] <= todo'[i].reading.seq
    <3> SUFFICES ASSUME NEW i \in DOMAIN todo', NEW s \in Series, s[1] = todo'[i].node
                 PROVE  accepted'[s] <= todo'[i].reading.seq
      OBVIOUS
    <3>1. i + 1 \in DOMAIN todo /\ todo'[i] = todo[i + 1]
      BY <1>3
    <3>2. CASE accepted'[s] = accepted[s]
      BY <3>1, <3>2 DEF Ordered, AtHand
    <3>3. CASE s[1] = h.node /\ accepted'[s] = h.reading.seq
      <4>1. todo'[i].reading = h.reading
        BY <1>4, <3>1, <3>3
      <4> QED
        BY <1>4, <3>3, <4>1
    <3> QED
      BY <1>5, <3>2, <3>3
  <2> QED
    BY <1>1, <1>3, <2>1 DEF Ordered, AtHand
<1>8. NotSentYet'
  <2> SUFFICES ASSUME NEW s \in Series
               PROVE  /\ sent[s] <= accepted'[s]
                      /\ accepted'[s] <= value[s[1]].seq
                      /\ s[1] \in due => accepted'[s] = 0
                      /\ Tells(batch', s) \/ Tells(sending, s) => sent[s] < accepted'[s]
    BY <1>1 DEF NotSentYet, Tells
  <2>1. CASE accepted'[s] = accepted[s] /\ (Tells(batch', s) <=> Tells(batch, s))
    BY <1>1, <2>1 DEF Ordered, NotSentYet
  <2>2. CASE s[1] = h.node /\ accepted'[s] = h.reading.seq
    BY <1>4, <2>2, Numbers DEF IInv
  <2> QED
    BY <1>5, <2>1, <2>2
<1> QED
  BY <1>6, <1>7, <1>8 DEF Ordered

\* Steps that neither report nor accept: what is put together only becomes less.
LEMMA QuietOrdered ==
    ASSUME IInv, Ordered, UNCHANGED <<value, changes, due, channel, todo, accepted, sent>>,
           \A s \in Series : Tells(batch', s) \/ Tells(sending', s) =>
              Tells(batch, s) \/ Tells(sending, s),
           pc' # "gone" => pc # "gone"
    PROVE  Ordered'
<1>1. InOrder' /\ AtHand'
  BY DEF Ordered, InOrder, AtHand
<1>2. NotSentYet'
  <2> SUFFICES ASSUME NEW s \in Series
               PROVE  /\ sent[s] <= accepted[s]
                      /\ pc' # "gone" => accepted[s] <= value[s[1]].seq
                      /\ s[1] \in due => accepted[s] = 0
                      /\ Tells(batch', s) \/ Tells(sending', s) => sent[s] < accepted[s]
    BY DEF NotSentYet, Tells
  <2> QED
    BY DEF Ordered, NotSentYet
<1> QED
  BY <1>1, <1>2 DEF Ordered

\* A flush takes what is put together.
LEMMA StartOrdered ==
    ASSUME IInv, Ordered, NEW last \in BOOLEAN, StartFlush(last), pc # "gone",
           UNCHANGED <<value, changes, due, channel, todo, accepted, sent>>
    PROVE  Ordered'
<1>1. batch' = EmptyMap /\ sending' = batch /\ pc' # "gone"
  BY FlushTakes DEF IInv, StartFlush
<1>2. \A s \in Series : ~Tells(batch', s) /\ (Tells(sending', s) => Tells(batch, s))
  BY <1>1, NothingTold DEF Tells
<1> QED
  BY <1>1, <1>2, QuietOrdered

\* A message of a flush is sent: what it tells is thereby sent, and all of it was accepted.
LEMMA SendOrdered ==
    ASSUME IInv, Ordered, NEW type \in Types, FlushType(type)
    PROVE  Ordered'
<1>1. /\ pc = "flush" /\ pc' = pc /\ type \in DOMAIN sending
      /\ UNCHANGED <<value, changes, due, channel, todo, accepted, batch>>
      /\ sent' = Measured(sent, type, sending[type])
      /\ DOMAIN sending' = DOMAIN sending \ {type}
      /\ \A x \in DOMAIN sending' : sending'[x] = sending[x]
  BY DEF FlushType, MapRemove, server, incoming
<1>2. todo = <<>> /\ DOMAIN todo = {} /\ batch = EmptyMap
  BY <1>1, EmptySeq DEF IInv, ByPhase
<1>3. \A s \in Series :
          \/ sent'[s] = sent[s] /\ ~(s[2] = type /\ Tells(sending, s))
          \/ sent'[s] = accepted[s] /\ s[2] = type
  <2> SUFFICES ASSUME NEW s \in Series
               PROVE  \/ sent'[s] = sent[s] /\ ~(s[2] = type /\ Tells(sending, s))
                      \/ sent'[s] = accepted[s] /\ s[2] = type
    OBVIOUS
  <2>1. s \in Nodes \X Types
    BY DEF Series
  <2>2. CASE s[2] = type /\ s[1] \in DOMAIN sending[type].readings
    <3>1. sending[type].readings[s[1]] = accepted[s]
      BY <1>1, <2>1, <2>2 DEF IInv, Newest, Tells
    <3> QED
      BY <1>1, <2>2, <3>1 DEF Measured
  <2>3. CASE ~(s[2] = type /\ s[1] \in DOMAIN sending[type].readings)
    BY <1>1, <2>3 DEF Measured, Tells
  <2> QED
    BY <2>2, <2>3
<1>4. InOrder' /\ AtHand'
  BY <1>1, <1>2 DEF Ordered, InOrder, AtHand
<1>5. NotSentYet'
  <2> SUFFICES ASSUME NEW s \in Series
               PROVE  /\ sent'[s] <= accepted[s]
                      /\ accepted[s] <= value[s[1]].seq
                      /\ s[1] \in due => accepted[s] = 0
                      /\ Tells(batch, s) \/ Tells(sending', s) => sent'[s] < accepted[s]
    BY <1>1 DEF NotSentYet, Tells
  <2>1. accepted[s] \in Nat /\ ~Tells(batch, s)
    BY <1>2, Numbers, NothingTold DEF IInv
  <2>2. Tells(sending', s) => s[2] # type /\ Tells(sending, s)
    BY <1>1 DEF Tells
  <2>3. /\ sent[s] <= accepted[s] /\ accepted[s] <= value[s[1]].seq
        /\ s[1] \in due => accepted[s] = 0
        /\ Tells(sending, s) => sent[s] < accepted[s]
    BY <1>1 DEF Ordered, NotSentYet
  <2> QED
    BY <1>3, <2>1, <2>2, <2>3
<1> QED
  BY <1>4, <1>5 DEF Ordered

\* A node reports, or would have: its number is newer than all that was reported of it.
LEMMA ReportOrdered ==
    ASSUME IInv, Ordered, TypeOK', NEW n \in Nodes, NEW reading \in Readings,
           \/ channel' = channel
           \/ channel' = Append(channel, [node |-> n, reading |-> reading]) /\ n \notin due',
           UNCHANGED <<todo, accepted, sent, batch, sending, pc>>,
           due' \subseteq due,
           \A m \in Nodes : value[m].seq <= value'[m].seq /\ value'[m].seq <= changes',
           reading = value'[n],
           n \notin due' /\ channel' # channel =>
              /\ \A i \in DOMAIN channel : channel[i].node = n =>
                    channel[i].reading.seq < reading.seq
              /\ \A i \in DOMAIN todo : todo[i].node = n => todo[i].reading.seq < reading.seq
              /\ \A s \in Series : s[1] = n => accepted[s] < reading.seq
    PROVE  Ordered'
<1>1. /\ \A m \in Nodes : value[m].seq \in Nat /\ value'[m].seq \in Nat
      /\ \A s \in Series : accepted[s] \in Nat /\ s[1] \in Nodes
      /\ DOMAIN channel = 1 .. Len(channel) /\ Len(channel) \in Nat
      /\ \A i \in DOMAIN channel : channel[i].node \in Nodes /\ channel[i].reading.seq \in Nat
      /\ \A i \in DOMAIN todo : todo[i].node \in Nodes /\ todo[i].reading.seq \in Nat
  <2>1. value' \in [Nodes -> Readings]
    BY DEF TypeOK
  <2>2. \A m \in Nodes : value'[m].seq \in Nat
    BY <2>1, BoundAssumption DEF Readings
  <2> QED
    BY <2>2, Numbers DEF IInv
<1>2. /\ \A i \in DOMAIN channel : channel[i].reading.seq <= value'[channel[i].node].seq
      /\ \A i \in DOMAIN todo : todo[i].reading.seq <= value'[todo[i].node].seq
      /\ pc # "gone" => \A s \in Series : accepted[s] <= value'[s[1]].seq
  <2>1. /\ \A i \in DOMAIN channel : channel[i].reading.seq <= value[channel[i].node].seq
        /\ \A i \in DOMAIN todo : todo[i].reading.seq <= value[todo[i].node].seq
        /\ pc # "gone" => \A s \in Series : accepted[s] <= value[s[1]].seq
    BY DEF Ordered, InOrder, AtHand, NotSentYet
  <2>2. \A a, b, c \in Nat : a <= b /\ b <= c => a <= c
    OBVIOUS
  <2> QED
    BY <1>1, <2>1, <2>2
<1>3. AtHand' /\ NotSentYet'
  <2>1. AtHand'
    BY <1>2 DEF Ordered, AtHand
  <2>2. NotSentYet'
    BY <1>2 DEF Ordered, NotSentYet, Tells
  <2> QED
    BY <2>1, <2>2
<1>4. InOrder'
  <2>1. CASE channel' = channel
    BY <1>2, <2>1 DEF Ordered, InOrder
  <2>2. CASE channel' # channel /\ channel' = Append(channel, [node |-> n, reading |-> reading])
             /\ n \notin due'
    <3>1. [node |-> n, reading |-> reading] \in Reports /\ channel \in Seq(Reports)
      BY DEF Reports, IInv, TypeOK
    <3>2. /\ DOMAIN channel' = 1 .. Len(channel) + 1 /\ Len(channel') = Len(channel) + 1
          /\ \A i \in 1 .. Len(channel) : channel'[i] = channel[i]
          /\ channel'[Len(channel) + 1] = [node |-> n, reading |-> reading]
          /\ \A i \in 1 .. Len(channel) + 1 : i \in 1 .. Len(channel) \/ i = Len(channel) + 1
      BY <2>2, <3>1, Extended
    <3>3. ASSUME NEW i \in DOMAIN channel
          PROVE  /\ channel'[i] = channel[i]
                 /\ \A j \in i + 1 .. Len(channel') :
                       j \in i + 1 .. Len(channel) \/ j = Len(channel) + 1
      BY <1>1, <3>2
    <3>4. ASSUME NEW i \in DOMAIN channel
          PROVE  /\ channel'[i].node \notin due'
                 /\ channel'[i].reading.seq <= value'[channel'[i].node].seq
                 /\ \A s \in Series : s[1] = channel'[i].node =>
                       accepted[s] < channel'[i].reading.seq
                 /\ \A j \in i + 1 .. Len(channel') : channel'[j].node = channel'[i].node =>
                       channel'[i].reading.seq < channel'[j].reading.seq
                 /\ \A j \in DOMAIN todo : todo[j].node = channel'[i].node =>
                       todo[j].reading.seq < channel'[i].reading.seq
      <4>1. \A j \in i + 1 .. Len(channel') : channel'[j].node = channel'[i].node =>
                channel'[i].reading.seq < channel'[j].reading.seq
        <5> SUFFICES ASSUME NEW j \in i + 1 .. Len(channel'),
                            channel'[j].node = channel'[i].node
                     PROVE  channel'[i].reading.seq < channel'[j].reading.seq
          OBVIOUS
        <5>1. CASE j \in i + 1 .. Len(channel)
          <6>1. channel'[j] = channel[j] /\ channel'[i] = channel[i]
            BY <1>1, <3>2, <5>1
          <6> QED
            BY <5>1, <6>1 DEF Ordered, InOrder
        <5>2. CASE j = Len(channel) + 1
          BY <2>2, <3>2, <3>3, <5>2
        <5> QED
          BY <3>3, <5>1, <5>2
      <4> QED
        BY <1>2, <3>3, <4>1 DEF Ordered, InOrder
    <3>5. ASSUME NEW i, i = Len(channel) + 1
          PROVE  /\ channel'[i].node \notin due'
                 /\ channel'[i].reading.seq <= value'[channel'[i].node].seq
                 /\ \A s \in Series : s[1] = channel'[i].node =>
                       accepted[s] < channel'[i].reading.seq
                 /\ \A j \in i + 1 .. Len(channel') : FALSE
                 /\ \A j \in DOMAIN todo : todo[j].node = channel'[i].node =>
                       todo[j].reading.seq < channel'[i].reading.seq
      <4>1. channel'[i].node = n /\ channel'[i].reading = reading /\ value'[n] = reading
        BY <3>2, <3>5
      <4>2. reading.seq <= reading.seq
        BY <1>1, <4>1
      <4>3. \A j \in i + 1 .. Len(channel') : FALSE
        BY <1>1, <3>2, <3>5
      <4> QED
        BY <2>2, <4>1, <4>2, <4>3
    <3> QED
      BY <1>1, <3>2, <3>4, <3>5 DEF InOrder
  <2> QED
    BY <2>1, <2>2
<1> QED
  BY <1>3, <1>4 DEF Ordered

\* A monitored item that reports at first had not reported before.
LEMMA FirstOrdered ==
    ASSUME IInv, Ordered, TypeOK', NEW n \in Nodes, FirstReport(n)
    PROVE  Ordered'
<1>1. /\ n \in due /\ due' = due \ {n} /\ value[n] \in Readings
      /\ UNCHANGED <<value, changes, todo, accepted, sent, batch, sending, pc>>
      /\ \/ channel' = channel
         \/ channel' = Append(channel, [node |-> n, reading |-> value[n]])
  BY DEF FirstReport, Notify, server, work, history, IInv, TypeOK
<1>2. /\ \A i \in DOMAIN channel : channel[i].node # n
      /\ \A i \in DOMAIN todo : todo[i].node # n
      /\ \A s \in Series : s[1] = n => accepted[s] < value[n].seq
  BY <1>1, Numbers DEF Ordered, InOrder, AtHand, NotSentYet, IInv
<1>3. \A m \in Nodes : value[m].seq <= value'[m].seq /\ value'[m].seq <= changes'
  BY <1>1, Numbers DEF Ordered, InOrder, IInv
<1>4. n \notin due' /\ due' \subseteq due /\ value'[n] = value[n]
  BY <1>1
<1> QED
  BY <1>1, <1>2, <1>3, <1>4, ReportOrdered

\* A change is numbered higher than all before it.
LEMMA ChangeOrdered ==
    ASSUME IInv, Ordered, TypeOK', NEW n \in Nodes, NEW level \in Levels, Change(n, level)
    PROVE  Ordered'
<1> DEFINE reading == [seq |-> changes + 1, level |-> level]
<1>1. /\ changes' = changes + 1 /\ changes < MaxChanges
      /\ value' = [value EXCEPT ![n] = reading]
      /\ UNCHANGED <<due, todo, accepted, sent, batch, sending, pc>>
      /\ \/ channel' = channel
         \/ /\ channel' = Append(channel, [node |-> n, reading |-> reading])
            /\ n \notin due /\ pc \notin {"returned", "gone"}
  BY DEF Change, Notify, work, history
<1>2. /\ changes \in Nat /\ changes + 1 \in 1 .. MaxChanges /\ value \in [Nodes -> Readings]
      /\ \A m \in Nodes : value[m].seq \in Nat /\ value[m].seq <= changes
  BY <1>1, Numbers, BoundAssumption DEF Ordered, InOrder, IInv, TypeOK
<1>3. reading \in Readings /\ reading.seq = changes + 1 /\ value'[n] = reading
  BY <1>1, <1>2 DEF Readings
<1>4. /\ \A i \in DOMAIN channel : channel[i].node = n => channel[i].reading.seq < reading.seq
      /\ \A i \in DOMAIN todo : todo[i].node = n => todo[i].reading.seq < reading.seq
      /\ pc # "gone" => \A s \in Series : s[1] = n => accepted[s] < reading.seq
  BY <1>2, <1>3, Numbers DEF Ordered, InOrder, AtHand, NotSentYet, IInv
<1>5. \A m \in Nodes : value[m].seq <= value'[m].seq /\ value'[m].seq <= changes'
  BY <1>1, <1>2, <1>3
<1>6. due' = due /\ due' \subseteq due
  BY <1>1
<1> HIDE DEF reading
<1> QED
  BY <1>1, <1>3, <1>4, <1>5, <1>6, ReportOrdered

\* An abort drops what was read, and the next generation begins with nothing told.
LEMMA GenerationOrdered ==
    ASSUME IInv, Ordered, Abort \/ NewGeneration
    PROVE  Ordered'
<1>1. channel' = <<>> /\ todo' = <<>> /\ batch' = EmptyMap /\ sending' = EmptyMap
  BY DEF Abort, NewGeneration, IInv, ByPhase, work
<1>2. DOMAIN channel' = {} /\ DOMAIN todo' = {} /\ UNCHANGED <<value, changes>>
  BY <1>1, EmptySeq DEF Abort, NewGeneration, server
<1>3. InOrder' /\ AtHand'
  BY <1>2 DEF Ordered, InOrder, AtHand
<1>4. NotSentYet'
  <2>1. \A s \in Series : ~Tells(batch', s) /\ ~Tells(sending', s)
    BY <1>1, NothingTold
  <2>2. CASE Abort
    <3>1. UNCHANGED <<accepted, sent>> /\ pc' = "gone" /\ due' = {}
      BY <2>2 DEF Abort, history
    <3> QED
      BY <2>1, <3>1 DEF Ordered, NotSentYet, Tells
  <2>3. CASE NewGeneration
    <3>1. \A s \in Series : accepted'[s] = 0 /\ sent'[s] = 0 /\ value'[s[1]].seq >= 1
                            /\ value'[s[1]].seq \in Nat
      BY <1>2, <2>3, Numbers DEF NewGeneration, Nothing, IInv
    <3> QED
      BY <2>1, <3>1 DEF NotSentYet, Tells
  <2> QED
    BY <2>2, <2>3
<1> QED
  BY <1>3, <1>4 DEF Ordered

\* Every step of a subscription keeps the order of what is told.
LEMMA OrderedInv ==
    ASSUME IInv, [Next]_vars, TypeOK', delivery' = "subscription"
    PROVE  Ordered'
<1>1. delivery = "subscription" /\ Ordered
  BY DEF Next, Reader, Receive, ReadCycle, NextValue, Tick, SeeToken,
         SubscriptionDropped, AddMeasurement, PublishEvent,
         PublishAlarm, Accepted, FlushType, Flushed, FirstReport, Change, EndGeneration, Abort,
         NewGeneration, Deliver, server, vars, IInv, Ordered
<1>2. CASE Receive
  BY <1>1, <1>2, ReceiveOrdered
<1>3. CASE ReadCycle \/ NextValue
  BY <1>1, <1>3 DEF ReadCycle, NextValue, IInv, ByPhase
<1>4. CASE Tick \/ SeeToken \/ SubscriptionDropped \/ Accepted
  <2>1. UNCHANGED <<value, changes, due, channel, todo, accepted, sent>> /\ pc # "gone"
    BY <1>4 DEF Tick, SeeToken, SubscriptionDropped, Accepted, server, incoming, history
  <2>2. CASE \E last \in BOOLEAN : StartFlush(last)
    BY <1>1, <2>1, <2>2, StartOrdered
  <2>3. CASE UNCHANGED <<batch, sending>>
    BY <1>1, <2>1, <2>3, QuietOrdered
  <2> QED
    BY <1>4, <2>2, <2>3 DEF Tick, SeeToken, SubscriptionDropped, Accepted
<1>5. CASE AddMeasurement \/ PublishEvent \/ PublishAlarm
  BY <1>1, <1>5, PerformOrdered
<1>6. CASE \E type \in Types : FlushType(type)
  BY <1>1, <1>6, SendOrdered
<1>7. CASE Flushed \/ EndGeneration \/ Deliver \/ UNCHANGED vars
  <2>1. /\ UNCHANGED <<value, changes, due, channel, todo, accepted, sent, batch, sending>>
        /\ pc' # "gone" => pc # "gone"
    BY <1>7 DEF Flushed, EndGeneration, Deliver, server, incoming, work, history, vars
  <2> QED
    BY <1>1, <2>1, QuietOrdered
<1>8. CASE \E n \in Nodes : FirstReport(n)
  BY <1>1, <1>8, FirstOrdered
<1>9. CASE \E n \in Nodes : \E level \in LevelsOf[n] : Change(n, level)
  BY <1>1, <1>9, ChangeOrdered, LevelAssumption
<1>10. CASE Abort \/ NewGeneration
  BY <1>1, <1>10, GenerationOrdered
<1> QED
  BY <1>2, <1>3, <1>4, <1>5, <1>6, <1>7, <1>8, <1>9, <1>10 DEF Next, Reader

-----------------------------------------------------------------------------
(* Theorems.                                                               *)

\* Every step keeps the inductive invariant.
LEMMA NextInv == IInv /\ [Next]_vars => IInv'
<1> SUFFICES ASSUME IInv, [Next]_vars PROVE IInv'
  OBVIOUS
<1>1. TypeOK'
  BY TypeInv DEF IInv
<1>2. ByPhase' /\ Newest' /\ Carried' /\ CalledFor'
  BY PhaseInv, NewestInv, CarriedInv, CalledForInv
<1>3. delivery' = "subscription" => InOrder' /\ AtHand' /\ NotSentYet'
  BY <1>1, OrderedInv DEF Ordered
<1> QED
  BY <1>1, <1>2, <1>3 DEF IInv

\* What is put together and what was accepted agree in every reachable state.
THEOREM Inductive == Spec => []IInv
BY InitInv, NextInv, PTL DEF Spec

\* The types hold, and neither the channel nor the requests outgrow their bounds.
THEOREM TypeCorrect == Spec => []TypeOK
<1>1. IInv => TypeOK
  BY DEF IInv
<1> QED
  BY <1>1, Inductive, PTL

\* What is carried is on its way to the broker, or there.
LEMMA CarriedIsKept == IInv => KeptUntilTheEnd
<1> SUFFICES ASSUME IInv, pc # "gone", NEW s \in Series
             PROVE  \E seq \in OnItsWay(s) : seq >= accepted[s]
  BY DEF KeptUntilTheEnd, Kept
<1>1. s \in Nodes \X Types /\ accepted[s] \in Nat /\ accepted[s] >= accepted[s]
  BY Numbers DEF IInv, Series
<1>2. CASE Tells(batch, s)
  <2>1. batch[s[2]] \in Builds(s[2]) /\ s[1] \in DOMAIN batch[s[2]].readings
    BY <1>2 DEF Tells, Builds
  <2>2. batch[s[2]].readings[s[1]] = accepted[s]
    BY <1>1, <1>2 DEF IInv, Newest
  <2> QED
    BY <1>1, <2>1, <2>2 DEF OnItsWay
<1>3. CASE Tells(sending, s)
  <2>1. sending[s[2]] \in Builds(s[2]) /\ s[1] \in DOMAIN sending[s[2]].readings
    BY <1>3 DEF Tells, Builds
  <2>2. sending[s[2]].readings[s[1]] = accepted[s]
    BY <1>1, <1>3 DEF IInv, Newest
  <2> QED
    BY <1>1, <2>1, <2>2 DEF OnItsWay
<1>4. CASE Shipped(s)
  <2>1. CASE shown[s] >= accepted[s]
    BY <2>1 DEF OnItsWay
  <2>2. CASE \E i \in 1 .. Len(outbox) :
                 TellsAt(i, s) /\ outbox[i].body.readings[s[1]] >= accepted[s]
    <3>1. PICK i \in 1 .. Len(outbox) :
                  TellsAt(i, s) /\ outbox[i].body.readings[s[1]] >= accepted[s]
      BY <2>2
    <3>2. i \in DOMAIN outbox
      BY LenProperties DEF IInv, TypeOK
    <3>3. outbox[i].body \in Builds(s[2]) /\ s[1] \in DOMAIN outbox[i].body.readings
      BY <3>1, <3>2 DEF TellsAt, Builds
    <3> QED
      BY <3>1, <3>3 DEF OnItsWay
  <2>3. Len(outbox) \in Nat
    BY LenProperties DEF IInv, TypeOK
  <2>4. \A i \in 0 .. Len(outbox) : i # 0 => i \in 1 .. Len(outbox)
    BY <2>3
  <2> QED
    BY <1>4, <2>1, <2>2, <2>4 DEF Shipped
<1> QED
  BY <1>2, <1>3, <1>4 DEF IInv, Carried

\* Until the reader is aborted, what it accepted is in the batch, on its way or with
\* the broker, or a newer measurement of the series is.
THEOREM NothingDropped == Spec => []KeptUntilTheEnd
<1>1. IInv => KeptUntilTheEnd
  BY CarriedIsKept
<1> QED
  BY <1>1, Inductive, PTL

\* A message that tells of measurements is one of a flush, and nothing it tells was sent.
LEMMA SendsOnce ==
    ASSUME IInv, [Next]_vars, delivery = "subscription", Len(outbox') > Len(outbox),
           Last(outbox').kind = "measurement",
           NEW n \in DOMAIN Last(outbox').body.readings
    PROVE  Last(outbox').body.readings[n] > sent[<<n, Last(outbox').type>>]
<1>1. Len(outbox) \in Nat /\ outbox \in Seq(Messages)
  BY LenProperties DEF IInv, TypeOK
<1>2. \A x : x \in Messages /\ outbox' = Append(outbox, x) => Last(outbox') = x
  <2> SUFFICES ASSUME NEW x \in Messages, outbox' = Append(outbox, x)
               PROVE  Last(outbox') = x
    OBVIOUS
  <2>1. Len(outbox') = Len(outbox) + 1 /\ outbox'[Len(outbox) + 1] = x
    BY <1>1, Extended
  <2> QED
    BY <2>1 DEF Last
<1>3. outbox' # outbox
  BY <1>1
<1>4. ~Deliver
  <2> SUFFICES ASSUME Deliver PROVE FALSE
    OBVIOUS
  <2>1. Len(outbox') = Len(outbox) - 1
    BY <1>1, Behead DEF Deliver
  <2> QED
    BY <1>1, <2>1
<1>5. ~(PublishEvent \/ PublishAlarm)
  BY <1>2, <1>3, MomentType DEF IInv
<1>6. PICK type \in Types : FlushType(type)
  BY <1>3, <1>4, <1>5 DEF Next, Reader, Receive, ReadCycle, NextValue, Tick, SeeToken,
     SubscriptionDropped, AddMeasurement, Accepted, Flushed, FirstReport, Change, EndGeneration,
     Abort, NewGeneration, vars
<1> DEFINE message == [kind |-> "measurement", type |-> type, body |-> sending[type]]
<1>7. type \in DOMAIN sending /\ outbox' = Append(outbox, message)
  BY <1>6 DEF FlushType, Publishes
<1>8. message \in Messages /\ IsMap(sending[type].readings, Nodes, 1 .. MaxChanges)
  <2>1. sending[type] \in Builders
    BY <1>7 DEF IInv, TypeOK, IsMap
  <2> QED
    BY <2>1, MapsAreTyped DEF Messages, Builders
<1>9. Last(outbox') = message
  BY <1>2, <1>7, <1>8
<1>10. n \in DOMAIN sending[type].readings /\ n \in Nodes
  BY <1>8, <1>9 DEF IsMap
<1> DEFINE s == <<n, type>>
<1>11. Tells(sending, s) /\ s \in Nodes \X Types
  BY <1>7, <1>10 DEF Tells
<1>12. s \in Series /\ sending[type].readings[n] = accepted[s]
  BY <1>11 DEF IInv, Newest
<1>13. sent[s] < accepted[s] /\ sent[s] \in Nat /\ accepted[s] \in Nat
  BY <1>11, <1>12, Numbers DEF IInv, NotSentYet
<1> QED
  BY <1>9, <1>12, <1>13

\* A reader tells of no measurement of a subscription twice, and of none after a newer.
THEOREM ToldOnce == Spec => PublishedOnce
<1>1. IInv /\ [Next]_vars =>
          [delivery = "subscription" /\ Len(outbox') > Len(outbox)
             /\ Last(outbox').kind = "measurement"
           => \A n \in DOMAIN Last(outbox').body.readings :
                  Last(outbox').body.readings[n] > sent[<<n, Last(outbox').type>>]]_vars
  BY SendsOnce
<1> QED
  BY <1>1, Inductive, PTL DEF Spec, PublishedOnce

=============================================================================
