--------------------------- MODULE Gateway_proofs ---------------------------
(***************************************************************************)
(* The order of what a process announces, for every configuration and      *)
(* every capacity, over crashes and restarts, checked by TLAPS.            *)
(***************************************************************************)
EXTENDS Gateway, SequenceTheorems, TLAPS

-----------------------------------------------------------------------------
(* Messages in order.                                                      *)

\* Kinds of messages that something hangs below.
ParentKinds == {"service", "gateway", "server", "device"}

\* Only those are waited for.
LEMMA ParentsAreParents ==
    ASSUME NEW m, NEW a \in Parents(m)
    PROVE  a[1] \in ParentKinds
BY DEF Parents, ParentKinds, ServerMessage, DeviceMessage

\* Knowing more parents breaks no order, nor does forgetting what is no parent.
LEMMA InOrderKnowing ==
    ASSUME NEW s, NEW K, NEW L, InOrder(s, K),
           \A a \in K : a[1] \in ParentKinds => a \in L
    PROVE  InOrder(s, L)
BY ParentsAreParents DEF InOrder

\* The first of some messages in order has its parents known, and the rest is in
\* order once the first is known.
LEMMA InOrderTail ==
    ASSUME NEW s \in Seq(Messages), s # <<>>, NEW K, InOrder(s, K)
    PROVE  /\ Head(s) \in Messages
           /\ Parents(Head(s)) \subseteq K
           /\ InOrder(Tail(s), K \cup {Head(s)})
           /\ ToSet(s) = {Head(s)} \cup ToSet(Tail(s))
<1>1. /\ Tail(s) \in Seq(Messages)
      /\ Len(s) \in Nat \ {0}
      /\ DOMAIN s = 1 .. Len(s)
      /\ DOMAIN Tail(s) = 1 .. Len(s) - 1
      /\ \A i \in DOMAIN Tail(s) : Tail(s)[i] = s[i + 1]
      /\ Head(s) = s[1]
      /\ Head(s) \in Messages
  BY HeadTailProperties, LenProperties, EmptySeq
<1>2. Parents(Head(s)) \subseteq K
  BY <1>1 DEF InOrder
<1>3. InOrder(Tail(s), K \cup {Head(s)})
  <2> SUFFICES ASSUME NEW i \in DOMAIN Tail(s), NEW a \in Parents(Tail(s)[i]),
                      a \notin K, a # s[1]
               PROVE  \E j \in 1 .. i - 1 : Tail(s)[j] = a
    BY <1>1 DEF InOrder
  <2>1. i + 1 \in DOMAIN s /\ s[i + 1] = Tail(s)[i]
    BY <1>1
  <2>2. PICK j \in 1 .. i : s[j] = a
    BY <1>1, <2>1 DEF InOrder
  <2>3. j # 1 /\ j - 1 \in 1 .. i - 1 /\ j - 1 \in DOMAIN Tail(s)
    BY <1>1, <2>2
  <2> QED
    BY <1>1, <2>2, <2>3
<1>4. ToSet(s) = {Head(s)} \cup ToSet(Tail(s))
  <2>1. \A i \in DOMAIN s : i = 1 \/ i - 1 \in DOMAIN Tail(s)
    BY <1>1
  <2>2. \A i \in DOMAIN Tail(s) : i + 1 \in DOMAIN s
    BY <1>1
  <2>3. \A i \in DOMAIN s : i # 1 => s[i] = Tail(s)[i - 1]
    BY <1>1, <2>1
  <2>4. 1 \in DOMAIN s
    BY <1>1
  <2> QED
    BY <1>1, <2>1, <2>2, <2>3, <2>4 DEF ToSet
<1> QED
  BY <1>1, <1>2, <1>3, <1>4

\* A message whose parents are known or among them may follow some in order.
LEMMA InOrderAppend ==
    ASSUME NEW s \in Seq(Messages), NEW m \in Messages, NEW K, InOrder(s, K),
           Parents(m) \subseteq K \cup ToSet(s)
    PROVE  /\ InOrder(Append(s, m), K)
           /\ ToSet(Append(s, m)) = ToSet(s) \cup {m}
<1>1. /\ DOMAIN s = 1 .. Len(s)
      /\ Len(s) \in Nat
      /\ DOMAIN Append(s, m) = 1 .. Len(s) + 1
      /\ \A i \in DOMAIN s : Append(s, m)[i] = s[i]
      /\ Append(s, m)[Len(s) + 1] = m
  BY AppendProperties, LenProperties
<1>2. InOrder(Append(s, m), K)
  <2> SUFFICES ASSUME NEW i \in DOMAIN Append(s, m), NEW a \in Parents(Append(s, m)[i]),
                      a \notin K
               PROVE  \E j \in 1 .. i - 1 : Append(s, m)[j] = a
    BY DEF InOrder
  <2>1. CASE i \in DOMAIN s
    <3>1. PICK j \in 1 .. i - 1 : s[j] = a
      BY <1>1, <2>1 DEF InOrder
    <3> QED
      BY <1>1, <2>1, <3>1
  <2>2. CASE i = Len(s) + 1
    <3>1. PICK j \in DOMAIN s : s[j] = a
      BY <1>1, <2>2 DEF ToSet
    <3> QED
      BY <1>1, <2>2, <3>1
  <2> QED
    BY <1>1, <2>1, <2>2
<1>3. ToSet(Append(s, m)) = ToSet(s) \cup {m}
  BY <1>1 DEF ToSet
<1> QED
  BY <1>2, <1>3

\* Nothing is in order.
LEMMA InOrderEmpty ==
    ASSUME NEW K
    PROVE  InOrder(<<>>, K) /\ ToSet(<<>>) = {}
BY DEF InOrder, ToSet

-----------------------------------------------------------------------------
(* Types, and which tasks there are in which part of a process's life.     *)

\* A publish adds one message, when there is room or nobody to take it.
LEMMA SubmitType ==
    ASSUME TypeOK, NEW m \in Messages, CanPublish, Submit(m)
    PROVE  requests' \in Seq(Messages) /\ Len(requests') <= Capacity
BY AppendProperties, LenProperties, BoundsAssumption DEF TypeOK, CanPublish, Submit

\* What run() and a server task publish are messages.
LEMMA StartupType ==
    ASSUME NEW c \in Config
    PROVE  /\ Startup(c) \in Seq(Messages)
           /\ {<<>>, <<ServerMessage(c)>>, <<DeviceMessage, DataMessage>>, <<DataMessage>>}
                \subseteq Seq(Messages)
<1>1. /\ <<<<"service", "main">>, <<"health", "main">>>> \in Seq(Messages)
      /\ <<<<"gateway", "main">>, <<"twin", "gateway">>>> \in Seq(Messages)
      /\ <<>> \in Seq(Messages)
  BY DEF Messages
<1>2. ServerMessage(c) \in Messages /\ DeviceMessage \in Messages /\ DataMessage \in Messages
  BY DEF ServerMessage, DeviceMessage, DataMessage, Messages
<1> QED
  BY <1>1, <1>2, ConcatProperties DEF Startup

\* No process, no tasks.
LEMMA InitType == Init => TypeOK /\ TasksByLife
<1>1. <<>> \in Seq(Messages) /\ <<>> \in Seq(Addressees) /\ Len(<<>>) = 0
      /\ <<>> \in Seq(Addressees \cup {"other"})
  BY EmptySeq
<1>2. NoConfig \in Config
  BY DEF NoConfig, Config
<1> QED
  BY <1>1, <1>2, BoundsAssumption DEF Init, Dead, TypeOK, TasksByLife

\* Starting and ending a process.
LEMMA LifeType ==
    ASSUME TypeOK, TasksByLife, Start \/ Spawn \/ Signal \/ Joined \/ Deadline \/ Crash
    PROVE  TypeOK' /\ TasksByLife'
<1>1. CASE Start
  <2>1. config' \in Config /\ todo' \in Seq(Messages)
    BY <1>1, ConfigsAssumption, StartupType DEF Start
  <2> QED
    BY <1>1, <2>1 DEF Start, TypeOK, TasksByLife, channels, broker
<1>2. CASE Spawn
  BY <1>2 DEF Spawn, TypeOK, TasksByLife, channels, broker
<1>3. CASE Signal
  BY <1>3 DEF Signal, TypeOK, TasksByLife, tasks, channels, broker
<1>4. CASE Joined \/ Deadline \/ Crash
  <2>1. Ends
    BY <1>4 DEF Joined, Deadline, Crash
  <2>2. <<>> \in Seq(Messages) /\ <<>> \in Seq(Addressees) /\ Len(<<>>) = 0
      /\ <<>> \in Seq(Addressees \cup {"other"})
    BY EmptySeq
  <2>3. NoConfig \in Config
    BY DEF NoConfig, Config
  <2> QED
    BY <2>1, <2>2, <2>3, BoundsAssumption DEF Ends, TypeOK, TasksByLife
<1> QED
  BY <1>1, <1>2, <1>3, <1>4

\* What publishes takes a message from somewhere and has it submitted.
LEMMA PublishType ==
    ASSUME TypeOK, TasksByLife, Announce \/ Answer \/ WorkerPublishes \/ Resubscribe
    PROVE  TypeOK' /\ TasksByLife'
<1>1. CASE Announce
  <2>1. Head(todo) \in Messages /\ todo' \in Seq(Messages)
    BY <1>1, HeadTailProperties DEF Announce, TypeOK
  <2>2. requests' \in Seq(Messages) /\ Len(requests') <= Capacity
    BY <1>1, <2>1, SubmitType DEF Announce
  <2> QED
    BY <1>1, <2>1, <2>2 DEF Announce, TypeOK, TasksByLife, tasks, broker
<1>2. CASE Answer
  <2>1. <<"502", handler>> \in Messages
    BY <1>2 DEF Answer, Messages
  <2>2. requests' \in Seq(Messages) /\ Len(requests') <= Capacity
    BY <1>2, <2>1, SubmitType DEF Answer
  <2>3. main = "off" => requests' = <<>>
    BY <1>2 DEF Answer, Submit, TasksByLife
  <2> QED
    BY <1>2, <2>2, <2>3 DEF Answer, TypeOK, TasksByLife, startup, broker
<1>3. CASE WorkerPublishes
  <2>1. Head(work) \in Messages /\ work' \in Seq(Messages)
    BY <1>3, HeadTailProperties DEF WorkerPublishes, TypeOK
  <2>2. requests' \in Seq(Messages) /\ Len(requests') <= Capacity
    BY <1>3, <2>1, SubmitType DEF WorkerPublishes
  <2>3. worker' = "connecting" => work' = <<>>
    <3>1. Tail(<<ServerMessage(config)>>) = <<>>
      OBVIOUS
    <3> QED
      BY <1>3, <3>1 DEF WorkerPublishes, TasksByLife
  <2> QED
    BY <1>3, <2>1, <2>2, <2>3 DEF WorkerPublishes, TypeOK, TasksByLife, startup, broker
<1>4. CASE Resubscribe
  <2>1. requests' \in Seq(Messages) /\ Len(requests') <= Capacity
    <3>1. <<"subscribe", "main">> \in Messages
      BY DEF Messages
    <3> QED
      BY <1>4, <3>1, AppendProperties, LenProperties, BoundsAssumption DEF Resubscribe, TypeOK
  <2> QED
    BY <1>4, <2>1 DEF Resubscribe, TypeOK, TasksByLife, startup, broker
<1> QED
  BY <1>1, <1>2, <1>3, <1>4

\* The event loop and the operation handler.
LEMMA LoopType ==
    ASSUME TypeOK, TasksByLife,
           \/ Connect \/ Transmit \/ Forward \/ ForwardOther \/ LoopStops
           \/ Take \/ HandlerStops
    PROVE  TypeOK' /\ TasksByLife'
<1>1. CASE Connect
  BY <1>1 DEF Connect, TypeOK, TasksByLife, startup, channels
<1>2. CASE Transmit
  <2>1. requests' \in Seq(Messages) /\ Len(requests') <= Capacity
    <3>1. requests' \in Seq(Messages) /\ Len(requests') = Len(requests) - 1
      BY <1>2, HeadTailProperties DEF Transmit, TypeOK
    <3>2. Len(requests) \in Nat
      BY LenProperties DEF TypeOK
    <3> QED
      BY <3>1, <3>2, BoundsAssumption DEF TypeOK
  <2>2. open' \subseteq open /\ UNCHANGED <<startup, tasks, incoming, link, armed, backlog>>
    BY <1>2 DEF Transmit
  <2>3. main # "off"
    BY <1>2 DEF Transmit, TasksByLife
  <2> QED
    BY <2>1, <2>2, <2>3 DEF TypeOK, TasksByLife, startup, tasks
<1>3. CASE Forward
  <2>1. incoming' \in Seq(Addressees \cup {"other"}) /\ Len(incoming') <= IncomingCapacity
    <3>1. Head(backlog) \in Addressees \cup {"other"}
      BY <1>3, HeadTailProperties DEF Forward, TypeOK
    <3> QED
      BY <1>3, <3>1, AppendProperties, LenProperties, BoundsAssumption
         DEF Forward, TypeOK, Accepts
  <2>2. backlog' \in Seq(Addressees)
    BY <1>3, HeadTailProperties DEF Forward, TypeOK
  <2>3. UNCHANGED <<startup, tasks, requests, armed, health, heard, open>>
    BY <1>3 DEF Forward
  <2> QED
    BY <2>1, <2>2, <2>3 DEF TypeOK, TasksByLife, startup, tasks
<1>4. CASE LoopStops
  BY <1>4 DEF LoopStops, TypeOK, TasksByLife, startup, channels
<1>5. CASE Take
  <2>1. /\ Head(incoming) \in Addressees \cup {"other"}
        /\ incoming' \in Seq(Addressees \cup {"other"})
        /\ Len(incoming') = Len(incoming) - 1
        /\ Len(incoming) \in Nat
    BY <1>5, HeadTailProperties, LenProperties DEF Take, TypeOK
  <2>2. Len(incoming') <= IncomingCapacity
    BY <2>1, BoundsAssumption DEF TypeOK
  <2>3. handler' \in {"waiting"} \cup Addressees
    <3>1. "other" \notin Servers
      BY NamesAssumption
    <3>2. Ours(Head(incoming)) => Head(incoming) # "other"
      BY <3>1 DEF Ours, TypeOK
    <3> QED
      BY <1>5, <2>1, <3>2 DEF Take
  <2> QED
    BY <1>5, <2>1, <2>2, <2>3 DEF Take, TypeOK, TasksByLife, startup, broker
<1>6. CASE HandlerStops
  BY <1>6 DEF HandlerStops, TypeOK, TasksByLife, startup, channels, broker
<1>7. CASE ForwardOther
  <2>1. incoming' \in Seq(Addressees \cup {"other"}) /\ Len(incoming') <= IncomingCapacity
    BY <1>7, AppendProperties, LenProperties, BoundsAssumption DEF ForwardOther, TypeOK, Accepts
  <2>2. UNCHANGED <<startup, tasks, requests, broker, open>>
    BY <1>7 DEF ForwardOther
  <2> QED
    BY <2>1, <2>2 DEF TypeOK, TasksByLife, startup, tasks, broker
<1> QED
  BY <1>1, <1>2, <1>3, <1>4, <1>5, <1>6, <1>7

\* The provider, the server task's own steps, and everything outside.
LEMMA OtherType ==
    ASSUME TypeOK, TasksByLife,
           \/ Listed \/ ServerStarts \/ Returns \/ Connected \/ Resolved \/ Reads
           \/ Closes \/ Closed \/ WorkerStops
           \/ LinkLost \/ WillFires \/ Users \/ UNCHANGED vars
    PROVE  TypeOK' /\ TasksByLife'
<1>1. CASE Listed
  BY <1>1 DEF Listed, TypeOK, TasksByLife, startup, channels, broker
<1>2. CASE ServerStarts
  <2>1. work' \in Seq(Messages)
    BY <1>2, StartupType DEF ServerStarts, TypeOK
  <2> QED
    BY <1>2, <2>1 DEF ServerStarts, Wanted, TypeOK, TasksByLife, startup, channels, broker,
       ServerMessage
<1>3. CASE Returns \/ Connected \/ Resolved \/ Closes \/ Closed \/ WorkerStops
  <2>1. UNCHANGED <<startup, loop, handler, provider, listed, channels, broker, open>>
    BY <1>3 DEF Returns, Connected, Resolved, Closes, Closed, WorkerStops, Moves
  <2>2. worker # "none" /\ worker' \in {"none", "idle", "connecting", "resolving", "watching",
                                        "running", "closing"}
    BY <1>3 DEF Returns, Connected, Resolved, Closes, Closed, WorkerStops, Moves
  <2>3. \/ work' = <<>>
        \/ worker' = "running" /\ work' = <<DeviceMessage, DataMessage>>
    BY <1>3 DEF Returns, Connected, Resolved, Closes, Closed, WorkerStops, Moves, TasksByLife
  <2>4. work' \in Seq(Messages)
    BY <2>3, StartupType DEF TypeOK
  <2> QED
    BY <2>1, <2>2, <2>3, <2>4 DEF TypeOK, TasksByLife, startup, channels, broker
<1>4. CASE Reads
  <2>1. work' \in Seq(Messages)
    BY <1>4, StartupType DEF Reads, TypeOK
  <2> QED
    BY <1>4, <2>1 DEF Reads, TypeOK, TasksByLife, startup, channels, broker
<1>5. CASE LinkLost \/ WillFires
  BY <1>5 DEF LinkLost, WillFires, TypeOK, TasksByLife, startup, tasks, channels
<1>6. CASE Users
  <2>1. PICK t \in Addressees : Issue(t)
    BY <1>6 DEF Users
  <2>2. backlog' \in Seq(Addressees)
    BY <2>1, AppendProperties DEF Issue, TypeOK
  <2> QED
    BY <2>1, <2>2 DEF Issue, TypeOK, TasksByLife, startup, tasks, channels
<1>7. CASE UNCHANGED vars
  BY <1>7 DEF vars, TypeOK, TasksByLife
<1> QED
  BY <1>1, <1>2, <1>3, <1>4, <1>5, <1>6, <1>7

-----------------------------------------------------------------------------
(* The order of what is announced.                                         *)

\* Within one process parents stay what they are, so the order after a step can
\* be looked at with the parents of before.
LEMMA SameParents ==
    ASSUME config' = config
    PROVE  /\ \A m : Parents(m)' = Parents(m)
           /\ InOrder(requests, heard)' <=> InOrder(requests', heard')
           /\ InOrder(todo, Told)' <=> InOrder(todo', Told')
           /\ InOrder(work, Told)' <=> InOrder(work', Told')
           /\ HeardInOrder' <=> \A m \in heard' : Parents(m) \subseteq heard'
           /\ Roots(config)' = Roots(config)
           /\ ServerMessage(config)' = ServerMessage(config)
BY DEF InOrder, HeardInOrder, Parents, Roots, ServerMessage, DeviceMessage, Told

\* The two parts that speak of that order.
OrderInv == OrderKept /\ WorkInOrder

\* What is announced, while no message moves.
LEMMA KeptOrder ==
    ASSUME OrderKept, config' = config, requests' = requests, heard' = heard, todo' = todo,
           main' = "off" => main = "off", main = "off" => main' = "off"
    PROVE  OrderKept' /\ Told' = Told
<1>1. Told' = Told
  BY DEF Told
<1>2. HeardInOrder'
  BY SameParents DEF OrderKept, HeardInOrder
<1>3. InOrder(requests, heard)' /\ InOrder(todo, Told)'
  BY <1>1, SameParents DEF OrderKept
<1>4. (main # "off" => Roots(config) \subseteq Told \cup ToSet(todo))'
  BY <1>1, SameParents DEF OrderKept
<1> QED
  BY <1>1, <1>2, <1>3, <1>4 DEF OrderKept

\* Nothing is published, sent or heard.
LEMMA QuietOrder ==
    ASSUME OrderInv, config' = config, requests' = requests, heard' = heard,
           todo' = todo, work' = work,
           main' = "off" <=> main = "off",
           loop' # "none" => loop # "none",
           worker' \notin {"none", "idle"} => worker \notin {"none", "idle"},
           worker' = "running" => worker = "running"
    PROVE  OrderInv'
<1>1. OrderKept' /\ Told' = Told
  BY KeptOrder DEF OrderInv
<1>2. InOrder(work, Told)' <=> InOrder(work, Told)
  BY <1>1, SameParents
<1>3. ServerMessage(config)' = ServerMessage(config)
  BY SameParents
<1>4. WorkInOrder'
  BY <1>1, <1>2, <1>3 DEF OrderInv, WorkInOrder
<1> QED
  BY <1>1, <1>4 DEF OrderInv

\* A message whose parents are on their way, or that has none, joins the
\* requests; what was to be published after it still is in order.
LEMMA SubmitOrder ==
    ASSUME OrderInv, TypeOK, NEW m \in Messages,
           Parents(m) \subseteq Told,
           requests' = Append(requests, m),
           config' = config, heard' = heard
    PROVE  /\ HeardInOrder' /\ InOrder(requests, heard)'
           /\ Told' = Told \cup {m}
<1>1. requests \in Seq(Messages) /\ InOrder(requests, heard)
  BY DEF TypeOK, OrderInv, OrderKept
<1>2. InOrder(requests', heard) /\ ToSet(requests') = ToSet(requests) \cup {m}
  BY <1>1, InOrderAppend DEF Told
<1>3. HeardInOrder'
  BY SameParents DEF OrderInv, OrderKept, HeardInOrder
<1> QED
  BY <1>2, <1>3, SameParents DEF Told

\* run() announces in the order of Startup.
LEMMA AnnounceOrder ==
    ASSUME OrderInv, TypeOK, TasksByLife, Announce
    PROVE  OrderInv'
<1> DEFINE m == Head(todo)
<1>1. /\ todo \in Seq(Messages) /\ todo # <<>> /\ InOrder(todo, Told)
      /\ main = "starting" /\ main' = main /\ loop # "none" /\ loop' = loop
      /\ worker = "none" /\ worker' = worker /\ work = <<>> /\ work' = work
      /\ config' = config /\ heard' = heard
      /\ todo' = Tail(todo) /\ requests' = Append(requests, m)
  BY DEF OrderInv, OrderKept, TypeOK, TasksByLife, Announce, Submit, tasks, broker
<1>2. /\ m \in Messages
      /\ Parents(m) \subseteq Told
      /\ InOrder(todo', Told \cup {m})
      /\ ToSet(todo) = {m} \cup ToSet(todo')
  BY <1>1, InOrderTail
<1> HIDE DEF m
<1>3. HeardInOrder' /\ InOrder(requests, heard)' /\ Told' = Told \cup {m}
  BY <1>1, <1>2, SubmitOrder
<1>4. InOrder(todo, Told)'
  BY <1>1, <1>2, <1>3, SameParents
<1>5. Roots(config)' \subseteq Told' \cup ToSet(todo')
  BY <1>1, <1>2, <1>3, SameParents DEF OrderInv, OrderKept
<1>6. WorkInOrder'
  BY <1>1, <1>3, InOrderEmpty, SameParents DEF WorkInOrder
<1> QED
  BY <1>3, <1>4, <1>5, <1>6 DEF OrderInv, OrderKept

\* A server task publishes itself before its data, once the loop takes it.
LEMMA WorkerOrder ==
    ASSUME OrderInv, TypeOK, TasksByLife, WorkerPublishes
    PROVE  OrderInv'
<1> DEFINE m == Head(work)
<1>1. /\ work \in Seq(Messages) /\ work # <<>> /\ work' = Tail(work)
      /\ UNCHANGED <<config, main, todo, loop, worker, heard>>
      /\ main \in {"serving", "joining"} /\ todo = <<>>
  BY DEF TypeOK, TasksByLife, WorkerPublishes, startup, broker
<1>2. CASE loop = "none"
  <2>1. requests' = requests /\ Told' = Told
    BY <1>1, <1>2 DEF WorkerPublishes, Submit, Told
  <2> QED
    BY <1>1, <1>2, <2>1, KeptOrder DEF OrderInv, WorkInOrder
<1>3. CASE loop # "none"
  <2>1. requests' = Append(requests, m)
    BY <1>3 DEF WorkerPublishes, Submit
  <2>2. /\ m \in Messages
        /\ Parents(m) \subseteq Told
        /\ InOrder(work', Told \cup {m})
        /\ ToSet(work) = {m} \cup ToSet(work')
    BY <1>1, <1>3, InOrderTail DEF OrderInv, WorkInOrder
  <2> HIDE DEF m
  <2>3. HeardInOrder' /\ InOrder(requests, heard)' /\ Told' = Told \cup {m}
    BY <1>1, <2>1, <2>2, SubmitOrder
  <2>4. InOrder(todo, Told)'
    BY <1>1, InOrderEmpty, SameParents
  <2>5. Roots(config)' \subseteq Told' \cup ToSet(todo')
    BY <1>1, <2>3, SameParents DEF OrderInv, OrderKept
  <2>6. WorkInOrder'
    BY <1>1, <1>3, <2>2, <2>3, SameParents DEF OrderInv, WorkInOrder
  <2> QED
    BY <2>3, <2>4, <2>5, <2>6 DEF OrderInv, OrderKept
<1> QED
  BY <1>2, <1>3

\* An operation's answer and a subscription hang below nothing.
LEMMA OrphanOrder ==
    ASSUME OrderInv, TypeOK, TasksByLife, Answer \/ Resubscribe
    PROVE  OrderInv'
<1>1. UNCHANGED <<config, main, todo, worker, work, heard>> /\ (loop' = "none" <=> loop = "none")
  BY DEF Answer, Resubscribe, startup, broker
<1>2. CASE requests' = requests
  BY <1>1, <1>2, QuietOrder
<1>3. CASE requests' # requests
  <2>1. PICK m \in Messages : requests' = Append(requests, m) /\ m[1] \in {"502", "subscribe"}
    <3>1. CASE Answer
      <4>1. requests' = Append(requests, <<"502", handler>>)
        BY <1>3, <3>1 DEF Answer, Submit
      <4>2. <<"502", handler>> \in Messages
        BY <3>1 DEF Answer, Messages
      <4> QED
        BY <4>1, <4>2
    <3>2. CASE Resubscribe
      <4>1. <<"subscribe", "main">> \in Messages
        BY DEF Messages
      <4> QED
        BY <3>2, <4>1 DEF Resubscribe
    <3> QED
      BY <3>1, <3>2
  <2>2. Parents(m) = {}
    BY <2>1 DEF Parents
  <2>3. HeardInOrder' /\ InOrder(requests, heard)' /\ Told' = Told \cup {m}
    BY <1>1, <2>1, <2>2, SubmitOrder
  <2>4. InOrder(todo, Told)'
    BY <1>1, <2>3, InOrderKnowing, SameParents DEF OrderInv, OrderKept
  <2>5. InOrder(work, Told) => InOrder(work, Told)'
    BY <1>1, <2>3, InOrderKnowing, SameParents
  <2> QED
    BY <1>1, <2>3, <2>4, <2>5, SameParents DEF OrderInv, OrderKept, WorkInOrder
<1> QED
  BY <1>2, <1>3

\* The broker hears of a thing when its parents were heard of, and forgets no
\* parent.
LEMMA TransmitOrder ==
    ASSUME OrderInv, TypeOK, TasksByLife, Transmit
    PROVE  OrderInv'
<1> DEFINE m == Head(requests)
<1>1. /\ UNCHANGED <<config, main, todo, worker, work, loop>>
      /\ requests \in Seq(Messages) /\ requests # <<>> /\ requests' = Tail(requests)
      /\ heard' = IF m[1] \in {"health", "subscribe", "502"} THEN heard
                  ELSE heard \cup {<<m[1], m[2]>>}
  BY DEF Transmit, TypeOK, startup, tasks
<1>2. /\ m \in Messages
      /\ Parents(m) \subseteq heard
      /\ InOrder(requests', heard \cup {m})
      /\ ToSet(requests) = {m} \cup ToSet(requests')
  BY <1>1, InOrderTail DEF OrderInv, OrderKept
<1> HIDE DEF m
<1>3. m = <<m[1], m[2]>>
  BY <1>2 DEF Messages
<1>4. heard \subseteq heard' /\ heard' \subseteq heard \cup {m}
      /\ (m[1] \in ParentKinds => m \in heard')
  BY <1>1, <1>3 DEF ParentKinds
<1>5. HeardInOrder' /\ InOrder(requests, heard)'
  <2>1. InOrder(requests', heard')
    BY <1>2, <1>4, InOrderKnowing
  <2> QED
    BY <1>1, <1>2, <1>4, <2>1, SameParents DEF OrderInv, OrderKept, HeardInOrder
<1>6. \A a \in Told : a[1] \in ParentKinds => a \in Told'
  BY <1>2, <1>4 DEF Told
<1>7. InOrder(todo, Told)'
  BY <1>1, <1>6, InOrderKnowing, SameParents DEF OrderInv, OrderKept
<1>8. InOrder(work, Told) => InOrder(work, Told)'
  BY <1>1, <1>6, InOrderKnowing, SameParents
<1>9. \A a \in Roots(config) \cup {ServerMessage(config), DeviceMessage} : a[1] \in ParentKinds
  BY DEF Roots, ServerMessage, DeviceMessage, ParentKinds
<1> QED
  BY <1>1, <1>5, <1>6, <1>7, <1>8, <1>9, SameParents DEF OrderInv, OrderKept, WorkInOrder

\* One message is in order when its parents are known.
LEMMA InOrderOne ==
    ASSUME NEW m, NEW K, Parents(m) \subseteq K
    PROVE  InOrder(<<m>>, K) /\ ToSet(<<m>>) = {m}
<1>1. DOMAIN <<m>> = {1} /\ <<m>>[1] = m
  OBVIOUS
<1> QED
  BY <1>1 DEF InOrder, ToSet

\* A server task starts when what its server hangs below has been announced, and
\* its device and data follow what they hang below.
LEMMA StartsOrder ==
    ASSUME OrderInv, TypeOK, TasksByLife, ServerStarts \/ Resolved \/ Reads \/ Closes
    PROVE  OrderInv'
<1>1. /\ UNCHANGED <<config, main, todo, loop, requests, heard>>
      /\ main \in {"serving", "joining"} /\ todo = <<>>
      /\ Told' = Told
  BY DEF ServerStarts, Resolved, Reads, Closes, Moves, TypeOK, TasksByLife, startup, channels,
     broker, Told
<1>2. OrderKept'
  BY <1>1, KeptOrder DEF OrderInv
<1>3. Roots(config) \subseteq Told
  BY <1>1, InOrderEmpty DEF OrderInv, OrderKept
<1>4. CASE ServerStarts
  <2>1. work' = <<ServerMessage(config)>> /\ worker' = "connecting"
    BY <1>4 DEF ServerStarts
  <2>2. Parents(ServerMessage(config)) \subseteq Told
    BY <1>3 DEF Parents, ServerMessage, Roots
  <2>3. InOrder(work', Told) /\ ToSet(work') = {ServerMessage(config)}
    BY <2>1, <2>2, InOrderOne
  <2> QED
    BY <1>1, <1>2, <2>1, <2>3, SameParents DEF OrderInv, WorkInOrder
<1>5. CASE Resolved
  <2>1. worker = "resolving" /\ work = <<>>
    BY <1>5 DEF Resolved, Moves, TasksByLife
  <2>2. loop # "none" => ServerMessage(config) \in Told
    BY <2>1, InOrderEmpty DEF OrderInv, WorkInOrder
  <2>3. CASE worker' = "watching" /\ work' = work
    BY <1>1, <1>2, <2>1, <2>2, <2>3, InOrderEmpty, SameParents DEF OrderInv, WorkInOrder
  <2>4. CASE worker' = "running" /\ work' = <<DeviceMessage, DataMessage>>
    <3>1. /\ DOMAIN work' = 1 .. 2
          /\ work'[1] = DeviceMessage
          /\ work'[2] = DataMessage
      BY <2>4
    <3>2. Parents(DeviceMessage) = {ServerMessage(config)} /\ Parents(DataMessage) = {DeviceMessage}
      BY DEF Parents, DeviceMessage, DataMessage
    <3>3. loop # "none" => InOrder(work', Told)
      BY <2>2, <3>1, <3>2 DEF InOrder
    <3>4. DeviceMessage \in ToSet(work')
      BY <3>1 DEF ToSet
    <3> QED
      BY <1>1, <1>2, <2>2, <3>3, <3>4, SameParents DEF OrderInv, WorkInOrder
  <2> QED
    BY <1>5, <2>3, <2>4 DEF Resolved, Moves
<1>6. CASE Reads
  <2>1. work = <<>> /\ work' = <<DataMessage>> /\ worker = "running" /\ worker' = worker
    BY <1>6 DEF Reads
  <2>2. loop # "none" => ServerMessage(config) \in Told /\ DeviceMessage \in Told
    BY <2>1, InOrderEmpty DEF OrderInv, WorkInOrder
  <2>3. Parents(DataMessage) = {DeviceMessage}
    BY DEF Parents, DataMessage
  <2>4. loop # "none" => InOrder(work', Told)
    BY <2>1, <2>2, <2>3, InOrderOne
  <2> QED
    BY <1>1, <1>2, <2>1, <2>2, <2>4, SameParents DEF OrderInv, WorkInOrder
<1>7. CASE Closes
  <2>1. /\ worker \notin {"none", "idle"} /\ worker' = "closing"
        /\ work \in {<<>>, <<DataMessage>>} /\ work' = <<>>
    BY <1>7 DEF Closes, Moves
  <2>2. ServerMessage(config) \notin ToSet(work)
    <3>1. ServerMessage(config) # DataMessage
      BY DEF ServerMessage, DataMessage
    <3>2. DOMAIN <<DataMessage>> = {1} /\ <<DataMessage>>[1] = DataMessage
      OBVIOUS
    <3>3. ToSet(<<DataMessage>>) = {DataMessage}
      BY <3>2 DEF ToSet
    <3> QED
      BY <2>1, <3>1, <3>3, InOrderEmpty
  <2>3. loop # "none" => ServerMessage(config) \in Told
    BY <2>1, <2>2 DEF OrderInv, WorkInOrder
  <2> QED
    BY <1>1, <1>2, <2>1, <2>3, InOrderEmpty, SameParents DEF OrderInv, WorkInOrder
<1> QED
  BY <1>4, <1>5, <1>6, <1>7

\* A process begins with everything still to announce, in order.
LEMMA StartOrder ==
    ASSUME OrderInv, TypeOK, TasksByLife, Start
    PROVE  OrderInv'
<1>1. /\ heard' = {} /\ requests' = <<>> /\ work' = <<>> /\ worker' = "none"
      /\ todo' = Startup(config')
  BY DEF Start, TasksByLife, channels, broker
<1>2. /\ todo'[1] = <<"service", "main">>
      /\ config'.enabled => Len(todo') = 4 /\ todo'[3] = <<"gateway", "main">>
                            /\ todo'[4] = <<"twin", "gateway">>
      /\ ~config'.enabled => Len(todo') = 2
      /\ todo'[2] = <<"health", "main">>
      /\ DOMAIN todo' = 1 .. Len(todo')
  BY <1>1 DEF Startup
<1>3. InOrder(todo, Told)'
  BY <1>2 DEF InOrder, Parents
<1>4. Roots(config)' \subseteq ToSet(todo')
  BY <1>2 DEF Roots, ToSet
<1>5. HeardInOrder' /\ InOrder(requests, heard)' /\ InOrder(work, Told)'
  BY <1>1 DEF HeardInOrder, InOrder
<1> QED
  BY <1>1, <1>3, <1>4, <1>5 DEF OrderInv, OrderKept, WorkInOrder

\* A process that is gone has announced nothing.
LEMMA EndsOrder ==
    ASSUME Ends
    PROVE  OrderInv'
BY DEF Ends, OrderInv, OrderKept, WorkInOrder, HeardInOrder, InOrder

-----------------------------------------------------------------------------
(* The theorems.                                                           *)

\* Before the first process nothing has been announced.
LEMMA InitInv == Init => IInv
<1> SUFFICES ASSUME Init PROVE IInv
  OBVIOUS
<1>1. OrderKept /\ WorkInOrder
  BY DEF Init, Dead, OrderKept, WorkInOrder, HeardInOrder, InOrder
<1> QED
  BY <1>1, InitType DEF IInv

\* Every step keeps types, tasks and order.
LEMMA NextInv == IInv /\ [Next]_vars => IInv'
<1> SUFFICES ASSUME IInv, [Next]_vars PROVE IInv'
  OBVIOUS
<1>1. TypeOK /\ TasksByLife /\ OrderInv
  BY DEF IInv, OrderInv
<1>2. TypeOK' /\ TasksByLife'
  BY <1>1, LifeType, PublishType, LoopType, OtherType
     DEF Next, MainStep, LoopStep, HandlerStep, WorkerStep
<1>3. OrderInv'
  <2>1. CASE Start
    BY <1>1, <2>1, StartOrder
  <2>2. CASE Joined \/ Deadline \/ Crash
    BY <2>2, EndsOrder DEF Joined, Deadline, Crash
  <2>3. CASE Announce
    BY <1>1, <2>3, AnnounceOrder
  <2>4. CASE WorkerPublishes
    BY <1>1, <2>4, WorkerOrder
  <2>5. CASE Answer \/ Resubscribe
    BY <1>1, <2>5, OrphanOrder
  <2>6. CASE Transmit
    BY <1>1, <2>6, TransmitOrder
  <2>7. CASE ServerStarts \/ Resolved \/ Reads \/ Closes
    BY <1>1, <2>7, StartsOrder
  <2>8. CASE Spawn \/ Signal
    BY <1>1, <2>8, QuietOrder DEF Spawn, Signal, TasksByLife, tasks, channels, broker
  <2>9. CASE Connect \/ Forward \/ ForwardOther \/ LoopStops
    BY <1>1, <2>9, QuietOrder DEF Connect, Forward, ForwardOther, LoopStops, broker, startup, tasks, channels
  <2>10. CASE Take \/ HandlerStops \/ Listed
    BY <1>1, <2>10, QuietOrder DEF Take, HandlerStops, Listed, startup, channels, broker
  <2>12. CASE Returns \/ Connected \/ Closed \/ WorkerStops
    BY <1>1, <2>12, QuietOrder DEF Returns, Connected, Closed, WorkerStops, Moves, startup,
       channels, broker
  <2>11. CASE LinkLost \/ WillFires \/ Users \/ UNCHANGED vars
    BY <1>1, <2>11, QuietOrder DEF LinkLost, WillFires, Users, Issue, startup, tasks, channels,
       vars
  <2> QED
    BY <2>1, <2>2, <2>3, <2>4, <2>5, <2>6, <2>7, <2>8, <2>9, <2>10, <2>11, <2>12
       DEF Next, MainStep, LoopStep, HandlerStep, WorkerStep
<1> QED
  BY <1>2, <1>3 DEF IInv, OrderInv

\* The process is always in one of the inductive invariant's states.
THEOREM Inductive == Spec => []IInv
BY InitInv, NextInv, PTL DEF Spec

\* The two channels never hold more than their capacities, and every operation
\* in them is one of an addressee.
THEOREM TypeCorrect == Spec => []TypeOK
<1>1. IInv => TypeOK
  BY DEF IInv
<1> QED
  BY <1>1, Inductive, PTL

\* In every life of the process, with every configuration, the broker hears of a
\* thing only after what it hangs below, whichever of the tasks publish first
\* and however often the connection is lost.
THEOREM RegisteredInOrder == Spec => []ParentsFirst
<1>1. IInv => ParentsFirst
  <2> SUFFICES ASSUME IInv PROVE ParentsFirst
    OBVIOUS
  <2>1. \A m \in heard : Parents(m) \subseteq heard
    BY DEF IInv, OrderKept, HeardInOrder
  <2>2. <<"gateway", "main">> \in heard => Heard("gateway")
    BY DEF Heard
  <2>3. <<"service", "main">> \in heard => Heard("service")
    BY DEF Heard
  <2>4. \A x : /\ Parents(<<"twin", x>>) = {<<"gateway", "main">>}
               /\ Parents(<<"gateway", x>>) = {<<"service", "main">>}
               /\ Parents(<<"device", x>>) = {ServerMessage(config)}
               /\ Parents(<<"data", x>>) = {<<"device", "server">>}
    BY DEF Parents, DeviceMessage
  <2>5. /\ Parents(<<"server", "gateway">>) = {<<"gateway", "main">>}
        /\ \A x : x # "gateway" => Parents(<<"server", x>>) = {<<"service", "main">>}
    BY DEF Parents
  <2>6. ServerMessage(config) \in heard => Heard("server")
    BY DEF ServerMessage, Heard
  <2>7. Heard("twin") \/ <<"server", "gateway">> \in heard => Heard("gateway")
    BY <2>1, <2>2, <2>4, <2>5 DEF Heard
  <2>8. Heard("gateway") => Heard("service")
    BY <2>1, <2>3, <2>4 DEF Heard
  <2>9. Heard("server") => Heard("service")
    BY <2>1, <2>3, <2>5, <2>7, <2>8 DEF Heard
  <2>10. Heard("device") => Heard("server")
    BY <2>1, <2>4, <2>6 DEF Heard
  <2>11. Heard("data") => Heard("device")
    BY <2>1, <2>4 DEF Heard
  <2> QED
    BY <2>7, <2>8, <2>9, <2>10, <2>11 DEF ParentsFirst
<1> QED
  BY <1>1, Inductive, PTL

=============================================================================
