------------------------------ MODULE Gateway -------------------------------
(***************************************************************************)
(* crates/gateway/src/main.rs, operations.rs and gateway_device.rs: the    *)
(* life of the process, from its configuration to the ten seconds it has   *)
(* to stop in, over crashes and restarts; the operations Cumulocity sends  *)
(* it; and what the broker keeps about it, its health included.            *)
(*                                                                         *)
(* The parts the other modules describe appear by what they do to these:   *)
(* the MQTT client (MqttClient) is a bounded channel that loses nothing    *)
(* while its loop runs; the cloud server provider (CloudServers) lists the *)
(* servers below the gateway in one step; the supervisor with its server   *)
(* tasks (Supervisor, ServerTask, Publisher) is one worker, which          *)
(* registers a server, asks it for one device and publishes its data.      *)
(* What a lost connection drains from the channel stays in it here, so the *)
(* channel is full at a connect more often than in the code.  The gateway  *)
(* has run before: the broker holds its session, and the servers have      *)
(* their external ids.                                                     *)
(***************************************************************************)
EXTENDS Integers, Sequences, SequencesExt

CONSTANTS
    Servers,            \* servers below the gateway object in Cumulocity
    Addressees,         \* bound: those operations are issued for
    Configs,            \* configurations the process may find
    Capacity,           \* mqtt.capacity
    IncomingCapacity    \* INCOMING_CAPACITY

\* What validate() looks at: the gateway device, a device id given or
\* discovered, the proxy, servers configured on the device, a mapping directory.
Config == [enabled : BOOLEAN, device_id : BOOLEAN, proxy : {"off", "unusable", "ok"},
           servers : BOOLEAN, dir : BOOLEAN]

ASSUME ConfigsAssumption == Configs \subseteq Config

ASSUME BoundsAssumption == Capacity \in Nat \ {0} /\ IncomingCapacity \in Nat \ {0}

ASSUME NamesAssumption ==
    /\ Addressees \subseteq Servers \cup {"gateway"}
    /\ Servers \cap {"gateway", "main", "none", "waiting", "other"} = {}

VARIABLES
    config,         \* the configuration in use
    main,           \* where run() is: off, starting, serving or joining
    todo,           \* what run() has still to publish before it starts the rest
    cancelled,      \* the process-wide token
    loop,           \* the MQTT event loop: none, polling or subscribing
    requests,       \* the MQTT client's channel
    incoming,       \* the bounded channel of operations
    handler,        \* operations::run: none, waiting, or whose operation it fails
    provider,       \* cloud_servers::run: none or polling
    listed,         \* the servers it published last
    worker,         \* the supervisor and a server task of it: none (both gone), idle (no
                    \* server), connecting, resolving, watching (nothing to read), running or
                    \* closing
    work,           \* what it has still to publish
    link,           \* the connection, as the broker sees it
    armed,          \* the broker holds the last will
    health,         \* retained at status/health
    heard,          \* entities this process has told the broker of
    backlog,        \* operations the broker has still to deliver, by addressee
    open            \* addressees with an operation that has not failed

startup == <<config, main, todo, cancelled>>
tasks == <<loop, handler, provider, listed, worker, work>>
channels == <<requests, incoming>>
broker == <<link, armed, health, heard, backlog>>
vars == <<config, main, todo, cancelled, loop, requests, incoming, handler, provider,
          listed, worker, work, link, armed, health, heard, backlog, open>>

NoConfig == [enabled |-> FALSE, device_id |-> FALSE, proxy |-> "off", servers |-> FALSE,
             dir |-> FALSE]

\* The tasks of a process that does not run.
Dead ==
    /\ config = NoConfig
    /\ main = "off" /\ todo = <<>> /\ cancelled = FALSE
    /\ loop = "none" /\ requests = <<>> /\ incoming = <<>>
    /\ handler = "none"
    /\ provider = "none" /\ listed = {}
    /\ worker = "none" /\ work = <<>>
    /\ link = FALSE /\ heard = {}

Init ==
    /\ Dead
    /\ armed = FALSE /\ health = "none"
    /\ backlog = <<>> /\ open = {}

-----------------------------------------------------------------------------
(* Publishing, by whichever task: wait for room, or fail once the loop has *)
(* dropped its end of the channel.                                         *)

\* Mistake: the loop's end of the channel outlives the loop.
CanPublish_Held == Len(requests) < Capacity

CanPublish == loop = "none" \/ Len(requests) < Capacity

Submit(m) == requests' = IF loop = "none" THEN requests ELSE Append(requests, m)

-----------------------------------------------------------------------------
(* main.rs: run.                                                           *)

validate(c) ==
    /\ c.servers \/ c.enabled
    /\ c.enabled => c.device_id
    /\ c.proxy # "off" \/ c.dir

\* Without the gateway device, or without a usable proxy, there is nobody to
\* list servers and nobody to answer operations.
HasHandler(c) == c.enabled /\ c.proxy = "ok"

\* The gateway service, its health, the gateway device and its fragments.
Startup(c) ==
    <<<<"service", "main">>, <<"health", "main">>>> \o
        IF c.enabled THEN <<<<"gateway", "main">>, <<"twin", "gateway">>>> ELSE <<>>

\* A server task registers its server first, below parent_entity.
ServerMessage(c) == <<"server", IF c.enabled THEN "gateway" ELSE "main">>

\* Then, with each session, the device of a device type, whose readers publish.
DeviceMessage == <<"device", "server">>

DataMessage == <<"data", "server">>

\* The configuration is read anew by every process.  One that is not valid ends it.
Start ==
    /\ main = "off"
    /\ \E c \in Configs :
        /\ validate(c)
        /\ config' = c
        /\ todo' = Startup(c)
    /\ main' = "starting"
    /\ loop' = "polling"
    /\ UNCHANGED <<cancelled, channels, handler, provider, listed, worker, work, broker, open>>

Announce ==
    /\ main = "starting"
    /\ todo # <<>>
    /\ CanPublish
    /\ Submit(Head(todo))
    /\ todo' = Tail(todo)
    /\ UNCHANGED <<config, main, cancelled, tasks, incoming, broker, open>>

\* Mistake: the tasks are started before everything is announced.
Spawn_AtOnce ==
    /\ main = "starting"
    /\ main' = "serving"
    /\ worker' = "idle"
    /\ IF HasHandler(config)
        THEN provider' = "polling" /\ handler' = "waiting"
        ELSE UNCHANGED <<provider, handler>>
    /\ UNCHANGED <<config, todo, cancelled, loop, listed, work, channels, broker, open>>

Spawn ==
    /\ main = "starting"
    /\ todo = <<>>
    /\ main' = "serving"
    /\ worker' = "idle"
    /\ IF HasHandler(config)
        THEN provider' = "polling" /\ handler' = "waiting"
        ELSE UNCHANGED <<provider, handler>>
    /\ UNCHANGED <<config, todo, cancelled, loop, listed, work, channels, broker, open>>

Signal ==
    /\ main = "serving"
    /\ main' = "joining"
    /\ cancelled' = TRUE
    /\ UNCHANGED <<config, todo, tasks, channels, broker, open>>

\* The process is gone, and with it what its channels held.
Ends ==
    /\ config' = NoConfig
    /\ main' = "off" /\ todo' = <<>> /\ cancelled' = FALSE
    /\ loop' = "none" /\ requests' = <<>> /\ incoming' = <<>>
    /\ handler' = "none"
    /\ provider' = "none" /\ listed' = {}
    /\ worker' = "none" /\ work' = <<>>
    /\ link' = FALSE /\ heard' = {}
    /\ UNCHANGED <<armed, health, backlog, open>>

Tasks == {loop, handler, provider, worker}

Joined ==
    /\ main = "joining"
    /\ Tasks = {"none"}
    /\ Ends

\* Ten seconds after the signal, whoever still waits is left behind.  It may be
\* for the cloud, an OPC UA server or the broker: no request of theirs is raced
\* with the token once it was sent.
Deadline ==
    /\ main = "joining"
    /\ Tasks # {"none"}
    /\ Ends

\* A crash, or a signal that arrives before run() listens for one.
Crash ==
    /\ main # "off"
    /\ Ends

-----------------------------------------------------------------------------
(* mqtt.rs: run_event_loop, with the last will TedgeMqtt::new sets.        *)

\* Mistake: the client connects without a last will.
Connect_NoWill ==
    /\ loop = "polling"
    /\ ~link
    /\ link' = TRUE
    /\ loop' = IF config.enabled THEN "subscribing" ELSE "polling"
    /\ UNCHANGED <<startup, handler, provider, listed, worker, work, channels,
                   armed, health, heard, backlog, open>>

\* A connection of the same client that the broker still believed in is closed
\* first, and its will published.
Connect ==
    /\ loop = "polling"
    /\ ~link
    /\ link' = TRUE
    /\ armed' = TRUE
    /\ health' = IF armed THEN "down" ELSE health
    /\ loop' = IF config.enabled THEN "subscribing" ELSE "polling"
    /\ UNCHANGED <<startup, handler, provider, listed, worker, work, channels,
                   heard, backlog, open>>

Resubscribe ==
    /\ loop = "subscribing"
    /\ Len(requests) < Capacity
    /\ requests' = Append(requests, <<"subscribe", "main">>)
    /\ loop' = "polling"
    /\ UNCHANGED <<startup, handler, provider, listed, worker, work, incoming, broker, open>>

\* SmartREST 502 names its addressee alone, and fails the oldest operation that
\* is pending there.
Transmit ==
    /\ loop = "polling"
    /\ link
    /\ requests # <<>>
    /\ LET kind == Head(requests)[1]  of == Head(requests)[2] IN
        /\ health' = IF kind = "health" THEN "up" ELSE health
        /\ heard' = IF kind \in {"health", "subscribe", "502"} THEN heard
                    ELSE heard \cup {<<kind, of>>}
        /\ open' = IF kind = "502" THEN open \ {of} ELSE open
    /\ requests' = Tail(requests)
    /\ UNCHANGED <<startup, tasks, incoming, link, armed, backlog>>

\* try_send: dropped when the channel is full, or its handler has returned.
Accepts ==
    /\ Len(incoming) < IncomingCapacity
    /\ handler = "none" => main = "starting" \/ ~HasHandler(config)

Forward ==
    /\ loop = "polling"
    /\ link
    /\ backlog # <<>>
    /\ incoming' = IF Accepts THEN Append(incoming, Head(backlog)) ELSE incoming
    \* Delivered again when the acknowledgement is lost with the connection.
    /\ \/ backlog' = Tail(backlog) /\ UNCHANGED link
       \/ link' = FALSE /\ UNCHANGED backlog
    /\ UNCHANGED <<startup, tasks, requests, armed, health, heard, open>>

\* The topic is shared: operations of others arrive, and messages the gateway
\* has nothing to do for.
ForwardOther ==
    /\ loop = "polling"
    /\ link
    /\ incoming' = IF Accepts THEN Append(incoming, "other") ELSE incoming
    /\ UNCHANGED <<startup, tasks, requests, broker, open>>

LoopStops ==
    /\ loop = "polling"
    /\ cancelled
    /\ loop' = "none"
    /\ link' = FALSE
    /\ UNCHANGED <<startup, handler, provider, listed, worker, work, channels,
                   armed, health, heard, backlog, open>>

-----------------------------------------------------------------------------
(* operations.rs: run.                                                     *)

Ours(t) == t = "gateway" \/ t \in listed

\* Only operations of the gateway and of the servers in the latest list are
\* answered.  Any other is ignored, and so is one that is not pending, has no
\* external id or no known fragment, whoever it is for.
Take ==
    /\ handler = "waiting"
    /\ incoming # <<>>
    /\ incoming' = Tail(incoming)
    /\ handler' = IF Ours(Head(incoming)) THEN Head(incoming) ELSE handler
    /\ UNCHANGED <<startup, loop, provider, listed, worker, work, requests, broker, open>>

\* Mistake: the record is given up when the channel is full.
Answer_Tries ==
    /\ handler \in Addressees
    /\ IF CanPublish THEN Submit(<<"502", handler>>) ELSE UNCHANGED requests
    /\ handler' = "waiting"
    /\ UNCHANGED <<startup, loop, provider, listed, worker, work, incoming, broker, open>>

Answer ==
    /\ handler \in Addressees
    /\ CanPublish
    /\ Submit(<<"502", handler>>)
    /\ handler' = "waiting"
    /\ UNCHANGED <<startup, loop, provider, listed, worker, work, incoming, broker, open>>

HandlerStops ==
    /\ handler = "waiting"
    /\ cancelled
    /\ handler' = "none"
    /\ UNCHANGED <<startup, loop, provider, listed, worker, work, channels, broker, open>>

-----------------------------------------------------------------------------
(* The provider and a server task, as the rest of the process sees them.   *)

\* A poll ends.  Users may have added servers or removed them, or a request
\* failed.  The token is looked at between polls.
Listed ==
    /\ provider = "polling"
    /\ listed' \in SUBSET Servers
    /\ provider' = IF cancelled THEN "none" ELSE "polling"
    /\ UNCHANGED <<startup, loop, handler, worker, work, channels, broker, open>>

\* The supervisor has a server to run, and has not been told to stop.
Wanted == ~cancelled /\ (config.servers \/ listed # {})

ServerStarts ==
    /\ worker = "idle"
    /\ Wanted
    /\ worker' = "connecting"
    /\ work' = <<ServerMessage(config)>>
    /\ UNCHANGED <<startup, loop, handler, provider, listed, channels, broker, open>>

\* A step of the server task that publishes nothing.
Moves(from, to) ==
    /\ worker = from
    /\ worker' = to
    /\ UNCHANGED <<startup, loop, handler, provider, listed, channels, broker, open>>

\* Connecting, and waiting to try again, are raced with the tokens.
Returns ==
    /\ Moves("connecting", "idle")
    /\ work = <<>>
    /\ ~Wanted
    /\ UNCHANGED work

Connected ==
    /\ Moves("connecting", "resolving")
    /\ work = <<>>
    /\ UNCHANGED work

\* Resolving is not: the server answers, or fails the request.
Resolved ==
    \/ Moves("resolving", "running") /\ work' = <<DeviceMessage, DataMessage>>
    \/ Moves("resolving", "watching") /\ UNCHANGED work

\* The readers have one more batch, be it the last before they are aborted.
Reads ==
    /\ worker = "running"
    /\ work = <<>>
    /\ work' = <<DataMessage>>
    /\ UNCHANGED <<startup, loop, handler, provider, listed, worker, channels, broker, open>>

\* Told to, with new device types, or because a reader gave up, the task aborts
\* its readers, whatever they wait for, and closes the session.
Closes ==
    /\ \E from \in {"watching", "running"} : Moves(from, "closing")
    /\ work \in {<<>>, <<DataMessage>>}
    /\ work' = <<>>

\* Closing a session is a request like any other, not raced with the tokens.
Closed ==
    /\ \E to \in {"idle", "connecting"} :
        /\ Moves("closing", to)
        /\ to = "connecting" <=> Wanted
    /\ UNCHANGED work

WorkerPublishes ==
    /\ work # <<>>
    /\ CanPublish
    /\ Submit(Head(work))
    /\ work' = Tail(work)
    /\ UNCHANGED <<startup, loop, handler, provider, listed, worker, incoming, broker, open>>

\* The supervisor has joined its server tasks.
WorkerStops ==
    /\ Moves("idle", "none")
    /\ cancelled
    /\ UNCHANGED work

-----------------------------------------------------------------------------
(* Around the process: the broker, Cumulocity and its users.               *)

LinkLost ==
    /\ link
    /\ link' = FALSE
    /\ UNCHANGED <<startup, tasks, channels, armed, health, heard, backlog, open>>

WillFires ==
    /\ armed
    /\ ~link
    /\ armed' = FALSE
    /\ health' = "down"
    /\ UNCHANGED <<startup, tasks, channels, link, heard, backlog, open>>

\* A bound: at most one operation of an addressee is pending or undelivered.
Issue(t) ==
    /\ t \notin open \cup ToSet(backlog)
    /\ open' = open \cup {t}
    /\ backlog' = Append(backlog, t)
    /\ UNCHANGED <<startup, tasks, channels, link, armed, health, heard>>

Users == \E t \in Addressees : Issue(t)

MainStep == Announce \/ Spawn \/ Joined
LoopStep == Connect \/ Resubscribe \/ Transmit \/ Forward \/ ForwardOther
HandlerStep == Take \/ Answer
WorkerStep ==
    \/ ServerStarts \/ Connected \/ Resolved \/ Reads \/ WorkerPublishes
    \/ Closes \/ Closed \/ Returns \/ WorkerStops

Next ==
    \/ Start \/ Signal \/ Deadline \/ Crash
    \/ MainStep \/ LoopStep \/ LoopStops \/ HandlerStep \/ HandlerStops
    \/ Listed \/ WorkerStep
    \/ LinkLost \/ WillFires \/ Users

Spec == Init /\ [][Next]_vars

\* What the server task waits for by itself, and what it does when told to stop.
WorkerMoves == Resolved \/ Closed \/ Returns \/ WorkerStops \/ (~Wanted /\ Closes)

\* Every task of a running process is polled, a cancelled loop is not starved by
\* its other branches, requests to the cloud and to an OPC UA server that was
\* reached end, a broker that lost the connection notices.  A handler that waits
\* for room in the channel gets its turn.  A server need not let anyone connect,
\* and nobody has to wait out the ten seconds.
FairSpec ==
    /\ Spec
    /\ WF_vars(MainStep) /\ WF_vars(Connect \/ Resubscribe) /\ WF_vars(Transmit)
    /\ SF_vars(LoopStops) /\ SF_vars(Answer) /\ WF_vars(Take) /\ WF_vars(HandlerStops)
    /\ WF_vars(cancelled /\ Listed) /\ WF_vars(WorkerPublishes) /\ WF_vars(WorkerMoves)
    /\ WF_vars(WillFires)

-----------------------------------------------------------------------------
\* What is published: of which kind, and of or for what.
Messages ==
    {"service", "health", "gateway", "twin", "server", "device", "data", "subscribe", "502"}
        \X ({"main", "gateway", "server"} \cup Addressees)

TypeOK ==
    /\ config \in Config
    /\ main \in {"off", "starting", "serving", "joining"}
    /\ {requests, todo, work} \subseteq Seq(Messages)
    /\ incoming \in Seq(Addressees \cup {"other"}) /\ backlog \in Seq(Addressees)
    /\ loop \in {"none", "polling", "subscribing"}
    /\ handler \in {"none", "waiting"} \cup Addressees
    /\ provider \in {"none", "polling"}
    /\ worker \in {"none", "idle", "connecting", "resolving", "watching", "running",
                   "closing"}
    /\ listed \subseteq Servers /\ open \subseteq Addressees
    /\ Len(requests) <= Capacity /\ Len(incoming) <= IncomingCapacity

Heard(kind) == \E of \in {"main", "gateway", "server"} : <<kind, of>> \in heard

\* "Registration and health go out before any data, as the thin-edge API
\* requires" (main.rs:126): in every life of the process and whatever its
\* configuration, the broker hears of a thing only after what it hangs below.
ParentsFirst ==
    /\ Heard("twin") \/ <<"server", "gateway">> \in heard => Heard("gateway")
    /\ Heard("gateway") \/ Heard("server") => Heard("service")
    /\ Heard("device") => Heard("server")
    /\ Heard("data") => Heard("device")

\* The loop waits for room in the channel that only it drains (MqttClient).
Stuck == loop = "subscribing" /\ Len(requests) = Capacity

\* mqtt.rs:104, "a crashed gateway does not leave a stale `up` behind": nor does
\* one that stopped, for it never disconnects, nor one whose `up` was published
\* over a connection that replaced another.
HealthFollows == main = "off" ~> (main # "off" \/ health # "up")

\* An operation that reached the handler's channel, and whose addressee the
\* handler goes on knowing, is failed in the cloud across lost connections,
\* repeated deliveries and whatever arrives before it.
Answered ==
    \A t \in Addressees :
        (t \in ToSet(incoming) /\ handler # "none" /\ Ours(t))
        ~> (main # "serving" \/ Stuck \/ t \notin open \/ ~Ours(t))

\* Told to stop, all tasks end by themselves, without the ten seconds running
\* out or a crash, whatever they were doing and in whatever order they end, as
\* long as what they have asked of the cloud and of an OPC UA server is
\* answered: who waits for room is released when the loop returns.  Only a stuck
\* loop keeps a process from that.
StopsUnaided == main = "joining" ~> main = "off" \/ Stuck

-----------------------------------------------------------------------------
(* Why parents come first: whoever publishes does so in an order that has  *)
(* each thing behind what it hangs below, and starts when that is already  *)
(* on its way.                                                             *)

\* What the broker must have heard before m.
Parents(m) ==
    CASE m[1] = "gateway" -> {<<"service", "main">>}
      [] m[1] = "twin" -> {<<"gateway", "main">>}
      [] m[1] = "server" -> IF m[2] = "gateway" THEN {<<"gateway", "main">>}
                                                ELSE {<<"service", "main">>}
      [] m[1] = "device" -> {ServerMessage(config)}
      [] m[1] = "data" -> {DeviceMessage}
      [] OTHER -> {}

\* Each message's parents are known, or ahead of it.
InOrder(messages, known) ==
    \A i \in DOMAIN messages : \A a \in Parents(messages[i]) :
        a \in known \/ \E j \in 1 .. i - 1 : messages[j] = a

\* Heard by the broker, or sure to be before anything published from now on.
Told == heard \cup ToSet(requests)

\* What run() announces first.
Roots(c) == {<<"service", "main">>} \cup (IF c.enabled THEN {<<"gateway", "main">>} ELSE {})

TasksByLife ==
    /\ main = "off" => loop = "none" /\ todo = <<>> /\ heard = {} /\ requests = <<>>
    /\ main \in {"off", "starting"} => worker = "none"
    /\ main \in {"serving", "joining"} => todo = <<>>
    /\ main \in {"starting", "serving"} => loop # "none"
    /\ cancelled => main = "joining"
    /\ worker \in {"none", "idle", "resolving", "watching", "closing"} => work = <<>>
    /\ worker = "connecting" => work \in {<<>>, <<ServerMessage(config)>>}

HeardInOrder == \A m \in heard : Parents(m) \subseteq heard

OrderKept ==
    /\ HeardInOrder
    /\ InOrder(requests, heard)
    /\ InOrder(todo, Told)
    /\ main # "off" => Roots(config) \subseteq Told \cup ToSet(todo)

\* Once the loop is gone what a server task publishes goes nowhere.
WorkInOrder ==
    loop # "none" =>
        /\ InOrder(work, Told)
        /\ worker \notin {"none", "idle"} => ServerMessage(config) \in Told \cup ToSet(work)
        /\ worker = "running" => DeviceMessage \in Told \cup ToSet(work)

IInv ==
    /\ TypeOK
    /\ TasksByLife
    /\ OrderKept
    /\ WorkInOrder

=============================================================================
