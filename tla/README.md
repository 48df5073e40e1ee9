# Verification of c8y-opcua-gateway-rs

The gateway collects values from OPC UA servers and publishes them to Cumulocity
through thin-edge. It is one process of cooperating async tasks. This directory
models those tasks in TLA+, checks them with TLC on small instances, and proves
all of their safety properties with TLAPS for every instance.

## 1. The system

| Component | Source | State it keeps | Operations |
|---|---|---|---|
| Supervisor | `gateway/src/supervisor.rs`, `merge_servers` in `config.rs` | map of running server tasks, each with two cancellation tokens and a join handle | reconcile a server set: retire removed and changed servers, start missing ones; drain on shutdown |
| Server task | `gateway/src/server_task.rs` | session, generation token, set of readers, back-off, registered entities | connect, resolve mappings, start readers, wait, close, start over |
| OPC UA connection | `opcua-conn/src/lib.rs` | session and its event loop | connect, activate, read, subscribe, disconnect |
| MQTT client | `tedge/src/mqtt.rs` | bounded request channel, connection | publish, re-issue subscriptions on connect, reconnect |
| Cloud server provider | `gateway/src/cloud_servers.rs`, `tedge/src/proxy.rs` | gateway object id, last published revision | look up the gateway object, list and read children, adopt, publish |
| Device type provider | `gateway/src/device_types.rs`, `mapping/src/source.rs` | pulled set, revision | fetch, load the directory, merge, publish |
| Publisher, subscription loop | `gateway/src/publish.rs`, `server_task.rs`, `mapping/src/payload.rs` | batch, last event and alarm | accept a value, flush |
| Operation handler | `gateway/src/operations.rs` | the bounded channel it reads | fail each operation addressed to the gateway or a listed server |
| Value conversion | `mapping/src/value.rs` | none | bad readings, numbers, truth values, text |
| Configuration | `gateway/src/config.rs` | the configuration | load, merge server definitions, validate |
| Mapping resolution | `mapping/src/{resolve,constraints,namespace,model}.rs` | a plan | plan, set resolved paths, finish |
| Topic identifiers | `tedge/src/topic.rs`, `config.rs`, `server_task.rs` | none | sanitize ids, build entities |
| Gateway device | `gateway/src/gateway_device.rs` | none | register the gateway entity at start |
| Wiring | `gateway/src/main.rs` | the process-wide token | start the tasks, cancel, wait ten seconds |

How they interact: the two providers each own the sender of a `watch` channel,
which keeps only the latest value. The supervisor follows the server sets; each
server task follows the device types. The supervisor owns the server tasks and
ends one by cancelling a token and awaiting its handle. Server tasks own their
readers. Everything publishes through clones of one MQTT client, whose bounded
channel only the MQTT event loop drains. One cancellation token is the ancestor
of all others, except the `remove` tokens.

What is hard in it: values of a watch channel replaced between a read and the
next wait; tasks that end while someone awaits them; tokens cancelled at every
await; servers, broker and cloud going away between two requests of one
operation; a bounded channel filled by the tasks the event loop itself depends on; a
process that dies while the broker keeps what it said last.

`PROJECT.json` lists every hazard with the line where it bites and the
properties that watch it.

## 2. The modules

| Module | Models |
|---|---|
| `Maps` | finite maps: what `HashMap::insert` and `remove` do |
| `ServerPool` | abstract: what the supervisor promises |
| `Supervisor` | `supervisor.rs`; implements `ServerPool` |
| `Supervisor_proofs` | its invariants and the refinement, proved |
| `ServerTask` | `server_task.rs::run`, its readers, and `Connection::connect`/`disconnect` |
| `MqttClient` | `mqtt.rs` over an external in-order QoS 1 client and broker |
| `MqttClient_proofs` | its invariants, proved |
| `CloudServers` | `cloud_servers.rs`, with users, the mapper and outages around it |
| `CloudServers_proofs` | its invariants, proved |
| `DeviceTypes` | `device_types.rs` and `source.rs`, with users and configuration management around them |
| `DeviceTypes_proofs` | its invariants, proved |
| `Publisher` | `publish.rs`, the loops of `server_task.rs` that feed it, the notification callback before and the MQTT client behind it |
| `Publisher_proofs` | its invariants, proved |
| `Mapping` | `resolve.rs`, `constraints.rs` and `namespace.rs`, driven by `resolve_all` of `server_task.rs` |
| `ServerTask_proofs` | its invariants and those of `ServerTask`, proved |
| `Gateway` | `main.rs`, `operations.rs`, `gateway_device.rs` and the parts of `mqtt.rs` they need: processes that start, crash and stop, one after the other |
| `Gateway_proofs` | its invariants, proved |
| `Telemetry` | from server definitions to topic ids (`config.rs`, `topic.rs`), from readings to a message (`value.rs`, `payload.rs`) and its units |
| `Telemetry_proofs` | its invariants, proved |
| `MC*` | the instances TLC runs |

Operators named `X_Something` before a definition `X`, commented "Mistake", are
plausible bugs of `X`. No specification uses them; each shows that some property
notices when the code is changed that way.

### ServerPool and Supervisor

`ServerPool` says: at most one session per server; a device-configured server
always has its own settings and is given up only at shutdown; sessions are opened
only until the pool is closed, and the pool closes only when empty; if the wanted
set settles, the pool serves exactly it.

`Supervisor` follows the code's awaits. `Decide` is `borrow_and_update`, the merge
and the two lists, which run without an await. `RetireRemoved`/`RetireRestarted`
take one id each, cancel its token and put its handle in `joinee`; `Joined` is the
end of that await. `StartServer` spawns one task; in the code all spawns of a round
happen without an await, so the model has more interleavings than the code, never
fewer. `HashMap` order is a free choice of the next id. `Notice`, `ProviderGone`
and `Break` are the outcomes of the `select!`, `Drain`/`Drained` the last loop.
Settings are compared and nothing else, so they are model values. A server task is
one bit, `live`; it ends (`TaskEnds`) only after a token of its own was cancelled,
or its device type channel closed at shutdown.

The refinement maps a live task to a session and `desired` being behind is hidden:
the abstract `wanted` is the merge of the latest published set with the device's.

### ServerTask

The control point `pc` is one value per await of `run`: `registering`, `top`,
`dialling` and `activating` (the two halves of `connect`), `retryWait`,
`resolving`, `subscribing`, `running`, `closing`, `disconnecting`,
`reconnectWait`, `returned`. `after` remembers which branch of the running
`select!` won. Device type sets are version numbers; `Plan` says which readers a
version calls for. `seen` is the version the `watch` receiver has marked, `applied`
the one this generation was resolved from. Readers are the subscription loop and
cyclic read loops; each counts consecutive failures. `up` is the server being
reachable and answering. `leaked` records a session event loop that was spawned and
lost its owner: cancelling the task during the activation drops its join handle,
which detaches it. The task returns with that; `OwnsItsSession` says that nothing
else loses one. Registrations stay retained at the broker when a server is removed;
`deregister` only says so, and the comments at `supervisor.rs:31` and
`server_task.rs:79` still say that they go.

Back-off is the number of seconds, doubled and capped as in the code; sleeping
takes no modelled time.

### MqttClient

`queue` is the bounded channel, `inflight` what was sent and not acknowledged,
`pending` what a lost connection left. rumqttc is not part of the repository. Taken
of it: requests leave in the order they were queued; an unacknowledged publish is
sent again before newer ones; a failed `poll` drains the channel into `pending`.
The order is what MQTT asks of a client. `RegistrationFirst` rests on it.

### CloudServers

One action per request, so that users, the mapper and outages can act between any
two. The `during` and `steady` variables are history for two properties and nothing
reads them. A claimed external id is `own`, `other` or free. `MapperLearns` is the
external thin-edge mapper: the first registration it sees for an external id that
does not resolve makes it create a device. Waiting times, and the counter that
chooses between two log messages, are left out; a transient error and a permanent
one other than 404 differ only in the delay and are one action.

### DeviceTypes

One action per request and, for the directory, per system call: `ReadText` is
`read_to_string`, `Stat` the `metadata` after it, and a writer may act in between.
Edits are numbered; an edit's number stands for the content it wrote and for its
change marker (`lastUpdated`, or size and time), so a `fingerprint` and an `edit`
that differ are a marker taken of another content than the one read. The
configuration, chosen at the start, is one of no proxy, all pages, or a list of ids.
`log` holds what each edit touched, types and files by their names (hence
`NameAssumption`); `fetchedAt`, `pulledAt`, `pulledWhole` and
`listedAt` say when a fetch or listing happened; only properties read them. The
provider's revision is that of the set it published last, so it is no variable.
`FileOrder` is the order of the directory, which only decides which of two files with
one type wins: `listing` is the set of files still to be read, and `IsNext` takes them in
that order. A type's place in Cumulocity's list is its `Rank` among those that exist, so
an edit moves the later ones across pages. `ListDir` takes the directory as it is at one moment;
`read_dir` is lazy, but a file that comes or goes while it runs is one that came or went
before or after. `DirUnreadable` is a directory that cannot be read or has entries that
are errors, which are left out.

### Publisher

One reader and its publisher over generations. How the nodes are read,
`subscription` or `cyclic`, is chosen at the start. Changes of values are numbered
(`seq`), and `level` is what `as_number` and `as_bool` see of a value: on, off, a text
that is no number and off all the same, neither (`odd`), or of bad status. `SubscriptionDropped`
is the end of the channel when the session drops the subscription: the loop flushes and returns,
and the server task ends the generation. `channel` is the bounded notification channel; a
notification without room is dropped, and `lost` remembers whose. `batch` is what
`accept` puts together, `sending` the batch a flush took and still publishes type by
type, each waiting for room in `outbox`, the requests of the MQTT client. A cyclic read
yields a value of every node; `cycle` holds those not yet accepted and `NextValue` takes
the next. What was accepted, sent and shown is remembered by series, a node and a
measurement type, as a node may have two of these; only properties read it. A
generation ends by `EndGeneration`, the token, and `Abort`, `JoinSet::shutdown`, which
follows without an await: the reader may or may not run in between. Failed reads are
in `ServerTask`, and outages of the broker in `MqttClient`; here `Deliver` only takes
its time. A type stands for a type of one device.

### Mapping

The functions of the mapping crate are operators under their own names; the actions are
`resolve_all`'s loop over the device types and its two kinds of request, either of which
may fail. A browse path segment is text in which colons separate namespace and name
and occur in both, so it is the sequence of what stands between the colons; a NodeId
text is its namespace, by URI or index, and its identifier. `Space` is the server's
address space, told by URI: the server numbers it with `table`, and a number it does not
use is a namespace of its own, in which it has nothing (`NodeAt`, `NameAt`). A plan has
one entry per mapping, which is `NoEntry` where the code goes on to the next one, so that
positions need no renumbering; `Place` counts off the answers among the entries that
ask, as `zip` does. `Bound` is the loop of `finish`, as a recursive function. The last section of
the module says, in URIs alone and entry by entry, what the author of a device type
means; `AsAuthored` compares that with what the text, the index arithmetic and the
positions of the answers make of it. A segment that reads in two ways, because one
namespace's URI continues another's, is exempt.

### Gateway

The composition: one process after the other, each with a configuration found anew.
`Start`, `Announce`, `Spawn`, `Signal`, `Joined` and `Deadline` are `run` of `main.rs` from
its validation to the ten seconds; `todo` is what it still has to publish before it
starts the tasks. `Ends` is the end of a process, by `Crash` at any moment too: its
channels go with it, the broker keeps its session, the last will (`armed`), the retained
`health` and the operations not delivered (`backlog`). `open` is what Cumulocity shows as
pending. `Forward` is the `try_send` of the event loop, `Take` and `Answer` are
`operations.rs`: between them the handler waits for room in the channel of requests. Each
other module appears by what it does to these: the MQTT client is its bounded channel and
the loop that drains it, the cloud provider one list, which may grow or shrink with every
poll, the supervisor with its server tasks one `worker`. That registers a server, connects,
resolves, registers the device of a device type and publishes its data, closes the session and
starts over; `worker` says which of these it is at, `work` what it has still to publish. Only
connecting, and waiting to try again, are raced with the tokens (`Returns`); resolving and closing are
requests to the OPC UA server that end when it answers. `ForwardOther` brings operations of
others, and messages that call for nothing: not pending, without external id or fragment.
`Deadline` may end the process whenever a task is left to be joined: neither a request to the cloud
nor one to an OPC UA server is raced with the token, and the code bounds neither by ten
seconds. The device type provider publishes
nothing and is left out here; `EndsWhenTold` of `DeviceTypes` is what the shutdown needs
of it. The broker has a session from an earlier life, so operations may arrive first thing.

### Telemetry

Two chains that decide where a value ends up. The first: each step of
`load_server_dir` looks at one entry of the directory, which may be an error and is then passed over
(`lost` remembers that), or a file that does not parse, and ends the start; each `merge_servers` is a
turn of the loop that puts one definition in place of the one with its id or behind the last; and
`validate` refuses two of one id and blank ids and names, which a pushed file may have
replaced by then. Nothing else runs before. Then `Adopt` adds what
Cumulocity lists; `Register` and `Apply` make an entity of a server and of a device type
below it. A name is a sequence of words and characters, and `Lowered` what
`sanitize_id` makes of each; ids of managed objects are made of `Digits`. `devices`
remembers for what an entity was registered, which the code does not: thin-edge sees the
entity only. The second: `Accept` and `flush` put a
message together by `MeasurementBuilder`, and `meta` is the retained `m/<type>/meta`.
`added` is history. When readers run and what they lose is in `ServerTask` and
`Publisher`; here the order of readings is free.

## 3. What is checked

| Run | Expect | Shows |
|---|---|---|
| `supervisor` | pass | one task per server, settled when idle, device wins, retirement has a cause; every step is a step of `ServerPool`, and its liveness holds |
| `server_task` | pass | readers belong to their session and generation, a returned task holds nothing, no event loop loses its owner while the task goes on, no device type set is missed, a task that is told to end does, the session in which a reader gave up is closed and a new one opened unless the task is told to end; if the server stays reachable the last device types are applied with all their cyclic readers or, after a failed resolve, none |
| `mqtt` | pass | registrations reach the broker first, nothing accepted is lost, outages are survived and cancelling ends the loop unless the channel is full at a connect |
| `mqtt_full_channel` | violation | a full channel at a connect stops the loop for good |
| `cloud_servers` | pass | nothing stale is published; while requests are answered no edit makes a poll drop a server that stays or publish one that is not adopted; the set catches up after faults |
| `cloud_outage` | violation | an outage in the middle of a poll drops running servers |
| `device_types` | pass | nothing deleted or replaced before a fetch or listing comes back, fetched types survive failed fetches, files win, the served set catches up with its sources, cancelling ends the provider |
| `publisher` | pass | an accepted measurement is kept until the reader is aborted, none is published twice or out of order, the broker ends with the newest values and alarms across generations, unless the channel dropped them |
| `publisher_flush` | violation | the abort at the end of a generation drops the batch |
| `mapping` | pass | every device type that applies gets the nodes its author meant, delivered as meant, whatever the server's namespace indices; nothing is collected twice |
| `gateway` | pass | in every life of the process the broker hears of each thing after what it hangs below; no `up` outlives its process; an operation that reached the handler and whose addressee stays listed is failed, over lost connections and repeated deliveries; told to stop, all tasks end by themselves if what they asked of the cloud and of an OPC UA server is answered and the event loop is not stuck |
| `telemetry` | pass | every server that is defined is served by its last definition, as far as the directory could be listed; devices whose servers and types are Cumulocity's never share an entity; a message holds the newest number of every series that was read and nothing else but the static fragments of their nodes; its units were declared under its names |

The three violation runs are disagreements of the code with its own comments or
documents; `PROJECT.json` quotes both sides of each. Modelling met others, which have no
run of their own; the properties are stated so that they hold in spite of them:

* `cloud_servers.rs:195` publishes a server whether or not it was adopted, where the
  warning at line 247 says that it is skipped. `OneDevicePerServerOnline` therefore speaks
  of the time before the first outage only.
* `server_task.rs:210`: when a request of `resolve_all` fails, the task keeps a session with
  no readers and waits for new device types; nothing retries when the server answers again
  (`opcua-conn/src/lib.rs:4` has it that callers need no supervision of their own).
  `CollectsAllOrWaits` says what is left of the guarantee.
* `source.rs:84`: a file written between the read of its text and of its metadata is served
  with its old content until it is written again, where `README.md:87` has mapping files
  reload on the poll.
* `operations.rs:81`: an operation that arrives before the first list of servers, as it may
  after a restart, or for a server no longer listed, is ignored and stays pending, where
  line 15 says that every operation that arrives is failed. One that is dropped for
  want of room, or is in the channel at a crash, was acknowledged already and stays pending
  too; as SmartREST 502 fails the oldest pending operation, the next one fails in its place.
* Without a usable proxy the gateway is still registered, with its supported operations,
  and still subscribes, but no handler is spawned (`main.rs:168`). The configuration may also
  be valid and leave nothing to do: gateway enabled, no proxy, no servers.
* `up` is published once per process (`main.rs:131`): after a lost connection whose last will
  was published, the health stays `down`.
* A directory entry that is an error is dropped in silence (`config.rs:483`), where line 470
  has every file that cannot be read stop the gateway. `ServedAsWritten` then speaks of the rest.
* Two pushed files with one id are merged without a word, where the comment at
  `config.rs:487` speaks of a duplicate that is reported.
* Names and file names do collide as topic segments: servers named "Pump 1" and "pump-1",
  server "a" with type "b-c" and server "a-b" with type "c", a server named like
  `gateway.id` or "main". `DevicesApart` speaks of managed object ids. Where two device types
  share an entity and a measurement type, the retained units of the one that is resolved last
  replace the other's (`payload.rs:98`, `server_task.rs:189`); `UnitsFit` leaves these out.
* A measurement fragment called "time" is overwritten by the time (`payload.rs:90`).
* An index range that the client library refuses fails the whole subscription
  (`opcua-conn/src/lib.rs:417`), where line 402 promises that one bad node cannot.

### Bounds

* Supervisor: three servers, one of them the device's and possibly named by the
  cloud too, two settings, two published sets: enough for add, change and
  remove in one round and for a set that arrives during the round of another. As
  many handles as servers, so that a second task of one server has a handle to take
  while another is not wanted. The proofs cover every size.
* ServerTask: three readers of both kinds, device types that are empty, mixed and
  cyclic only, three outages (during connect, resolve and reading), `MAX_BACKOFF` 3
  so that the cap is hit off a power of two.
* MqttClient: three publishers, one depending on another, four messages, a
  channel of two, two outages: a second outage can strike while the first one's
  messages are sent again.
* CloudServers: two servers and two pages of one, so that full and empty pages and the
  page limit occur; three edits allow two servers and a change to one of them in one
  poll; two gateway objects; one outage in the middle of a poll. Deleting a server
  shifts the later ones across pages, and one that stays can be missed until the
  next poll: `steady` leaves such servers out.
* DeviceTypes: two types on pages of one, so that the second is behind a page
  boundary and the page limit is met; two files, one there from the start, which may
  hold the same type or each other's; two edits, to hit both sides of a request or a
  file at once, and one fault on top of them.
* Mapping: 15 entries, each odd in its own way, among them numbers the server does not use, in every ordered pair, with three
  defaults and overrides each; every combination of constraints on one entry with a
  second device type next to it; three namespace tables, of which two swap the indices
  of URIs that begin alike and one lacks a namespace.
* Publisher: two nodes that share a measurement type, one with an alarm and one with an event
  and a second measurement type, so three series; a channel of two, room for one message at the
  client, so that every publish waits; a value of the first node may become any of the five
  kinds, one of the second is on, off or a text; `MaxChanges` counts the first values too, so two
  changes (with the first reports they fill the channel, and an alarm comes and goes) over two
  generations.
* Gateway: three valid configurations and one that is refused, so that restarts change
  what is announced; channels of one, so that each task can be the one that waits and an
  operation can be dropped; one server, which may be listed or not at every poll, and operations
  for it that may be issued again as soon as the last one is closed. Crashes, restarts and lost
  connections are unbounded. With an incoming channel of two all properties hold in 860,000
  states, and with a channel of requests of two `ParentsFirst` and `IInv` do in 1,590,000; both
  take too long to be repeated each time.
* Telemetry: three sets of definitions: one that has the id of a managed object and no name but
  in the pushed file that overrides it, beside a file that does not parse; one pushed twice; an id
  given twice inline; two managed objects of which one's id
  begins the other's, pulled device types whose ids make up the difference and a pushed one
  that shares the entity of a pulled one; names that differ in case and
  in characters a topic must not have; two readings, of nodes that share fragments, series
  and units. The first two numbers decide every case of `add`: same or new fragment, same or
  new series, static before or after.

### Fairness

The runtime polls every ready task, every request answers or times out, and every
sleep ends: weak fairness of each task's own steps. A `select!` whose cancelled
branch is ready in every iteration is not starved, hence the strong fairness of
`Return` in `DeviceTypes`. A broker or cloud that went away comes back, and a
monitored item reports its first value. Users, configuration management, the
supervisor's choices and an OPC UA server promise nothing; what needs the server says
so with `StaysUp`.

`Gateway` adds that a handler that waits for room in the channel of requests gets its turn (strong
fairness of `Answer`; tokio's bounded channel queues its senders), that the cancelled `select!` of the
event loop is not starved by its other branch (of `LoopStops`), that requests to the cloud and to an OPC
UA server that was reached end, once the process is told to stop, and that
the broker notices a lost connection (weak fairness of `WillFires`). It does not assume that an OPC UA
server lets anyone connect, nor that the ten seconds run out. Crashes, lost
connections and operations promise nothing.

`Supervisor` assumes that a task whose token is cancelled ends; `EndsWhenTold` of
`ServerTask` is that fact, under no assumption on the server. `MqttClient` is what
both rest on: a blocked publish blocks the task that awaits it, and
`mqtt_full_channel` shows where that fails.

## 4. What is proved

TLAPS proves these for all values of the constants. `Inductive`, in each `X_proofs`, is
`Spec => []IInv` with the `IInv` of module `X`, and `TypeCorrect` follows from it. The others
follow from `IInv` too, or from a step taken where it holds. `ServerTask_proofs` is about two
machines, the task and its `resolve_all`; `Mapping` calls what describes the second one
`ResolveInit`, `ResolveNext`, `ResolveSpec`, `ResolveTypeOK` and `ResolveIInv`, and the theorems
about it are `ResolveInductive` and `ResolveTypeCorrect`.

| Module | Theorem | Property of the run |
|---|---|---|
| `Supervisor_proofs` | `NeverTwoTasks` | `OneTaskPerServer` |
| | `IdleMeansSettled` | `SettledWhenIdle` |
| | `DeviceAlwaysWins` | `DeviceWins` |
| | `RetirementHasCause` | `RetiredForCause` |
| | `Refinement` | `ImplementsPool`: every step is a `ServerPool` step or a stutter |
| | `DoneIsEmpty` | (none) |
| `ServerTask_proofs` | `ReadersAlwaysBelong` | `ReadersBelong` |
| | `AlwaysReturnsClean` | `ReturnsClean` |
| | `NothingEverMissed` | `NothingMissed` |
| | `SessionsAreOwned` | `OwnsItsSession` |
| | `OnlyReturnsWhenTold` | (none) |
| | `BoundAsMeant` | `AsAuthored` |
| | `NothingTwice` | `CollectedOnce` |
| `MqttClient_proofs` | `OrderKept` | `RegistrationFirst` |
| | `AcceptedIsKept` | `NothingLost` |
| `Gateway_proofs` | `RegisteredInOrder` | `ParentsFirst` |
| `CloudServers_proofs` | `AdoptedBeforePublished` | `OneDevicePerServerOnline` |
| | `PublishedHeld` | `NothingStale` |
| | `KnownServersKept` | `KeepsKnownServersOnline` |
| `DeviceTypes_proofs` | `PublishedWasThere` | `NothingStale` |
| | `OutageSurvived` | `FetchedIsServed` |
| | `FilesOverride` | `PushWins` |
| `Publisher_proofs` | `NothingDropped` | `KeptUntilTheEnd` |
| | `ToldOnce` | `PublishedOnce` |
| `Telemetry_proofs` | `DefinitionsServed` | `ServedAsWritten` |
| | `EntitiesApart` | `DevicesApart` |
| | `MessagesAsRead` | `AsRead` |
| | `UnitsDeclared` | `UnitsFit` |

`DoneIsEmpty`, `OnlyReturnsWhenTold` and what says `Inductive` or `TypeCorrect` state no property of a run.
With these every safety property that a run checks is proved.

### Assumptions

Nearly all `ASSUME`s give a constant its type or keep a bound positive. These say more:

* `MqttClient`: an entity is its own owner (`Owner[Owner[p]] = Owner[p]`): what registers
  others needs nobody's registration but its own.
* `Gateway`: no server is called like one of the five words the model uses for itself.
* `DeviceTypes`: types and files have different names, as `log` holds both.
* `Mapping`: the ids of the device types in force differ, as the provider merges them by id; the
  namespace array has OPC UA's URI first and none twice, which is OPC UA's rule (the code takes the
  first of two); an empty path leads nowhere, and the root folder's id is one that parses.
* `Telemetry`: ids of managed objects are made of digits, and `sanitize_id` leaves them
  alone; pulled device types differ in their ids; the gateway and the main device are not named
  by digits and dashes only. That `sanitize_id` leaves digits alone is plain from its code,
  but it folds over characters, so this is assumed and TLC evaluates it.

### Why they hold

No safety property is inductive as it stands. TLC checked every `IInv` on an instance before
it was proved. What each adds:

* Supervisor. A spawned task is in the map under its own id or is being joined; a round's
  lists name ids that are in the map or not yet started; a task in the map runs with the
  round's settings unless its id is still in a list.
* ServerTask. Each control point allows certain states of the session only, and `applied`
  and `seen` differ only on the way to a new session.
* MqttClient. `inflight`, `pending` and `queue` are one line. What must come before a message in the
  line is at the broker or ahead of it (`LineInOrder`), nothing at the broker lacks what comes
  before it (`ReceivedInOrder`), nothing is in the line whose publish has not returned
  (`OnlyIssued`). A link that reaches the broker has delivered all that is in flight
  (`LinkDelivers`): so, when it is acknowledged, leaving the line loses nothing (`Kept`).
* Gateway. The same order over three places: what the broker heard, what the client holds,
  what `run` and the worker have yet to publish. Each message's parents are in an earlier
  place or ahead in its own (`OrderKept`, `WorkInOrder`, the latter while the loop lives).
* CloudServers. An object is below the gateway once in its life and only moves up the list,
  so what stays in place while pages are read is found, about to be read or ahead
  (`ObjectsByLife`, `WithinPages`, `Covered`). All that a poll has found is in its history
  (`Witnessed`), and a server's external id is its own before it is handed out (`AdoptedFirst`).
* DeviceTypes. Every object and file is marked with the last edit that touched it (`Newest`),
  what a round has gathered held at its start or came later (`Gathered`), and it passes over
  nothing that stays: an object with nothing deleted before it keeps its rank, so it is
  fetched or on a page ahead (`NoneMissed`, and `NoFileMissed` of the directory). What
  is published of a pulled type is the content its change marker was taken of (`Marked`).
* Publisher. The batch has the newest accepted value of a series, and every accepted series
  is in the batch, in the one being flushed, or shipped (`Newest`, `Carried`). For a
  subscription, values run from the node through the channel to the batch in order, and what
  is not yet sent is newer than all that is (`InOrder`, `AtHand`, `NotSentYet`).
* Telemetry. As long as no id is there twice, the merged list has the last definition of each
  (`Merged`). A device has the entity its definition gives it (`NamedFor`); ids of digits have
  no dash, so a dash ends the server's part (lemmas `DashSeparates`, `DashShows`). Units declared
  are those of a device that has the entity (`Declared`), and a batch says, after any readings,
  what a message must (`BatchSays`).
* Mapping. The device types done with are those before `todo`, and each has what it asked for
  (`InTurn`, `ByPassed`). What that takes is in the lemmas. A segment that reads one way is cut where
  its author put it together (`ReadAsMeant`); reading keeps apart what meaning keeps apart
  (`PathsApart`, `NodesApart`), so the first override found is the one meant (`DeliveredAsMeant`); a
  path leads to the node meant (`TranslatedAsMeant`), and the answers reach the entries that asked
  since `Place` counts them apart (`PlaceOf`). Binding one more entry adds what it collects and
  nothing else (`BindCollects`), and keeps nodes apart and every action in one place
  (`BindKeeps`). `Bound` is a recursive function over the entries: `Recursion` shows that it
  exists, and `Handed` carries both along it. These two do the induction by the least
  counterexample, as a set: the library's induction theorems take an operator as parameter.

Proving changed six statements. `KeptUntilTheEnd` and `PublishedOnce` kept their history per
node, which is wrong for a node with two measurement types. `UnitsFit` is false where two
device types share an entity; a third type in the instance shows it, and section 3 lists it. `CollectedOnce`
said that an action hangs on one node; that it hangs there once is what the proof needed, and it
is now part of it. The directory listing of `DeviceTypes` and the deletion of a server in
`CloudServers` were restated in a form that can be reasoned about.

### Only model-checked

Liveness and whatever rests on fairness or ENABLED, the liveness of `ServerPool` included, are
out of the prover's reach. What `sanitize_id` does to digits is a recursion over characters in
a module of its own kind, and stays an assumption of `Telemetry` that TLC evaluates.

## 5. What is not modelled, and the plan

No safety property is left unproved. Three hazards have no property; `PROJECT.json` says why of
each. They are what a next step would model: two nodes of one device that share an alarm
(`publish.rs:114`), the pairing of a file's text and metadata (`source.rs:84`), and the
refusal of a whole subscription for one item (`opcua-conn/src/lib.rs:417`).

Left out for good: the parsing of TOML, JSON and the environment, defaults and the numeric bounds of
the configuration (none of it has a state, and its unit tests compare what it returns); TLS, HTTP
and the proxy's second try after a 401; waiting times, except as the ten seconds above; log
messages and the text of events and alarms; the contents of operations, but for their addressee; what the OPC UA
client library does inside a session; the `dev/` images.
