---------------------------- MODULE CloudServers ----------------------------
(***************************************************************************)
(* crates/gateway/src/cloud_servers.rs: the provider that polls Cumulocity *)
(* for the servers registered below the gateway object, adopts each one by *)
(* planting an external id on it, and publishes the set when it changed.   *)
(*                                                                         *)
(* A poll is many requests through the thin-edge proxy.  Between any two   *)
(* of them a user may edit the inventory, the cloud may become             *)
(* unreachable, and the thin-edge mapper may act on what an earlier poll   *)
(* published: it creates a device for a registered external id that does   *)
(* not resolve yet.                                                        *)
(*                                                                         *)
(* The times a poll waits are left out, and so are the log messages, the   *)
(* count of misses that only chooses between two of them among these.      *)
(***************************************************************************)
EXTENDS Maps, Sequences, SequencesExt

CONSTANTS
    Servers,        \* managed object ids of c8y_OpcuaServer objects
    Configs,        \* settings a server object may carry
    Unusable,       \* settings to_server_config rejects, another object type included
    Strangers,      \* servers whose external id another gateway may claim
    PageSize,       \* PAGE_SIZE
    MaxPages,       \* MAX_PAGES
    MaxGateways,    \* bound on the gateway objects created, one after the other
    MaxEdits,       \* bound on what users do to the inventory
    MaxOutages      \* bound on the times the cloud becomes unreachable

ASSUME ConfigAssumption == Unusable \notin Configs

ASSUME StrangerAssumption == Strangers \subseteq Servers

ASSUME PageAssumption == PageSize \in Nat \ {0} /\ MaxPages \in Nat \ {0}

ASSUME BoundAssumption == MaxGateways \in Nat /\ MaxEdits \in Nat /\ MaxOutages \in Nat

VARIABLES
    online,         \* the mapper reaches Cumulocity
    outages,        \* times it has not
    gateway,        \* the gateway object that exists, 0 for none
    gateways,       \* gateway objects created so far
    children,       \* the gateway object's child devices, in the order they are listed
    used,           \* every server object there ever was
    settings,       \* server -> what its object carries
    edits,          \* what users have done so far
    claim,          \* server -> whose its external id is: "nobody", "own", "other"
    learned,        \* servers whose registration the mapper has processed
    cancelled,      \* the process-wide token
    consumers,      \* the supervisor or the operation handler still holds a receiver
    pc,             \* where the provider is
    gateway_mo_id,  \* the gateway object it knows, 0 for none
    page,           \* the page being read
    todo,           \* children of this page still to read
    last,           \* this page was not full
    reading,        \* the server being adopted, with the settings just read
    found,          \* the set this poll has put together: server -> settings
    published,      \* the watch channel's value: server -> settings
    served,         \* servers that were in some published set
    during,         \* history: <<server, settings>> that held at some time in this poll
    steady          \* history: servers usable, and at one place, all through this poll

cloud == <<online, outages, gateway, gateways, children, used, settings, edits, claim, learned>>
signals == <<cancelled, consumers>>
poll == <<page, todo, last, reading, found>>
history == <<during, steady>>
vars == <<online, outages, gateway, gateways, children, used, settings, edits, claim,
          learned, cancelled, consumers, pc, gateway_mo_id, page, todo, last, reading, found,
          published, served, during, steady>>

Exists(s) == \E i \in DOMAIN children : children[i] = s

Usable == {s \in Servers : Exists(s) /\ settings[s] # Unusable}

\* What the provider should publish now.
Wanted == [s \in Usable |-> settings[s]]

Init ==
    /\ online \in BOOLEAN
    /\ outages = 0
    /\ gateway = 0
    /\ gateways = 0
    /\ children = <<>>
    /\ used = {}
    /\ settings = [s \in Servers |-> Unusable]
    /\ edits = 0
    /\ claim = [s \in Servers |-> "nobody"]
    /\ learned = {}
    /\ cancelled = FALSE
    /\ consumers = TRUE
    /\ pc = "lookup"
    /\ gateway_mo_id = 0
    /\ page = 1
    /\ todo = <<>>
    /\ last = FALSE
    /\ reading = <<>>
    /\ found = EmptyMap
    /\ published = EmptyMap
    /\ served = {}
    /\ during = {}
    /\ steady = {}

-----------------------------------------------------------------------------
(* The gateway object.                                                     *)

\* Mistake: what an earlier poll found is built on.
Begins_KeepsFound ==
    /\ pc' = "list"
    /\ page' = 1
    /\ during' = {<<s, settings[s]>> : s \in Usable}
    /\ steady' = IF gateway = gateway_mo_id' THEN Usable ELSE {}
    /\ UNCHANGED <<found, todo, last, reading>>

\* A fetch begins: from here on history watches the inventory.
Begins ==
    /\ pc' = "list"
    /\ page' = 1
    /\ found' = EmptyMap
    /\ during' = {<<s, settings[s]>> : s \in Usable}
    /\ steady' = IF gateway = gateway_mo_id' THEN Usable ELSE {}
    /\ UNCHANGED <<todo, last, reading>>

GatewayFound ==
    /\ pc = "lookup"
    /\ online
    /\ gateway # 0
    /\ gateway_mo_id' = gateway
    /\ Begins
    /\ UNCHANGED <<cloud, signals, published, served>>

\* It does not exist yet, or the lookup fails: try again later.
NoGateway ==
    /\ pc = "lookup"
    /\ ~online \/ gateway = 0
    /\ pc' = "asleep"
    /\ UNCHANGED <<cloud, signals, gateway_mo_id, poll, published, served, history>>

WakeUp ==
    /\ pc = "asleep"
    /\ UNCHANGED gateway_mo_id
    /\ IF gateway_mo_id = 0
        THEN pc' = "lookup" /\ UNCHANGED <<poll, history>>
        ELSE Begins
    /\ UNCHANGED <<cloud, signals, published, served>>

\* The only place where cancellation is looked at.
Return ==
    /\ pc = "asleep"
    /\ cancelled
    /\ pc' = "returned"
    /\ UNCHANGED <<cloud, signals, gateway_mo_id, poll, published, served, history>>

-----------------------------------------------------------------------------
(* fetch: the children, page by page.                                      *)

PageOf(n) ==
    LET upTo == IF n * PageSize < Len(children) THEN n * PageSize ELSE Len(children) IN
    SubSeq(children, (n - 1) * PageSize + 1, upTo)

\* One page is listed.  An empty one ends the fetch.
ListPage ==
    /\ pc = "list"
    /\ online
    /\ gateway_mo_id = gateway
    /\ todo' = PageOf(page)
    /\ last' = (Len(PageOf(page)) < PageSize)
    /\ pc' = IF PageOf(page) = <<>> THEN "publish" ELSE "read"
    /\ UNCHANGED <<cloud, signals, gateway_mo_id, page, reading, found, published,
                   served, history>>

\* Mistake: a gateway object that is gone is polled again like any failure.
ListGone_KeepsId ==
    /\ pc = "list"
    /\ online
    /\ gateway_mo_id # gateway
    /\ gateway_mo_id' = gateway_mo_id
    /\ pc' = "asleep"
    /\ UNCHANGED <<cloud, signals, poll, published, served, history>>

\* 404: the gateway object is gone and has to be looked up again.
ListGone ==
    /\ pc = "list"
    /\ online
    /\ gateway_mo_id # gateway
    /\ gateway_mo_id' = 0
    /\ pc' = "asleep"
    /\ UNCHANGED <<cloud, signals, poll, published, served, history>>

\* A page cannot be listed: the set already published is kept.
ListFails ==
    /\ pc = "list"
    /\ ~online
    /\ pc' = "asleep"
    /\ UNCHANGED <<cloud, signals, gateway_mo_id, poll, published, served, history>>

\* The next child is read, and it is a server this gateway can run.
ReadServer ==
    /\ pc = "read"
    /\ todo # <<>>
    /\ online
    /\ Head(todo) \in Usable
    /\ reading' = <<Head(todo), settings[Head(todo)]>>
    /\ todo' = Tail(todo)
    /\ pc' = "check"
    /\ UNCHANGED <<cloud, signals, gateway_mo_id, page, last, found, published,
                   served, history>>

\* Mistake: it ends the fetch, which publishes what it has.
SkipChild_EndsFetch ==
    /\ pc = "read"
    /\ todo # <<>>
    /\ ~online \/ Head(todo) \notin Usable
    /\ pc' = "publish"
    /\ UNCHANGED <<cloud, signals, gateway_mo_id, poll, published, served, history>>

\* It cannot be read, or is no server to run: it is left out, and the fetch
\* goes on.
SkipChild ==
    /\ pc = "read"
    /\ todo # <<>>
    /\ ~online \/ Head(todo) \notin Usable
    /\ todo' = Tail(todo)
    /\ UNCHANGED <<cloud, signals, pc, gateway_mo_id, page, last, reading, found,
                   published, served, history>>

\* The next page, unless this one was not full or MAX_PAGES have been read.
PageDone ==
    /\ pc = "read"
    /\ todo = <<>>
    /\ IF last \/ page = MaxPages
        THEN pc' = "publish" /\ UNCHANGED page
        ELSE pc' = "list" /\ page' = page + 1
    /\ UNCHANGED <<cloud, signals, gateway_mo_id, todo, last, reading, found,
                   published, served, history>>

-----------------------------------------------------------------------------
(* adopt, and out.push(server) whatever comes of it.                       *)

Pushed ==
    /\ found' = MapInsert(found, reading[1], reading[2])
    /\ reading' = <<>>
    /\ pc' = "read"

\* The external id resolves, to this object or to another, or it cannot be
\* looked up: nothing is planted.
NothingToPlant ==
    /\ pc = "check"
    /\ ~online \/ claim[reading[1]] # "nobody"
    /\ Pushed
    /\ UNCHANGED <<cloud, signals, gateway_mo_id, page, todo, last, published,
                   served, history>>

\* Mistake: the server is pushed first and adopted by a later poll.
Unclaimed_PushFirst ==
    /\ pc = "check"
    /\ online
    /\ claim[reading[1]] = "nobody"
    /\ IF reading[1] \in served THEN pc' = "plant" /\ UNCHANGED <<reading, found>> ELSE Pushed
    /\ UNCHANGED <<cloud, signals, gateway_mo_id, page, todo, last, published,
                   served, history>>

Unclaimed ==
    /\ pc = "check"
    /\ online
    /\ claim[reading[1]] = "nobody"
    /\ pc' = "plant"
    /\ UNCHANGED <<cloud, signals, gateway_mo_id, poll, published, served, history>>

\* create_external_id succeeds, or answers 409 to an id claimed meanwhile, or
\* fails, the object being gone or the cloud unreachable.
Plant ==
    /\ pc = "plant"
    /\ LET s == reading[1] IN
        claim' = IF online /\ Exists(s) /\ claim[s] = "nobody"
                    THEN [claim EXCEPT ![s] = "own"] ELSE claim
    /\ Pushed
    /\ UNCHANGED <<online, outages, gateway, gateways, children, used, settings, edits,
                   learned, signals, gateway_mo_id, page, todo, last, published,
                   served, history>>

\* The set is sent when it differs from the last one sent.
Publish ==
    /\ pc = "publish"
    /\ consumers \/ found = published
    /\ published' = found
    /\ served' = served \cup DOMAIN found
    /\ pc' = "asleep"
    /\ UNCHANGED <<cloud, signals, gateway_mo_id, poll, history>>

\* No receiver is left to send it to.
Unheard ==
    /\ pc = "publish"
    /\ ~consumers
    /\ found # published
    /\ pc' = "returned"
    /\ UNCHANGED <<cloud, signals, gateway_mo_id, poll, published, served, history>>

Provider ==
    \/ GatewayFound
    \/ NoGateway
    \/ WakeUp
    \/ Return
    \/ ListPage
    \/ ListGone
    \/ ListFails
    \/ ReadServer
    \/ SkipChild
    \/ PageDone
    \/ NothingToPlant
    \/ Unclaimed
    \/ Plant
    \/ Publish
    \/ Unheard

-----------------------------------------------------------------------------
(* Users, the mapper, the network, and the end of the process.             *)

provider == <<pc, gateway_mo_id, poll, published, served>>

\* The mapper creates the gateway object once it has processed its registration.
GatewayCreated ==
    /\ gateway = 0
    /\ gateways < MaxGateways
    /\ gateway' = gateways + 1
    /\ gateways' = gateways + 1
    /\ UNCHANGED <<online, outages, children, used, settings, edits, claim, learned,
                   signals, provider, history>>

\* A user adds a server below the gateway object.
AddServer(s, cfg) ==
    /\ edits < MaxEdits
    /\ gateway # 0
    /\ s \notin used
    /\ children' = Append(children, s)
    /\ used' = used \cup {s}
    /\ settings' = [settings EXCEPT ![s] = cfg]
    /\ edits' = edits + 1
    /\ during' = IF cfg = Unusable THEN during ELSE during \cup {<<s, cfg>>}
    /\ UNCHANGED <<online, outages, gateway, gateways, claim, learned, signals, provider,
                   steady>>

EditServer(s, cfg) ==
    /\ edits < MaxEdits
    /\ Exists(s)
    /\ settings' = [settings EXCEPT ![s] = cfg]
    /\ edits' = edits + 1
    /\ during' = IF cfg = Unusable THEN during ELSE during \cup {<<s, cfg>>}
    /\ steady' = IF cfg = Unusable THEN steady \ {s} ELSE steady
    /\ UNCHANGED <<online, outages, gateway, gateways, children, used, claim, learned,
                   signals, provider>>

\* An object takes its external ids with it.
Released(gone) ==
    [s \in Servers |-> IF s \in gone /\ claim[s] = "own" THEN "nobody" ELSE claim[s]]

\* Servers listed after a deleted one move up, maybe to a page already read.
DeleteServer(s) ==
    /\ edits < MaxEdits
    /\ \E i \in DOMAIN children :
        /\ children[i] = s
        /\ children' = RemoveAt(children, i)
        /\ steady' = steady \cap {children[j] : j \in 1 .. i - 1}
    /\ claim' = Released({s})
    /\ edits' = edits + 1
    /\ UNCHANGED <<online, outages, gateway, gateways, used, settings, learned, signals,
                   provider, during>>

\* The gateway object is deleted, and everything below it with it.
DeleteGateway ==
    /\ edits < MaxEdits
    /\ gateway # 0
    /\ gateway' = 0
    /\ children' = <<>>
    /\ claim' = Released({s \in Servers : Exists(s)})
    /\ edits' = edits + 1
    /\ steady' = {}
    /\ UNCHANGED <<online, outages, gateways, used, settings, learned, signals, provider,
                   during>>

\* Another gateway with the same ids, or a person, claims an external id.
StrangerClaims(s) ==
    /\ s \in Strangers
    /\ claim[s] = "nobody"
    /\ claim' = [claim EXCEPT ![s] = "other"]
    /\ UNCHANGED <<online, outages, gateway, gateways, children, used, settings, edits,
                   learned, signals, provider, history>>

\* A server that was published is registered over MQTT.  The first time the
\* mapper sees the registration it creates a device for the external id, unless
\* the id resolves already.
MapperLearns(s) ==
    /\ online
    /\ s \in served \ learned
    /\ learned' = learned \cup {s}
    /\ claim' = IF claim[s] = "nobody" THEN [claim EXCEPT ![s] = "other"] ELSE claim
    /\ UNCHANGED <<online, outages, gateway, gateways, children, used, settings, edits,
                   signals, provider, history>>

GoesOffline ==
    /\ online
    /\ outages < MaxOutages
    /\ online' = FALSE
    /\ outages' = outages + 1
    /\ UNCHANGED <<gateway, gateways, children, used, settings, edits, claim, learned,
                   signals, provider, history>>

ComesBack ==
    /\ ~online
    /\ online' = TRUE
    /\ UNCHANGED <<outages, gateway, gateways, children, used, settings, edits, claim,
                   learned, signals, provider, history>>

Cancel ==
    /\ ~cancelled
    /\ cancelled' = TRUE
    /\ UNCHANGED <<cloud, consumers, provider, history>>

\* The supervisor and the operation handler return once cancelled.
ConsumersEnd ==
    /\ cancelled
    /\ consumers
    /\ consumers' = FALSE
    /\ UNCHANGED <<cloud, cancelled, provider, history>>

Next ==
    \/ Provider
    \/ GatewayCreated
    \/ \E s \in Servers : \E cfg \in Configs \cup {Unusable} : AddServer(s, cfg)
    \/ \E s \in Servers : \E cfg \in Configs \cup {Unusable} : EditServer(s, cfg)
    \/ \E s \in Servers : DeleteServer(s)
    \/ DeleteGateway
    \/ \E s \in Servers : StrangerClaims(s)
    \/ \E s \in Servers : MapperLearns(s)
    \/ GoesOffline
    \/ ComesBack
    \/ Cancel
    \/ ConsumersEnd

Spec == Init /\ [][Next]_vars

\* Every request answers or times out and every sleep ends, and the cloud is
\* reachable again in the end.
FairSpec == Spec /\ WF_vars(Provider) /\ WF_vars(ComesBack)

-----------------------------------------------------------------------------
TypeOK ==
    /\ online \in BOOLEAN
    /\ outages \in 0 .. MaxOutages
    /\ gateway \in 0 .. MaxGateways
    /\ gateways \in 0 .. MaxGateways
    /\ children \in Seq(Servers)
    /\ used \subseteq Servers
    /\ settings \in [Servers -> Configs \cup {Unusable}]
    /\ edits \in 0 .. MaxEdits
    /\ claim \in [Servers -> {"nobody", "own", "other"}]
    /\ learned \subseteq Servers
    /\ cancelled \in BOOLEAN
    /\ consumers \in BOOLEAN
    /\ pc \in {"lookup", "asleep", "list", "read", "check", "plant", "publish", "returned"}
    /\ gateway_mo_id \in 0 .. MaxGateways
    /\ page \in 1 .. MaxPages
    /\ todo \in Seq(Servers)
    /\ last \in BOOLEAN
    /\ reading \in {<<>>} \cup (Servers \X Configs)
    /\ IsMap(found, Servers, Configs)
    /\ IsMap(published, Servers, Configs)
    /\ served \subseteq Servers
    /\ during \subseteq Servers \X Configs
    /\ steady \subseteq Servers

\* What a poll publishes held in Cumulocity at some time during that poll: a
\* server deleted, or settings replaced, before it began are never handed out,
\* however its pages and reads interleave with edits.
NothingStale ==
    [][published' # published =>
        \A s \in DOMAIN published' : <<s, published'[s]>> \in during]_vars

\* "A cloud outage means the servers already known keep running": a published
\* server that stays usable, at its place in the list, all through a poll is in
\* what the poll publishes.
KeepsKnownServers ==
    [][published' # published => DOMAIN published \cap steady \subseteq DOMAIN published']_vars

\* What the code does achieve: so it is while every request is answered, however
\* users edit the inventory between them.
KeepsKnownServersOnline ==
    [][published' # published /\ outages = 0 =>
        DOMAIN published \cap steady \subseteq DOMAIN published']_vars

\* "Telemetry published for it would create a second device", so a server is
\* adopted before anything is published for it: the mapper never creates another
\* device for a server object that exists.
OneDevicePerServer ==
    \A s \in Servers \ Strangers : Exists(s) => claim[s] # "other"

\* Likewise while every request is answered.
OneDevicePerServerOnline == outages = 0 => OneDevicePerServer

\* Once users and network leave the inventory alone the published set is the one
\* below the gateway object, when its pages are within the limit.
Follows ==
    <>[](\/ cancelled
         \/ gateway = 0
         \/ Len(children) > PageSize * MaxPages
         \/ published = Wanted)

-----------------------------------------------------------------------------
(* Why they hold.                                                          *)

Fetching == pc \in {"list", "read", "check", "plant", "publish"}

BeingRead == IF reading = <<>> THEN {} ELSE {reading[1]}

\* Servers a poll has listed, this one or an earlier one.
Handled == DOMAIN found \cup ToSet(todo) \cup BeingRead \cup served

\* An object is below the gateway once in its life, and nothing is known of it
\* before.
ObjectsByLife ==
    /\ \A i, j \in DOMAIN children : children[i] = children[j] => i = j
    /\ ToSet(children) \cup Handled \subseteq used
    /\ \A s \in Servers \ (used \cup Strangers) : claim[s] = "nobody"

\* A poll reads what it adopts, and what was published was served.
ReadingByPlace ==
    /\ reading # <<>> <=> pc \in {"check", "plant"}
    /\ DOMAIN published \subseteq served

\* Objects only move up the list, so one that was listed stays within the pages
\* that are read.
WithinPages == \A i \in DOMAIN children : children[i] \in Handled => i <= MaxPages * PageSize

\* History has everything a poll may find, and everything it has found.
Witnessed ==
    Fetching =>
        /\ \A s \in Usable : <<s, settings[s]>> \in during
        /\ \A s \in DOMAIN found : <<s, found[s]>> \in during
        /\ reading # <<>> => reading \in during

\* Before the first outage, being offline is how the process started.
OnlineWhileFetching ==
    outages = 0 /\ ~online => ~Fetching /\ gateway_mo_id = 0

\* Children a poll has still to see: behind the pages it has listed.
Ahead(i) ==
    \/ pc = "list" /\ i > (page - 1) * PageSize
    \/ pc \in {"read", "check", "plant"} /\ ~last /\ i > page * PageSize
    \/ pc = "publish" /\ i > MaxPages * PageSize

\* What is usable and in its place all through a poll has been found, is about to
\* be read, or is ahead.
Covered ==
    /\ steady \subseteq Usable
    /\ outages = 0 /\ Fetching =>
        \A i \in DOMAIN children : children[i] \in steady =>
            \/ children[i] \in DOMAIN found \cup BeingRead
            \/ pc \in {"read", "check", "plant"} /\ children[i] \in ToSet(todo)
            \/ Ahead(i)

\* Before a server is handed out its external id is its own.
AdoptedFirst ==
    outages = 0 =>
        \A s \in (DOMAIN found \cup served) \ Strangers : Exists(s) => claim[s] = "own"

IInv ==
    /\ TypeOK
    /\ ObjectsByLife
    /\ ReadingByPlace
    /\ WithinPages
    /\ Witnessed
    /\ OnlineWhileFetching
    /\ Covered
    /\ AdoptedFirst
    /\ OneDevicePerServerOnline

=============================================================================
