----------------------------- MODULE MqttClient -----------------------------
(***************************************************************************)
(* crates/tedge/src/mqtt.rs: the one MQTT client every task publishes      *)
(* through, and the event loop that drives it.                             *)
(*                                                                         *)
(* Publishers append to a bounded channel and wait while it is full.  Only *)
(* the event loop takes from it, while it polls.  On every connect the     *)
(* loop itself re-issues its subscriptions, through the same channel.      *)
(*                                                                         *)
(* The MQTT library (rumqttc) is outside the repository.  It is modelled   *)
(* as an in-order QoS 1 client: what was sent and not acknowledged when    *)
(* the connection is lost is sent again, before anything newer; what was   *)
(* waiting in the channel at that moment is kept with it.  The broker      *)
(* keeps its session, as clean_session(false) asks.                        *)
(***************************************************************************)
EXTENDS Integers, Sequences, SequencesExt

CONSTANTS
    Publishers,     \* tasks that publish
    Owner,          \* publisher -> the one that registers the entity it reports for
    Count,          \* publisher -> how many messages it publishes
    Capacity,       \* mqtt.capacity: the bound of the channel
    Subscriptions,  \* topics the loop subscribes to on connect
    MaxOutages      \* bound on the times the broker goes away

ASSUME OwnerAssumption ==
    Owner \in [Publishers -> Publishers] /\ \A p \in Publishers : Owner[Owner[p]] = Owner[p]

ASSUME CountAssumption == Count \in [Publishers -> Nat]

ASSUME BoundsAssumption == Capacity \in Nat \ {0} /\ Subscriptions \in Nat /\ MaxOutages \in Nat

VARIABLES
    brokerUp,       \* the broker accepts connections
    outages,        \* times it has gone away
    cancelled,      \* the process-wide token
    pc,             \* where the event loop is
    todo,           \* subscriptions still to issue on this connect
    connected,      \* the client has a connection, as far as it knows
    link,           \* the connection still reaches the broker
    queue,          \* the bounded channel
    pending,        \* what a lost connection left to send again
    inflight,       \* sent and not acknowledged
    received,       \* what the broker has received
    accepted        \* publisher -> messages its publish calls have returned for

\* Everything on its way to the broker, the oldest first.
Line == inflight \o pending \o queue

client == <<queue, pending, inflight, received, accepted>>
vars == <<brokerUp, outages, cancelled, pc, todo, connected, link, queue, pending,
          inflight, received, accepted>>

\* A publisher's first message is a registration when it owns the entity.
Message == [from : Publishers, nth : Nat \ {0}]

Subscribe == [from |-> "loop", nth |-> 0]

Init ==
    /\ brokerUp \in BOOLEAN
    /\ outages = 0
    /\ cancelled = FALSE
    /\ pc = "polling"
    /\ todo = 0
    /\ connected = FALSE
    /\ link = FALSE
    /\ queue = <<>>
    /\ pending = <<>>
    /\ inflight = <<>>
    /\ received = {}
    /\ accepted = [p \in Publishers |-> 0]

-----------------------------------------------------------------------------
(* The publishers.                                                         *)

\* Mistake: readers start without waiting for the registration.
MayPublish_AtOnce(p) == accepted[p] < Count[p]

\* The owner registers the entity before anything that reports for it starts:
\* the server task awaits its registrations before it spawns a reader.
MayPublish(p) ==
    /\ accepted[p] < Count[p]
    /\ p = Owner[p] \/ accepted[Owner[p]] > 0

\* client.publish(..).await: room in the channel, or the publisher waits.
Publish(p) ==
    /\ pc # "stopped"
    /\ MayPublish(p)
    /\ Len(queue) < Capacity
    /\ queue' = Append(queue, [from |-> p, nth |-> accepted[p] + 1])
    /\ accepted' = [accepted EXCEPT ![p] = @ + 1]
    /\ UNCHANGED <<brokerUp, outages, cancelled, pc, todo, connected, link, pending,
                   inflight, received>>

-----------------------------------------------------------------------------
(* The event loop.                                                         *)

\* poll() connects and yields ConnAck.  The subscriptions are next, if any.
ConnAck ==
    /\ pc = "polling"
    /\ ~connected
    /\ brokerUp
    /\ connected' = TRUE
    /\ link' = TRUE
    /\ todo' = Subscriptions
    /\ pc' = IF Subscriptions = 0 THEN "polling" ELSE "subscribing"
    /\ UNCHANGED <<brokerUp, outages, cancelled, client>>

\* poll() fails to connect: reported, and tried again after a delay.
ConnectFails ==
    /\ pc = "polling"
    /\ ~connected
    /\ ~brokerUp
    /\ pc' = "delay"
    /\ UNCHANGED <<brokerUp, outages, cancelled, todo, connected, link, client>>

\* mqtt.subscribe(topic).await: one more request for the same channel.
Resubscribe ==
    /\ pc = "subscribing"
    /\ Len(queue) < Capacity
    /\ queue' = Append(queue, Subscribe)
    /\ todo' = todo - 1
    /\ pc' = IF todo = 1 THEN "polling" ELSE "subscribing"
    /\ UNCHANGED <<brokerUp, outages, cancelled, connected, link, pending, inflight,
                   received, accepted>>

\* poll() sends the next request, what a lost connection left first.  It gets
\* through only while the connection still reaches the broker.
Transmit ==
    /\ pc = "polling"
    /\ connected
    /\ pending # <<>> \/ queue # <<>>
    /\ LET m == IF pending # <<>> THEN Head(pending) ELSE Head(queue) IN
        /\ inflight' = Append(inflight, m)
        /\ received' = IF link THEN received \cup {m} ELSE received
    /\ IF pending # <<>> THEN pending' = Tail(pending) /\ UNCHANGED queue
                         ELSE queue' = Tail(queue) /\ UNCHANGED pending
    /\ UNCHANGED <<brokerUp, outages, cancelled, pc, todo, connected, link, accepted>>

Acknowledged ==
    /\ pc = "polling"
    /\ connected
    /\ link
    /\ inflight # <<>>
    /\ inflight' = Tail(inflight)
    /\ UNCHANGED <<brokerUp, outages, cancelled, pc, todo, connected, link, queue,
                   pending, received, accepted>>

\* Mistake: what was sent is taken to have arrived.
ConnectionLost_AtMostOnce ==
    /\ pc = "polling"
    /\ connected
    /\ ~link
    /\ connected' = FALSE
    /\ pending' = pending \o queue
    /\ inflight' = <<>>
    /\ queue' = <<>>
    /\ pc' = "delay"
    /\ UNCHANGED <<brokerUp, outages, cancelled, todo, link, received, accepted>>

\* poll() fails: the connection is gone, everything unacknowledged is kept in
\* order, and the loop waits before it connects again.
ConnectionLost ==
    /\ pc = "polling"
    /\ connected
    /\ ~link
    /\ connected' = FALSE
    /\ pending' = inflight \o pending \o queue
    /\ inflight' = <<>>
    /\ queue' = <<>>
    /\ pc' = "delay"
    /\ UNCHANGED <<brokerUp, outages, cancelled, todo, link, received, accepted>>

\* Mistake: the loop ends when the broker cannot be reached.
DelayOver_GivesUp ==
    /\ pc = "delay"
    /\ pc' = IF brokerUp THEN "polling" ELSE "stopped"
    /\ UNCHANGED <<brokerUp, outages, cancelled, todo, connected, link, client>>

DelayOver ==
    /\ pc = "delay"
    /\ pc' = "polling"
    /\ UNCHANGED <<brokerUp, outages, cancelled, todo, connected, link, client>>

\* Mistake: only the wait between two attempts looks at the token.
Stop_BetweenAttempts ==
    /\ pc = "delay"
    /\ cancelled
    /\ pc' = "stopped"
    /\ UNCHANGED <<brokerUp, outages, cancelled, todo, connected, link, client>>

\* Cancellation is looked at while polling and while waiting, and not while
\* subscribing.  The channel goes with the loop, and everything in it.
Stop ==
    /\ pc \in {"polling", "delay"}
    /\ cancelled
    /\ pc' = "stopped"
    /\ UNCHANGED <<brokerUp, outages, cancelled, todo, connected, link, client>>

LoopStep ==
    \/ ConnAck
    \/ ConnectFails
    \/ Resubscribe
    \/ Transmit
    \/ Acknowledged
    \/ ConnectionLost
    \/ DelayOver
    \/ Stop

-----------------------------------------------------------------------------
(* The broker and the signal.                                              *)

GoesAway ==
    /\ brokerUp
    /\ outages < MaxOutages
    /\ brokerUp' = FALSE
    /\ link' = FALSE
    /\ outages' = outages + 1
    /\ UNCHANGED <<cancelled, pc, todo, connected, client>>

ComesBack ==
    /\ ~brokerUp
    /\ brokerUp' = TRUE
    /\ UNCHANGED <<outages, cancelled, pc, todo, connected, link, client>>

Cancel ==
    /\ ~cancelled
    /\ cancelled' = TRUE
    /\ UNCHANGED <<brokerUp, outages, pc, todo, connected, link, client>>

Next ==
    \/ \E p \in Publishers : Publish(p)
    \/ LoopStep
    \/ GoesAway
    \/ ComesBack
    \/ Cancel

Spec == Init /\ [][Next]_vars

\* The runtime polls the loop and every publisher with room to publish into,
\* and a broker that went away comes back.
FairSpec ==
    /\ Spec
    /\ WF_vars(LoopStep)
    /\ \A p \in Publishers : WF_vars(Publish(p))
    /\ WF_vars(ComesBack)

-----------------------------------------------------------------------------
Requests == Message \cup {Subscribe}

TypeOK ==
    /\ brokerUp \in BOOLEAN
    /\ outages \in 0 .. MaxOutages
    /\ cancelled \in BOOLEAN
    /\ pc \in {"polling", "subscribing", "delay", "stopped"}
    /\ todo \in 0 .. Subscriptions
    /\ connected \in BOOLEAN
    /\ link \in BOOLEAN
    /\ queue \in Seq(Requests)
    /\ Len(queue) <= Capacity
    /\ pending \in Seq(Requests)
    /\ inflight \in Seq(Requests)
    /\ received \subseteq Requests
    /\ accepted \in [Publishers -> Nat]

Received(p, n) == [from |-> p, nth |-> n] \in received

\* "Registration ... before any data, as the thin-edge API requires": at the
\* broker, through any outage and retransmission, nothing of an entity arrives
\* ahead of its registration, and no publisher's messages overtake each other
\* on their first arrival.
RegistrationFirst ==
    \A p \in Publishers : \A n \in 1 .. Count[p] :
        Received(p, n) =>
            /\ \A k \in 1 .. n : Received(p, k)
            /\ Received(Owner[p], 1)

\* A publish that returned is never lost while the loop runs: until the broker
\* has it, it is in the channel, or kept for the next connection, or waiting
\* for its acknowledgement.
NothingLost ==
    pc # "stopped" =>
        \A p \in Publishers : \A n \in 1 .. accepted[p] :
            \/ Received(p, n)
            \/ [from |-> p, nth |-> n] \in ToSet(Line)

\* The loop waits for room in the channel that only it drains.
Stuck == pc = "subscribing" /\ Len(queue) = Capacity

\* An outage is "visible without being fatal": once the broker is back, every
\* publisher publishes everything it has, and the broker receives it, unless
\* the process stops.
OutageNotFatal ==
    \A p \in Publishers : <>(cancelled \/ Received(p, Count[p]))

\* What the code does achieve: nothing but a full channel at the moment of a
\* new connection keeps an outage from being survived.
OutageSurvived ==
    \A p \in Publishers : <>(cancelled \/ Stuck \/ Received(p, Count[p]))

\* Cancelled, the event loop returns, so that main.rs need not abandon it,
\* wherever it waits but there.
LoopStops == cancelled ~> (pc = "stopped" \/ Stuck)

-----------------------------------------------------------------------------
(* Why the two invariants hold: the line keeps its order through sending,  *)
(* acknowledgement and loss, and a live connection has delivered all that  *)
(* it carries.                                                             *)

\* What the broker must have before m: the earlier messages of its publisher,
\* and the registration of the entity it reports for.
Ahead(m) ==
    {[from |-> m.from, nth |-> k] : k \in 1 .. m.nth - 1}
        \cup ({[from |-> Owner[m.from], nth |-> 1]} \ {m})

\* No message before its publish call has returned.
Issued(m) == m \in Message => m.nth <= accepted[m.from]

OnlyIssued ==
    /\ \A m \in received : Issued(m)
    /\ \A i \in DOMAIN Line : Issued(Line[i])

\* A connection that reaches the broker has delivered everything it sent, and
\* there is nothing sent without a connection.
LinkDelivers ==
    /\ link => connected /\ ToSet(inflight) \subseteq received
    /\ ~connected => inflight = <<>>

\* What was accepted is with the broker or in the line.
Kept ==
    \A p \in Publishers : \A n \in 1 .. accepted[p] :
        [from |-> p, nth |-> n] \in received \cup ToSet(Line)

\* What must come before a message in the line is with the broker, or ahead of
\* it in the line.
LineInOrder ==
    \A i \in DOMAIN Line :
        Line[i] \in Message =>
            \A a \in Ahead(Line[i]) : a \in received \/ \E j \in 1 .. i - 1 : Line[j] = a

\* Nothing at the broker lacks what comes before it.
ReceivedInOrder == \A m \in received \cap Message : Ahead(m) \subseteq received

LineParts ==
    /\ OnlyIssued
    /\ Kept
    /\ LineInOrder
    /\ ReceivedInOrder

IInv ==
    /\ TypeOK
    /\ pc = "subscribing" => todo > 0
    /\ LinkDelivers
    /\ LineParts

=============================================================================
