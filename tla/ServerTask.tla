----------------------------- MODULE ServerTask -----------------------------
(***************************************************************************)
(* crates/gateway/src/server_task.rs, with the connection it drives in     *)
(* crates/opcua-conn: the task that keeps one OPC UA server connected,     *)
(* resolves the current device types against each session, and runs the    *)
(* readers of that session generation until it has to start over or end.   *)
(*                                                                         *)
(* Around the task run its readers (the subscription loop and the cyclic   *)
(* read loops), the device type provider, the supervisor and the signal    *)
(* that cancel its tokens, and the server, which comes and goes.           *)
(*                                                                         *)
(* Which readers a device type set calls for is the constant Plan; what    *)
(* they publish is left out.  Publishing waits on the bounded MQTT channel,*)
(* which is taken to be drained (module MqttClient is about that).         *)
(***************************************************************************)
EXTENDS Integers, FiniteSets

CONSTANTS
    Readers,        \* every reader some device type set may call for
    SubReader,      \* of these, the subscription loop; the others read cyclically
    MaxVersion,     \* bound on the device type sets published after the first
    Plan,           \* version -> the readers that set of device types calls for
    MaxBackoff,     \* runtime.max_backoff_secs
    MaxOutages      \* bound on the times the server goes away

ASSUME ReaderAssumption == SubReader \in Readers

ASSUME VersionAssumption == MaxVersion \in Nat /\ Plan \in [0 .. MaxVersion -> SUBSET Readers]

ASSUME BackoffAssumption == MaxBackoff \in Nat

ASSUME OutageAssumption == MaxOutages \in Nat

VARIABLES
    up,             \* the server is reachable, accepts the session and answers
    outages,        \* times it has gone away
    version,        \* version of the device type set in the watch channel
    dtOpen,         \* the device type provider still holds the sender
    stop,           \* the stop token, or the process-wide token above it
    shutdown,       \* the process-wide token
    remove,         \* the remove token
    pc,             \* where the task is
    after,          \* where to go once the session is closed
    backoff,        \* seconds to wait before the next attempt
    seen,           \* version marked as seen
    applied,        \* version this generation was resolved from
    session,        \* what exists of the OPC UA session this task holds
    leaked,         \* a session event loop was left running with no owner
    readers,        \* readers of this generation that run
    exited,         \* readers that returned and were not joined yet
    fails           \* reader -> consecutive failed reads

outside == <<up, outages, version, dtOpen, stop, shutdown, remove>>
generation == <<seen, applied, session, leaked>>
work == <<readers, exited, fails>>
vars == <<up, outages, version, dtOpen, stop, shutdown, remove, pc, after, backoff,
          seen, applied, session, leaked, readers, exited, fails>>

MAX_CONSECUTIVE_READ_FAILURES == 3

Smaller(a, b) == IF a < b THEN a ELSE b

Init ==
    /\ up \in BOOLEAN
    /\ outages = 0
    /\ version = 0
    /\ dtOpen = TRUE
    /\ stop = FALSE
    /\ shutdown = FALSE
    /\ remove = FALSE
    /\ pc = "registering"
    /\ after = "top"
    /\ backoff = 1
    /\ seen = 0
    /\ applied = 0
    /\ session = "none"
    /\ leaked = FALSE
    /\ readers = {}
    /\ exited = {}
    /\ fails = [r \in Readers |-> 0]

-----------------------------------------------------------------------------
(* Connecting.                                                             *)

\* The server's entity is registered first, whatever the tokens say.
Register ==
    /\ pc = "registering"
    /\ pc' = "top"
    /\ UNCHANGED <<outside, after, backoff, generation, work>>

\* Both tokens are looked at, then the endpoint is dialled.  Here and wherever
\* else the task returns for remove, deregister comes first; all it does is say
\* that the registrations stay.
Top ==
    /\ pc = "top"
    /\ pc' = IF stop \/ remove THEN "returned" ELSE "dialling"
    /\ UNCHANGED <<outside, after, backoff, generation, work>>

\* connect_to_matching_endpoint answers, and the event loop is spawned.
Dialled ==
    /\ pc = "dialling"
    /\ up
    /\ session' = "activating"
    /\ pc' = "activating"
    /\ UNCHANGED <<outside, after, backoff, seen, applied, leaked, work>>

\* Mistake: the event loop is not aborted when the activation times out.
ConnectFails_Detaches ==
    /\ pc \in {"dialling", "activating"}
    /\ ~up
    /\ session' = "none"
    /\ leaked' = (leaked \/ session = "activating")
    /\ pc' = "retryWait"
    /\ UNCHANGED <<outside, after, backoff, seen, applied, work>>

\* Either half of connect runs into connect_timeout.  The second half aborts
\* the event loop it had spawned.
ConnectFails ==
    /\ pc \in {"dialling", "activating"}
    /\ ~up
    /\ session' = "none"
    /\ pc' = "retryWait"
    /\ UNCHANGED <<outside, after, backoff, seen, applied, leaked, work>>

\* The session is active.  In the same breath the back-off is reset and the
\* current device types are read and marked as seen.
Activated ==
    /\ pc = "activating"
    /\ up
    /\ session' = "open"
    /\ backoff' = 1
    /\ seen' = version
    /\ applied' = version
    /\ pc' = "resolving"
    /\ UNCHANGED <<outside, after, leaked, work>>

\* A token is cancelled while connect or a back-off sleep is awaited: the task
\* returns there and then.  Dropping the connect future drops the join handle
\* of an event loop already spawned, which detaches it instead of ending it.
ReturnEarly ==
    /\ pc \in {"dialling", "activating", "retryWait", "reconnectWait"}
    /\ stop \/ remove
    /\ pc' = "returned"
    /\ session' = "none"
    /\ leaked' = (leaked \/ session = "activating")
    /\ UNCHANGED <<outside, after, backoff, seen, applied, work>>

\* The sleep ends and the back-off doubles, after a failed connect and after a
\* read loop gave up alike.
BackedOff ==
    /\ pc \in {"retryWait", "reconnectWait"}
    /\ backoff' = Smaller(2 * backoff, MaxBackoff)
    /\ pc' = "top"
    /\ UNCHANGED <<outside, after, generation, work>>

-----------------------------------------------------------------------------
(* A session generation.  No token is looked at until its readers run.     *)

\* resolve_all succeeds: the devices are registered, and the subscription is
\* next.
Resolved ==
    /\ pc = "resolving"
    /\ up
    /\ pc' = "subscribing"
    /\ UNCHANGED <<outside, after, backoff, generation, work>>

\* A request of resolve_all fails: the session is kept, with nothing to read,
\* until the device types change.
ResolveFails ==
    /\ pc = "resolving"
    /\ ~up
    /\ pc' = "running"
    /\ UNCHANGED <<outside, after, backoff, generation, work>>

\* Mistake: the device types are marked as seen only now.
StartReaders_MarkSeen ==
    /\ pc = "subscribing"
    /\ readers' = Plan[applied]
    /\ fails' = [r \in Readers |-> 0]
    /\ seen' = version
    /\ pc' = "running"
    /\ UNCHANGED <<outside, after, backoff, applied, session, leaked, exited>>

\* The subscription is set up, or one of its requests fails or has every item
\* refused and there is none; then the cyclic readers are spawned.
StartReaders ==
    /\ pc = "subscribing"
    /\ \E subscribed \in {Plan[applied], Plan[applied] \ {SubReader}} :
        /\ SubReader \in subscribed => up
        /\ readers' = subscribed
    /\ fails' = [r \in Readers |-> 0]
    /\ pc' = "running"
    /\ UNCHANGED <<outside, after, backoff, generation, exited>>

\* Mistake: told to end, the task returns without closing anything.
CloseThen_Abrupt(next) ==
    /\ pc = "running"
    /\ pc' = IF next = "returned" THEN "returned" ELSE "closing"
    /\ after' = next
    /\ UNCHANGED <<outside, backoff, applied, session, leaked, readers, fails>>

\* One branch of the running select won: close the session, then go on there.
CloseThen(next) ==
    /\ pc = "running"
    /\ pc' = "closing"
    /\ after' = next
    /\ UNCHANGED <<outside, backoff, applied, session, leaked, readers, fails>>

\* Mistake: a running task does not look at the remove token.
Told_StopOnly ==
    /\ stop
    /\ CloseThen("returned")
    /\ UNCHANGED <<seen, exited>>

Told ==
    /\ stop \/ remove
    /\ CloseThen("returned")
    /\ UNCHANGED <<seen, exited>>

\* Mistake: a change is noticed only while something is being read.
DeviceTypesChanged_Reading ==
    /\ readers # {}
    /\ version # seen
    /\ seen' = version
    /\ CloseThen("top")
    /\ UNCHANGED exited

\* device_types.changed() is Ok: the set is resolved again on a new session,
\* without waiting.
DeviceTypesChanged ==
    /\ version # seen
    /\ seen' = version
    /\ CloseThen("top")
    /\ UNCHANGED exited

\* device_types.changed() is Err.
DeviceTypesClosed ==
    /\ ~dtOpen
    /\ version = seen
    /\ CloseThen("returned")
    /\ UNCHANGED <<seen, exited>>

\* Mistake: the session is given up only when every reader has returned.
ReaderExited_All ==
    /\ readers = {}
    /\ \E r \in exited : exited' = exited \ {r}
    /\ CloseThen(IF stop THEN "top" ELSE "reconnectWait")
    /\ UNCHANGED seen

\* Mistake: a reader that returned is joined and forgotten.
ReaderExited_Forgotten ==
    /\ pc = "running"
    /\ \E r \in exited : exited' = exited \ {r}
    /\ UNCHANGED <<outside, pc, after, backoff, generation, readers, fails>>

\* One reader has returned.  With no reader at all this branch never wins.
ReaderExited ==
    /\ \E r \in exited : exited' = exited \ {r}
    /\ CloseThen(IF stop THEN "top" ELSE "reconnectWait")
    /\ UNCHANGED seen

\* Mistake: the readers are told to end and not waited for.
ShutReaders_NoWait ==
    /\ pc = "closing"
    /\ pc' = "disconnecting"
    /\ UNCHANGED <<outside, after, backoff, generation, work>>

\* generation.cancel() and readers.shutdown(): every reader is aborted, and
\* waited for.
ShutReaders ==
    /\ pc = "closing"
    /\ readers' = {}
    /\ exited' = {}
    /\ pc' = "disconnecting"
    /\ UNCHANGED <<outside, after, backoff, generation, fails>>

Disconnect ==
    /\ pc = "disconnecting"
    /\ session' = "none"
    /\ pc' = after
    /\ UNCHANGED <<outside, after, backoff, seen, applied, leaked, work>>

TaskStep ==
    \/ Register
    \/ Top
    \/ Dialled
    \/ ConnectFails
    \/ Activated
    \/ ReturnEarly
    \/ BackedOff
    \/ Resolved
    \/ ResolveFails
    \/ StartReaders
    \/ Told
    \/ DeviceTypesChanged
    \/ DeviceTypesClosed
    \/ ReaderExited
    \/ ShutReaders
    \/ Disconnect

-----------------------------------------------------------------------------
(* The readers.                                                            *)

inLoop == <<pc, after, backoff, generation>>

\* A read on a session that answers forgets the failures before it.
ReadOk(r) ==
    /\ r \in readers \ {SubReader}
    /\ up
    /\ fails[r] > 0
    /\ fails' = [fails EXCEPT ![r] = 0]
    /\ UNCHANGED <<outside, inLoop, readers, exited>>

\* The last of MAX_CONSECUTIVE_READ_FAILURES failed reads in a row ends the loop.
ReadFails(r) ==
    /\ r \in readers \ {SubReader}
    /\ ~up
    /\ fails' = [fails EXCEPT ![r] = @ + 1]
    /\ IF fails[r] + 1 >= MAX_CONSECUTIVE_READ_FAILURES
         THEN /\ readers' = readers \ {r}
              /\ exited' = exited \cup {r}
         ELSE UNCHANGED <<readers, exited>>
    /\ UNCHANGED <<outside, inLoop>>

\* The session drops the subscription while the server is away, and with it the
\* sender the subscription loop receives from.
SubscriptionDropped ==
    /\ SubReader \in readers
    /\ ~up
    /\ readers' = readers \ {SubReader}
    /\ exited' = exited \cup {SubReader}
    /\ UNCHANGED <<outside, inLoop, fails>>

\* The generation's token is a child of stop: a reader that sees it cancelled
\* returns, without waiting to be aborted.
ReaderCancelled(r) ==
    /\ r \in readers
    /\ stop \/ pc = "closing"
    /\ readers' = readers \ {r}
    /\ exited' = exited \cup {r}
    /\ UNCHANGED <<outside, inLoop, fails>>

ReaderStep(r) == ReadOk(r) \/ ReadFails(r) \/ ReaderCancelled(r)

-----------------------------------------------------------------------------
(* Everything around the task.                                             *)

inTask == <<pc, after, backoff, generation, work>>

GoesAway ==
    /\ up
    /\ outages < MaxOutages
    /\ up' = FALSE
    /\ outages' = outages + 1
    /\ UNCHANGED <<version, dtOpen, stop, shutdown, remove, inTask>>

ComesBack ==
    /\ ~up
    /\ up' = TRUE
    /\ UNCHANGED <<outages, version, dtOpen, stop, shutdown, remove, inTask>>

\* device_types.rs publishes a new set.
NewDeviceTypes ==
    /\ dtOpen
    /\ version < MaxVersion
    /\ version' = version + 1
    /\ UNCHANGED <<up, outages, dtOpen, stop, shutdown, remove, inTask>>

\* The provider returns only when the process stops.
ProviderEnds ==
    /\ shutdown
    /\ dtOpen
    /\ dtOpen' = FALSE
    /\ UNCHANGED <<up, outages, version, stop, shutdown, remove, inTask>>

\* The supervisor restarts the task, or removes it; never both.
StopTask ==
    /\ ~stop
    /\ ~remove
    /\ stop' = TRUE
    /\ UNCHANGED <<up, outages, version, dtOpen, shutdown, remove, inTask>>

RemoveTask ==
    /\ ~remove
    /\ shutdown \/ ~stop
    /\ remove' = TRUE
    /\ UNCHANGED <<up, outages, version, dtOpen, stop, shutdown, inTask>>

\* The process-wide token is cancelled, and stop, its child, with it.
Shutdown ==
    /\ ~shutdown
    /\ shutdown' = TRUE
    /\ stop' = TRUE
    /\ UNCHANGED <<up, outages, version, dtOpen, remove, inTask>>

Environment ==
    \/ GoesAway
    \/ ComesBack
    \/ NewDeviceTypes
    \/ ProviderEnds
    \/ StopTask
    \/ RemoveTask
    \/ Shutdown

Next ==
    \/ TaskStep
    \/ \E r \in Readers : ReaderStep(r)
    \/ SubscriptionDropped
    \/ Environment

Spec == Init /\ [][Next]_vars

\* The runtime polls what is ready, every request ends by an answer or a
\* timeout, and each cyclic reader keeps reading.  Nothing is promised of the
\* server, the provider or the supervisor.
FairSpec ==
    /\ Spec
    /\ WF_vars(TaskStep)
    /\ \A r \in Readers : WF_vars(ReaderStep(r))

-----------------------------------------------------------------------------
TypeOK ==
    /\ up \in BOOLEAN
    /\ outages \in 0 .. MaxOutages
    /\ version \in 0 .. MaxVersion
    /\ dtOpen \in BOOLEAN
    /\ stop \in BOOLEAN
    /\ shutdown \in BOOLEAN
    /\ remove \in BOOLEAN
    /\ pc \in {"registering", "top", "dialling", "activating", "retryWait", "resolving",
               "subscribing", "running", "closing", "disconnecting", "reconnectWait",
               "returned"}
    /\ after \in {"top", "reconnectWait", "returned"}
    /\ backoff \in 0 .. MaxBackoff \cup {1}
    /\ seen \in 0 .. MaxVersion
    /\ applied \in 0 .. MaxVersion
    /\ session \in {"none", "activating", "open"}
    /\ leaked \in BOOLEAN
    /\ readers \subseteq Readers
    /\ exited \subseteq Readers
    /\ fails \in [Readers -> 0 .. MAX_CONSECUTIVE_READ_FAILURES]

\* A reader never outlives the session it reads from, nor the generation it was
\* started in: whatever runs was called for by the device types in force.
ReadersBelong ==
    /\ readers \cup exited # {} => session = "open"
    /\ readers \cup exited \subseteq Plan[applied]

\* The task holds at most one session, and none once it has returned.
ReturnsClean ==
    pc = "returned" => session = "none" /\ readers = {} /\ exited = {}

\* No published device type set is lost between reading one and waiting for the
\* next: a running generation that has nothing unseen was resolved from the
\* latest set.
NothingMissed == pc = "running" /\ seen = version => applied = version

\* The task ends only because it was told to: an outage, a failed resolve or a
\* reader that gives up never ends it.  This is what Supervisor takes a server
\* task to be.
ReturnsOnlyWhenTold == pc = "returned" => stop \/ remove

\* main.rs has each server task own its OPC UA session: however often a task
\* connects and closes, it never goes on without a hold on every event loop it
\* spawned.  The one it can lose is the one being activated when it is told to
\* end, and with that it returns.
OwnsItsSession == leaked => pc = "returned"

\* Told to end, the task ends, wherever it is and whether or not the server
\* answers.
EndsWhenTold == (stop \/ remove) ~> (pc = "returned")

\* The server stays reachable from some time on.
StaysUp == <>[]up

\* A reader that gave up leads to a new session: the one it read from is closed,
\* whatever its other readers do, and where no session is left another one is
\* opened when the server stays reachable, unless the task is told to end.
FaultsAreRepaired ==
    /\ exited # {} ~> session = "none"
    /\ StaysUp => (session = "none" ~> session = "open" \/ stop \/ remove)

\* What an outage leaves behind: once no more device types are
\* published, the generation in force is resolved from the last ones, and the
\* task collects with every cyclic reader they call for or, after a failed
\* resolve, with none; it is never left with some of them.
CollectsAllOrWaits ==
    StaysUp =>
        <>[](\/ /\ applied = version
                /\ \/ Plan[version] \ {SubReader} \subseteq readers
                   \/ pc = "running" /\ readers = {} /\ exited = {}
             \/ stop \/ remove)

-----------------------------------------------------------------------------
(* The inductive invariant, in parts.                                      *)

\* What exists of the session at each point of the loop.
SessionByPlace ==
    /\ pc \in {"registering", "top", "dialling", "retryWait", "reconnectWait", "returned"}
            => session = "none"
    /\ pc = "activating" => session = "activating"
    /\ pc \in {"resolving", "subscribing", "running", "closing", "disconnecting"}
            => session = "open"

\* Readers exist only between being spawned and being shut down, and none reads
\* on after its last tolerated failure.
ReadersByPlace ==
    /\ readers \cup exited # {} => pc \in {"running", "closing"}
    /\ readers \cup exited \subseteq Plan[applied]
    /\ \A r \in readers : fails[r] < MAX_CONSECUTIVE_READ_FAILURES

\* A generation is resolved from the set last marked as seen.
AppliedIsSeen == pc \in {"resolving", "subscribing", "running"} => applied = seen

\* On the way out because told to; the provider ends only with the process.
OnlyWhenTold ==
    /\ pc = "returned" \/ (pc \in {"closing", "disconnecting"} /\ after = "returned")
            => stop \/ remove
    /\ ~dtOpen => shutdown
    /\ shutdown => stop

IInv ==
    /\ TypeOK
    /\ SessionByPlace
    /\ ReadersByPlace
    /\ AppliedIsSeen
    /\ OnlyWhenTold

=============================================================================
