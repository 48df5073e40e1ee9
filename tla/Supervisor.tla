----------------------------- MODULE Supervisor -----------------------------
(***************************************************************************)
(* crates/gateway/src/supervisor.rs: one server task per configured        *)
(* server, started and stopped as the server set changes.                  *)
(*                                                                         *)
(* The supervisor is one async task.  It reads the latest server set from  *)
(* a watch channel, works out the difference with what runs, retires tasks *)
(* one at a time (cancel a token, await the join handle), starts the       *)
(* missing ones, and waits for the next set.  Around it run the cloud      *)
(* server provider, which may replace the set at any moment, the server    *)
(* tasks, which end some time after one of their tokens is cancelled, and  *)
(* the process-wide cancellation.                                          *)
(*                                                                         *)
(* A server's settings are a value of Configs: the code only ever compares *)
(* them for equality.  A server task is the single bit `live` here; module *)
(* ServerTask is its detail.                                               *)
(***************************************************************************)
EXTENDS Maps

CONSTANTS
    Ids,            \* server ids, those of the device and those of the cloud
    Configs,        \* settings a server may have
    Local,          \* config.servers: what the device configures, id -> settings
    Handles,        \* identities of spawned server tasks, reused once joined
    None,           \* no handle
    MaxPublishes    \* bound on the server sets the provider publishes

ASSUME LocalAssumption == IsMap(Local, Ids, Configs)

ASSUME NoneAssumption == None \notin Handles

ASSUME PublishAssumption == MaxPublishes \in Nat

VARIABLES
    cloud,          \* the watch channel's value: id -> settings
    unseen,         \* a value the supervisor has not marked as seen
    open,           \* the provider still holds the sender
    publishes,      \* server sets published so far
    cancelled,      \* the process-wide cancellation token
    pc,             \* where the supervisor is
    desired,        \* the set this round reconciles to: id -> settings
    toRemove,       \* ids of this round's `removed` still to retire
    toRestart,      \* ids of this round's `restarted` still to retire
    joinee,         \* the task whose handle is being awaited, or None
    running,        \* the supervisor's map: id -> handle
    task            \* spawned and not yet joined: handle -> Running

env == <<cloud, unseen, open, publishes, cancelled>>
round == <<desired, toRemove, toRestart>>
vars == <<cloud, unseen, open, publishes, cancelled, pc, desired, toRemove,
          toRestart, joinee, running, task>>

\* struct Running, the arguments of the spawn, and whether the task has returned.
Running == [id : Ids, cfg : Configs,
            stop : BOOLEAN, remove : BOOLEAN, live : BOOLEAN]

\* Mistake: the first argument wins.
merge_servers_FirstWins(inline, pushed) ==
    [id \in DOMAIN inline \cup DOMAIN pushed |->
        IF id \in DOMAIN inline THEN inline[id] ELSE pushed[id]]

\* config.rs: a server of `pushed` replaces the one of `inline` with its id.
merge_servers(inline, pushed) ==
    [id \in DOMAIN inline \cup DOMAIN pushed |->
        IF id \in DOMAIN pushed THEN pushed[id] ELSE inline[id]]

Init ==
    /\ cloud = EmptyMap
    /\ unseen = FALSE
    /\ open = TRUE
    /\ publishes = 0
    /\ cancelled = FALSE
    /\ pc = "deciding"
    /\ desired = EmptyMap
    /\ toRemove = {}
    /\ toRestart = {}
    /\ joinee = None
    /\ running = EmptyMap
    /\ task = EmptyMap

-----------------------------------------------------------------------------
(* One round of the loop: borrow_and_update, then reconcile.               *)

\* reconcile's `removed`: running, and no longer wanted.
Removed(wanted) == DOMAIN running \ DOMAIN wanted

\* Mistake: servers are compared by id only.
Restarted_IdsOnly(wanted) == {}

\* reconcile's `restarted`: wanted with settings other than the running ones.
Restarted(wanted) ==
    {id \in DOMAIN running \cap DOMAIN wanted :
        task[running[id]].cfg # wanted[id]}

\* The latest set is read, marked as seen and compared in one go: there is no
\* await before the first join.
Decide ==
    /\ pc = "deciding"
    /\ LET wanted == merge_servers(cloud, Local) IN
        /\ desired' = wanted
        /\ toRemove' = Removed(wanted)
        /\ toRestart' = Restarted(wanted)
    /\ unseen' = FALSE
    /\ pc' = "reconciling"
    /\ UNCHANGED <<cloud, open, publishes, cancelled, joinee, running, task>>

\* running.remove(id), one of its tokens cancelled, then join.
Retire(id, token) ==
    /\ joinee = None
    /\ joinee' = running[id]
    /\ running' = MapRemove(running, id)
    /\ task' = [task EXCEPT ![running[id]] =
                    IF token = "remove" THEN [@ EXCEPT !.remove = TRUE]
                                        ELSE [@ EXCEPT !.stop = TRUE]]

\* HashMap order: any id of `removed` may come next.
RetireRemoved(id) ==
    /\ pc = "reconciling"
    /\ id \in toRemove
    /\ Retire(id, "remove")
    /\ toRemove' = toRemove \ {id}
    /\ UNCHANGED <<env, pc, desired, toRestart>>

\* Mistake: a restart cancels the token that means removal.
RetireRestarted_AsRemoval(id) ==
    /\ pc = "reconciling"
    /\ toRemove = {}
    /\ id \in toRestart
    /\ Retire(id, "remove")
    /\ toRestart' = toRestart \ {id}
    /\ UNCHANGED <<env, pc, desired, toRemove>>

RetireRestarted(id) ==
    /\ pc = "reconciling"
    /\ toRemove = {}
    /\ id \in toRestart
    /\ Retire(id, "stop")
    /\ toRestart' = toRestart \ {id}
    /\ UNCHANGED <<env, pc, desired, toRemove>>

\* join returns once the task has, and the Running is dropped.
Joined ==
    /\ joinee # None
    /\ ~task[joinee].live
    /\ joinee' = None
    /\ task' = MapRemove(task, joinee)
    /\ UNCHANGED <<env, pc, round, running>>

\* Mistake: the last join is not awaited before servers are started.
AllRetired_NoJoin == toRemove = {} /\ toRestart = {}

AllRetired == joinee = None /\ toRemove = {} /\ toRestart = {}

\* Mistake: no contains_key before the spawn.
StartServer_Again(id) ==
    /\ pc = "reconciling"
    /\ AllRetired
    /\ id \in DOMAIN desired
    /\ \E h \in Handles \ DOMAIN task :
        /\ running' = MapInsert(running, id, h)
        /\ task' = MapInsert(task, h,
                [id |-> id, cfg |-> desired[id],
                 stop |-> FALSE, remove |-> FALSE, live |-> TRUE])
    /\ UNCHANGED <<env, pc, round, joinee>>

\* A desired server that does not run is spawned with a fresh pair of tokens.
\* The ids of this round's set, which it gets too, are left out.  `stop` is a
\* child of the process-wide token: it is cancelled with it, whatever this field says.
StartServer(id) ==
    /\ pc = "reconciling"
    /\ AllRetired
    /\ id \in DOMAIN desired \ DOMAIN running
    /\ \E h \in Handles \ DOMAIN task :
        /\ running' = MapInsert(running, id, h)
        /\ task' = MapInsert(task, h,
                [id |-> id, cfg |-> desired[id],
                 stop |-> FALSE, remove |-> FALSE, live |-> TRUE])
    /\ UNCHANGED <<env, pc, round, joinee>>

\* Mistake: the set is marked as seen after the round, not when it is read.
Reconciled_MarkSeen ==
    /\ pc = "reconciling"
    /\ AllRetired
    /\ DOMAIN desired \subseteq DOMAIN running
    /\ unseen' = FALSE
    /\ pc' = "waiting"
    /\ UNCHANGED <<cloud, open, publishes, cancelled, round, joinee, running, task>>

Reconciled ==
    /\ pc = "reconciling"
    /\ AllRetired
    /\ DOMAIN desired \subseteq DOMAIN running
    /\ pc' = "waiting"
    /\ UNCHANGED <<env, round, joinee, running, task>>

-----------------------------------------------------------------------------
(* The select between rounds.  It is not biased: with both branches ready, *)
(* either may win.                                                         *)

\* changed() is Ok: it marks the value as seen, and the loop reads it again.
Notice ==
    /\ pc = "waiting"
    /\ unseen
    /\ unseen' = FALSE
    /\ pc' = "deciding"
    /\ UNCHANGED <<cloud, open, publishes, cancelled, round, joinee, running, task>>

\* changed() is Err, which it is only when there is no unseen value left.
ProviderGone ==
    /\ pc = "waiting"
    /\ ~open
    /\ ~unseen
    /\ pc' = "orphaned"
    /\ UNCHANGED <<env, round, joinee, running, task>>

Break ==
    /\ pc \in {"waiting", "orphaned"}
    /\ cancelled
    /\ pc' = "draining"
    /\ UNCHANGED <<env, round, joinee, running, task>>

\* The final loop consumes the map, joining one task at a time.
Drain(id) ==
    /\ pc = "draining"
    /\ joinee = None
    /\ id \in DOMAIN running
    /\ joinee' = running[id]
    /\ running' = MapRemove(running, id)
    /\ UNCHANGED <<env, pc, round, task>>

Drained ==
    /\ pc = "draining"
    /\ joinee = None
    /\ DOMAIN running = {}
    /\ pc' = "done"
    /\ UNCHANGED <<env, round, joinee, running, task>>

SupervisorStep ==
    \/ Decide
    \/ \E id \in Ids : RetireRemoved(id) \/ RetireRestarted(id)
    \/ Joined
    \/ \E id \in Ids : StartServer(id)
    \/ Reconciled
    \/ Notice
    \/ ProviderGone
    \/ Break
    \/ \E id \in Ids : Drain(id)
    \/ Drained

-----------------------------------------------------------------------------
(* Everything else that moves.                                             *)

\* A server task returns only after one of its tokens, or the process-wide
\* one that `stop` descends from, has been cancelled.
TaskEnds(h) ==
    /\ h \in DOMAIN task
    /\ task[h].live
    /\ task[h].stop \/ task[h].remove \/ cancelled
    /\ task' = [task EXCEPT ![h].live = FALSE]
    /\ UNCHANGED <<env, pc, round, joinee, running>>

\* cloud_servers.rs: the provider replaces the set.  It may do so while the
\* process is stopping, when it was in a poll as the token was cancelled.
Publish(servers) ==
    /\ open
    /\ publishes < MaxPublishes
    /\ publishes' = publishes + 1
    /\ cloud' = servers
    /\ unseen' = TRUE
    /\ UNCHANGED <<open, cancelled, pc, round, joinee, running, task>>

\* The provider returns, and its sender is dropped, only on cancellation.
ProviderEnds ==
    /\ open
    /\ cancelled
    /\ open' = FALSE
    /\ UNCHANGED <<cloud, unseen, publishes, cancelled, pc, round, joinee, running, task>>

\* main.rs: a signal arrived.
Cancel ==
    /\ ~cancelled
    /\ cancelled' = TRUE
    /\ UNCHANGED <<cloud, unseen, open, publishes, pc, round, joinee, running, task>>

Environment ==
    \/ \E servers \in MapsOf(Ids, Configs) : Publish(servers)
    \/ ProviderEnds
    \/ Cancel

Next ==
    \/ SupervisorStep
    \/ \E h \in Handles : TaskEnds(h)
    \/ Environment

Spec == Init /\ [][Next]_vars

\* The runtime polls a task that is ready, and a server task that has been
\* told to end does end.  Nothing is assumed of the provider or the signal.
Fairness ==
    /\ WF_vars(SupervisorStep)
    /\ \A h \in Handles : WF_vars(TaskEnds(h))

FairSpec == Spec /\ Fairness

-----------------------------------------------------------------------------
TypeOK ==
    /\ IsMap(cloud, Ids, Configs)
    /\ unseen \in BOOLEAN
    /\ open \in BOOLEAN
    /\ publishes \in 0 .. MaxPublishes
    /\ cancelled \in BOOLEAN
    /\ pc \in {"deciding", "reconciling", "waiting", "orphaned", "draining", "done"}
    /\ IsMap(desired, Ids, Configs)
    /\ toRemove \subseteq Ids
    /\ toRestart \subseteq Ids
    /\ joinee \in Handles \cup {None}
    /\ IsMap(running, Ids, Handles)
    /\ IsMap(task, Handles, Running)

\* A server never has two tasks at once, not even for a moment while it is
\* restarted with new settings or while the process drains: the old task is
\* joined before the new one is spawned.  Two would be two OPC UA sessions and
\* two publishers on the same topics.
OneTaskPerServer ==
    \A h, k \in DOMAIN task :
        task[h].live /\ task[k].live /\ task[h].id = task[k].id => h = k

\* When the supervisor waits and has seen everything published, exactly the
\* merged set runs, each server with the settings it has now, and no token of
\* any of them has been cancelled.
Settled ==
    LET wanted == merge_servers(cloud, Local) IN
        /\ DOMAIN running = DOMAIN wanted
        /\ \A id \in DOMAIN wanted :
            LET t == task[running[id]] IN
                t.live /\ t.id = id /\ t.cfg = wanted[id] /\ ~t.stop /\ ~t.remove

SettledWhenIdle == pc = "waiting" /\ ~unseen /\ ~cancelled => Settled

\* "Servers configured on the device win": whatever the cloud publishes under
\* the same id, such a server runs with the device's settings and is neither
\* removed nor restarted while the process runs.
DeviceWins ==
    \A h \in DOMAIN task :
        task[h].id \in DOMAIN Local =>
            /\ task[h].cfg = Local[task[h].id]
            /\ ~task[h].stop
            /\ ~task[h].remove
            /\ task[h].live \/ cancelled

\* A task is told to remove itself only when the set being reconciled lacks its
\* server, and to stop only when the set has it with other settings: a change
\* to one server never disturbs another, and a restart never counts as removal.
RetiredForCause ==
    \A h \in DOMAIN task : LET t == task[h] IN
        /\ t.remove => t.id \notin DOMAIN desired
        /\ t.stop => t.id \in DOMAIN desired /\ desired[t.id] # t.cfg

\* When the supervisor returns, no server task is left behind: main.rs takes
\* its return to mean the sessions are closed.
DoneLeavesNothing == pc = "done" => DOMAIN task = {}

-----------------------------------------------------------------------------
(* The inductive invariant, in parts.                                      *)

\* A map entry names the task of its own server, with no token cancelled.
RunningOwned ==
    \A id \in DOMAIN running :
        /\ running[id] \in DOMAIN task
        /\ task[running[id]].id = id
        /\ ~task[running[id]].stop
        /\ ~task[running[id]].remove
        /\ task[running[id]].live \/ cancelled

\* The task being joined has left the map and nothing has taken its place.
JoineeOwned ==
    joinee # None =>
        /\ pc \in {"reconciling", "draining"}
        /\ joinee \in DOMAIN task
        /\ task[joinee].id \notin DOMAIN running

\* Every task is in the map or being joined.
TaskHeld ==
    \A h \in DOMAIN task :
        \/ joinee = h
        \/ task[h].id \in DOMAIN running /\ running[task[h].id] = h

\* What the running tasks have to do with the set being reconciled, and what
\* is left to do.
RoundSound ==
    /\ toRemove \subseteq DOMAIN running
    /\ toRestart \subseteq DOMAIN running
    /\ toRemove \cap DOMAIN desired = {}
    /\ toRestart \subseteq DOMAIN desired
    /\ \A id \in toRestart : task[running[id]].cfg # desired[id]
    /\ pc \in {"reconciling", "waiting", "orphaned"} =>
        \A id \in DOMAIN running \ (toRemove \cup toRestart) :
            id \in DOMAIN desired /\ task[running[id]].cfg = desired[id]
    /\ pc # "reconciling" => toRemove = {} /\ toRestart = {}
    /\ pc \in {"waiting", "orphaned"} => DOMAIN desired = DOMAIN running
    /\ pc = "done" => DOMAIN running = {} /\ joinee = None

\* The set being reconciled is a merged one, and the latest when nothing has
\* been published since.
DesiredMerged ==
    pc # "deciding" =>
        /\ \A id \in DOMAIN Local : id \in DOMAIN desired /\ desired[id] = Local[id]
        /\ ~unseen => desired = merge_servers(cloud, Local)

\* Only cancellation ends the loop.
DrainingCancelled == pc \in {"draining", "done"} => cancelled

\* Inductive, and strong enough for every safety property above.
IInv ==
    /\ TypeOK
    /\ RunningOwned
    /\ JoineeOwned
    /\ TaskHeld
    /\ RoundSound
    /\ DesiredMerged
    /\ DrainingCancelled
    /\ RetiredForCause
    /\ DeviceWins

-----------------------------------------------------------------------------
(* The supervisor implements the pool.                                     *)

\* The sessions of the pool are the tasks that have not returned.
Sessions ==
    {[by |-> h, id |-> task[h].id, cfg |-> task[h].cfg] :
        h \in {k \in DOMAIN task : task[k].live}}

Pool == INSTANCE ServerPool WITH
    Tasks <- Handles,
    wanted <- merge_servers(cloud, Local),
    sessions <- Sessions,
    stopping <- cancelled,
    closed <- (pc = "done")

\* Whatever order sets are published, tasks end and the signal arrives in, the
\* supervisor does what ServerPool promises.
ImplementsPool == Pool!Safe

\* And keeps its promises: once the provider publishes no more, the sessions
\* become those of the merged set and stay so; once the process is told to stop,
\* the supervisor returns with every session closed.
KeepsPoolPromises == Pool!Follows /\ Pool!Closes

=============================================================================
