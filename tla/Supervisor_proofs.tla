-------------------------- MODULE Supervisor_proofs --------------------------
(***************************************************************************)
(* The safety of Supervisor for every set of servers, settings and         *)
(* handles, and its refinement of ServerPool, checked by TLAPS.            *)
(***************************************************************************)
EXTENDS Supervisor, TLAPS

-----------------------------------------------------------------------------
(* Maps.                                                                   *)

\* Merging two server sets gives a server set, whose servers are those of
\* either and whose settings are the second one's where it has the server.
LEMMA MergeIsMap ==
    ASSUME NEW a, NEW b, IsMap(a, Ids, Configs), IsMap(b, Ids, Configs)
    PROVE  /\ IsMap(merge_servers(a, b), Ids, Configs)
           /\ DOMAIN merge_servers(a, b) = DOMAIN a \cup DOMAIN b
           /\ \A id \in DOMAIN b : merge_servers(a, b)[id] = b[id]
BY DEF IsMap, merge_servers

\* HashMap::insert keeps the type and changes one key.
LEMMA InsertIsMap ==
    ASSUME NEW K, NEW V, NEW m, IsMap(m, K, V), NEW k \in K, NEW v \in V
    PROVE  /\ IsMap(MapInsert(m, k, v), K, V)
           /\ DOMAIN MapInsert(m, k, v) = DOMAIN m \cup {k}
           /\ MapInsert(m, k, v)[k] = v
           /\ \A x \in DOMAIN m : x # k => MapInsert(m, k, v)[x] = m[x]
BY DEF IsMap, MapInsert

\* The set of all maps is what IsMap describes.
LEMMA MapsOfIsMap ==
    ASSUME NEW K, NEW V, NEW m \in MapsOf(K, V)
    PROVE  IsMap(m, K, V)
<1>1. PICK S \in SUBSET K : m \in [S -> V]
  BY DEF MapsOf
<1> QED BY <1>1 DEF IsMap

LEMMA IsMapMapsOf ==
    ASSUME NEW K, NEW V, NEW m, IsMap(m, K, V)
    PROVE  m \in MapsOf(K, V)
<1>1. DOMAIN m \in SUBSET K /\ m \in [DOMAIN m -> V]
  BY DEF IsMap
<1> QED BY <1>1 DEF MapsOf

\* The empty map has every map type.
LEMMA EmptyIsMap ==
    ASSUME NEW K, NEW V
    PROVE  IsMap(EmptyMap, K, V) /\ DOMAIN EmptyMap = {}
BY DEF IsMap, EmptyMap

-----------------------------------------------------------------------------
(* The inductive invariant: the initial state, then one lemma per action.  *)

\* The supervisor starts with nothing running and nothing to do.
LEMMA InitInv == Init => IInv
<1> SUFFICES ASSUME Init PROVE IInv
  OBVIOUS
<1>1. TypeOK
  <2>1. IsMap(EmptyMap, Ids, Configs) /\ IsMap(EmptyMap, Ids, Handles)
    BY EmptyIsMap
  <2>2. IsMap(EmptyMap, Handles, Running)
    BY EmptyIsMap
  <2>3. IsMap(cloud, Ids, Configs) /\ IsMap(desired, Ids, Configs)
        /\ IsMap(running, Ids, Handles) /\ IsMap(task, Handles, Running)
    BY <2>1, <2>2 DEF Init
  <2>4. publishes \in 0 .. MaxPublishes
    BY PublishAssumption DEF Init
  <2> QED
    BY <2>3, <2>4 DEF Init, TypeOK
<1>2. DOMAIN running = {} /\ DOMAIN task = {}
  BY EmptyIsMap DEF Init
<1> QED
  BY <1>1, <1>2 DEF IInv, Init, RunningOwned, JoineeOwned, TaskHeld, RoundSound,
                    DesiredMerged, DrainingCancelled, RetiredForCause, DeviceWins

\* Starting a round fixes what is to be retired, and why.
LEMMA DecideInv == IInv /\ Decide => IInv'
<1> SUFFICES ASSUME IInv, Decide PROVE IInv'
  OBVIOUS
<1> DEFINE wanted == merge_servers(cloud, Local)
<1>1. /\ IsMap(wanted, Ids, Configs)
      /\ \A id \in DOMAIN Local : id \in DOMAIN wanted /\ wanted[id] = Local[id]
  BY MergeIsMap, LocalAssumption DEF IInv, TypeOK
<1>2. /\ desired' = wanted
      /\ toRemove' = Removed(wanted)
      /\ toRestart' = Restarted(wanted)
      /\ unseen' = FALSE
      /\ pc = "deciding"
      /\ pc' = "reconciling"
      /\ UNCHANGED <<cloud, open, publishes, cancelled, joinee, running, task>>
  BY DEF Decide
<1> HIDE DEF wanted
<1>3. joinee = None
  BY <1>2 DEF IInv, JoineeOwned
<1>4. TypeOK'
  BY <1>1, <1>2 DEF IInv, TypeOK, Removed, Restarted, IsMap
<1>5. RunningOwned' /\ TaskHeld' /\ JoineeOwned' /\ DeviceWins'
  BY <1>2, <1>3 DEF IInv, RunningOwned, TaskHeld, JoineeOwned, DeviceWins
<1>6. RoundSound'
  BY <1>2 DEF IInv, RoundSound, Removed, Restarted
<1>7. DesiredMerged' /\ DrainingCancelled'
  BY <1>1, <1>2 DEF DesiredMerged, DrainingCancelled, wanted
<1>8. RetiredForCause'
  <2>1. \A h \in DOMAIN task : ~task[h].stop /\ ~task[h].remove
    BY <1>3, NoneAssumption DEF IInv, TaskHeld, RunningOwned, TypeOK, IsMap
  <2> QED
    BY <1>2, <2>1 DEF RetiredForCause
<1> QED
  BY <1>4, <1>5, <1>6, <1>7, <1>8 DEF IInv

\* Taking an entry out of the map to join it.  Nothing but the entry, the
\* joinee and one token of its task changes.
LEMMA RetireInv ==
    ASSUME IInv, NEW id \in Ids, RetireRemoved(id) \/ RetireRestarted(id)
    PROVE  IInv'
<1> DEFINE h == running[id]
<1>1. /\ pc = "reconciling"
      /\ joinee = None
      /\ id \in toRemove \cup toRestart
      /\ id \in toRestart => toRemove = {}
      /\ UNCHANGED <<env, pc, desired>>
  <2>1. toRemove \cap toRestart = {}
    BY DEF IInv, RoundSound
  <2> QED
    BY <2>1 DEF RetireRemoved, RetireRestarted, Retire
<1>2. /\ id \in DOMAIN running
      /\ h \in DOMAIN task
      /\ task[h].id = id
      /\ h \in Handles
      /\ h # None
  BY <1>1, NoneAssumption DEF IInv, RoundSound, RunningOwned, TypeOK, IsMap
<1>3. /\ joinee' = h
      /\ IsMap(running', Ids, Handles)
      /\ DOMAIN running' = DOMAIN running \ {id}
      /\ \A x \in DOMAIN running \ {id} : running'[x] = running[x]
  <2>1. joinee' = h /\ running' = MapRemove(running, id)
    BY DEF RetireRemoved, RetireRestarted, Retire
  <2>2. IsMap(running, Ids, Handles)
    BY DEF IInv, TypeOK
  <2>3. /\ IsMap(MapRemove(running, id), Ids, Handles)
        /\ DOMAIN MapRemove(running, id) = DOMAIN running \ {id}
        /\ \A x \in DOMAIN running : x # id => MapRemove(running, id)[x] = running[x]
    BY <2>2 DEF IsMap, MapRemove
  <2> QED
    BY <2>1, <2>3
<1>4. /\ DOMAIN task' = DOMAIN task
      /\ IsMap(task', Handles, Running)
      /\ \A k \in DOMAIN task : k # h => task'[k] = task[k]
      /\ task'[h].id = task[h].id
      /\ task'[h].cfg = task[h].cfg
      /\ task'[h].live = task[h].live
      /\ task'[h].remove => id \in toRemove
      /\ task'[h].stop => id \in toRestart
  <2>1. IsMap(task, Handles, Running) /\ task[h] \in Running
    BY <1>2 DEF IInv, TypeOK, IsMap
  <2>2. ~task[h].stop /\ ~task[h].remove
    BY <1>2 DEF IInv, RunningOwned
  <2>3. CASE RetireRemoved(id)
    <3>1. task' = [task EXCEPT ![h] = [@ EXCEPT !.remove = TRUE]] /\ id \in toRemove
      BY <2>3 DEF RetireRemoved, Retire
    <3> QED
      BY <1>2, <2>1, <2>2, <3>1 DEF IsMap, Running
  <2>4. CASE RetireRestarted(id)
    <3>1. task' = [task EXCEPT ![h] = [@ EXCEPT !.stop = TRUE]] /\ id \in toRestart
      BY <2>4 DEF RetireRestarted, Retire
    <3> QED
      BY <1>2, <2>1, <2>2, <3>1 DEF IsMap, Running
  <2> QED
    BY <2>3, <2>4
<1>5. toRemove' \cup toRestart' = (toRemove \cup toRestart) \ {id}
      /\ toRemove' \subseteq toRemove /\ toRestart' \subseteq toRestart
  <2>1. toRemove \cap toRestart = {}
    BY DEF IInv, RoundSound
  <2> QED
    BY <2>1 DEF RetireRemoved, RetireRestarted
<1> HIDE DEF h
<1>6. TypeOK'
  BY <1>1, <1>2, <1>3, <1>4, <1>5 DEF IInv, TypeOK, env
<1>7. \A x \in DOMAIN running' :
        /\ running'[x] = running[x]
        /\ running[x] # h
        /\ task'[running[x]] = task[running[x]]
  BY <1>2, <1>3, <1>4 DEF IInv, RunningOwned
<1>8. RunningOwned'
  BY <1>1, <1>3, <1>4, <1>7 DEF IInv, RunningOwned, env
<1>9. JoineeOwned'
  BY <1>1, <1>2, <1>3, <1>4 DEF JoineeOwned
<1>10. TaskHeld'
  <2> SUFFICES ASSUME NEW k \in DOMAIN task, k # h
               PROVE  task'[k].id \in DOMAIN running' /\ running'[task'[k].id] = k
    BY <1>3, <1>4 DEF TaskHeld
  <2>1. task[k].id \in DOMAIN running /\ running[task[k].id] = k
    BY <1>1, NoneAssumption DEF IInv, TaskHeld, TypeOK, IsMap
  <2>2. task[k].id # id
    BY <2>1 DEF h
  <2> QED
    BY <1>3, <1>4, <2>1, <2>2
<1>11. RoundSound'
  BY <1>1, <1>3, <1>4, <1>5, <1>7 DEF IInv, RoundSound
<1>12. DesiredMerged' /\ DrainingCancelled'
  BY <1>1 DEF IInv, DesiredMerged, DrainingCancelled, env
<1>13. (id \in toRemove => id \notin DOMAIN desired)
       /\ (id \in toRestart => id \in DOMAIN desired /\ desired[id] # task[h].cfg)
  BY DEF IInv, RoundSound, h
<1>14. RetiredForCause'
  BY <1>1, <1>2, <1>4, <1>13 DEF IInv, RetiredForCause
<1>15. DeviceWins'
  <2>1. id \notin DOMAIN Local
    BY <1>1, <1>2, <1>13 DEF IInv, DesiredMerged, DeviceWins
  <2> QED
    BY <1>1, <1>2, <1>4, <2>1 DEF IInv, DeviceWins, env
<1> QED
  BY <1>6, <1>8, <1>9, <1>10, <1>11, <1>12, <1>14, <1>15 DEF IInv

\* A join that returns: the task has ended, and is forgotten.
LEMMA JoinedInv == IInv /\ Joined => IInv'
<1> SUFFICES ASSUME IInv, Joined PROVE IInv'
  OBVIOUS
<1>1. /\ joinee # None
      /\ joinee' = None
      /\ task' = MapRemove(task, joinee)
      /\ UNCHANGED <<env, pc, round, running>>
  BY DEF Joined
<1>2. /\ IsMap(task', Handles, Running)
      /\ DOMAIN task' = DOMAIN task \ {joinee}
      /\ \A k \in DOMAIN task \ {joinee} : task'[k] = task[k]
  <2>1. IsMap(task, Handles, Running) /\ joinee \in Handles
    BY <1>1 DEF IInv, TypeOK
  <2>2. /\ IsMap(MapRemove(task, joinee), Handles, Running)
        /\ DOMAIN MapRemove(task, joinee) = DOMAIN task \ {joinee}
        /\ \A k \in DOMAIN task : k # joinee => MapRemove(task, joinee)[k] = task[k]
    BY <2>1 DEF IsMap, MapRemove
  <2> QED
    BY <1>1, <2>2
<1>3. TypeOK'
  BY <1>1, <1>2 DEF IInv, TypeOK, env, round
<1>4. \A id \in DOMAIN running : running[id] # joinee
  BY <1>1 DEF IInv, RunningOwned, JoineeOwned
<1>5. RunningOwned'
  BY <1>1, <1>2, <1>4 DEF IInv, RunningOwned, env
<1>6. JoineeOwned'
  BY <1>1 DEF JoineeOwned
<1>7. TaskHeld'
  BY <1>1, <1>2 DEF IInv, TaskHeld
<1>8. RoundSound'
  BY <1>1, <1>2, <1>4 DEF IInv, RoundSound, RunningOwned, round
<1>9. DesiredMerged' /\ DrainingCancelled'
  BY <1>1 DEF IInv, DesiredMerged, DrainingCancelled, env, round
<1>10. RetiredForCause' /\ DeviceWins'
  BY <1>1, <1>2 DEF IInv, RetiredForCause, DeviceWins, env, round
<1> QED
  BY <1>3, <1>5, <1>6, <1>7, <1>8, <1>9, <1>10 DEF IInv

\* A new task enters the map with fresh tokens and the settings of this round.
LEMMA StartServerInv ==
    ASSUME IInv, NEW id \in Ids, StartServer(id)
    PROVE  IInv'
<1> DEFINE started == [id |-> id, cfg |-> desired[id],
                       stop |-> FALSE, remove |-> FALSE, live |-> TRUE]
<1>1. /\ pc = "reconciling"
      /\ joinee = None
      /\ toRemove = {}
      /\ toRestart = {}
      /\ id \in DOMAIN desired
      /\ id \notin DOMAIN running
      /\ UNCHANGED <<env, pc, round, joinee>>
  BY DEF StartServer, AllRetired
<1>2. PICK h \in Handles \ DOMAIN task :
        /\ running' = MapInsert(running, id, h)
        /\ task' = MapInsert(task, h, started)
  BY DEF StartServer
<1>3. started \in Running
  BY <1>1 DEF IInv, TypeOK, IsMap, Running
<1>4. /\ started.id = id
      /\ started.cfg = desired[id]
      /\ ~started.stop
      /\ ~started.remove
      /\ started.live
  OBVIOUS
<1> HIDE DEF started
<1>5. /\ IsMap(running', Ids, Handles)
      /\ DOMAIN running' = DOMAIN running \cup {id}
      /\ running'[id] = h
      /\ \A x \in DOMAIN running : running'[x] = running[x]
  <2>1. IsMap(running, Ids, Handles)
    BY DEF IInv, TypeOK
  <2>2. /\ IsMap(MapInsert(running, id, h), Ids, Handles)
        /\ DOMAIN MapInsert(running, id, h) = DOMAIN running \cup {id}
        /\ MapInsert(running, id, h)[id] = h
        /\ \A x \in DOMAIN running : x # id => MapInsert(running, id, h)[x] = running[x]
    BY <2>1, InsertIsMap
  <2> QED
    BY <1>1, <1>2, <2>2
<1>6. /\ IsMap(task', Handles, Running)
      /\ DOMAIN task' = DOMAIN task \cup {h}
      /\ task'[h] = started
      /\ \A k \in DOMAIN task : task'[k] = task[k]
  <2>1. IsMap(task, Handles, Running)
    BY DEF IInv, TypeOK
  <2>2. /\ IsMap(MapInsert(task, h, started), Handles, Running)
        /\ DOMAIN MapInsert(task, h, started) = DOMAIN task \cup {h}
        /\ MapInsert(task, h, started)[h] = started
        /\ \A k \in DOMAIN task : k # h => MapInsert(task, h, started)[k] = task[k]
    BY <1>3, <2>1, InsertIsMap
  <2> QED
    BY <1>2, <2>2
<1>7. TypeOK'
  BY <1>1, <1>5, <1>6 DEF IInv, TypeOK, env, round
<1>8. RunningOwned'
  BY <1>1, <1>4, <1>5, <1>6 DEF IInv, RunningOwned, env
<1>9. JoineeOwned'
  BY <1>1 DEF JoineeOwned
<1>10. TaskHeld'
  BY <1>1, <1>4, <1>5, <1>6, NoneAssumption DEF IInv, TaskHeld, TypeOK, IsMap
<1>11. RoundSound'
  BY <1>1, <1>4, <1>5, <1>6 DEF IInv, RoundSound, RunningOwned, round
<1>12. DesiredMerged' /\ DrainingCancelled'
  BY <1>1 DEF IInv, DesiredMerged, DrainingCancelled, env, round
<1>13. RetiredForCause'
  BY <1>1, <1>4, <1>6 DEF IInv, RetiredForCause, round
<1>14. DeviceWins'
  BY <1>1, <1>4, <1>6 DEF IInv, DeviceWins, DesiredMerged, env
<1> QED
  BY <1>7, <1>8, <1>9, <1>10, <1>11, <1>12, <1>13, <1>14 DEF IInv

\* The final loop takes an entry out of the map to join it; no token is touched.
LEMMA DrainInv ==
    ASSUME IInv, NEW id \in Ids, Drain(id)
    PROVE  IInv'
<1> DEFINE h == running[id]
<1>1. /\ pc = "draining"
      /\ joinee = None
      /\ joinee' = h
      /\ id \in DOMAIN running
      /\ running' = MapRemove(running, id)
      /\ UNCHANGED <<env, pc, round, task>>
  BY DEF Drain
<1>2. /\ h \in DOMAIN task
      /\ task[h].id = id
      /\ h \in Handles
      /\ h # None
  BY <1>1, NoneAssumption DEF IInv, RunningOwned, TypeOK, IsMap
<1>3. /\ IsMap(running', Ids, Handles)
      /\ DOMAIN running' = DOMAIN running \ {id}
      /\ \A x \in DOMAIN running : x # id => running'[x] = running[x]
  BY <1>1 DEF IInv, TypeOK, IsMap, MapRemove
<1>4. TypeOK'
  BY <1>1, <1>2, <1>3 DEF IInv, TypeOK, env, round
<1>5. RunningOwned'
  BY <1>1, <1>3 DEF IInv, RunningOwned, env
<1>6. JoineeOwned'
  BY <1>1, <1>2, <1>3 DEF JoineeOwned
<1>7. TaskHeld'
  BY <1>1, <1>2, <1>3, NoneAssumption DEF IInv, TaskHeld, TypeOK, IsMap
<1>8. RoundSound'
  BY <1>1, <1>3 DEF IInv, RoundSound, round
<1>9. DesiredMerged' /\ DrainingCancelled'
  BY <1>1 DEF IInv, DesiredMerged, DrainingCancelled, env, round
<1>10. RetiredForCause' /\ DeviceWins'
  BY <1>1 DEF IInv, RetiredForCause, DeviceWins, env, round
<1> QED
  BY <1>4, <1>5, <1>6, <1>7, <1>8, <1>9, <1>10 DEF IInv

\* Steps that only move the supervisor along its loop.
LEMMA LoopInv ==
    ASSUME IInv, Reconciled \/ Notice \/ ProviderGone \/ Break \/ Drained
    PROVE  IInv'
<1>1. /\ UNCHANGED <<cloud, open, publishes, cancelled, round, joinee, running, task>>
      /\ pc' # "reconciling"
  BY DEF Reconciled, Notice, ProviderGone, Break, Drained, env
<1>2. TypeOK'
  BY <1>1 DEF IInv, TypeOK, Reconciled, Notice, ProviderGone, Break, Drained, env, round
<1>3. RunningOwned' /\ TaskHeld' /\ RetiredForCause' /\ DeviceWins'
  BY <1>1 DEF IInv, RunningOwned, TaskHeld, RetiredForCause, DeviceWins, round
<1>4. joinee = None
  BY DEF IInv, JoineeOwned, Reconciled, Notice, ProviderGone, Break, Drained, AllRetired
<1>5. JoineeOwned'
  BY <1>1, <1>4 DEF JoineeOwned
<1>6. RoundSound'
  BY <1>1, <1>4 DEF IInv, RoundSound, Reconciled, Notice, ProviderGone, Break, Drained,
                    AllRetired, round
<1>7. DesiredMerged' /\ DrainingCancelled'
  BY <1>1 DEF IInv, DesiredMerged, DrainingCancelled, Reconciled, Notice, ProviderGone,
              Break, Drained, env, round
<1> QED
  BY <1>2, <1>3, <1>5, <1>6, <1>7 DEF IInv

\* A task ends only with one of its tokens, or the process's, cancelled.
LEMMA TaskEndsInv ==
    ASSUME IInv, NEW h \in Handles, TaskEnds(h)
    PROVE  IInv'
<1>1. /\ h \in DOMAIN task
      /\ task[h].stop \/ task[h].remove \/ cancelled
      /\ task' = [task EXCEPT ![h].live = FALSE]
      /\ UNCHANGED <<env, pc, round, joinee, running>>
  BY DEF TaskEnds
<1>2. /\ IsMap(task', Handles, Running)
      /\ DOMAIN task' = DOMAIN task
      /\ \A k \in DOMAIN task :
            /\ task'[k].id = task[k].id
            /\ task'[k].cfg = task[k].cfg
            /\ task'[k].stop = task[k].stop
            /\ task'[k].remove = task[k].remove
            /\ k # h => task'[k].live = task[k].live
  BY <1>1 DEF IInv, TypeOK, IsMap, Running
<1>3. TypeOK'
  BY <1>1, <1>2 DEF IInv, TypeOK, env, round
<1>4. RunningOwned'
  BY <1>1, <1>2 DEF IInv, RunningOwned, env
<1>5. JoineeOwned' /\ TaskHeld' /\ RoundSound'
  BY <1>1, <1>2 DEF IInv, JoineeOwned, TaskHeld, RoundSound, RunningOwned, round
<1>6. DesiredMerged' /\ DrainingCancelled'
  BY <1>1 DEF IInv, DesiredMerged, DrainingCancelled, env, round
<1>7. RetiredForCause' /\ DeviceWins'
  BY <1>1, <1>2 DEF IInv, RetiredForCause, DeviceWins, env, round
<1> QED
  BY <1>3, <1>4, <1>5, <1>6, <1>7 DEF IInv

\* The provider and the signal touch none of the supervisor's state.
LEMMA EnvironmentInv == IInv /\ Environment => IInv'
<1> SUFFICES ASSUME IInv, Environment PROVE IInv'
  OBVIOUS
<1>1. /\ UNCHANGED <<pc, round, joinee, running, task>>
      /\ cancelled => cancelled'
      /\ unseen' \/ (unseen' = unseen /\ cloud' = cloud)
  BY DEF Environment, Publish, ProviderEnds, Cancel
<1>2. TypeOK'
  <2>1. CASE \E servers \in MapsOf(Ids, Configs) : Publish(servers)
    <3>1. PICK servers \in MapsOf(Ids, Configs) : Publish(servers)
      BY <2>1
    <3>2. IsMap(servers, Ids, Configs)
      BY MapsOfIsMap
    <3> QED
      BY <3>1, <3>2, PublishAssumption DEF IInv, TypeOK, Publish, round
  <2>2. CASE ProviderEnds \/ Cancel
    BY <2>2 DEF IInv, TypeOK, ProviderEnds, Cancel, round
  <2> QED
    BY <2>1, <2>2 DEF Environment
<1>3. RunningOwned' /\ DeviceWins'
  BY <1>1 DEF IInv, RunningOwned, DeviceWins
<1>4. JoineeOwned' /\ TaskHeld' /\ RoundSound' /\ RetiredForCause'
  BY <1>1 DEF IInv, JoineeOwned, TaskHeld, RoundSound, RetiredForCause, round
<1>5. DesiredMerged' /\ DrainingCancelled'
  BY <1>1 DEF IInv, DesiredMerged, DrainingCancelled, round
<1> QED
  BY <1>2, <1>3, <1>4, <1>5 DEF IInv

-----------------------------------------------------------------------------
(* The theorems.                                                           *)

\* A step of anything keeps the invariant.
LEMMA NextInv == IInv /\ [Next]_vars => IInv'
<1> SUFFICES ASSUME IInv, [Next]_vars PROVE IInv'
  OBVIOUS
<1>1. CASE SupervisorStep
  <2>1. CASE \E id \in Ids : RetireRemoved(id) \/ RetireRestarted(id)
    BY <2>1, RetireInv
  <2>2. CASE \E id \in Ids : StartServer(id)
    BY <2>2, StartServerInv
  <2>3. CASE \E id \in Ids : Drain(id)
    BY <2>3, DrainInv
  <2>4. CASE Decide
    BY <2>4, DecideInv
  <2>5. CASE Joined
    BY <2>5, JoinedInv
  <2>6. CASE Reconciled \/ Notice \/ ProviderGone \/ Break \/ Drained
    BY <2>6, LoopInv
  <2> QED
    BY <1>1, <2>1, <2>2, <2>3, <2>4, <2>5, <2>6 DEF SupervisorStep
<1>2. CASE \E h \in Handles : TaskEnds(h)
  BY <1>2, TaskEndsInv
<1>3. CASE Environment
  BY <1>3, EnvironmentInv
<1>4. CASE UNCHANGED vars
  BY <1>4 DEF vars, IInv, TypeOK, RunningOwned, JoineeOwned, TaskHeld, RoundSound,
              DesiredMerged, DrainingCancelled, RetiredForCause, DeviceWins
<1> QED
  BY <1>1, <1>2, <1>3, <1>4 DEF Next

\* The supervisor's bookkeeping is sound in every reachable state, for every
\* set of servers, settings and handles and every sequence of published sets.
THEOREM Inductive == Spec => []IInv
BY InitInv, NextInv, PTL DEF Spec

\* Every variable keeps its type.
THEOREM TypeCorrect == Spec => []TypeOK
<1>1. IInv => TypeOK
  BY DEF IInv
<1> QED
  BY <1>1, Inductive, PTL

\* No server ever has two tasks.
LEMMA OneTask == IInv => OneTaskPerServer
<1> SUFFICES ASSUME IInv,
                    NEW h \in DOMAIN task, NEW k \in DOMAIN task,
                    task[h].id = task[k].id, h # k
             PROVE  FALSE
  BY DEF OneTaskPerServer
<1>1. CASE joinee = h
  <2>1. task[k].id \in DOMAIN running
    BY <1>1 DEF IInv, TaskHeld
  <2> QED
    BY <1>1, <2>1, NoneAssumption DEF IInv, JoineeOwned, TypeOK, IsMap
<1>2. CASE joinee = k
  <2>1. task[h].id \in DOMAIN running
    BY <1>2 DEF IInv, TaskHeld
  <2> QED
    BY <1>2, <2>1, NoneAssumption DEF IInv, JoineeOwned, TypeOK, IsMap
<1> QED
  BY <1>1, <1>2 DEF IInv, TaskHeld

\* The join before the spawn keeps a server from ever having two tasks at once.
THEOREM NeverTwoTasks == Spec => []OneTaskPerServer
BY Inductive, OneTask, PTL

\* An idle, uncancelled supervisor that has seen everything published runs
\* exactly the merged server set.
LEMMA SettledLemma == IInv => SettledWhenIdle
<1> SUFFICES ASSUME IInv, pc = "waiting", ~unseen, ~cancelled
             PROVE  Settled
  BY DEF SettledWhenIdle
<1>1. /\ desired = merge_servers(cloud, Local)
      /\ DOMAIN desired = DOMAIN running
      /\ toRemove = {}
      /\ toRestart = {}
  BY DEF IInv, DesiredMerged, RoundSound
<1> QED
  BY <1>1 DEF IInv, RoundSound, RunningOwned, Settled

THEOREM IdleMeansSettled == Spec => []SettledWhenIdle
BY Inductive, SettledLemma, PTL

\* A device-configured server is never removed, restarted or run with the
\* settings the cloud has for it.
THEOREM DeviceAlwaysWins == Spec => []DeviceWins
<1>1. IInv => DeviceWins
  BY DEF IInv
<1> QED
  BY <1>1, Inductive, PTL

\* Only a server that left the set is removed, and only one whose settings
\* changed is restarted.
THEOREM RetirementHasCause == Spec => []RetiredForCause
<1>1. IInv => RetiredForCause
  BY DEF IInv
<1> QED
  BY <1>1, Inductive, PTL

\* The supervisor returns only once every server task has.
THEOREM DoneIsEmpty == Spec => []DoneLeavesNothing
<1>1. IInv => DoneLeavesNothing
  BY NoneAssumption DEF IInv, RoundSound, TaskHeld, DoneLeavesNothing, TypeOK, IsMap
<1> QED
  BY <1>1, Inductive, PTL

-----------------------------------------------------------------------------
(* Refinement of ServerPool.                                               *)

\* The session a task is, while it is live.
SessionOf(h) == [by |-> h, id |-> task[h].id, cfg |-> task[h].cfg]

\* A set of sessions read off the tasks.
LEMMA SessionsAreSessions ==
    ASSUME IInv
    PROVE  /\ Sessions \subseteq Pool!Session
           /\ \A s \in Sessions : /\ s.by \in DOMAIN task
                                 /\ task[s.by].live
                                 /\ s = SessionOf(s.by)
BY DEF IInv, TypeOK, IsMap, Running, Sessions, SessionOf, Pool!Session

\* Tasks that keep their server, settings and liveness keep the sessions.
LEMMA SameSessions ==
    ASSUME \A h \in DOMAIN task \cup DOMAIN task' :
              LET was == h \in DOMAIN task /\ task[h].live
                  is == h \in DOMAIN task' /\ task'[h].live
              IN  /\ was <=> is
                  /\ was => task'[h].id = task[h].id /\ task'[h].cfg = task[h].cfg
    PROVE  Sessions' = Sessions
BY DEF Sessions

\* With nothing published, the wanted set is what the device configures.
LEMMA PoolInit == Init => Pool!Init
<1> SUFFICES ASSUME Init PROVE Pool!Init
  OBVIOUS
<1>1. merge_servers(cloud, Local) = Local
  <2>1. DOMAIN cloud = {} /\ Local \in [DOMAIN Local -> Configs]
    BY LocalAssumption DEF Init, EmptyMap, IsMap
  <2>2. merge_servers(cloud, Local) = [id \in DOMAIN Local |-> Local[id]]
    BY <2>1 DEF merge_servers
  <2> QED
    BY <2>1, <2>2
<1>2. Sessions = {}
  BY EmptyIsMap DEF Init, Sessions
<1> QED
  BY <1>1, <1>2 DEF Init, Pool!Init

\* The supervisor's own steps open a session, close the pool, or leave it be.
LEMMA PoolSupervisorStep ==
    ASSUME IInv, IInv', SupervisorStep
    PROVE  Pool!Next \/ UNCHANGED Pool!vars
<1>1. UNCHANGED <<merge_servers(cloud, Local), cancelled>>
  BY DEF SupervisorStep, Decide, RetireRemoved, RetireRestarted, Joined, StartServer,
         Reconciled, Notice, ProviderGone, Break, Drain, Drained, env
<1>2. CASE \E id \in Ids : RetireRemoved(id) \/ RetireRestarted(id)
  <2>1. PICK id \in Ids : RetireRemoved(id) \/ RetireRestarted(id)
    BY <1>2
  <2>2. /\ DOMAIN task' = DOMAIN task
        /\ \A h \in DOMAIN task : /\ task'[h].id = task[h].id
                                  /\ task'[h].cfg = task[h].cfg
                                  /\ task'[h].live = task[h].live
    BY <2>1 DEF RetireRemoved, RetireRestarted, Retire, IInv, TypeOK, IsMap, Running
  <2>3. Sessions' = Sessions
    BY <2>2, SameSessions
  <2> QED
    BY <1>1, <2>1, <2>3 DEF Pool!vars, RetireRemoved, RetireRestarted
<1>3. CASE Joined
  <2>1. /\ DOMAIN task' = DOMAIN task \ {joinee}
        /\ \A h \in DOMAIN task : h # joinee => task'[h] = task[h]
        /\ ~task[joinee].live
    BY <1>3 DEF Joined, IInv, TypeOK, IsMap, MapRemove
  <2>2. Sessions' = Sessions
    BY <2>1, SameSessions
  <2> QED
    BY <1>1, <1>3, <2>2 DEF Pool!vars, Joined
<1>4. CASE \E id \in Ids : StartServer(id)
  <2>1. PICK id \in Ids : StartServer(id)
    BY <1>4
  <2>2. PICK h \in Handles \ DOMAIN task :
          task' = MapInsert(task, h,
                [id |-> id, cfg |-> desired[id],
                 stop |-> FALSE, remove |-> FALSE, live |-> TRUE])
    BY <2>1 DEF StartServer
  <2>3. /\ pc = "reconciling"
        /\ pc' = "reconciling"
        /\ joinee = None
        /\ id \in DOMAIN desired
        /\ id \notin DOMAIN running
        /\ desired[id] \in Configs
    BY <2>1 DEF StartServer, AllRetired, IInv, TypeOK, IsMap
  <2> DEFINE s == [by |-> h, id |-> id, cfg |-> desired[id]]
  <2>4. s \in Pool!Session
    BY <2>3 DEF Pool!Session
  <2>5. \A t \in Sessions : t.by # s.by /\ t.id # s.id
    BY <2>2, <2>3, NoneAssumption DEF Sessions, IInv, TaskHeld, TypeOK, IsMap
  <2>6. s.id \in DOMAIN Local => s.cfg = Local[s.id]
    BY <2>3 DEF IInv, DesiredMerged
  <2>7. Sessions' = Sessions \cup {s}
    <3>1. /\ DOMAIN task' = DOMAIN task \cup {h}
          /\ \A k \in DOMAIN task : task'[k] = task[k]
          /\ task'[h].live
          /\ s = [by |-> h, id |-> task'[h].id, cfg |-> task'[h].cfg]
      BY <2>2 DEF MapInsert
    <3> HIDE DEF s
    <3> QED
      BY <3>1 DEF Sessions
  <2>8. Pool!Open(s)
    <3> HIDE DEF s
    <3> QED
      BY <1>1, <2>3, <2>5, <2>6, <2>7 DEF Pool!Open
  <2> QED
    BY <2>4, <2>8 DEF Pool!Next
<1>5. CASE Drained
  <2>1. Sessions = {} /\ Sessions' = {}
    BY <1>5, NoneAssumption DEF Drained, Sessions, IInv, TaskHeld, TypeOK, IsMap
  <2> QED
    BY <1>1, <1>5, <2>1 DEF Drained, Pool!Next, Pool!Close, IInv, DrainingCancelled
<1>6. CASE \/ Decide \/ Reconciled \/ Notice \/ ProviderGone \/ Break
           \/ \E id \in Ids : Drain(id)
  <2>1. task' = task /\ (pc = "done") = (pc' = "done")
    BY <1>6 DEF Decide, Reconciled, Notice, ProviderGone, Break, Drain
  <2>2. Sessions' = Sessions
    BY <2>1, SameSessions
  <2> QED
    BY <1>1, <2>1, <2>2 DEF Pool!vars
<1> QED
  BY <1>2, <1>3, <1>4, <1>5, <1>6 DEF SupervisorStep

\* A task that ends ends its session, which the device may insist on keeping
\* only until the process stops.
LEMMA PoolTaskEnds ==
    ASSUME IInv, NEW h \in Handles, TaskEnds(h)
    PROVE  Pool!Next
<1>1. /\ h \in DOMAIN task
      /\ task[h].live
      /\ task[h].stop \/ task[h].remove \/ cancelled
      /\ task' = [task EXCEPT ![h].live = FALSE]
      /\ UNCHANGED <<cloud, cancelled, pc>>
  BY DEF TaskEnds, env
<1> DEFINE s == SessionOf(h)
<1>2. s \in Sessions /\ s \in Pool!Session
  <2>1. s \in Sessions
    BY <1>1 DEF Sessions, SessionOf
  <2> QED
    BY <2>1, SessionsAreSessions
<1>3. s.id \in DOMAIN Local => cancelled
  BY <1>1 DEF IInv, DeviceWins, SessionOf
<1>4. /\ DOMAIN task' = DOMAIN task
      /\ ~task'[h].live
      /\ \A k \in DOMAIN task : k # h => task'[k] = task[k]
  BY <1>1 DEF IInv, TypeOK, IsMap, Running
<1>5. Sessions' = Sessions \ {s}
  BY <1>1, <1>4 DEF Sessions, SessionOf
<1>6. Pool!End(s)
  <2> HIDE DEF s
  <2> QED
    BY <1>1, <1>2, <1>3, <1>5 DEF Pool!End
<1> QED
  BY <1>2, <1>6 DEF Pool!Next

\* Publishing changes the wanted set, the signal stops the pool.
LEMMA PoolEnvironment ==
    ASSUME IInv, Environment
    PROVE  Pool!Next \/ UNCHANGED Pool!vars
<1>1. Sessions' = Sessions /\ pc' = pc
  BY DEF Environment, Publish, ProviderEnds, Cancel, Sessions
<1>2. CASE \E servers \in MapsOf(Ids, Configs) : Publish(servers)
  <2>1. PICK servers \in MapsOf(Ids, Configs) : Publish(servers)
    BY <1>2
  <2>2. IsMap(servers, Ids, Configs)
    BY MapsOfIsMap
  <2> DEFINE w == merge_servers(servers, Local)
  <2>3. /\ IsMap(w, Ids, Configs)
        /\ \A id \in DOMAIN Local : id \in DOMAIN w /\ w[id] = Local[id]
    BY <2>2, LocalAssumption, MergeIsMap
  <2>4. w \in MapsOf(Ids, Configs)
    BY <2>3, IsMapMapsOf
  <2>5. w \in Pool!WantedSets
    <3> HIDE DEF w
    <3> QED
      BY <2>3, <2>4 DEF Pool!WantedSets, Pool!MapsOf, MapsOf
  <2>6. merge_servers(cloud, Local)' = w /\ cancelled' = cancelled
    BY <2>1 DEF Publish
  <2> QED
    BY <1>1, <2>5, <2>6 DEF Pool!Next, Pool!Change
<1>3. CASE ProviderEnds
  BY <1>1, <1>3 DEF ProviderEnds, Pool!vars
<1>4. CASE Cancel
  BY <1>1, <1>4 DEF Cancel, Pool!Next, Pool!Stop
<1> QED
  BY <1>2, <1>3, <1>4 DEF Environment

\* The supervisor does what ServerPool promises: at most one session per
\* server, device-configured servers kept with their own settings, nothing
\* opened after the pool is closed.
THEOREM Refinement == Spec => ImplementsPool
<1>1. IInv /\ IInv' /\ [Next]_vars => [Pool!Next]_(Pool!vars)
  <2> SUFFICES ASSUME IInv, IInv', [Next]_vars PROVE [Pool!Next]_(Pool!vars)
    OBVIOUS
  <2>1. CASE SupervisorStep
    BY <2>1, PoolSupervisorStep
  <2>2. CASE \E h \in Handles : TaskEnds(h)
    BY <2>2, PoolTaskEnds
  <2>3. CASE Environment
    BY <2>3, PoolEnvironment
  <2>4. CASE UNCHANGED vars
    BY <2>4 DEF vars, Pool!vars, Sessions
  <2> QED
    BY <2>1, <2>2, <2>3, <2>4 DEF Next
<1>2. Spec => []IInv
  BY Inductive
<1> QED
  BY PoolInit, <1>1, <1>2, PTL DEF Spec, ImplementsPool, Pool!Safe

=============================================================================
