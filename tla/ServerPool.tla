----------------------------- MODULE ServerPool -----------------------------
(***************************************************************************)
(* What the supervisor promises, with nothing of how it keeps the promise: *)
(* a pool of sessions, at most one per server, that follows the wanted     *)
(* server set.  A server configured on the device is never given up and    *)
(* never runs with anyone else's settings; restarting a server passes      *)
(* through a moment with no session; the pool closes only when it is empty *)
(* and opens nothing afterwards.                                           *)
(***************************************************************************)
EXTENDS Maps

CONSTANTS Ids, Configs, Local, Tasks

VARIABLES
    wanted,     \* the server set to run: id -> settings
    sessions,   \* the sessions open now
    stopping,   \* the process has been told to stop
    closed      \* the pool has reported that it is empty for good

vars == <<wanted, sessions, stopping, closed>>

Session == [by : Tasks, id : Ids, cfg : Configs]

\* A server set that gives every device-configured server its own settings.
WantedSets ==
    {w \in MapsOf(Ids, Configs) :
        \A id \in DOMAIN Local : id \in DOMAIN w /\ w[id] = Local[id]}

Init ==
    /\ wanted = Local
    /\ sessions = {}
    /\ stopping = FALSE
    /\ closed = FALSE

Change ==
    /\ wanted' \in WantedSets
    /\ UNCHANGED <<sessions, stopping, closed>>

Open(s) ==
    /\ ~closed
    /\ \A t \in sessions : t.id # s.id /\ t.by # s.by
    /\ s.id \in DOMAIN Local => s.cfg = Local[s.id]
    /\ sessions' = sessions \cup {s}
    /\ UNCHANGED <<wanted, stopping, closed>>

End(s) ==
    /\ s \in sessions
    /\ s.id \in DOMAIN Local => stopping
    /\ sessions' = sessions \ {s}
    /\ UNCHANGED <<wanted, stopping, closed>>

Stop ==
    /\ ~stopping
    /\ stopping' = TRUE
    /\ UNCHANGED <<wanted, sessions, closed>>

Close ==
    /\ ~closed
    /\ stopping
    /\ sessions = {}
    /\ closed' = TRUE
    /\ UNCHANGED <<wanted, sessions, stopping>>

Next ==
    \/ Change
    \/ \E s \in Session : Open(s) \/ End(s)
    \/ Stop
    \/ Close

Safe == Init /\ [][Next]_vars

\* Exactly the wanted servers have a session, each with its wanted settings.
Serving ==
    /\ {s.id : s \in sessions} = DOMAIN wanted
    /\ \A s \in sessions : s.cfg = wanted[s.id]

\* If the wanted set stops changing, the pool comes to serve it; if the process
\* is told to stop, the pool closes.
Follows == <>[](stopping \/ Serving)

Closes == stopping ~> closed

Spec == Safe /\ Follows /\ Closes

=============================================================================
