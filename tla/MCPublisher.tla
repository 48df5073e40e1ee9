----------------------------- MODULE MCPublisher ----------------------------
(* Instances of Publisher for TLC. *)
EXTENDS Publisher, TLC

CONSTANTS n1, n2

\* Two series of one message, one of another, an alarm and an event.
MCNodeOrder == <<n1, n2>>
MCActionsOf ==
    n1 :> <<[kind |-> "measurement", type |-> "m"], [kind |-> "alarm", type |-> "a"]>>
    @@ n2 :> <<[kind |-> "event", type |-> "e"], [kind |-> "measurement", type |-> "m"],
             [kind |-> "measurement", type |-> "k"]>>

\* Both start as off.  The first node may become anything, the second on or a text.
MCLevelsOf == n1 :> Levels @@ n2 :> {"on", "text"}

=============================================================================
