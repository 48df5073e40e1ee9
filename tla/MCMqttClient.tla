---------------------------- MODULE MCMqttClient ----------------------------
(* Instances of MqttClient for TLC. *)
EXTENDS MqttClient

CONSTANTS task, reader, other

\* A server task that registers, the reader it spawns, and a second server.
MCPublishers == {task, reader, other}
MCOwner == [p \in MCPublishers |-> IF p = reader THEN task ELSE p]
\* A registration and one message of the task, one message of the others.
MCFew == [p \in MCPublishers |-> IF p = task THEN 2 ELSE 1]
=============================================================================
