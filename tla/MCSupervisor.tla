---------------------------- MODULE MCSupervisor ----------------------------
(* Instances of Supervisor for TLC. *)
EXTENDS Supervisor, TLC

CONSTANTS plc, s1, s2, old, new, h1, h2, h3

\* One server configured on the device and two that only the cloud may know;
\* the cloud may also name the device's own, with other settings.
MCIds == {plc, s1, s2}
MCConfigs == {old, new}
MCLocal == plc :> old

\* As many tasks as servers: with one of the servers not wanted, another could
\* be given a second task if the supervisor let it.
MCHandles == {h1, h2, h3}

\* A smaller set for what needs two servers only.
SmallIds == {plc, s1}
=============================================================================
