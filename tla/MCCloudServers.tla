--------------------------- MODULE MCCloudServers ---------------------------
(* Instances of CloudServers for TLC. *)
EXTENDS CloudServers

CONSTANTS s1, s2, old, new

\* With pages of one server, the second server is behind a page boundary and the
\* page limit.
MCServers == {s1, s2}
MCConfigs == {old, new}
OneConfig == {old}

\* No other gateway, or one that may claim the second server's external id.
NoStrangers == {}
MCStrangers == {s2}
=============================================================================
