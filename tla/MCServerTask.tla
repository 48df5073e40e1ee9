---------------------------- MODULE MCServerTask ----------------------------
(* Instances of ServerTask for TLC. *)
EXTENDS ServerTask

CONSTANTS sub, fast, slow

MCReaders == {sub, fast, slow}

\* No device types to begin with, then ones with a subscription and a cyclic
\* reader, then ones with two cyclic readers.
MCPlan == [v \in 0 .. MaxVersion |->
    CASE v = 0 -> {}
      [] v = 1 -> {sub, fast}
      [] OTHER -> {fast, slow}]
=============================================================================
