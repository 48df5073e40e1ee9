---------------------------- MODULE MCDeviceTypes ---------------------------
(* Instances of DeviceTypes for TLC. *)
EXTENDS DeviceTypes, TLC

CONSTANTS type1, type2, file1, file2

\* With pages of one object the second one is behind a page boundary.
MCTypes == {type1, type2}
MCTypeOrder == <<type1, type2>>

\* Two files, which may hold the same device type.
MCFiles == {file1, file2}
MCFileOrder == <<file1, file2>>

\* One of them is there from the start.
MCShipped == file1 :> type1

MCDeviceTypeIds == <<type2, type1>>
=============================================================================
