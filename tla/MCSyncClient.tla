---------------------------- MODULE MCSyncClient ----------------------------
(***************************************************************************)
(* Instances of SyncClient: two devices, one note of two lines, and names  *)
(* for the conflict copies each device makes.                              *)
(***************************************************************************)
EXTENDS SyncClient, TLC

CONSTANTS d1, d2, n1, c1, c2, c3, c4, c5, c6, c7, c8, l1, l2

MCDevices   == {d1, d2}
MCNotes     == {n1}
MCLines     == {l1, l2}
MCPaths2    == {n1, c1, c2, c3, c4}
MCPaths3    == MCPaths2 \cup {c5, c6}
MCPaths4    == MCPaths3 \cup {c7, c8}
MCCopyNames == d1 :> {c1, c3, c5, c7} @@ d2 :> {c2, c4, c6, c8}

\* The names within the instance's paths.
MCCopyNames2 == [d \in MCDevices |-> MCCopyNames[d] \cap MCPaths2]
MCCopyNames3 == [d \in MCDevices |-> MCCopyNames[d] \cap MCPaths3]
MCCopyNames4 == MCCopyNames

Symm == Permutations(MCLines)
=============================================================================
