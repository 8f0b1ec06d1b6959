--------------------------- MODULE MCSyncObjects ---------------------------
(* SyncObjects on small instances: contents of one and of two bytes. *)
EXTENDS SyncObjects, TLC

CONSTANTS small, big

MCContents == {small, big}
MCSize == (small :> 1) @@ (big :> 2)
Symm == UNION {Permutations(S) : S \in {Objects, Txs, Workspaces, Devices}}
=============================================================================
