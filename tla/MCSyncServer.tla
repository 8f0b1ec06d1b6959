---------------------------- MODULE MCSyncServer ----------------------------
(* One workspace, a body and a checkpoint pack, two competing first commits *)
(* and one that follows them.                                               *)
EXTENDS SyncServer, TLC

CONSTANTS body, chk, content, d1, d2

MCSize == content :> 1
MCCommitIds == 1..2
MCNoCommit == 0

Draft(c, k, e, d, n) ==
    [id |-> c, kind |-> k, expected |-> e, parents |-> {e} \ {NoCommit}, author |-> d,
     seq |-> n, body |-> body, refs |-> {chk}, authentic |-> TRUE]

MCDrafts == {Draft(1, "checkpoint", NoCommit, d1, 1), Draft(2, "checkpoint", NoCommit, d2, 1),
             Draft(2, "incremental", 1, d1, 2)}
Symm == Permutations(PublishTxs)
=============================================================================
