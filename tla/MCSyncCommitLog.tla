-------------------------- MODULE MCSyncCommitLog --------------------------
(***************************************************************************)
(* A workspace with two devices.  The drafts are the shapes the desktop    *)
(* client produces (a checkpoint on the empty head, incrementals on the    *)
(* head, merges of the head and an older commit), with commit ids shared   *)
(* between different payloads, and one malformed request per check of      *)
(* PublishCommit.  Ids are numbered in an order the parent relation        *)
(* follows.                                                                *)
(***************************************************************************)
EXTENDS SyncCommitLog, TLC

CONSTANTS body, pack, chk, MaxId

MCCommitIds == 1..MaxId
MCNoCommit  == 0

Draft(c, k, e, ps, d, n) ==
    [id |-> c, kind |-> k, expected |-> e, parents |-> ps, author |-> d, seq |-> n,
     body |-> body, refs |-> IF k = "checkpoint" THEN {chk} ELSE {pack},
     authentic |-> TRUE]

MCDrafts ==
    UNION { {Draft(c, "checkpoint", NoCommit, {}, d, n) : c \in CommitIds}
            \cup {Draft(c, "incremental", e, {e}, d, n) : c \in CommitIds, e \in CommitIds}
            \cup {Draft(c, "merge", e, {e, p}, d, n) : c, e, p \in CommitIds}
          : d \in Devices, n \in 1..MaxSeq }

WellFounded(r) ==
    /\ \A p \in r.parents : p < r.id
    /\ r.kind = "merge" => Cardinality(r.parents) = 2
    /\ r.kind = "checkpoint" => r.id <= 2 /\ r.seq = 1
    /\ r.seq <= r.id

Malformed ==
    UNION { LET good == Draft(1, "checkpoint", NoCommit, {}, d, 1) IN
            {[good EXCEPT !.authentic = FALSE], [good EXCEPT !.refs = {body}],
             [good EXCEPT !.refs = {pack}], [good EXCEPT !.kind = "incremental"]}
          : d \in Devices }

MCAllDrafts == {r \in MCDrafts : WellFounded(r)} \cup Malformed

Symm == Permutations(Txs) \cup Permutations(Devices)
=============================================================================
