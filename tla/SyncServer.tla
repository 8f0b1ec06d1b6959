----------------------------- MODULE SyncServer -----------------------------
(***************************************************************************)
(* The sync server as a whole: the object storage of SyncObjects and the   *)
(* commit log of one of its workspaces, W.  SyncCommitLog only assumes     *)
(* that objects become available; here availability is what the uploads,   *)
(* the collector and the deletions of SyncObjects make of it, and the      *)
(* publish transactions run concurrently with them.                        *)
(***************************************************************************)
EXTENDS SyncObjects, Sequences

CONSTANTS
    W,                \* the workspace whose commits are modelled
    CommitIds, NoCommit, BodyObjects, CheckpointPacks, ContentPacks, Drafts,
    PublishTxs,       \* publish transactions that may run at once
    MaxSeq, MaxRequests

VARIABLES commits, head, headVersion, lastSeq, cursor, requests, publishing, replies

commitVars == <<commits, head, headVersion, lastSeq, cursor, requests, publishing, replies>>

\* validateCommitObjects and ListSyncObjectsByIDs see the rows of W.
DownloadableObjects == {o \in Objects : row[o].ws = W /\ row[o].state = "available"}

\* The log over the real object rows.  A workspace that was cleaned up is not
\* published to any more than one that is deleted.
Log == INSTANCE SyncCommitLog
         WITH Txs <- PublishTxs, tx <- publishing,
              available <- DownloadableObjects,
              deleted <- ws[W] \in {"deleted", "gone"}

ASSUME ServerAssumption ==
    /\ W \in Workspaces
    /\ Objects = BodyObjects \cup CheckpointPacks \cup ContentPacks

ServerInit == Init /\ Log!Init

\* A step of PublishCommit, for a workspace that exists.
Publish ==
    /\ ws[W] # "none"
    /\ UNCHANGED vars
    /\ Log!PublishStep

\* A step of the object storage.  Cleaning up W drops its commits with
\* everything else (ON DELETE CASCADE) and ends what is modelled here.
Storage ==
    /\ Next
    /\ ws'[W] # "gone"
    /\ UNCHANGED commitVars

ServerNext == Publish \/ Storage

ServerSpec == ServerInit /\ [][ServerNext]_<<vars, commitVars>>
-----------------------------------------------------------------------------
(* Properties *)

\* The composed server implements SyncCommitLog: the life cycle of the objects
\* gives the publish transactions what they rely on.
LogSpec == Log!Spec

\* Whatever is uploaded, retried, expired or collected meanwhile: the body and
\* the packs of every published commit are in the store with the content their
\* rows describe, so every device can pull the whole history.
CommitsDownloadable ==
    ws[W] = "live" =>
        \A r \in Log!Rows : \A o \in {r.body} \cup r.refs :
            o \in DownloadableObjects /\ blob[o] = row[o].content
=============================================================================
