-------------------------- MODULE SyncServerProofs --------------------------
(***************************************************************************)
(* Proofs about the composition of the object storage and the commit log:  *)
(* the life cycle of the objects gives the publish transactions what       *)
(* SyncCommitLog assumes, and what was published can be downloaded.        *)
(***************************************************************************)
EXTENDS SyncServer, SyncObjectsProofs

\* The rows of sync_commits and the publish requests under way come from the
\* requests the clients compose.
LogTyped ==
    /\ commits \in Seq(Drafts)
    /\ requests \subseteq Drafts
    /\ publishing \in [PublishTxs -> Drafts \cup {Idle}]

\* The workspace whose commits are modelled has not been cleaned up, and what its
\* commits refer to is available.
ServerInv ==
    /\ RowInv
    /\ LogTyped
    /\ ws[W] # "gone"
    /\ Log!CommitObjectsAvailable

\* An empty server satisfies the invariant.
LEMMA ServerInitial == ServerInit => ServerInv
<1> SUFFICES ASSUME ServerInit PROVE ServerInv
  OBVIOUS
<1>1. RowInv
  BY RowInit DEF ServerInit
<1>2. commits = <<>> /\ requests = {} /\ publishing = [t \in PublishTxs |-> Idle]
  BY DEF ServerInit, Log!Init
<1>3. LogTyped
  BY <1>2 DEF LogTyped
<1>4. ws[W] # "gone"
  BY ServerAssumption DEF ServerInit, Init
<1>5. Log!CommitObjectsAvailable
  BY <1>2 DEF Log!CommitObjectsAvailable, Log!Rows
<1> QED
  BY <1>1, <1>3, <1>4, <1>5 DEF ServerInv

\* A publish step adds at most one commit, and only after validateCommitObjects has
\* found all it refers to available.
LEMMA PublishPreservesServer ==
    ASSUME ServerInv, Publish
    PROVE  ServerInv'
<1>1. UNCHANGED <<ws, row, blob, urls, wsUse, acct, store, tx, raced>> /\ Log!PublishStep
  BY DEF Publish, vars
<1>2. RowInv' /\ ws'[W] # "gone" /\ DownloadableObjects' = DownloadableObjects
  BY <1>1 DEF ServerInv, RowInv, RowsTyped, RowsOwned, UrlsMatch, AvailableMatchesBlob,
              DownloadableObjects
<1> DEFINE Objs(r) == {r.body} \cup r.refs
<1>3. ASSUME NEW t \in PublishTxs, Log!PublishCommit(t)
      PROVE  LogTyped' /\ Log!CommitObjectsAvailable'
  <2>1. /\ publishing[t] # Idle
        /\ Log!Acceptable(publishing[t])
        /\ commits' = Append(commits, publishing[t])
        /\ publishing' = [publishing EXCEPT ![t] = Idle]
        /\ UNCHANGED requests
    BY <1>3 DEF Log!PublishCommit, Log!Reply
  <2>2. publishing[t] \in Drafts
    BY <2>1 DEF ServerInv, LogTyped
  <2>3. LogTyped'
    BY <2>1, <2>2 DEF ServerInv, LogTyped
  <2>4. Log!Rows' \subseteq Log!Rows \cup {publishing[t]}
    <3>1. commits \in Seq(Drafts)
      BY DEF ServerInv, LogTyped
    <3>2. \A i \in DOMAIN commits' : commits'[i] = publishing[t] \/
                                     (i \in DOMAIN commits /\ commits'[i] = commits[i])
      BY <2>1, <2>2, <3>1
    <3> QED
      BY <3>2 DEF Log!Rows
  <2>5. Objs(publishing[t]) \subseteq DownloadableObjects
    BY <2>1 DEF Log!Acceptable, Log!validateCommitObjects
  <2>6. Log!CommitObjectsAvailable'
    BY <1>2, <2>4, <2>5 DEF ServerInv, Log!CommitObjectsAvailable
  <2> QED
    BY <2>3, <2>6
<1>4. ASSUME UNCHANGED commits, requests' \subseteq Drafts,
             publishing' \in [PublishTxs -> Drafts \cup {Idle}]
      PROVE  LogTyped' /\ Log!CommitObjectsAvailable'
  BY <1>2, <1>4 DEF ServerInv, LogTyped, Log!CommitObjectsAvailable, Log!Rows
<1>5. ASSUME NEW r \in Drafts, Log!Compose(r) PROVE LogTyped' /\ Log!CommitObjectsAvailable'
  <2>1. UNCHANGED <<commits, publishing>> /\ requests' = requests \cup {r}
    BY <1>5 DEF Log!Compose
  <2> QED
    BY <1>4, <2>1 DEF ServerInv, LogTyped
<1>6. ASSUME NEW t \in PublishTxs, NEW r \in requests, Log!PublishBegin(t, r)
      PROVE  LogTyped' /\ Log!CommitObjectsAvailable'
  <2>1. /\ UNCHANGED <<commits, requests>>
        /\ \/ publishing' = [publishing EXCEPT ![t] = Idle]
           \/ publishing' = [publishing EXCEPT ![t] = r]
    BY <1>6 DEF Log!PublishBegin, Log!Reply
  <2> QED
    BY <1>4, <2>1 DEF ServerInv, LogTyped
<1>7. ASSUME NEW t \in PublishTxs, Log!PublishReturn(t) \/ Log!PublishAbort(t)
      PROVE  LogTyped' /\ Log!CommitObjectsAvailable'
  <2>1. UNCHANGED <<commits, requests>> /\ publishing' = [publishing EXCEPT ![t] = Idle]
    BY <1>7 DEF Log!PublishReturn, Log!PublishAbort, Log!Reply
  <2> QED
    BY <1>4, <2>1 DEF ServerInv, LogTyped
<1>8. LogTyped' /\ Log!CommitObjectsAvailable'
  BY <1>1, <1>3, <1>5, <1>6, <1>7 DEF Log!PublishStep
<1> QED
  BY <1>2, <1>8 DEF ServerInv

\* What is downloadable for W stays so under every step of the object storage that
\* does not clean W up.
LEMMA DownloadableGrows ==
    ASSUME RowInv, [Next]_vars, ws'[W] # "gone"
    PROVE  DownloadableObjects \subseteq DownloadableObjects'
<1> SUFFICES ASSUME NEW o \in DownloadableObjects PROVE o \in DownloadableObjects'
  OBVIOUS
<1>1. o \in Objects /\ row[o].ws = W /\ row[o].state = "available"
  BY DEF DownloadableObjects
<1>2. row'[o] = row[o]
  <2>1. CASE Next
    BY <1>1, <2>1, AvailableRowKept
  <2>2. CASE UNCHANGED vars
    BY <2>2 DEF vars
  <2> QED
    BY <2>1, <2>2
<1> QED
  BY <1>1, <1>2 DEF DownloadableObjects

\* The object storage leaves the commits of W intact and downloadable.
LEMMA StoragePreservesServer ==
    ASSUME ServerInv, Storage
    PROVE  ServerInv'
<1>1. Next /\ ws'[W] # "gone" /\ UNCHANGED <<commits, requests, publishing>>
  BY DEF Storage, commitVars
<1>2. RowInv'
  BY <1>1, RowsInductive DEF ServerInv
<1>3. DownloadableObjects \subseteq DownloadableObjects'
  BY <1>1, DownloadableGrows DEF ServerInv
<1> QED
  BY <1>1, <1>2, <1>3 DEF ServerInv, LogTyped, Log!CommitObjectsAvailable, Log!Rows

\* Every reachable state of the composed server satisfies the invariant.
LEMMA ServerInvariance == ServerSpec => []ServerInv
<1>1. ServerInv /\ [ServerNext]_<<vars, commitVars>> => ServerInv'
  <2> SUFFICES ASSUME ServerInv, [ServerNext]_<<vars, commitVars>> PROVE ServerInv'
    OBVIOUS
  <2>1. CASE UNCHANGED <<vars, commitVars>>
    <3>1. RowInv'
      BY <2>1, RowsInductive DEF ServerInv
    <3> QED
      BY <2>1, <3>1 DEF vars, commitVars, ServerInv, LogTyped, Log!CommitObjectsAvailable,
                        Log!Rows, DownloadableObjects
  <2> QED
    BY <2>1, PublishPreservesServer, StoragePreservesServer DEF ServerNext
<1> QED
  BY <1>1, ServerInitial, PTL DEF ServerSpec

\* Everything a published commit refers to can be downloaded, with the content its
\* row describes, as long as the workspace is live: validateCommitObjects takes no
\* lock on the objects, and needs none, whatever is uploaded, retried, expired,
\* collected or rolled back meanwhile.
THEOREM PublishedIsDownloadable == ServerSpec => []CommitsDownloadable
<1>1. ServerInv => CommitsDownloadable
  <2> SUFFICES ASSUME ServerInv, ws[W] = "live", NEW r \in Log!Rows, NEW o \in {r.body} \cup r.refs
               PROVE  o \in DownloadableObjects /\ blob[o] = row[o].content
    BY DEF CommitsDownloadable
  <2>1. o \in DownloadableObjects
    BY DEF ServerInv, Log!CommitObjectsAvailable
  <2> QED
    BY <2>1 DEF ServerInv, RowInv, AvailableMatchesBlob, DownloadableObjects
<1> QED
  BY <1>1, ServerInvariance, PTL

\* What a step of the object storage is to the commit log.
LEMMA StorageRefines ==
    ASSUME ServerInv, Storage
    PROVE  [Log!Next]_(Log!vars)
<1> DEFINE D == ws[W] \in {"deleted", "gone"}
           more == DownloadableObjects' \ DownloadableObjects
<1>1. Next /\ ws'[W] # "gone" /\ UNCHANGED commitVars
  BY DEF Storage
<1>2. UNCHANGED Log!logVars
  BY <1>1 DEF commitVars, Log!logVars
<1>3. DownloadableObjects \subseteq DownloadableObjects'
  BY <1>1, DownloadableGrows DEF ServerInv
<1>4. ws \in [Workspaces -> {"none", "live", "deleted", "gone"}] /\ W \in Workspaces
  BY ServerAssumption DEF ServerInv, RowInv, RowsTyped
<1>5. UNCHANGED row \/ UNCHANGED ws \/ ws'[W] = ws[W]
  <2>1. ASSUME NEW t \in Txs, Request(t) PROVE UNCHANGED ws
    BY Zenon, <2>1 DEF Request, Authorize, Rollback, ReserveObjectIDs, CreateObjectUploadBatch,
       CompleteObjectUploadBatch, UploadObjectBytesDev, RunWorkspaceGC, RecalculateSyncUsage
  <2>2. ASSUME NEW w \in Workspaces, RunDeletedWorkspaceCleanup(w) PROVE ws'[W] = ws[W]
    <3>1. ws' = [ws EXCEPT ![w] = "gone"] \/ UNCHANGED ws
      BY Zenon, <2>2 DEF RunDeletedWorkspaceCleanup
    <3> QED
      BY <1>1, <1>4, <3>1
  <2> QED
    BY Zenon, <1>1, <2>1, <2>2 DEF Next, CreateWorkspace, DeleteWorkspace, Expire, PutObject
<1>6. D => D'
  <2>1. CASE ws'[W] = ws[W]
    BY <2>1
  <2>2. ASSUME NEW w \in Workspaces, CreateWorkspace(w) PROVE D => D'
    BY <1>4, <2>2 DEF CreateWorkspace
  <2>3. ASSUME NEW w \in Workspaces, DeleteWorkspace(w) PROVE D => D'
    BY <1>4, <2>3 DEF DeleteWorkspace
  <2>4. ASSUME NEW w \in Workspaces, RunDeletedWorkspaceCleanup(w) PROVE D => D'
    <3>1. ws' = [ws EXCEPT ![w] = "gone"] \/ UNCHANGED ws
      BY Zenon, <2>4 DEF RunDeletedWorkspaceCleanup
    <3> QED
      BY <1>1, <1>4, <3>1
  <2>5. ASSUME NEW t \in Txs, Request(t) PROVE UNCHANGED ws
    BY Zenon, <2>5 DEF Request, Authorize, Rollback, ReserveObjectIDs, CreateObjectUploadBatch,
       CompleteObjectUploadBatch, UploadObjectBytesDev, RunWorkspaceGC, RecalculateSyncUsage
  <2> QED
    BY Zenon, <1>1, <2>1, <2>2, <2>3, <2>4, <2>5 DEF Next, Expire, PutObject
<1>7. CASE ws'[W] = ws[W] /\ more = {}
  BY <1>2, <1>3, <1>7 DEF Log!vars
<1>8. CASE ws'[W] = ws[W] /\ more # {}
  <2>1. more \in SUBSET Log!LogObjects
    BY ServerAssumption DEF DownloadableObjects, Log!LogObjects
  <2>2. Log!ObjectsAvailable(more)
    BY <1>2, <1>3, <1>8 DEF Log!ObjectsAvailable
  <2> QED
    BY <2>1, <2>2 DEF Log!Next
<1>9. CASE ws'[W] # ws[W]
  <2>1. UNCHANGED row
    BY <1>5, <1>9
  <2>2. DownloadableObjects' = DownloadableObjects
    BY <2>1 DEF DownloadableObjects
  <2>3. CASE D' = D
    BY <1>2, <2>2, <2>3 DEF Log!vars
  <2>4. CASE ~D /\ D'
    BY <1>2, <2>2, <2>4 DEF Log!DeleteWorkspace, Log!Next
  <2> QED
    BY <1>6, <2>3, <2>4
<1> QED
  BY <1>7, <1>8, <1>9

\* The composed server implements SyncCommitLog: over the real object rows objects
\* only become available, and the deletion of the workspace happens once.  So what
\* SyncCommitLogProofs shows of the log holds of the server.
THEOREM ServerImplementsLog == ServerSpec => LogSpec
<1>1. ServerInit => Log!Init
  BY DEF ServerInit
<1>2. ServerInv /\ [ServerNext]_<<vars, commitVars>> => [Log!Next]_(Log!vars)
  <2> SUFFICES ASSUME ServerInv, [ServerNext]_<<vars, commitVars>> PROVE [Log!Next]_(Log!vars)
    OBVIOUS
  <2>1. CASE Publish
    BY <2>1 DEF Publish, Log!Next
  <2>2. CASE UNCHANGED <<vars, commitVars>>
    BY <2>2 DEF vars, commitVars, Log!vars, Log!logVars, DownloadableObjects
  <2> QED
    BY <2>1, <2>2, StorageRefines DEF ServerNext
<1> QED
  BY <1>1, <1>2, ServerInvariance, PTL DEF ServerSpec, LogSpec, Log!Spec
=============================================================================
