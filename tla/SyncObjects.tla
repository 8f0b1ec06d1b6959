---------------------------- MODULE SyncObjects ----------------------------
(***************************************************************************)
(* The encrypted objects of a user's sync workspaces and the storage they  *)
(* are charged for (internal/sync/presign.go, service.go, quota.go, gc.go, *)
(* cleanup.go).  An object is reserved, gets a presigned PUT URL, is       *)
(* uploaded straight to the object store, and is completed; or, on the     *)
(* local store, is uploaded through the server.                            *)
(*                                                                         *)
(* Every transaction that touches usage first reads the workspace and the  *)
(* device without a lock (Authorize) and then locks the account's usage    *)
(* row, so what follows the lock is one step.  Calls to the object store   *)
(* are not undone when a transaction rolls back.  An early return with an  *)
(* error is a Rollback.                                                    *)
(***************************************************************************)
EXTENDS Naturals, FiniteSets, Functions

CONSTANTS
    Workspaces,       \* workspaces of one user
    Devices,          \* the user's devices
    Objects,          \* object ids the server may draw
    Contents,         \* ciphertexts: what a (sha256, size) descriptor stands for
    Size,             \* size_bytes of a content
    NoContent,        \* no descriptor yet, or no blob in the store
    Txs,              \* transactions that may run at once
    Idle,             \* a free transaction slot
    Stores,           \* the kinds of object store a server may be configured with
    MaxBatch,         \* bound: objects in an upload batch
    GCLimit,          \* SyncGCOptions.OrphanLimit
    SyncMaxSingleBlobBytes, SyncMaxPendingUploadBytes, SyncMaxStorageBytesPerWorkspace,
    SyncMaxTotalStorageBytesPerUser, SyncMaxWorkspacesPerUser

UploadStates == {"none", "reserved", "pending", "available", "failed", "deleted"}
Row  == [state : UploadStates, ws : Workspaces, by : Devices,
         content : Contents \cup {NoContent}, expired : BOOLEAN]
Call == [ws : Workspaces, dev : Devices]

ASSUME ObjectsAssumption ==
    /\ Size \in [Contents -> Nat \ {0}]
    /\ NoContent \notin Contents
    /\ Idle \notin Call
    /\ Stores \subseteq {"s3_compatible", "local"}
    /\ IsFiniteSet(Objects) /\ IsFiniteSet(Workspaces)
    /\ {SyncMaxPendingUploadBytes, SyncMaxStorageBytesPerWorkspace,
        SyncMaxTotalStorageBytesPerUser, SyncMaxWorkspacesPerUser} \subseteq Nat

VARIABLES
    ws,       \* sync_workspaces: none, live, deleted (deleted_at set), gone
    row,      \* sync_objects; expired says that expires_at has passed
    blob,     \* the object store, by storage key
    urls,     \* presigned PUT URLs handed out: <<object, content>>
    wsUse,    \* sync_usage_workspaces
    acct,     \* sync_usage_accounts
    store,    \* the store of this server; only s3_compatible presigns
    tx,       \* requests that have been authorized, by transaction
    raced     \* a request has gone on after its workspace was deleted

vars == <<ws, row, blob, urls, wsUse, acct, store, tx, raced>>

\* Types of the rows, the counters, the store and the requests under way; no
\* counter falls below zero.
TypeOK ==
    /\ ws \in [Workspaces -> {"none", "live", "deleted", "gone"}]
    /\ row \in [Objects -> Row]
    /\ blob \in [Objects -> Contents \cup {NoContent}]
    /\ urls \subseteq Objects \X Contents
    /\ wsUse \in [Workspaces -> [storage : Nat, count : Nat, pending : Nat]]
    /\ acct \in [workspaces : Nat, storage : Nat, pending : Nat]
    /\ store \in Stores
    /\ tx \in [Txs -> Call \cup {Idle}]
    /\ raced \in BOOLEAN

Init ==
    /\ ws = [w \in Workspaces |-> "none"]
    /\ row \in [Objects -> {r \in Row : r.state = "none" /\ r.content = NoContent /\ ~r.expired}]
    /\ \A o, p \in Objects : row[o] = row[p]
    /\ blob = [o \in Objects |-> NoContent]
    /\ urls = {}
    /\ wsUse = [w \in Workspaces |-> [storage |-> 0, count |-> 0, pending |-> 0]]
    /\ acct = [workspaces |-> 0, storage |-> 0, pending |-> 0]
    /\ store \in Stores
    /\ tx = [t \in Txs |-> Idle]
    /\ raced = FALSE

-----------------------------------------------------------------------------
(* Usage *)

Bytes(content, S) == SumFunctionOnSet([o \in S |-> Size[content[o]]], S)
Charge(r, S) == SumFunctionOnSet([o \in S |-> Size[r[o].content]], S)
InState(r, w, state) == {o \in Objects : r[o].ws = w /\ r[o].state = state}

\* RecalculateSyncUsageWorkspace
WorkspaceUsage(r, w) ==
    [storage |-> Charge(r, InState(r, w, "available")),
     count   |-> Cardinality(InState(r, w, "available")),
     pending |-> Charge(r, InState(r, w, "pending"))]

\* RecalculateSyncUsageAccount: the live workspaces only.
AccountUsage(state, use) ==
    LET live == {w \in Workspaces : state[w] = "live"}
    IN  [workspaces |-> Cardinality(live),
         storage    |-> SumFunctionOnSet([w \in live |-> use[w].storage], live),
         pending    |-> SumFunctionOnSet([w \in live |-> use[w].pending], live)]

checkUploadBatchQuota_ThisBatchOnly(w, extra) ==
    extra <= SyncMaxPendingUploadBytes
checkUploadBatchQuota(w, extra) ==
    /\ wsUse[w].pending + extra <= SyncMaxPendingUploadBytes
    /\ acct.storage + acct.pending + extra <= SyncMaxTotalStorageBytesPerUser
    /\ wsUse[w].storage + wsUse[w].pending + extra <= SyncMaxStorageBytesPerWorkspace

-----------------------------------------------------------------------------
(* Requests *)

CreateWorkspace(w) ==
    /\ ws[w] = "none"
    /\ acct.workspaces < SyncMaxWorkspacesPerUser
    /\ ws' = [ws EXCEPT ![w] = "live"]
    /\ acct' = [acct EXCEPT !.workspaces = @ + 1]
    /\ UNCHANGED <<row, blob, urls, wsUse, store, tx, raced>>

\* authorizeWorkspace and requireActiveDevice, before any lock is taken.
Authorize(t, w, d) ==
    /\ tx[t] = Idle
    /\ ws[w] = "live"
    /\ tx' = [tx EXCEPT ![t] = [ws |-> w, dev |-> d]]
    /\ UNCHANGED <<ws, row, blob, urls, wsUse, acct, store, raced>>

Finish(t) ==
    /\ tx' = [tx EXCEPT ![t] = Idle]
    /\ raced' = (raced \/ ws[tx[t].ws] # "live")

\* A database error, a lost connection, or one of the early returns.
Rollback(t) ==
    /\ tx[t] # Idle
    /\ tx' = [tx EXCEPT ![t] = Idle]
    /\ UNCHANGED <<ws, row, blob, urls, wsUse, acct, store, raced>>

ReserveObjectIDs(t, o) ==
    /\ tx[t] # Idle
    /\ ws[tx[t].ws] # "gone"
    /\ row[o].state = "none"
    /\ row' = [row EXCEPT ![o] = [state |-> "reserved", ws |-> tx[t].ws, by |-> tx[t].dev,
                                  content |-> NoContent, expired |-> FALSE]]
    /\ Finish(t)
    /\ UNCHANGED <<ws, blob, urls, wsUse, acct, store>>

\* GetSyncObjectForUpdate
Found(o, w) == row[o].ws = w /\ row[o].state \notin {"none", "deleted"}

\* What CreateObjectUploadBatch accepts of an object: a reserved one, or the
\* same content again for one that is pending and has not expired.
CanUpload_AnyContent(o, c) ==
    \/ row[o].state = "reserved"
    \/ row[o].state = "pending" /\ ~row[o].expired
CanUpload_Available(o, c) ==
    \/ row[o].state = "reserved"
    \/ row[o].state \in {"pending", "available"} /\ row[o].content = c /\ ~row[o].expired
CanUpload(o, c) ==
    \/ row[o].state = "reserved"
    \/ row[o].state = "pending" /\ row[o].content = c /\ ~row[o].expired

CreateObjectUploadBatch(t, batch) ==
    LET w == tx[t].ws
        S == DOMAIN batch
        extra == Bytes(batch, {o \in S : row[o].state = "reserved"})
    IN
    /\ store = "s3_compatible"
    /\ tx[t] # Idle
    /\ ws[w] # "gone"
    /\ \A o \in S : /\ Found(o, w) /\ row[o].by = tx[t].dev
                    /\ CanUpload(o, batch[o])
                    /\ Size[batch[o]] <= SyncMaxSingleBlobBytes
    /\ checkUploadBatchQuota(w, extra)
    /\ wsUse' = [wsUse EXCEPT ![w].pending = @ + extra]
    /\ acct' = [acct EXCEPT !.pending = @ + extra]
    /\ row' = [o \in Objects |->
                 IF o \in S THEN [row[o] EXCEPT !.state = "pending", !.content = batch[o],
                                                !.expired = FALSE]
                            ELSE row[o]]
    /\ urls' = urls \cup {<<o, batch[o]>> : o \in S}
    /\ Finish(t)
    /\ UNCHANGED <<ws, blob, store>>

\* The client PUTs to a presigned URL, at any time and as often as it likes.
PutObject(o, c) ==
    /\ <<o, c>> \in urls
    /\ blob' = [blob EXCEPT ![o] = c]
    /\ UNCHANGED <<ws, row, urls, wsUse, acct, store, tx, raced>>

\* The checks that turn a pending object into an available one rather than a
\* failed one: not expired, the announced descriptor, and store.Head.
UploadIsComplete(o, c) ==
    ~row[o].expired /\ row[o].content = c /\ blob[o] = row[o].content

\* failPendingObject releases the bytes of a failed upload: in the workspace
\* (ReleaseSyncUsagePendingBytes) and in the account.
Released(failed) == Charge(row, failed)
AccountReleased_Kept(failed) == 0
AccountReleased(failed) == Charge(row, failed)

CompleteObjectUploadBatch(t, batch) ==
    LET w == tx[t].ws
        S == DOMAIN batch
        pending == {o \in S : row[o].state = "pending"}
        done == {o \in pending : UploadIsComplete(o, batch[o])}
        failed == pending \ done
        added == Charge(row, done)
    IN
    /\ store = "s3_compatible"
    /\ tx[t] # Idle
    /\ ws[w] # "gone"
    /\ \A o \in S : /\ Found(o, w) /\ row[o].by = tx[t].dev
                    /\ \/ row[o].state = "pending"
                       \/ row[o].state = "available" /\ row[o].content = batch[o]
    /\ acct.pending >= added + AccountReleased(failed)  \* CHECK (pending_upload_bytes >= 0)
    /\ row' = [o \in Objects |->
                 CASE o \in done   -> [row[o] EXCEPT !.state = "available", !.expired = FALSE]
                   [] o \in failed -> [row[o] EXCEPT !.state = "failed"]
                   [] OTHER        -> row[o]]
    /\ wsUse' = [wsUse EXCEPT ![w] = [storage |-> @.storage + added,
                                      count   |-> @.count + Cardinality(done),
                                      pending |-> @.pending - (added + Released(failed))]]
    /\ acct' = [acct EXCEPT !.storage = @ + added,
                            !.pending = @ - (added + AccountReleased(failed))]
    /\ Finish(t)
    /\ UNCHANGED <<ws, blob, urls, store>>

\* The limits UploadObjectBytesDev looks at.
DirectQuota(w, c) ==
    /\ Size[c] <= SyncMaxSingleBlobBytes
    /\ acct.storage + Size[c] <= SyncMaxTotalStorageBytesPerUser
    /\ wsUse[w].storage + Size[c] <= SyncMaxStorageBytesPerWorkspace

\* AddSyncUsageAvailableObjectBytes
WithObject(use, c) == [use EXCEPT !.storage = @ + Size[c], !.count = @ + 1]

\* UploadObjectBytesDev, on the local store.  The blob is written before the
\* transaction commits, and stays when it does not.
UploadObjectBytesDev(t, o, c) ==
    LET w == tx[t].ws
    IN
    /\ store = "local"
    /\ tx[t] # Idle
    /\ ws[w] # "gone"
    /\ DirectQuota(w, c)
    /\ Found(o, w) /\ row[o].state \in {"reserved", "pending"}
    /\ blob' = [blob EXCEPT ![o] = c]
    /\ \/ /\ row' = [row EXCEPT ![o].state = "available", ![o].content = c, ![o].expired = FALSE]
          /\ wsUse' = [wsUse EXCEPT ![w] = WithObject(@, c)]
          /\ acct' = [acct EXCEPT !.storage = @ + Size[c]]
       \/ UNCHANGED <<row, wsUse, acct>>
    /\ Finish(t)
    /\ UNCHANGED <<ws, urls, store>>

-----------------------------------------------------------------------------
(* Maintenance *)

\* expires_at passes.
Expire(o) ==
    /\ row[o].state \in {"reserved", "pending", "failed"}
    /\ ~row[o].expired
    /\ row' = [row EXCEPT ![o].expired = TRUE]
    /\ UNCHANGED <<ws, blob, urls, wsUse, acct, store, tx, raced>>

\* ListExpiredOrphanSyncObjectsForUpdate
Orphans_AnyState(w) == {o \in Objects : Found(o, w)}
Orphans(w) ==
    {o \in Objects : /\ row[o].ws = w
                     /\ row[o].state \in {"reserved", "pending", "failed"}
                     /\ row[o].expired}

WithoutBlobs(S) == [o \in Objects |-> IF o \in S THEN NoContent ELSE blob[o]]

\* RunWorkspaceGC deletes the blobs first; the rows and the usage follow if the
\* transaction commits.
RunWorkspaceGC(t, S) ==
    LET w == tx[t].ws IN
    /\ tx[t] # Idle
    /\ ws[w] # "gone"
    /\ S \subseteq Orphans(w) /\ S # {} /\ Cardinality(S) <= GCLimit
    /\ blob' = WithoutBlobs(S)
    /\ \/ /\ row' = [o \in Objects |->
                       IF o \in S THEN [row[o] EXCEPT !.state = "deleted", !.expired = FALSE]
                                  ELSE row[o]]
          /\ wsUse' = [wsUse EXCEPT ![w] = WorkspaceUsage(row', w)]
          /\ acct' = AccountUsage(ws, wsUse')
       \/ UNCHANGED <<row, wsUse, acct>>
    /\ Finish(t)
    /\ UNCHANGED <<ws, urls, store>>

RecalculateSyncUsage(t) ==
    LET w == tx[t].ws IN
    /\ tx[t] # Idle
    /\ ws[w] # "gone"
    /\ wsUse' = [wsUse EXCEPT ![w] = WorkspaceUsage(row, w)]
    /\ acct' = AccountUsage(ws, wsUse')
    /\ Finish(t)
    /\ UNCHANGED <<ws, row, blob, urls, store>>

\* Deleting again is allowed: only the account's usage is computed again.
DeleteWorkspace(w) ==
    /\ ws[w] \in {"live", "deleted"}
    /\ ws' = [ws EXCEPT ![w] = "deleted"]
    /\ acct' = AccountUsage(ws', wsUse)
    /\ UNCHANGED <<row, blob, urls, wsUse, store, tx, raced>>

\* RunDeletedWorkspaceCleanup: all blobs, then the rows by ON DELETE CASCADE,
\* unless the transaction rolls back after some of the blobs are gone.
RunDeletedWorkspaceCleanup(w) ==
    LET mine == {o \in Objects : row[o].ws = w /\ row[o].state # "none"}
    IN
    /\ ws[w] = "deleted"
    /\ \/ /\ blob' = WithoutBlobs(mine)
          /\ ws' = [ws EXCEPT ![w] = "gone"]
          /\ row' = [o \in Objects |->
                       IF o \in mine THEN [row[o] EXCEPT !.state = "deleted", !.expired = FALSE]
                                     ELSE row[o]]
          /\ wsUse' = [wsUse EXCEPT ![w] = [storage |-> 0, count |-> 0, pending |-> 0]]
       \/ /\ \E S \in SUBSET mine : blob' = WithoutBlobs(S)
          /\ UNCHANGED <<ws, row, wsUse>>
    /\ UNCHANGED <<urls, acct, store, tx, raced>>

-----------------------------------------------------------------------------
Batches == UNION {[S -> Contents] : S \in {S \in SUBSET Objects :
                                             S # {} /\ Cardinality(S) <= MaxBatch}}

Request(t) ==
    \/ \E w \in Workspaces, d \in Devices : Authorize(t, w, d)
    \/ Rollback(t)
    \/ \E o \in Objects : ReserveObjectIDs(t, o)
    \/ \E batch \in Batches : CreateObjectUploadBatch(t, batch)
    \/ \E batch \in Batches : CompleteObjectUploadBatch(t, batch)
    \/ \E o \in Objects, c \in Contents : UploadObjectBytesDev(t, o, c)
    \/ \E S \in SUBSET Objects : RunWorkspaceGC(t, S)
    \/ RecalculateSyncUsage(t)

Next ==
    \/ \E t \in Txs : Request(t)
    \/ \E w \in Workspaces : \/ CreateWorkspace(w)
                             \/ DeleteWorkspace(w)
                             \/ RunDeletedWorkspaceCleanup(w)
    \/ \E o \in Objects : Expire(o)
    \/ \E o \in Objects, c \in Contents : PutObject(o, c)

Spec == Init /\ [][Next]_vars
-----------------------------------------------------------------------------
(* Properties *)

\* The counters of a workspace are what RecalculateSyncUsageWorkspace would
\* compute, and those of the account what RecalculateSyncUsageAccount would: no
\* sequence of uploads, retries, failures, expirations, collections, deletions
\* and rollbacks makes the incremental bookkeeping drift.  For the account, as
\* long as no request went on after its workspace was deleted.
UsageExact ==
    /\ raced \/ acct = AccountUsage(ws, wsUse)
    /\ \A w \in Workspaces : ws[w] \in {"live", "deleted"} => wsUse[w] = WorkspaceUsage(row, w)

\* What a live workspace, and what the user's live workspaces together, really
\* store and have pending is within the limits, however many batches were admitted
\* at once.  For the account, unless a request that was authorized before its
\* workspace was deleted (authorizeWorkspace takes no lock) ran after that: the
\* completion of an upload then releases bytes the account no longer has charged.
QuotaKept ==
    LET used == [w \in Workspaces |-> WorkspaceUsage(row, w)]
        real == AccountUsage(ws, used)
    IN  /\ \A w \in Workspaces : ws[w] = "live" =>
             /\ used[w].pending <= SyncMaxPendingUploadBytes
             /\ used[w].storage + used[w].pending <= SyncMaxStorageBytesPerWorkspace
        /\ ~raced => /\ real.storage + real.pending <= SyncMaxTotalStorageBytesPerUser
                     /\ real.workspaces <= SyncMaxWorkspacesPerUser

\* An available object of a live workspace is in the store, with the content its
\* row describes: late or repeated PUTs and half-done collections cannot change
\* or remove it.  This is why PublishCommit need not lock the objects it checks.
AvailableMatchesBlob ==
    \A o \in Objects : row[o].state = "available" /\ ws[row[o].ws] = "live" =>
        row[o].content \in Contents /\ blob[o] = row[o].content

\* Once available, an object stays available with the same content as long as
\* its workspace is live, and the collector never takes it.
AvailableIsStable ==
    [][\A o \in Objects :
          row[o].state = "available" /\ ws'[row[o].ws] = "live" =>
             /\ row'[o].state = "available"
             /\ row'[o].content = row[o].content
             /\ blob'[o] = blob[o]]_vars
=============================================================================
