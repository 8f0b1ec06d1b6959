--------------------------- MODULE SyncCommitLog ---------------------------
(***************************************************************************)
(* Publication of commits by the sync server (internal/sync/commit.go).    *)
(* PublishCommit is one READ COMMITTED transaction: it looks the commit up *)
(* without a lock, takes the workspace row FOR UPDATE, and does the rest   *)
(* under that lock.  Requests are delivered late, more than once, and by   *)
(* several transactions at a time.                                         *)
(*                                                                         *)
(* The objects a commit refers to belong to SyncObjects; here they only    *)
(* become available, and stay so (ObjectsAvailable).                        *)
(*                                                                         *)
(* A definition named X_Variant is X with a mistake in it; the runs must   *)
(* notice when it takes X's place.                                         *)
(***************************************************************************)
EXTENDS Naturals, Sequences, FiniteSets

CONSTANTS
    Devices,          \* registered devices of the workspace
    CommitIds,        \* ids clients compute for their commits
    NoCommit,         \* current_head_commit_id IS NULL
    BodyObjects,      \* objects of kind commit_body
    CheckpointPacks,  \* objects of kind checkpoint_pack
    ContentPacks,     \* objects of kind content_pack
    Drafts,           \* the requests clients may compose
    Txs,              \* database transactions that may run at once
    Idle,             \* a transaction slot that is free
    MaxSeq,           \* bound: largest device_seq a client uses
    MaxRequests       \* bound: publish requests composed in a behaviour

LogObjects == BodyObjects \cup CheckpointPacks \cup ContentPacks
Kinds   == {"checkpoint", "incremental", "merge"}
Heads   == CommitIds \cup {NoCommit}

\* A publish request.  authentic says that the signature verifies against the
\* device's key and that the body digest is the one of the body object.
Requests ==
    [id : CommitIds, kind : Kinds, expected : Heads, parents : SUBSET CommitIds,
     author : Devices, seq : 1..MaxSeq, body : LogObjects, refs : SUBSET LogObjects,
     authentic : BOOLEAN]

ASSUME LogAssumption ==
    /\ NoCommit \notin CommitIds
    /\ MaxSeq \in Nat
    /\ MaxRequests \in Nat
    /\ BodyObjects \cap (CheckpointPacks \cup ContentPacks) = {}
    /\ Drafts \subseteq Requests
    /\ Idle \notin Requests

Results == {"ok", "head_conflict", "refused"}

VARIABLES
    commits,      \* rows of sync_commits in server_seq order
    head,         \* sync_workspaces.current_head_commit_id
    headVersion,  \* sync_workspaces.head_version
    deleted,      \* sync_workspaces.deleted_at IS NOT NULL
    lastSeq,      \* sync_devices.last_device_seq
    cursor,       \* sync_device_cursors: last seen commit and checkpoint
    available,    \* objects in upload_state available
    requests,     \* requests composed by clients and possibly in flight
    tx,           \* the request a transaction waits for the lock with, or Idle
    replies       \* answers sent: [req, result]

logVars == <<commits, head, headVersion, lastSeq, cursor, requests, tx, replies>>
vars    == <<logVars, deleted, available>>

Rows         == {commits[i] : i \in DOMAIN commits}
PublishedIds == {r.id : r \in Rows}

\* The rows of the workspace, the devices, the cursors and the transactions have
\* the types of their columns.
TypeOK ==
    /\ commits \in Seq(Requests)
    /\ head \in Heads
    /\ headVersion \in Nat
    /\ deleted \in BOOLEAN
    /\ lastSeq \in [Devices -> Nat]
    /\ cursor \in [Devices -> [seen : Heads, checkpoint : Heads]]
    /\ available \subseteq LogObjects
    /\ requests \subseteq Requests
    /\ tx \in [Txs -> Requests \cup {Idle}]
    /\ replies \subseteq [req : Requests, result : Results]

Init ==
    /\ commits = <<>>
    /\ head = NoCommit
    /\ headVersion = 0
    /\ deleted = FALSE
    /\ lastSeq = [d \in Devices |-> 0]
    /\ cursor = [d \in Devices |-> [seen |-> NoCommit, checkpoint |-> NoCommit]]
    /\ available = {}
    /\ requests = {}
    /\ tx = [t \in Txs |-> Idle]
    /\ replies = {}

-----------------------------------------------------------------------------
\* A client composes a commit on a head that the server has returned to it.
Compose(r) ==
    /\ Cardinality(requests) < MaxRequests
    /\ r.expected \in PublishedIds \cup {NoCommit}
    /\ requests' = requests \cup {r}
    /\ UNCHANGED <<commits, head, headVersion, deleted, lastSeq, cursor,
                   available, tx, replies>>

Reply(t, r, result) ==
    /\ tx' = [tx EXCEPT ![t] = Idle]
    /\ replies' = replies \cup {[req |-> r, result |-> result]}

\* commitMatchesPayload: a commit id that is already taken is confirmed only if
\* the stored row has the payload and the signature of the request.
commitMatchesPayload_Ignored(r) == TRUE
commitMatchesPayload(r) == r \in Rows

AnswerExisting(r) == IF commitMatchesPayload(r) THEN "ok" ELSE "refused"

\* The part of PublishCommit that runs before the workspace row is locked.
PublishBegin(t, r) ==
    /\ tx[t] = Idle
    /\ r \in requests
    /\ \/ /\ deleted \/ r.body \in r.refs
          /\ Reply(t, r, "refused")
       \/ /\ ~deleted /\ r.body \notin r.refs /\ r.id \in PublishedIds
          /\ Reply(t, r, AnswerExisting(r))
       \/ /\ ~deleted /\ r.body \notin r.refs /\ r.id \notin PublishedIds
          /\ tx' = [tx EXCEPT ![t] = r]
          /\ UNCHANGED replies
    /\ UNCHANGED <<commits, head, headVersion, deleted, lastSeq, cursor,
                   available, requests>>

\* GetSyncWorkspaceForUpdate finds the row: the workspace is still there.
WorkspaceLocked_Stale == TRUE
WorkspaceLocked == ~deleted

\* The second lookup of the commit id, under the lock.
FoundUnderLock_Skipped(r) == FALSE
FoundUnderLock(r) == r.id \in PublishedIds

HeadMatches_Unchecked(r) == TRUE
HeadMatches(r) == r.expected = head

validateParents(r) ==
    /\ CASE r.kind = "checkpoint" ->
                r.parents = IF r.expected = NoCommit THEN {} ELSE {r.expected}
         [] r.kind = "incremental" ->
                r.expected # NoCommit /\ r.parents = {r.expected}
         [] r.kind = "merge" ->
                /\ r.expected \in r.parents
                /\ Cardinality(r.parents) >= 2
    /\ r.parents \subseteq PublishedIds

validateCommitObjects(r) ==
    /\ r.body \in BodyObjects \cap available
    /\ r.refs \subseteq available \ BodyObjects
    /\ r.kind = "checkpoint" => r.refs \cap CheckpointPacks # {}

SeqIsNew_OffByOne(r) == r.seq >= lastSeq[r.author]
SeqIsNew(r) == r.seq > lastSeq[r.author]

\* The checks of PublishCommit on a request that is new and on the head.
Acceptable(r) ==
    SeqIsNew(r) /\ r.authentic /\ validateParents(r) /\ validateCommitObjects(r)

\* UpsertSyncDeviceCursor: the checkpoint is kept unless a new one is given.
AdvancedCursor(r, c) ==
    [seen |-> r.id, checkpoint |-> IF r.kind = "checkpoint" THEN r.id ELSE c.checkpoint]

\* UpdateSyncWorkspaceHead
MoveHead(r) == headVersion' = headVersion + 1 /\ head' = r.id

\* PublishCommit under the lock, all checks passed: the rows of the commit, the
\* device, the cursor and the workspace change in one transaction.
PublishCommit(t) ==
    LET r == tx[t] IN
    /\ r # Idle
    /\ WorkspaceLocked /\ ~FoundUnderLock(r) /\ HeadMatches(r) /\ Acceptable(r)
    /\ commits' = Append(commits, r)
    /\ lastSeq' = [lastSeq EXCEPT ![r.author] = r.seq]
    /\ cursor' = [cursor EXCEPT ![r.author] = AdvancedCursor(r, @)]
    /\ MoveHead(r)
    /\ Reply(t, r, "ok")
    /\ UNCHANGED <<deleted, available, requests>>

\* PublishCommit under the lock, returning early.
PublishReturn(t) ==
    LET r == tx[t] IN
    /\ r # Idle
    /\ \/ ~WorkspaceLocked /\ Reply(t, r, "refused")
       \/ WorkspaceLocked /\ FoundUnderLock(r) /\ Reply(t, r, AnswerExisting(r))
       \/ /\ WorkspaceLocked /\ ~FoundUnderLock(r) /\ ~HeadMatches(r)
          /\ Reply(t, r, "head_conflict")
       \/ /\ WorkspaceLocked /\ ~FoundUnderLock(r) /\ HeadMatches(r) /\ ~Acceptable(r)
          /\ Reply(t, r, "refused")
    /\ UNCHANGED <<commits, head, headVersion, deleted, lastSeq, cursor,
                   available, requests>>

\* The transaction is rolled back (a database error, a crash of the server, a
\* client that went away) and its caller gets no answer.
PublishAbort(t) ==
    /\ tx[t] # Idle
    /\ tx' = [tx EXCEPT ![t] = Idle]
    /\ UNCHANGED <<commits, head, headVersion, deleted, lastSeq, cursor,
                   available, requests, replies>>

-----------------------------------------------------------------------------
\* SyncObjects: a batch of uploads is completed.
ObjectsAvailable(S) ==
    /\ S # {} /\ S \cap available = {}
    /\ available' = available \cup S
    /\ UNCHANGED <<logVars, deleted>>

DeleteWorkspace ==
    /\ ~deleted
    /\ deleted' = TRUE
    /\ UNCHANGED <<logVars, available>>

PublishStep ==
    \/ \E r \in Drafts : Compose(r)
    \/ \E t \in Txs : \/ \E r \in requests : PublishBegin(t, r)
                      \/ PublishCommit(t)
                      \/ PublishReturn(t)
                      \/ PublishAbort(t)

Next ==
    \/ PublishStep
    \/ \E S \in SUBSET LogObjects : ObjectsAvailable(S)
    \/ DeleteWorkspace

Spec == Init /\ [][Next]_vars
-----------------------------------------------------------------------------
(* Properties *)

\* The head of the workspace is the commit with the largest server_seq, and
\* head_version counts the commits.  pull_remote_changes refuses a history
\* whose last commit is not the head it was given.
HeadIsLastCommit ==
    /\ head = IF commits = <<>> THEN NoCommit ELSE commits[Len(commits)].id
    /\ headVersion = Len(commits)

\* The compare-and-set on the head makes the history one chain: whatever the
\* interleaving of publishers, every commit names the commit before it both as
\* its expected head and among its parents, and no id occurs twice.
LinearHistory ==
    \A i \in DOMAIN commits :
        /\ commits[i].expected = IF i = 1 THEN NoCommit ELSE commits[i-1].id
        /\ i > 1 => commits[i-1].id \in commits[i].parents
        /\ \A j \in DOMAIN commits : commits[i].id = commits[j].id => i = j

\* A device's sequence numbers strictly increase along the history, and
\* last_device_seq is the number of its newest commit.
DeviceSeqMonotonic ==
    /\ \A i, j \in DOMAIN commits :
          i < j /\ commits[i].author = commits[j].author => commits[i].seq < commits[j].seq
    /\ \A i \in DOMAIN commits : commits[i].seq <= lastSeq[commits[i].author]

\* A head conflict is final.  A client that is told "head_conflict" pulls and
\* publishes the same changes again under a new id; that would apply them twice
\* if a delayed or repeated delivery of the first request could still succeed,
\* or if the refused request had been accepted before.
ConflictIsFinal ==
    \A a \in replies : a.result = "head_conflict" => a.req \notin Rows

\* A request answered with success is in the history with exactly the payload
\* the client sent, however many times it was delivered.
SuccessIsPublished ==
    \A a \in replies : a.result = "ok" => a.req \in Rows

\* Why a head conflict is final: requests are composed on heads that were
\* published, a refused request's head is no longer the current one, and heads
\* never come back because ids are unique.
ConflictIsStale ==
    /\ requests \subseteq Drafts
    /\ \A t \in Txs : tx[t] # Idle => tx[t] \in requests
    /\ \A a \in replies : a.req \in requests
    /\ \A r \in requests : r.expected \in PublishedIds \cup {NoCommit}
    /\ \A a \in replies :
          a.result = "head_conflict" => a.req \notin Rows /\ a.req.expected # head

\* Everything a published commit refers to can be downloaded.
CommitObjectsAvailable ==
    \A r \in Rows : {r.body} \cup r.refs \subseteq available

\* The history only grows, and never after the workspace was deleted.
AppendOnly ==
    [][ /\ \A i \in DOMAIN commits : i \in DOMAIN commits' /\ commits'[i] = commits[i]
        /\ deleted => commits' = commits ]_vars

-----------------------------------------------------------------------------
\* The transactions implement the workspace history the clients rely on.
History == INSTANCE SyncHistory
             WITH Requests <- Drafts, history <- commits, answers <- replies, closed <- deleted
HistorySpec == History!Spec
=============================================================================
