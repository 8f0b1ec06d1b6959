----------------------------- MODULE SyncClient -----------------------------
(***************************************************************************)
(* Sync runs of the desktop client (src-tauri/src/sync): run_sync_once     *)
(* pulls (applier.rs), then pushes (checkpoint.rs), and on a head conflict *)
(* pulls again and pushes a merge commit.  The state is, per device, the   *)
(* Markdown files of the vault, the sync database (db.rs) and the run in   *)
(* progress, and on the server the history of commits.                     *)
(*                                                                         *)
(* A run is cut where it awaits the server and where files it has read may *)
(* change before it uses them.  Between two cuts only the device's own     *)
(* database is written; a failure may still strike between two such        *)
(* writes, and the actions say what is then left behind.                   *)
(*                                                                         *)
(* A commit is named by its position in the history, which is linear       *)
(* (SyncCommitLogProofs!HistoryIsLinear), and its objects can always be    *)
(* downloaded (SyncServer!CommitsDownloadable).                            *)
(***************************************************************************)
EXTENDS Naturals, Sequences, FiniteSets

CONSTANTS
    Devices,
    Paths,          \* normalized paths; a file id is the hash of one
    Notes,          \* the paths users create files at
    Lines,          \* positions of the lines of a file
    CopyNames,      \* CopyNames[d]: the names of the conflict copies d makes
    None,           \* no file, no row, no tree entry
    Deletes,        \* whether users delete files
    EditDuringRun,  \* whether users write while a run is in progress
    MaxEdits,       \* bound: edits and deletions by users in a behaviour
    MaxFails,       \* bound: runs cut short by a lost message or a crash
    MaxEvents       \* bound: edits, deletions and cut runs together

Stamps   == 1..MaxEdits
Contents == [Lines -> Stamps]      \* what line l holds: the edit that wrote it
Files    == Contents \cup {None}

ASSUME ClientAssumption ==
    /\ Notes \subseteq Paths
    /\ MaxEdits \in Nat /\ MaxFails \in Nat /\ MaxEvents \in Nat
    /\ Deletes \in BOOLEAN /\ EditDuringRun \in BOOLEAN
    /\ CopyNames \in [Devices -> SUBSET (Paths \ Notes)]
    \* a name holds the path it copies and the second it was made in: two
    \* devices do not copy the same file in the same second
    /\ \A d, e \in Devices : d # e => CopyNames[d] \cap CopyNames[e] = {}

VARIABLES
    fs,         \* fs[d][p]: the file at p in d's vault
    rows,       \* rows[d][p]: row of sync_files, or None
    tree,       \* tree[d][p]: cached tree of the local head, or None
    vault,      \* vault[d]: row of sync_vaults
    run,        \* run[d]: the run in progress
    log,        \* the published commits: [kind, parents, author, seq, ops, tree];
                \* ops maps the paths that change to their content or None
    lastSeq,    \* sync_devices.last_device_seq on the server
    edits,      \* edits and deletions by users so far
    live,       \* <<stamp, line>>s written and not overwritten or deleted by a user
    fails       \* runs cut short so far

server == <<log, lastSeq>>
ghost  == <<edits, live, fails>>
vars   == <<fs, rows, tree, vault, run, log, lastSeq, edits, live, fails>>

Row    == [content : Contents, dirty : BOOLEAN, deleted : BOOLEAN]
Entry  == [at : Nat, content : Contents]

NoRows == [p \in Paths |-> None]
NoTree == [p \in Paths |-> None]
NoOps  == [p \in {} |-> None]

\* Where a run stands.  "idle": none, the last one ended well; "error": none,
\* the last one failed or the app was restarted; "list": GetHead answered, the
\* commits are being listed; "apply" and "persist": the commit at next is applied
\* to the vault, then recorded; "push": the pull is over; "publish": a commit is
\* ready to be sent; "repull": the head moved, pull again.
Stages == {"idle", "error", "list", "apply", "persist", "push", "publish", "repull"}

NoRun == [stage |-> "idle", again |-> FALSE, parent |-> 0, head |-> 0, next |-> 0,
          dirty |-> NoRows, tree |-> NoTree, synced |-> {}, kind |-> "incremental",
          ops |-> NoOps]

\* Types of the files, the rows of sync_files, the vault rows and the runs.
TypeOK ==
    /\ fs \in [Devices -> [Paths -> Files]]
    /\ rows \in [Devices -> [Paths -> Row \cup {None}]]
    /\ \A d \in Devices : \A p \in Paths : tree[d][p] \in Entry \cup {None}
    /\ vault \in [Devices -> [remote : Nat, local : Nat, nextSeq : Nat]]
    /\ \A d \in Devices :
          /\ run[d].stage \in Stages
          /\ run[d].again \in BOOLEAN
          /\ run[d].head \in 0..Len(log)
          /\ run[d].parent \in 0..Len(log)
          /\ run[d].synced \subseteq Paths
    /\ \A i \in DOMAIN log : log[i].author \in Devices /\ DOMAIN log[i].ops \subseteq Paths
    /\ lastSeq \in [Devices -> Nat]
    /\ edits \in 0..MaxEdits
    /\ live \subseteq Stamps \X Lines
    /\ fails \in 0..MaxFails

Init ==
    /\ fs = [d \in Devices |-> [p \in Paths |-> None]]
    /\ rows = [d \in Devices |-> NoRows]
    /\ tree = [d \in Devices |-> NoTree]
    /\ vault = [d \in Devices |-> [remote |-> 0, local |-> 0, nextSeq |-> 1]]
    /\ run = [d \in Devices |-> NoRun]
    /\ log = <<>>
    /\ lastSeq = [d \in Devices |-> 0]
    /\ edits = 0
    /\ live = {}
    /\ fails = 0

MayFail == fails < MaxFails /\ edits + fails < MaxEvents

Running(d) == run[d].stage \notin {"idle", "error"}

\* The pull is over: what the push needs of the run.
Pulled(r)      == [NoRun EXCEPT !.stage = "push", !.again = r.again, !.parent = r.parent]
Finish(d)      == run' = [run EXCEPT ![d] = NoRun]
Abandon(d)     == run' = [run EXCEPT ![d] = [NoRun EXCEPT !.stage = "error"]]

-----------------------------------------------------------------------------
(* The user *)

MayWrite(d) ==
    /\ EditDuringRun \/ ~Running(d)
    /\ edits < MaxEdits /\ edits + fails < MaxEvents

Tokens(content) == IF content = None THEN {} ELSE {<<content[l], l>> : l \in Lines}

\* Creates the note, or changes one line of a file.
Edit(d, p, l) ==
    /\ MayWrite(d)
    /\ edits' = edits + 1
    /\ \/ /\ fs[d][p] = None /\ p \in Notes
          /\ fs' = [fs EXCEPT ![d][p] = [k \in Lines |-> edits']]
          /\ live' = live \cup Tokens(fs'[d][p])
       \/ /\ fs[d][p] # None
          /\ fs' = [fs EXCEPT ![d][p][l] = edits']
          /\ live' = (live \ {<<fs[d][p][l], l>>}) \cup {<<edits', l>>}
    /\ UNCHANGED <<rows, tree, vault, run, server, fails>>

Delete(d, p) ==
    /\ Deletes /\ MayWrite(d)
    /\ edits' = edits + 1
    /\ fs[d][p] # None
    /\ fs' = [fs EXCEPT ![d][p] = None]
    /\ live' = live \ Tokens(fs[d][p])
    /\ UNCHANGED <<rows, tree, vault, run, server, fails>>

-----------------------------------------------------------------------------
(* The sync database *)

\* apply_scan: what the rows become when the vault holds files.
Scanned_NotSticky(old, files) ==
    [p \in Paths |->
        IF files[p] # None
        THEN [content |-> files[p], deleted |-> FALSE,
              dirty |-> old[p] = None \/ old[p].deleted \/ old[p].content # files[p]]
        ELSE old[p]]
Scanned(old, files) ==
    [p \in Paths |->
        IF files[p] # None
        THEN [content |-> files[p],
              dirty   |-> \/ old[p] = None \/ old[p].dirty
                          \/ old[p].deleted \/ old[p].content # files[p],
              deleted |-> FALSE]
        ELSE IF old[p] = None \/ old[p].deleted
             THEN old[p]
             ELSE [old[p] EXCEPT !.dirty = TRUE, !.deleted = TRUE]]

\* apply_scan: the deletions it reports are the ones it records now.
Deletions(old, files) ==
    {p \in Paths : files[p] = None /\ old[p] # None /\ ~old[p].deleted}

\* list_dirty_files
Dirty(r) == [p \in Paths |-> IF r[p] # None /\ r[p].dirty THEN r[p] ELSE None]

\* mark_files_synced
MarkSynced(r, S) ==
    [p \in Paths |-> IF p \in S /\ r[p] # None THEN [r[p] EXCEPT !.dirty = FALSE] ELSE r[p]]

\* clear_dirty_files_matching_head
MatchingHead(r, t) ==
    {p \in Paths :
        /\ r[p] # None
        /\ IF r[p].deleted THEN t[p] = None
           ELSE t[p] # None /\ t[p].content = r[p].content}

\* pending_upload_count: the status of an idle client rescans the vault.  A
\* failed run leaves an error that keeps it away, until the app is restarted.
StatusScan(d) ==
    /\ ~Running(d)
    /\ LET r == Scanned(rows[d], fs[d])
       IN  rows' = [rows EXCEPT ![d] =
                       IF vault[d].local = 0 THEN r
                       ELSE MarkSynced(r, MatchingHead(r, tree[d]))]
    /\ UNCHANGED <<fs, tree, vault, run, server, ghost>>

-----------------------------------------------------------------------------
(* Pull *)

\* The tree after a commit: a checkpoint starts from nothing.
NextTree(old, kind, ops, at) ==
    [p \in Paths |->
        IF p \in DOMAIN ops
        THEN IF ops[p] = None THEN None ELSE [at |-> at, content |-> ops[p]]
        ELSE IF kind = "checkpoint" THEN None ELSE old[p]]

\* GetHead and ensure_pull_vault_record.  begin_sync_run admits one run at a time.
PullHead(d) ==
    /\ ~Running(d) \/ run[d].stage = "repull"
    /\ vault' = [vault EXCEPT ![d].remote = Len(log)]
    /\ run' = [run EXCEPT ![d] = [@ EXCEPT
          !.head = Len(log),
          !.stage = IF log = <<>> THEN "push" ELSE "list"]]
    /\ UNCHANGED <<fs, rows, tree, server, ghost>>

LatestCheckpoint(n) ==
    CHOOSE i \in 1..n : /\ log[i].kind = "checkpoint"
                        /\ \A j \in (i + 1)..n : log[j].kind # "checkpoint"

\* select_replay_commits: where the replay starts.
ReplayStart(d) ==
    IF vault[d].local = 0 THEN LatestCheckpoint(run[d].head) ELSE vault[d].local + 1

\* ListCommits, select_replay_commits, refresh_local_scan and the snapshot of the
\* dirty files.  The list must end with the head that GetHead returned before.
PullList(d) ==
    /\ run[d].stage = "list"
    /\ \/ /\ vault[d].local = run[d].head
          /\ run' = [run EXCEPT ![d] = Pulled(@)]
          /\ UNCHANGED rows
       \/ /\ vault[d].local # run[d].head /\ Len(log) # run[d].head
          /\ Abandon(d)
          /\ UNCHANGED rows
       \/ /\ vault[d].local # run[d].head /\ Len(log) = run[d].head
          /\ rows' = [rows EXCEPT ![d] = Scanned(@, fs[d])]
          /\ run' = [run EXCEPT ![d] = [@ EXCEPT
                !.stage = "apply", !.next = ReplayStart(d),
                !.dirty = Dirty(rows'[d]), !.tree = tree[d]]]
    /\ UNCHANGED <<fs, tree, vault, server, ghost>>

\* merge_markdown: line by line; None is MarkdownMergeOutcome::Conflict.
merge_markdown(base, local, remote) ==
    IF \E l \in Lines : local[l] # remote[l] /\ local[l] # base[l] /\ remote[l] # base[l]
    THEN None
    ELSE [l \in Lines |-> IF local[l] = base[l] THEN remote[l] ELSE local[l]]

\* RemoteApplyAction: AppliedRemote is synced, KeptLocalDirty is not.
Applied(content)    == [file |-> content, copy |-> None, synced |-> TRUE]
Kept(local, remote) == [file |-> local, copy |-> remote, synced |-> FALSE]

Merged_AlwaysSynced(m, remote) == Applied(m)
Merged(m, remote) == [file |-> m, copy |-> None, synced |-> m = remote]

\* merge_remote_upsert, or a plain write when the snapshot has no dirty row.
ApplyUpsert(remote, dirty, local, base) ==
    IF dirty = None THEN Applied(remote)
    ELSE IF dirty.deleted \/ base = None THEN Kept(local, remote)
    ELSE LET m == merge_markdown(base.content, local, remote)
         IN  IF m = None THEN Kept(local, remote) ELSE Merged(m, remote)

\* merge_remote_delete: an edited file is kept as a conflict copy.
ApplyDelete_NoCopy(dirty, local) == Applied(None)
ApplyDelete(dirty, local) ==
    IF dirty = None \/ dirty.deleted THEN Applied(None)
    ELSE [Applied(None) EXCEPT !.copy = local]

\* What applying the next commit does to p: the file, the content of a conflict
\* copy of it, and whether it is in sync afterwards.
Effect(d, p) ==
    LET op    == log[run[d].next].ops[p]
        dirty == run[d].dirty[p]
    IN  IF op = None THEN ApplyDelete(dirty, fs[d][p])
        ELSE ApplyUpsert(op, dirty, fs[d][p], run[d].tree[p])

\* read_local_file fails: a file that was dirty is gone.
Unreadable(d) ==
    {p \in DOMAIN log[run[d].next].ops :
        fs[d][p] = None /\ run[d].dirty[p] # None /\ ~run[d].dirty[p].deleted}

\* conflict_copy_relative_path: no such file is there, and there was none before,
\* since the second in the name has just begun.
FreeNames(d) == {q \in CopyNames[d] : fs[d][q] = None /\ rows[d][q] = None}

\* The files of S are written, and for those that need it a conflict copy.  Free
\* names differ in nothing else, so any will do.
WriteFiles(d, S) ==
    LET copied == {p \in S : Effect(d, p).copy # None}
        name   == CHOOSE f \in [copied -> FreeNames(d)] :
                      \A p, q \in copied : p # q => f[p] # f[q]
    IN  /\ Cardinality(copied) <= Cardinality(FreeNames(d))
        /\ fs' = [fs EXCEPT ![d] = [q \in Paths |->
              IF q \in S THEN Effect(d, q).file
              ELSE IF \E p \in copied : name[p] = q
                   THEN Effect(d, CHOOSE p \in copied : name[p] = q).copy
                   ELSE @[q]]]

\* apply_decrypted_commit up to persist_applied_commit.
ApplyCommit(d) ==
    LET c == log[run[d].next] IN
    /\ run[d].stage = "apply"
    /\ Unreadable(d) = {}
    /\ WriteFiles(d, DOMAIN c.ops)
    /\ run' = [run EXCEPT ![d] = [@ EXCEPT
          !.stage = "persist",
          !.synced = {p \in DOMAIN c.ops : Effect(d, p).synced},
          !.tree = NextTree(@, c.kind, c.ops, run[d].next)]]
    /\ UNCHANGED <<rows, tree, vault, server, ghost>>

\* apply_decrypted_commit fails after the operations on S.
ApplyFails(d) ==
    LET c == log[run[d].next] IN
    /\ run[d].stage = "apply"
    /\ \/ Unreadable(d) # {} /\ UNCHANGED fails
       \/ MayFail /\ fails' = fails + 1
    /\ \E S \in SUBSET (DOMAIN c.ops \ Unreadable(d)) : WriteFiles(d, S)
    /\ Abandon(d)
    /\ UNCHANGED <<rows, tree, vault, server, edits, live>>

TreeIdValid(d) == run[d].tree = log[run[d].next].tree

\* persist_applied_commit: the vault is scanned again, the files in sync are
\* marked, and the commit becomes the local head.
Persist(d) ==
    LET n == run[d].next IN
    /\ run[d].stage = "persist" /\ TreeIdValid(d)
    /\ tree' = [tree EXCEPT ![d] = run[d].tree]
    /\ rows' = [rows EXCEPT ![d] = MarkSynced(Scanned(@, fs[d]), run[d].synced)]
    /\ vault' = [vault EXCEPT ![d].remote = n, ![d].local = n]
    /\ run' = [run EXCEPT ![d] =
          IF n = run[d].head THEN Pulled(@)
          ELSE [@ EXCEPT !.stage = "apply", !.next = n + 1, !.synced = {}]]
    /\ UNCHANGED <<fs, server, ghost>>

\* persist_applied_commit fails before the local head moves: at the tree id, or
\* with the rows scanned, or scanned and marked.
PersistFails(d) ==
    LET scan == Scanned(rows[d], fs[d]) IN
    /\ run[d].stage = "persist"
    /\ TreeIdValid(d) => MayFail
    /\ fails' = IF TreeIdValid(d) THEN fails + 1 ELSE fails
    /\ \E r \in IF TreeIdValid(d) THEN {rows[d], scan, MarkSynced(scan, run[d].synced)}
               ELSE {rows[d]} :
          rows' = [rows EXCEPT ![d] = r]
    /\ Abandon(d)
    /\ UNCHANGED <<fs, tree, vault, server, edits, live>>

-----------------------------------------------------------------------------
(* Push *)

\* The file operations a push plans from the scanned rows.
Plan(kind, old, files) ==
    LET scan    == Scanned(old, files)
        upserts == {p \in Paths : files[p] # None /\ (kind = "checkpoint" \/ scan[p].dirty)}
        gone    == IF kind = "checkpoint" THEN {} ELSE Deletions(old, files)
    IN  [p \in upserts \cup gone |-> files[p]]

\* push_local_changes, and push_merge_commit after a head conflict unless the run
\* began with no local head.
IsMerge(d) == run[d].again /\ run[d].parent # 0

\* ensure_local_head_can_push and ensure_merge_parent_can_push
CanPush(d) ==
    /\ log # <<>> => vault[d].local = Len(log)
    /\ IsMerge(d) => log # <<>> /\ run[d].parent # Len(log)

\* GetHead, the checks, the scan and the plan, up to the upload of the objects.
PushPlan(d) ==
    LET h    == Len(log)
        kind == IF IsMerge(d) THEN "merge"
                ELSE IF h = 0 THEN "checkpoint" ELSE "incremental"
        ops  == Plan(kind, rows[d], fs[d])
    IN
    /\ run[d].stage = "push"
    /\ vault' = [vault EXCEPT ![d].remote = IF IsMerge(d) THEN h ELSE @]
    /\ \/ ~CanPush(d) /\ Abandon(d) /\ UNCHANGED rows
       \/ /\ CanPush(d)
          /\ rows' = [rows EXCEPT ![d] = Scanned(@, fs[d])]
          /\ IF DOMAIN ops = {} THEN Finish(d)
             ELSE run' = [run EXCEPT ![d] = [@ EXCEPT
                     !.stage = "publish", !.head = h, !.kind = kind, !.ops = ops,
                     !.parent = IF run[d].again THEN @ ELSE vault[d].local,
                     !.tree = NextTree(IF h = 0 THEN NoTree ELSE tree[d], kind, ops, h + 1)]]
    /\ UNCHANGED <<fs, tree, server, ghost>>

Request(d) ==
    LET r == run[d] IN
    [kind |-> r.kind, author |-> d, seq |-> vault[d].nextSeq, ops |-> r.ops, tree |-> r.tree,
     parents |-> IF r.head = 0 THEN {} ELSE IF r.kind = "merge" THEN {r.head, r.parent}
                 ELSE {r.head}]

\* What PublishCommit of the server answers (SyncCommitLog!PublishCommit).
HeadMatches(d) == run[d].head = Len(log)
SeqIsNew(d)    == vault[d].nextSeq > lastSeq[d]

Accept(d) ==
    /\ run[d].stage = "publish" /\ HeadMatches(d) /\ SeqIsNew(d)
    /\ log' = Append(log, Request(d))
    /\ lastSeq' = [lastSeq EXCEPT ![d] = vault[d].nextSeq]

\* update_vault_after_publish
Published(v, n) == [remote |-> n, local |-> n, nextSeq |-> v.nextSeq + 1]

\* The commit is accepted and apply_publish_success records it.
Publish(d) ==
    LET n == run[d].head + 1 IN
    /\ Accept(d)
    /\ tree' = [tree EXCEPT ![d] = run[d].tree]
    /\ rows' = [rows EXCEPT ![d] = MarkSynced(@, DOMAIN run[d].ops)]
    /\ vault' = [vault EXCEPT ![d] = Published(@, n)]
    /\ Finish(d)
    /\ UNCHANGED <<fs, ghost>>

\* The commit is accepted; the answer is lost, or apply_publish_success stops
\* before the vault row is updated.
PublishUnrecorded_HeadFirst(d) ==
    /\ MayFail /\ fails' = fails + 1
    /\ Accept(d)
    /\ vault' = [vault EXCEPT ![d] = Published(@, run[d].head + 1)]
    /\ Abandon(d)
    /\ UNCHANGED <<fs, rows, tree, edits, live>>
PublishUnrecorded(d) ==
    /\ MayFail /\ fails' = fails + 1
    /\ Accept(d)
    /\ \E r \in {rows[d], MarkSynced(rows[d], DOMAIN run[d].ops)} :
          rows' = [rows EXCEPT ![d] = r]
    /\ Abandon(d)
    /\ UNCHANGED <<fs, tree, vault, edits, live>>

\* A head conflict sends the run back to the pull, once.
PublishConflict(d) ==
    /\ run[d].stage = "publish" /\ ~HeadMatches(d)
    /\ IF run[d].again THEN Abandon(d)
       ELSE run' = [run EXCEPT ![d] = [NoRun EXCEPT
               !.stage = "repull", !.again = TRUE, !.parent = run[d].parent]]
    /\ UNCHANGED <<fs, rows, tree, vault, server, ghost>>

\* ErrDuplicateDeviceSeq
PublishRefused(d) ==
    /\ run[d].stage = "publish" /\ HeadMatches(d) /\ ~SeqIsNew(d)
    /\ Abandon(d)
    /\ UNCHANGED <<fs, rows, tree, vault, server, ghost>>

\* A request or an answer is lost at an await, or the app is closed.
RunFails(d) ==
    /\ Running(d)
    /\ MayFail /\ fails' = fails + 1
    /\ Abandon(d)
    /\ UNCHANGED <<fs, rows, tree, vault, server, edits, live>>

-----------------------------------------------------------------------------
RunStep(d) ==
    \/ PullHead(d) \/ PullList(d) \/ ApplyCommit(d) \/ ApplyFails(d)
    \/ Persist(d) \/ PersistFails(d) \/ PushPlan(d) \/ Publish(d)
    \/ PublishConflict(d) \/ PublishRefused(d)

Next ==
    \E d \in Devices :
        \/ \E p \in Paths : Delete(d, p) \/ \E l \in Lines : Edit(d, p, l)
        \/ StatusScan(d)
        \/ RunStep(d)
        \/ PublishUnrecorded(d) \/ RunFails(d)

Spec == Init /\ [][Next]_vars

\* A run goes on once begun, and the user presses Sync Now on every device again
\* and again.
FairSpec == Spec /\ \A d \in Devices : WF_vars(RunStep(d))

-----------------------------------------------------------------------------
(* Properties *)

Holds(d) == UNION {Tokens(fs[d][p]) : p \in Paths}

\* No sync step loses what a user wrote: a line that no user replaced or deleted
\* is still in some device's vault, in its file or in a conflict copy, whatever
\* merges, conflicts and remote deletions the runs applied.
NoEditLost == \A t \in live : \E d \in Devices : t \in Holds(d)

\* The tree of the first n commits: the last one that decides on p says what p is.
ReplayTree(n) ==
    [p \in Paths |->
        LET deciding == {i \in 1..n : p \in DOMAIN log[i].ops \/ log[i].kind = "checkpoint"}
            last     == CHOOSE i \in deciding : \A j \in deciding : j <= i
        IN  IF deciding = {} \/ p \notin DOMAIN log[last].ops \/ log[last].ops[p] = None
            THEN None
            ELSE [at |-> last, content |-> log[last].ops[p]]]

\* The tree a push signs and the trees clients cache are what replaying the
\* history yields, so that validate_tree_id never stops a pull.
TreesReplay ==
    /\ \A n \in DOMAIN log : log[n].tree = ReplayTree(n)
    /\ \A d \in Devices : vault[d].local <= Len(log) /\ tree[d] = ReplayTree(vault[d].local)

\* The device has seen the file at p disappear.
SeenDeleted(d, p) == rows[d][p] # None /\ rows[d][p].deleted

\* After a run that ended well, a row that is clean agrees with the tree of the
\* local head: nothing that still has to be pushed counts as pushed.  A row of a
\* deleted file may not: a pull that applies another device's deletion of the file
\* marks it clean and skips a re-creation that comes later in the same pull.
CleanIsPublished ==
    \A d \in Devices : run[d].stage = "idle" =>
        \A p \in Paths : rows[d][p] # None /\ ~rows[d][p].dirty /\ ~SeenDeleted(d, p)
            => p \in MatchingHead(rows[d], tree[d])

\* A run that ends well leaves the vault equal to the tree of the local head:
\* every local change was published and every remote change was applied.  A local
\* deletion may not have been: the push reports the deletions its own scan sees
\* first, and a status scan or the scan of the pull may have seen it before.
CompletedRunIsSynced ==
    [][\A d \in Devices : Running(d) /\ run'[d].stage = "idle" =>
          \A p \in Paths : \/ SeenDeleted(d, p)
                            \/ fs'[d][p] = IF tree'[d][p] = None THEN None
                                           ELSE tree'[d][p].content]_vars

\* A run that ends well has published the deletions as well.
DeletionsArePublished ==
    [][\A d \in Devices : Running(d) /\ run'[d].stage = "idle" =>
          \A p \in Paths : fs'[d][p] = None => tree'[d][p] = None]_vars

\* Once users stop editing, all vaults become equal, and stay so.
Convergence == <>[](\A d, e \in Devices : fs[d] = fs[e])
=============================================================================
