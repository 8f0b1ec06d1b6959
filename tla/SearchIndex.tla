---------------------------- MODULE SearchIndex ----------------------------
(***************************************************************************)
(* The search index of the desktop's vault (search/mod.rs, writer.rs,      *)
(* db.rs, wikilink.rs): the queue of writer jobs, the set of paths with an *)
(* index job under way, the state of the queue of rebuilds, and the one    *)
(* writer thread that reads notes from the disk, stores them in the        *)
(* database and resolves the wikilinks between them.                       *)
(*                                                                         *)
(* A path is the sequence of its names, already normalised; a note is its  *)
(* content and its modification time.  Chunks, titles and the status line  *)
(* are left out: no decision below reads them.                             *)
(***************************************************************************)
EXTENDS Naturals, Sequences, FiniteSets, SequencesExt

CONSTANTS
    Paths,      \* the markdown files of the vault
    Dirs,       \* its directories
    Contents,   \* what a note can say
    LinksOf,    \* the targets of the wikilinks in it
    BatchSize   \* notes a rebuild stores in one transaction (50 in the code)

ASSUME SearchAssumption ==
    /\ Paths \cap Dirs = {} /\ <<>> \notin Paths \cup Dirs
    /\ DOMAIN LinksOf = Contents
    /\ BatchSize \in Nat \ {0}

VARIABLES
    disk,         \* the notes on the disk
    db,           \* the documents and the wikilink references in the database
    jobs,         \* the channel to the writer thread
    pending,      \* pending_index_paths
    rebuild,      \* RebuildQueueState
    writer,       \* what the writer thread is doing
    incremental,  \* IndexerConfig.incremental_updates
    alive,        \* the writer thread could open the database
    failures,     \* errors still to come
    unnoticed,    \* history: notes whose last change nothing will report
    halfway       \* history: the last rebuild failed before it resolved the links

indexVars == <<db, jobs, pending, rebuild, writer, failures, unnoticed, halfway>>
searchVars == <<disk, indexVars, incremental, alive>>

Absent == [content |-> "none", mtime |-> 0]
Exists(p) == disk[p] # Absent
Under(d) == {p \in Paths : IsPrefix(d, p)}
FilesOf(x) == IF x \in Dirs THEN Under(x) ELSE {x}

IndexFile(p) == [kind |-> "index", path |-> p, old |-> p]
RemoveFile(x) == [kind |-> "remove", path |-> x, old |-> x]
RenameFile(p, q) == [kind |-> "rename", path |-> q, old |-> p]
FullRebuild == [kind |-> "rebuild", path |-> <<>>, old |-> <<>>]

Idle == [pc |-> "idle", path |-> <<>>, todo |-> {}, listed |-> {}, batch |-> <<>>]
Rebuilding == writer.pc = "rebuild"

----------------------------------------------------------------------------
(* The database: a document per path with the identity that its references *)
(* and the references to it use.  AUTOINCREMENT gives out fresh identities.*)

NoDoc == [note |-> Absent, uid |-> 0]
Doc(p) == db.docs[p]

FreshUid(d) ==
    LET used == {d.docs[p].uid : p \in Paths} \cup {r.by : r \in d.refs}
                  \cup {r.to : r \in d.refs}
    IN  CHOOSE n \in 1..(Cardinality(used) + 1) : n \notin used

Row(u, p, t) == [by |-> u, from |-> p, target |-> t, to |-> 0, kind |-> "unresolved"]

remove_document(d, p) ==
    [docs |-> [d.docs EXCEPT ![p] = NoDoc],
     refs |-> {r \in d.refs : r.by # d.docs[p].uid}]

\* The references of identity u go, those of a document that another identity
\* had under the same path stay.
replace_document(d, p, u, note) ==
    LET v == IF u = 0 THEN FreshUid(d) ELSE u IN
    [docs |-> [q \in Paths |-> IF q = p THEN [note |-> note, uid |-> v]
                               ELSE IF d.docs[q].uid = v THEN NoDoc ELSE d.docs[q]],
     refs |-> {r \in d.refs : r.by # u} \cup {Row(v, p, t) : t \in LinksOf[note.content]}]

folder_distance_between ==
    [p \in Paths, q \in Paths |->
       LET a == Front(p)
           b == Front(q)
           same == {n \in 0..Len(a) : n =< Len(b) /\ SubSeq(a, 1, n) = SubSeq(b, 1, n)}
       IN  (Len(a) - Max(same)) + (Len(b) - Max(same))]

\* A target with a folder is a path first; any target is then a base name, that
\* of the closest document, and ambiguous when two are equally close.
resolve_wikilink(d, from, t) ==
    LET docs == {p \in Paths : d.docs[p].uid # 0}
        candidates == {p \in docs : Last(p) = Last(t)}
        closest == {p \in candidates : \A q \in candidates :
                      folder_distance_between[from, p] =< folder_distance_between[from, q]}
        Found(p, kind) == [to |-> d.docs[p].uid, kind |-> kind]
    IN  IF Len(t) > 1 /\ t \in docs THEN Found(t, "exact")
        ELSE IF candidates = {} THEN [to |-> 0, kind |-> "unresolved"]
        ELSE IF Cardinality(closest) > 1 THEN [to |-> 0, kind |-> "ambiguous"]
        ELSE Found(CHOOSE p \in closest : TRUE, "basename")

Resolved(d, r) ==
    LET res == resolve_wikilink(d, r.from, r.target)
    IN  [r EXCEPT !.to = res.to, !.kind = res.kind]

\* The references a change of the documents at these paths may concern are
\* resolved again: their own, those to their paths or base names, and those to
\* their identities.
rereresolve_wikilinks_PathsOnly(d, paths, sources, targets) ==
    LET concerned(r) == r.by \in sources \/ r.target \in paths \/ r.to \in targets
    IN  [d EXCEPT !.refs = {IF concerned(r) THEN Resolved(d, r) ELSE r : r \in d.refs}]

rereresolve_wikilinks(d, paths, sources, targets) ==
    LET concerned(r) ==
          \/ r.by \in sources
          \/ r.target \in paths
          \/ \E p \in paths : Last(p) = Last(r.target)
          \/ r.to \in targets \ {0}
    IN  [d EXCEPT !.refs = {IF concerned(r) THEN Resolved(d, r) ELSE r : r \in d.refs}]

resolve_all_wikilinks(d) == [d EXCEPT !.refs = {Resolved(d, r) : r \in d.refs}]

\* switch_vault: the index is opened, and out of date and to be rebuilt or
\* (reindex_on_vault_open switched off) trusted.
InitIndex(reindex) ==
    /\ jobs = IF reindex /\ alive THEN <<FullRebuild>> ELSE <<>>
    /\ pending = {}
    /\ rebuild = [queued |-> reindex, running |-> FALSE, rerun |-> FALSE]
    /\ writer = Idle
    /\ LET empty == [docs |-> [p \in Paths |-> NoDoc], refs |-> {}]
           Stored(d, p) == IF reindex
                           THEN replace_document(d, p, 0, [content |-> "y", mtime |-> 0])
                           ELSE IF Exists(p) THEN replace_document(d, p, 0, disk[p]) ELSE d
       IN  db = resolve_all_wikilinks(FoldLeft(Stored, empty, SetToSeq(Paths)))
    /\ unnoticed = {}
    /\ halfway = FALSE

----------------------------------------------------------------------------
(* What the rest of the program calls.                                     *)

Send(job) == jobs' = IF alive THEN Append(jobs, job) ELSE jobs

\* A rebuild that runs is asked to run again; one that is queued is enough.
queue_rebuild ==
    IF rebuild.running
    THEN rebuild' = [rebuild EXCEPT !.rerun = TRUE] /\ UNCHANGED jobs
    ELSE IF rebuild.queued
    THEN UNCHANGED <<rebuild, jobs>>
    ELSE /\ rebuild' = [rebuild EXCEPT !.queued = TRUE]
         /\ Send(FullRebuild)

\* The error of a send to a writer that is gone is the caller's only when the
\* call sends a job of its own: queue_rebuild drops it.
enqueue_index_job_WhileRebuilding(p, ok) ==
    IF rebuild.queued \/ rebuild.running \/ p \in pending
    THEN ok /\ UNCHANGED <<pending, jobs>>
    ELSE /\ ok = alive
         /\ pending' = IF alive THEN pending \cup {p} ELSE pending
         /\ Send(IndexFile(p))

enqueue_index_job(p, ok) ==
    IF (rebuild.queued /\ ~rebuild.running) \/ p \in pending
    THEN ok /\ UNCHANGED <<pending, jobs>>
    ELSE /\ ok = alive
         /\ pending' = IF alive THEN pending \cup {p} ELSE pending
         /\ Send(IndexFile(p))

\* A directory is not a markdown path: nothing is queued for it.
notify_written(x, ok) ==
    IF x \notin Paths
    THEN ok /\ UNCHANGED <<pending, jobs, rebuild>>
    ELSE IF incremental
    THEN enqueue_index_job(x, ok) /\ UNCHANGED rebuild
    ELSE ok /\ queue_rebuild /\ UNCHANGED pending

notify_removed(x, ok) ==
    IF incremental
    THEN /\ ok = alive
         /\ pending' = pending \ {x}
         /\ Send(RemoveFile(x))
         /\ UNCHANGED rebuild
    ELSE ok /\ queue_rebuild /\ UNCHANGED pending

notify_renamed(p, q, ok) ==
    IF incremental
    THEN /\ ok = alive
         /\ pending' = pending \ {p, q}
         /\ Send(RenameFile(p, q))
         /\ UNCHANGED rebuild
    ELSE ok /\ queue_rebuild /\ UNCHANGED pending

\* Loading a note into the editor compares modification times and may queue an
\* index job, without entering it in the pending paths.
reconcile_loaded_markdown(p) ==
    /\ IF incremental /\ Exists(p) /\ (Doc(p) = NoDoc \/ disk[p].mtime > Doc(p).note.mtime)
       THEN Send(IndexFile(p))
       ELSE UNCHANGED jobs
    /\ UNCHANGED <<db, pending, rebuild, writer, failures, unnoticed, halfway>>

request_rebuild ==
    /\ queue_rebuild
    /\ UNCHANGED <<db, pending, writer, failures, unnoticed, halfway>>

----------------------------------------------------------------------------
(* The writer thread.                                                      *)

Job(kind) == /\ alive
             /\ writer.pc = "idle"
             /\ jobs # <<>>
             /\ Head(jobs).kind = kind

\* The path leaves the pending set before the note is read, so that a change
\* made after the reading queues a job of its own.
TakeIndexFile ==
    /\ Job("index")
    /\ writer' = [Idle EXCEPT !.pc = "index", !.path = Head(jobs).path]
    /\ jobs' = Tail(jobs)
    /\ pending' = pending \ {Head(jobs).path}
    /\ UNCHANGED <<db, rebuild, failures, unnoticed, halfway>>

\* The note as it is now replaces the document, only its time when it says the
\* same; a note that is gone removes the document.
handle_index_file ==
    /\ writer.pc = "index"
    /\ LET p == writer.path
           u == Doc(p).uid
           same == u # 0 /\ Doc(p).note.content = disk[p].content
       IN  /\ \/ /\ Exists(p) /\ same
                 /\ db' = [db EXCEPT !.docs[p].note = disk[p]]
              \/ /\ Exists(p) /\ ~same
                 /\ \E d \in {replace_document(db, p, u, disk[p])} :
                      db' = rereresolve_wikilinks(d, {p}, {d.docs[p].uid}, {})
              \/ /\ ~Exists(p)
                 /\ \E d \in {remove_document(db, p)} :
                      db' = IF u # 0 THEN rereresolve_wikilinks(d, {p}, {}, {u}) ELSE d
           /\ unnoticed' = unnoticed \ {p}
    /\ writer' = Idle
    /\ UNCHANGED <<jobs, pending, rebuild, failures, halfway>>

IndexFileFails ==
    /\ writer.pc = "index"
    /\ failures > 0
    /\ failures' = failures - 1
    /\ unnoticed' = unnoticed \cup {writer.path}
    /\ writer' = Idle
    /\ UNCHANGED <<db, jobs, pending, rebuild, halfway>>

RebuildQueuedByWriter ==
    /\ rebuild' = [rebuild EXCEPT !.queued = TRUE]
    /\ jobs' = Tail(jobs) \o (IF rebuild.queued THEN <<>> ELSE <<FullRebuild>>)
    /\ UNCHANGED <<db, unnoticed>>

\* The document goes whether or not the note is on the disk again by now.
handle_remove_file ==
    /\ Job("remove")
    /\ LET x == Head(jobs).path IN
       IF x \in Dirs
       THEN RebuildQueuedByWriter
       ELSE /\ \E d \in {remove_document(db, x)} :
                 db' = rereresolve_wikilinks(d, {x}, {}, {Doc(x).uid})
            /\ unnoticed' = IF Exists(x) THEN unnoticed \cup {x} ELSE unnoticed \ {x}
            /\ jobs' = Tail(jobs)
            /\ UNCHANGED rebuild
    /\ UNCHANGED <<pending, writer, failures, halfway>>

\* The note under the new path takes over the identity of the old one.  A rename
\* whose first half was a directory queues a rebuild; one whose second half is a
\* directory has no note to read.
handle_rename_file ==
    /\ Job("rename")
    /\ LET p == Head(jobs).old
           q == Head(jobs).path
           u == Doc(p).uid
           read == q \in Paths /\ Exists(q)
       IN  IF p \in Dirs
           THEN RebuildQueuedByWriter
           ELSE /\ \E removed \in {remove_document(db, p)} :
                     IF read
                     THEN \E d \in {replace_document(removed, q, u, disk[q])} :
                            db' = rereresolve_wikilinks(d, {p, q}, {d.docs[q].uid}, {d.docs[q].uid, u})
                     ELSE db' = rereresolve_wikilinks(removed, {p, q}, {}, {u})
                /\ unnoticed' = (unnoticed \ ({p} \cup {r \in {q} : read}))
                                  \cup {r \in {p} : Exists(r)}
                /\ jobs' = Tail(jobs)
                /\ UNCHANGED rebuild
    /\ UNCHANGED <<pending, writer, failures, halfway>>

\* The notes are listed once, at the start of the rebuild.
StartRebuild ==
    /\ Job("rebuild")
    /\ jobs' = Tail(jobs)
    /\ rebuild' = [rebuild EXCEPT !.queued = FALSE, !.running = TRUE]
    /\ LET files == {p \in Paths : Exists(p)} IN
       /\ writer' = [Idle EXCEPT !.pc = "rebuild", !.todo = files, !.listed = files]
       /\ unnoticed' = unnoticed \cap files
    /\ UNCHANGED <<db, pending, failures, halfway>>

BatchFull == Len(writer.batch) = BatchSize

RebuildReads ==
    /\ Rebuilding
    /\ writer.todo # {}
    /\ ~BatchFull
    /\ LET p == CHOOSE x \in writer.todo : TRUE
           doc == [path |-> p, uid |-> Doc(p).uid, note |-> disk[p]]
       IN  /\ writer' = [writer EXCEPT !.todo = @ \ {p},
                            !.batch = IF Exists(p) THEN Append(@, doc) ELSE @]
           /\ unnoticed' = IF Exists(p) THEN unnoticed \ {p} ELSE unnoticed
    /\ UNCHANGED <<db, jobs, pending, rebuild, failures, halfway>>

RebuildStores ==
    /\ Rebuilding
    /\ writer.batch # <<>>
    /\ BatchFull \/ writer.todo = {}
    /\ LET Stored(d, doc) == replace_document(d, doc.path, doc.uid, doc.note)
       IN  db' = FoldLeft(Stored, db, writer.batch)
    /\ writer' = [writer EXCEPT !.batch = <<>>]
    /\ UNCHANGED <<jobs, pending, rebuild, failures, unnoticed, halfway>>

\* Documents that were not listed go, all links are resolved, and a rerun that
\* was asked for is queued.
FinishRebuild ==
    /\ Rebuilding
    /\ writer.todo = {}
    /\ writer.batch = <<>>
    /\ \E d \in {FoldLeft(remove_document, db, SetToSeq(Paths \ writer.listed))} :
         db' = resolve_all_wikilinks(d)
    /\ rebuild' = [queued |-> rebuild.rerun, running |-> FALSE, rerun |-> FALSE]
    /\ jobs' = IF rebuild.rerun THEN Append(jobs, FullRebuild) ELSE jobs
    /\ writer' = Idle
    /\ halfway' = FALSE
    /\ UNCHANGED <<pending, failures, unnoticed>>

\* reset_rebuild_state_after_error: the notes of the open batch, and the index
\* jobs dropped in favour of this rebuild or of its rerun, are lost with it.
RebuildFails ==
    /\ Rebuilding
    /\ failures > 0
    /\ failures' = failures - 1
    /\ unnoticed' = Paths
    /\ halfway' = TRUE
    /\ rebuild' = [queued |-> FALSE, running |-> FALSE, rerun |-> FALSE]
    /\ writer' = Idle
    /\ UNCHANGED <<db, jobs, pending>>

WriterStep ==
    \/ TakeIndexFile
    \/ handle_index_file
    \/ IndexFileFails
    \/ handle_remove_file
    \/ handle_rename_file
    \/ StartRebuild
    \/ RebuildReads
    \/ RebuildStores
    \/ FinishRebuild
    \/ RebuildFails

----------------------------------------------------------------------------
(* Properties of the queue.                                                *)

Note == {Absent} \cup [content : Contents, mtime : Nat]

TypeOKIndex ==
    /\ \A p \in Paths : disk[p] \in Note /\ Doc(p).note \in Note
    /\ \A p, q \in Paths : Doc(p).uid = Doc(q).uid => p = q \/ Doc(p).uid = 0
    /\ \A i \in DOMAIN jobs : jobs[i].path \in Paths \cup Dirs \cup {<<>>}
    /\ pending \subseteq Paths
    /\ rebuild \in [queued : BOOLEAN, running : BOOLEAN, rerun : BOOLEAN]
    /\ writer.pc \in {"idle", "index", "rebuild"}
    /\ writer.todo \subseteq writer.listed /\ writer.listed \subseteq Paths
    /\ unnoticed \subseteq Paths
    /\ failures \in Nat

\* Between two jobs every reference is resolved as it would be if all of them
\* were resolved anew: the references that a change leaves alone are those it
\* cannot concern (should_reresolve_row, the ReResolutionPlan of each handler),
\* whatever notes appear, go, move between folders and share base names.
LinksAreCurrent ==
    (~Rebuilding /\ ~halfway) => resolve_all_wikilinks(db) = db

=============================================================================
