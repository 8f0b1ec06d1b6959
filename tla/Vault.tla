------------------------------- MODULE Vault -------------------------------
(***************************************************************************)
(* A vault open in the desktop: the commands that change its files         *)
(* (vault/commands.rs), the ledger by which the program recognises its own *)
(* changes when the watcher reports them (vault/watcher.rs), the watcher   *)
(* thread, an editor tab that saves through the checksum command           *)
(* (document_sessions.ts), other programs that change the same files, and  *)
(* the index that has to follow (SearchIndex).                             *)
(*                                                                         *)
(* A checksum is the content it is computed from.  Paths differ by more    *)
(* than their case, and the kind of a path is known.                       *)
(***************************************************************************)
EXTENDS SearchIndex

CONSTANTS
    DocPath,    \* the note open in the editor
    RaceFiles,  \* others may change it between the check and the write of a save
    StormLimit, \* reports a second that are followed one by one (100 in the code)
    Budgets     \* the instances: how much may happen, on which platform

VARIABLES
    raw,       \* events of the file system that the watcher has yet to receive
    ledger,    \* ExpectedMutationLedger, oldest entry first
    lastId,    \* its next_id
    slot,      \* the watcher's pending rename
    found,     \* reports on their way from the watcher to the index
    storm,     \* reports counted in the current second
    watching,  \* the watcher thread has been started
    cmd,       \* a vault command under way, other than the editor's save
    doc,       \* the editor tab
    clock,     \* modification times given out
    foreign,   \* history: someone else changed the open note since its last save
    budget

vaultVars == <<raw, ledger, lastId, slot, found, storm, watching, cmd, doc, clock,
               foreign, budget>>
vars == <<searchVars, vaultVars>>

NoSlot == [path |-> <<>>, lapsed |-> FALSE, by |-> 0]
NoCmd == [pc |-> "idle", kind |-> "none", path |-> <<>>, to |-> <<>>, content |-> "none",
          token |-> 0]

\* vault_open has switched the index to the vault and is about to start the
\* watcher.
Init ==
    /\ budget \in Budgets
    /\ disk = [p \in Paths |-> IF p \in budget.files THEN [content |-> "x", mtime |-> 1]
                               ELSE Absent]
    /\ alive = budget.alive
    /\ InitIndex(budget.reindex)
    /\ incremental = budget.incremental
    /\ failures = budget.failures
    /\ raw = <<>>
    /\ ledger = <<>>
    /\ lastId = 0
    /\ slot = NoSlot
    /\ found = <<>>
    /\ storm = 0
    /\ watching = FALSE
    /\ cmd = NoCmd
    /\ doc = [text |-> "x", base |-> "x", pc |-> "idle", snap |-> "x", token |-> 0,
              dirty |-> FALSE, waiting |-> FALSE, outcome |-> "none"]
    /\ clock = 1
    /\ foreign = FALSE

Spend(field) == /\ budget[field] > 0
                /\ budget' = [budget EXCEPT ![field] = @ - 1]

----------------------------------------------------------------------------
(* The file system and what it reports (the notify crate).  by is the      *)
(* ledger entry of the change, 0 for a change by another program.          *)

Raw(kind, x, old, by) == [kind |-> kind, path |-> x, old |-> old, by |-> by]

NewNote(c) == [content |-> c, mtime |-> clock + 1]
Changes(S) == /\ clock' = clock + 1
              /\ foreign' = (foreign \/ DocPath \in S)

\* While the watcher is not started nothing is reported.
Report(events, S) ==
    IF watching
    THEN raw' = raw \o events /\ UNCHANGED unnoticed
    ELSE unnoticed' = unnoticed \cup S /\ UNCHANGED raw

WriteNote(p, c, by) ==
    /\ disk' = [disk EXCEPT ![p] = NewNote(c)]
    /\ Report(<<Raw(IF Exists(p) THEN "modify" ELSE "create", p, p, by)>>, {p})

RemoveFiles(x, by) ==
    LET there == SetToSeq({p \in FilesOf(x) : Exists(p)})
        removed == IF x \in Dirs THEN Append(there, x) ELSE there
    IN
    /\ disk' = [p \in Paths |-> IF p \in FilesOf(x) THEN Absent ELSE disk[p]]
    /\ Report([i \in DOMAIN removed |-> Raw("remove", removed[i], removed[i], by)], FilesOf(x))

\* Out of the vault, or into a directory that the watcher ignores.
MoveOut(x, by) ==
    /\ disk' = [p \in Paths |-> IF p \in FilesOf(x) THEN Absent ELSE disk[p]]
    /\ Report(<<Raw(IF budget.inotify THEN "from" ELSE "any", x, x, by)>>, FilesOf(x))

MoveIn(x, c) ==
    /\ disk' = [p \in Paths |-> IF p \in FilesOf(x) THEN NewNote(c) ELSE disk[p]]
    /\ Report(<<Raw(IF budget.inotify THEN "to" ELSE "any", x, x, 0)>>, FilesOf(x))

\* inotify reports both halves and then the pair; FSEvents reports two paths.
RenameNote(p, q, by) ==
    /\ disk' = [disk EXCEPT ![p] = Absent, ![q] = disk[p]]
    /\ Report(IF budget.inotify
              THEN <<Raw("from", p, p, by), Raw("to", q, q, by), Raw("both", q, p, by)>>
              ELSE <<Raw("any", p, p, by), Raw("any", q, q, by)>>, {p, q})

\* Whether x may be changed by someone else now.
Free(S) == RaceFiles \/ doc.pc # "write" \/ DocPath \notin S

External ==
    /\ Spend("external")
    /\ \/ \E p \in budget.paths, c \in Contents :
            /\ "write" \in budget.kinds
            /\ Free({p})
            /\ disk[p].content # c
            /\ WriteNote(p, c, 0)
            /\ Changes({p})
       \/ \E x \in budget.paths \cup Dirs :
            /\ \E p \in FilesOf(x) : Exists(p)
            /\ Free(FilesOf(x))
            /\ \/ "remove" \in budget.kinds /\ RemoveFiles(x, 0)
               \/ "out" \in budget.kinds /\ MoveOut(x, 0)
            /\ Changes(FilesOf(x))
       \/ \E x \in budget.paths \cup Dirs, c \in Contents :
            /\ "in" \in budget.kinds
            /\ \A p \in FilesOf(x) : ~Exists(p)
            /\ Free(FilesOf(x))
            /\ MoveIn(x, c)
            /\ Changes(FilesOf(x))
       \/ \E p, q \in budget.paths :
            /\ "rename" \in budget.kinds
            /\ p # q
            /\ Exists(p)
            /\ Free({p, q})
            /\ RenameNote(p, q, 0)
            /\ Changes({p, q})
    /\ UNCHANGED <<db, jobs, pending, rebuild, writer, failures, halfway, incremental, alive,
                   ledger, lastId, slot, found, storm, watching, cmd, doc>>

----------------------------------------------------------------------------
(* The ledger of expected changes.                                         *)

Record(kind, x, old) ==
    /\ ledger' = Append(ledger, [id |-> lastId + 1, kind |-> kind, path |-> x, old |-> old])
    /\ lastId' = lastId + 1

Cancel(token) == ledger' = SelectSeq(ledger, LAMBDA e : e.id # token)

expected_mutation_matches_event(e, event) ==
    CASE e.kind = "write" ->
           event.kind \in {"create", "modify"} /\ e.path = event.path
      [] e.kind = "delete" ->
           \/ event.kind = "delete" /\ e.path = event.path
           \/ event.kind = "rename" /\ e.path = event.old
      [] e.kind = "rename" ->
           /\ e.path = event.path
           /\ \/ event.kind \in {"create", "modify"}
              \/ event.kind = "rename" /\ e.old = event.old

Matches(event) ==
    {i \in DOMAIN ledger : expected_mutation_matches_event(ledger[i], event)}

\* The first entry that matches is used up, whoever's change it announced.
consume_matching(event) ==
    IF Matches(event) = {} THEN ledger ELSE RemoveAt(ledger, Min(Matches(event)))

\* An entry is two seconds old.
EntryExpires ==
    /\ ledger # <<>>
    /\ Spend("expiries")
    /\ ledger' = Tail(ledger)
    /\ UNCHANGED <<searchVars, raw, lastId, slot, found, storm, watching, cmd, doc, clock,
                   foreign>>

----------------------------------------------------------------------------
(* The watcher thread.                                                     *)

FileChange(kind, x, old, by) == [kind |-> kind, path |-> x, old |-> old, by |-> by]

StartWatching ==
    /\ ~watching
    /\ watching' = TRUE
    /\ UNCHANGED <<searchVars, raw, ledger, lastId, slot, found, storm, cmd, doc, clock,
                   foreign, budget>>

\* The report of a raw event; the second half of a rename completes the first.
map_event(e) ==
    CASE e.kind \in {"create", "modify"} -> FileChange(e.kind, e.path, e.path, e.by)
      [] e.kind = "any" -> FileChange("modify", e.path, e.path, e.by)
      [] e.kind = "remove" -> FileChange("delete", e.path, e.path, e.by)
      [] e.kind = "both" -> FileChange("rename", e.path, e.old, e.by)
      [] e.kind = "to" -> IF slot = NoSlot
                          THEN FileChange("create", e.path, e.path, e.by)
                          ELSE FileChange("rename", e.path, slot.path, e.by)

\* A report that an entry of the ledger does not hold back goes to the index.
\* A report is lost when the entry was another change's, when the one slot for
\* a pending rename is taken by the next, and when it names a new directory.
Watch(event, next) ==
    LET held == Matches(event) # {}
        other == held /\ ledger[Min(Matches(event))].id # event.by
        folder == event.path \in Dirs /\ event.old \in Paths \cup {event.path}
                    /\ event.kind # "delete"
    IN  /\ found' = IF held THEN <<>> ELSE <<event>>
        /\ ledger' = consume_matching(event)
        /\ slot' = next
        /\ unnoticed' = unnoticed
             \cup (IF other THEN FilesOf(event.path) \cup FilesOf(event.old) ELSE {})
             \cup (IF folder THEN Under(event.path) ELSE {})

WatchEvent ==
    /\ watching
    /\ found = <<>>
    /\ raw # <<>>
    /\ ~slot.lapsed
    /\ raw' = Tail(raw)
    /\ IF Head(raw).kind = "from"
       THEN /\ slot' = [path |-> Head(raw).path, lapsed |-> FALSE, by |-> Head(raw).by]
            /\ unnoticed' = unnoticed \cup (IF slot = NoSlot THEN {} ELSE FilesOf(slot.path))
            /\ UNCHANGED <<found, ledger>>
       ELSE Watch(map_event(Head(raw)), IF Head(raw).kind = "to" THEN NoSlot ELSE slot)
    /\ UNCHANGED <<disk, db, jobs, pending, rebuild, writer, failures, halfway, incremental, alive,
                   lastId, storm, watching, cmd, doc, clock, foreign, budget>>

\* The half of a rename whose other half has not come for 600 ms is a deletion,
\* found out before the next event or when the watcher has waited in vain.
SlotLapses ==
    /\ slot # NoSlot
    /\ ~slot.lapsed
    /\ slot' = [slot EXCEPT !.lapsed = TRUE]
    /\ UNCHANGED <<searchVars, raw, ledger, lastId, found, storm, watching, cmd, doc, clock,
                   foreign, budget>>

maybe_cleanup_pending_OnEvent ==
    /\ raw # <<>>
    /\ found = <<>>
    /\ slot.lapsed
    /\ Watch(FileChange("delete", slot.path, slot.path, slot.by), NoSlot)
    /\ UNCHANGED <<disk, db, jobs, pending, rebuild, writer, failures, halfway, incremental, alive,
                   raw, lastId, storm, watching, cmd, doc, clock, foreign, budget>>

maybe_cleanup_pending ==
    /\ found = <<>>
    /\ slot.lapsed
    /\ Watch(FileChange("delete", slot.path, slot.path, slot.by), NoSlot)
    /\ UNCHANGED <<disk, db, jobs, pending, rebuild, writer, failures, halfway, incremental, alive,
                   raw, lastId, storm, watching, cmd, doc, clock, foreign, budget>>

\* handle_search_event and handle_watcher_event: too many reports in a second
\* are answered by one rebuild.  The watcher ignores the answer of the index.
handle_search_event ==
    /\ found # <<>>
    /\ found' = <<>>
    /\ LET e == Head(found)
           written == e.kind \in {"create", "modify"}
           counted == written /\ e.path \in Paths
       IN  \E second \in {storm, 0}, ok \in BOOLEAN :
             /\ storm' = IF counted /\ second < StormLimit THEN second + 1 ELSE second
             /\ IF counted /\ second = StormLimit
                THEN ok /\ queue_rebuild /\ UNCHANGED pending
                ELSE CASE written -> notify_written(e.path, ok)
                       [] e.kind = "delete" -> notify_removed(e.path, ok)
                       [] e.kind = "rename" -> notify_renamed(e.old, e.path, ok)
    /\ UNCHANGED <<disk, db, writer, failures, unnoticed, halfway, incremental, alive,
                   raw, ledger, lastId, slot, watching, cmd, doc, clock, foreign, budget>>

----------------------------------------------------------------------------
(* Vault commands: what is about to change is recorded, the file system    *)
(* changed, and the index told.  An error takes the record back.           *)

unindexed == <<db, writer, failures, halfway, incremental, alive>>

\* vault_write_text, vault_delete and vault_rename up to the record.
BeginCommand ==
    /\ cmd.pc = "idle"
    /\ Spend("commands")
    /\ \/ \E p \in budget.paths, c \in Contents :
            /\ "write" \in budget.calls
            /\ Record("write", p, p)
            /\ cmd' = [NoCmd EXCEPT !.pc = "do", !.kind = "write", !.path = p, !.content = c,
                                    !.token = lastId + 1]
       \/ \E x \in budget.paths \cup Dirs, kind \in {"delete", "trash"} :
            /\ kind \in budget.calls
            /\ x \in Dirs => \E p \in Under(x) : Exists(p)
            /\ LET there == \E p \in FilesOf(x) : Exists(p) IN
               /\ IF there THEN Record("delete", x, x) ELSE UNCHANGED <<ledger, lastId>>
               /\ cmd' = [NoCmd EXCEPT !.pc = IF there THEN "do" ELSE "notify", !.kind = kind,
                            !.path = x, !.token = IF there THEN lastId + 1 ELSE 0]
       \/ \E p, q \in budget.paths :
            /\ "rename" \in budget.calls
            /\ p # q
            /\ Exists(p)
            /\ Record("rename", q, p)
            /\ cmd' = [NoCmd EXCEPT !.pc = "do", !.kind = "rename", !.path = p, !.to = q,
                                    !.token = lastId + 1]
    /\ UNCHANGED <<searchVars, raw, slot, found, storm, watching, doc, clock, foreign>>

\* A file that is gone by now makes the deletion or the rename fail.
CommandFails ==
    /\ cmd' = NoCmd
    /\ Cancel(cmd.token)
    /\ UNCHANGED <<disk, raw, unnoticed, clock, foreign>>

DoCommand ==
    /\ cmd.pc = "do"
    /\ LET there == \E p \in FilesOf(cmd.path) : Exists(p)
           touched == FilesOf(cmd.path) \cup ({cmd.to} \cap Paths)
       IN  /\ Free(touched)
           /\ \/ /\ cmd.kind = "write" \/ there
                 /\ CASE cmd.kind = "write" -> WriteNote(cmd.path, cmd.content, cmd.token)
                      [] cmd.kind = "delete" -> RemoveFiles(cmd.path, cmd.token)
                      [] cmd.kind = "trash" -> MoveOut(cmd.path, cmd.token)
                      [] cmd.kind = "rename" -> RenameNote(cmd.path, cmd.to, cmd.token)
                 /\ Changes(touched)
                 /\ cmd' = [cmd EXCEPT !.pc = "notify"]
                 /\ UNCHANGED <<ledger, failures>>
              \/ /\ ~there /\ cmd.kind # "write"
                 /\ CommandFails
                 /\ UNCHANGED failures
              \/ /\ failures > 0
                 /\ failures' = failures - 1
                 /\ CommandFails
    /\ UNCHANGED <<db, jobs, pending, rebuild, writer, halfway, incremental, alive,
                   lastId, slot, found, storm, watching, doc, budget>>

\* The index is told after the change; a writer that is gone makes the command
\* fail although the files have changed.
NotifyCommand ==
    /\ cmd.pc = "notify"
    /\ \E ok \in BOOLEAN :
         /\ CASE cmd.kind = "write" -> notify_written(cmd.path, ok)
              [] cmd.kind \in {"delete", "trash"} -> notify_removed(cmd.path, ok)
              [] cmd.kind = "rename" -> notify_renamed(cmd.path, cmd.to, ok)
         /\ IF ok THEN UNCHANGED ledger ELSE Cancel(cmd.token)
    /\ cmd' = NoCmd
    /\ UNCHANGED <<unindexed, disk, unnoticed, raw, lastId, slot, found, storm, watching, doc,
                   clock, foreign, budget>>

----------------------------------------------------------------------------
(* The editor tab: RetainedDocument and vault_write_with_checksum.         *)

unwatched == <<slot, found, storm, watching, cmd>>

Type(c) ==
    /\ c # doc.text
    /\ Spend("edits")
    /\ doc' = [doc EXCEPT !.text = c, !.dirty = TRUE]
    /\ UNCHANGED <<searchVars, raw, ledger, lastId, unwatched, clock, foreign>>

\* Saves of one document queue behind each other.
Save ==
    /\ Spend("saves")
    /\ IF doc.pc = "idle"
       THEN doc' = [doc EXCEPT !.pc = "plan", !.snap = doc.text]
       ELSE doc' = [doc EXCEPT !.waiting = TRUE]
    /\ UNCHANGED <<searchVars, raw, ledger, lastId, unwatched, clock, foreign>>

\* The save is over; one that was queued behind it starts.
EndSave(d, outcome) ==
    doc' = [d EXCEPT !.outcome = outcome, !.token = 0, !.waiting = FALSE,
                     !.pc = IF d.waiting THEN "plan" ELSE "idle", !.snap = d.text]

\* plan_checksum_write: content that is there already is reported as written,
\* content that is not the one the tab started from is a conflict.
PlanSave ==
    /\ doc.pc = "plan"
    /\ LET current == disk[DocPath].content IN
       IF ~Exists(DocPath)
       THEN EndSave(doc, "error") /\ UNCHANGED <<ledger, lastId, foreign>>
       ELSE IF current = doc.snap
       THEN /\ doc' = [doc EXCEPT !.pc = "answer"]
            /\ foreign' = FALSE
            /\ UNCHANGED <<ledger, lastId>>
       ELSE IF current # doc.base
       THEN EndSave(doc, "conflict") /\ UNCHANGED <<ledger, lastId, foreign>>
       ELSE /\ Record("write", DocPath, DocPath)
            /\ doc' = [doc EXCEPT !.pc = "write", !.token = lastId + 1]
            /\ UNCHANGED foreign
    /\ UNCHANGED <<searchVars, raw, unwatched, clock, budget>>

WriteSave ==
    /\ doc.pc = "write"
    /\ \/ /\ WriteNote(DocPath, doc.snap, doc.token)
          /\ clock' = clock + 1
          /\ foreign' = FALSE
          /\ doc' = [doc EXCEPT !.pc = "notify"]
          /\ UNCHANGED <<ledger, failures>>
       \/ /\ failures > 0
          /\ failures' = failures - 1
          /\ Cancel(doc.token)
          /\ EndSave(doc, "error")
          /\ UNCHANGED <<disk, raw, unnoticed, clock, foreign>>
    /\ UNCHANGED <<db, jobs, pending, rebuild, writer, halfway, incremental, alive, lastId, unwatched,
                   budget>>

NotifySave ==
    /\ doc.pc = "notify"
    /\ \E ok \in BOOLEAN :
         /\ notify_written(DocPath, ok)
         /\ IF ok
            THEN doc' = [doc EXCEPT !.pc = "answer"] /\ UNCHANGED ledger
            ELSE Cancel(doc.token) /\ EndSave(doc, "error")
    /\ UNCHANGED <<unindexed, disk, unnoticed, raw, lastId, unwatched, clock, foreign, budget>>

\* What was typed while the file was written is written in another round.
AnswerSave_OneRound ==
    /\ doc.pc = "answer"
    /\ EndSave([doc EXCEPT !.base = doc.snap, !.dirty = FALSE], "saved")
    /\ UNCHANGED <<searchVars, raw, ledger, lastId, unwatched, clock, foreign, budget>>

AnswerSave_KeepChecksum ==
    /\ doc.pc = "answer"
    /\ IF doc.text # doc.snap
       THEN doc' = [doc EXCEPT !.pc = "plan", !.snap = doc.text]
       ELSE EndSave([doc EXCEPT !.base = doc.snap, !.dirty = FALSE], "saved")
    /\ UNCHANGED <<searchVars, raw, ledger, lastId, unwatched, clock, foreign, budget>>

AnswerSave ==
    /\ doc.pc = "answer"
    /\ LET d == [doc EXCEPT !.base = doc.snap] IN
       IF doc.text # doc.snap
       THEN doc' = [d EXCEPT !.pc = "plan", !.snap = doc.text]
       ELSE EndSave([d EXCEPT !.dirty = FALSE], "saved")
    /\ UNCHANGED <<searchVars, raw, ledger, lastId, unwatched, clock, foreign, budget>>

\* vault_read_with_checksum: a note is loaded, into the tab when it is the open
\* one, and its document in the index reconciled.
Load(p) ==
    /\ Exists(p)
    /\ Spend("loads")
    /\ reconcile_loaded_markdown(p)
    /\ IF p = DocPath /\ doc.pc = "idle" /\ ~doc.dirty
       THEN /\ doc' = [doc EXCEPT !.text = disk[p].content, !.base = disk[p].content,
                                  !.outcome = "none"]
            /\ foreign' = FALSE
       ELSE UNCHANGED <<doc, foreign>>
    /\ UNCHANGED <<disk, incremental, alive, raw, ledger, lastId, unwatched, clock>>

----------------------------------------------------------------------------
(* The settings of the index and the specification.                        *)

\* request_rebuild, from the menu or after a change of the resolution policy.
RequestRebuild ==
    /\ Spend("rebuilds")
    /\ request_rebuild
    /\ UNCHANGED <<disk, incremental, alive, raw, ledger, lastId, unwatched, doc, clock, foreign>>

SetIncremental ==
    /\ Spend("toggles")
    /\ incremental' = ~incremental
    /\ UNCHANGED <<disk, indexVars, alive, raw, ledger, lastId, unwatched, doc, clock, foreign>>

WriterThread ==
    /\ WriterStep
    /\ UNCHANGED <<disk, incremental, alive, vaultVars>>

WatcherThread == WatchEvent \/ maybe_cleanup_pending \/ handle_search_event

CommandThread == DoCommand \/ NotifyCommand

SaveThread == PlanSave \/ WriteSave \/ NotifySave \/ AnswerSave

Next ==
    \/ External
    \/ EntryExpires
    \/ StartWatching
    \/ SlotLapses
    \/ WatcherThread
    \/ BeginCommand
    \/ CommandThread
    \/ \E c \in Contents : Type(c)
    \/ Save
    \/ SaveThread
    \/ \E p \in budget.paths : Load(p)
    \/ RequestRebuild
    \/ SetIncremental
    \/ WriterThread

Spec == Init /\ [][Next]_vars

\* The threads run and time passes; what the user and other programs do is not
\* owed to anyone.
FairSpec ==
    /\ Spec
    /\ WF_vars(StartWatching)
    /\ WF_vars(SlotLapses) /\ WF_vars(WatcherThread)
    /\ WF_vars(CommandThread) /\ WF_vars(SaveThread)
    /\ WF_vars(WriterThread)

----------------------------------------------------------------------------
(* Properties.                                                             *)

Change == [kind : {"create", "modify", "delete", "rename"},
           path : Paths \cup Dirs, old : Paths \cup Dirs, by : Nat]

\* The queues, the ledger, the pending rename and the editor hold what the
\* watcher and the commands put there, the storm counter stays in its limit.
TypeOK ==
    /\ TypeOKIndex
    /\ \A i \in DOMAIN raw : raw[i].path \in Paths \cup Dirs
    /\ \A i \in DOMAIN ledger : ledger[i].id \in 1..lastId
    /\ slot.path \in Paths \cup Dirs \cup {<<>>}
    /\ Len(found) =< 1 /\ \A i \in DOMAIN found : found[i] \in Change
    /\ storm \in 0..StormLimit
    /\ doc.text \in Contents /\ doc.base \in Contents /\ doc.snap \in Contents
    /\ doc.pc \in {"idle", "plan", "write", "notify", "answer"}
    /\ cmd.pc \in {"idle", "do", "notify"}

Quiet ==
    /\ watching
    /\ raw = <<>> /\ found = <<>> /\ slot = NoSlot
    /\ cmd.pc = "idle" /\ doc.pc = "idle"
    /\ jobs = <<>> /\ writer.pc = "idle"

\* When nothing is under way the index holds what is on the disk, whatever the
\* order in which the commands, other programs, the watcher and the writer took
\* their steps.  The exceptions are the notes whose last change was lost in one
\* of the ways the code has: changed before the watcher started, held back by
\* the ledger entry of another change, displaced from the slot for a pending
\* rename, inside a directory that appeared as a whole, behind an error of the
\* writer, or put back on the disk before a removal queued earlier was carried
\* out (enqueue_index_job, handle_remove_file, consume_matching, map_event).
IndexConverges ==
    (Quiet /\ alive) => \A p \in Paths \ unnoticed : Doc(p).note = disk[p]

\* Once users and other programs pause, the watcher, the commands and the writer
\* come to rest: no rebuild asks for itself for ever, no half of a rename waits
\* for ever, no save goes round for ever (handle_full_rebuild, watcher loop,
\* RetainedDocument.save).
ComesToRest == <>[]Quiet

\* A tab that is not marked dirty holds what its last save wrote or its last
\* load read, even when the user typed while the file was being written
\* (RetainedDocument.save, its loop).
CleanIsSaved == ~doc.dirty => doc.text = doc.base

\* A save meets a conflict only when someone else has changed the note since the
\* last save: a document never conflicts with what it wrote itself, through any
\* number of queued and repeated rounds (RetainedDocument.checksum).  Without a
\* writer thread the command reports failure after it has written, and the next
\* save does conflict.
NoSelfConflict ==
    (doc.pc = "idle" /\ doc.outcome = "conflict") => (foreign \/ ~alive)

=============================================================================
