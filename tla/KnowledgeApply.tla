--------------------------- MODULE KnowledgeApply ---------------------------
(***************************************************************************)
(* Applying a decision document (src-tauri/src/knowledge/apply.rs).  The   *)
(* document proposes memory items or wiki pages; the user answers each     *)
(* proposal, and applying writes the accepted ones into the vault and      *)
(* saves the document as resolved.  A journal on disk records how far a    *)
(* call got, so that the next call can finish or undo the work of one that *)
(* failed or whose process died.                                           *)
(*                                                                         *)
(* Every step below is one change of the disk, with the reads that decide  *)
(* it; what a step reads and a later one relies on is kept in the call.    *)
(* A checksum is the content itself.  A call writes the time into what it  *)
(* writes, so two calls write the same bytes only at the same second.  The *)
(* staging directory is left out: a call writes it anew before it reads    *)
(* it.  Memory and wiki documents take the same steps, but for the pages   *)
(* a wiki document updates in place.                                       *)
(***************************************************************************)
EXTENDS Naturals, FiniteSets

CONSTANTS
    Calls,       \* calls of apply_decision_document_for_root
    Targets,     \* the files the document's proposals are about
    None,        \* no journal, no path
    Answers,     \* what the user has answered when the first call starts
    RaceLocks,   \* two calls may be acquiring the lock files at the same time
    RaceFiles,   \* the user may write between a check and the write it guards
    Budgets,     \* bounds: the calls that may run at once, the crashes and failing
                 \* disk operations, the changes the user makes
    MaxNow       \* bound: the clock, in seconds

Options  == {"yes", "no", "other", "unset"}
Resolved == {"applied", "partially_applied", "needs_revision"}
Doc      == [status : Resolved \cup {"pending", "apply_failed"},
             sel : [Targets -> Options],
             dec : [Targets -> {"pending", "committed", "rejected", "needs_revision"}]]

Missing  == [by |-> "nobody", at |-> 0]
Original == [by |-> "author", at |-> 0]    \* the page an update was proposed for
Users    == [by |-> "user", at |-> 0]
Outputs  == [by : {"apply"}, at : 0..MaxNow]

\* ApplyJournal: done is created_paths and updated_paths together; the planned
\* paths, their checksums and the decision results follow from before and stamp.
Journal  == [state : {"Staged", "Finalized", "DocumentSaved", "CleanupRequired"},
             before : Doc, stamp : 0..MaxNow,
             done : SUBSET Targets, inflight : Targets \cup {None}]

Locks    == {"apply", "document"}
Idle     == [pc |-> "idle", want |-> "apply", recover |-> TRUE, expected |-> None,
             doc |-> None, journal |-> None, todo |-> {}, path |-> None,
             put |-> None, next |-> "release"]

ASSUME KnowledgeAssumption ==
    /\ RaceLocks \in BOOLEAN /\ RaceFiles \in BOOLEAN
    /\ MaxNow \in Nat
    /\ Budgets \subseteq [calls : SUBSET Calls, faults : Nat, edits : Nat]
    /\ None \notin Targets \cup Doc \cup Journal
    /\ Answers \subseteq [Targets -> Options]

VARIABLES
    updates,     \* the targets that exist and are updated in place
    doc,         \* the decision document on disk
    file,        \* the targets on disk
    journal,     \* the apply journal on disk
    lock,        \* the lock files: free, held, or older than LOCK_STALE_AFTER
    call,        \* the calls: where they are and what they have read
    now,         \* the clock
    faults,      \* faults left
    edits,       \* edits of the user left
    touched,     \* targets the user has written or deleted
    abandoned    \* targets a failed call left behind without a journal

disk  == <<doc, file, journal, lock>>
ghost == <<touched, abandoned>>
vars  == <<updates, disk, call, now, faults, edits, ghost>>

Init ==
    /\ updates \in SUBSET Targets
    /\ doc \in [status : {"pending"}, sel : Answers, dec : [Targets -> {"pending"}]]
    /\ file = [p \in Targets |-> IF p \in updates THEN Original ELSE Missing]
    /\ journal = None
    /\ lock = [l \in Locks |-> "free"]
    /\ now = 0
    /\ \E b \in Budgets : /\ call = [c \in b.calls |-> Idle]
                          /\ faults = b.faults /\ edits = b.edits
    /\ touched = {} /\ abandoned = {}

\* Types of the files, the document, the journal, the lock files and the calls.
TypeOK ==
    /\ updates \subseteq Targets
    /\ doc \in Doc
    /\ file \in [Targets -> {Missing, Original, Users} \cup Outputs]
    /\ journal \in Journal \cup {None}
    /\ lock \in [Locks -> {"free", "held", "stale"}]
    /\ \A c \in DOMAIN call :
         /\ call[c].expected \in Doc \cup {None} /\ call[c].doc \in Doc \cup {None}
         /\ call[c].journal \in Journal \cup {None} /\ call[c].put \in Doc \cup {None}
         /\ call[c].todo \subseteq Targets /\ call[c].path \in Targets \cup {None}
    /\ now \in 0..MaxNow /\ faults \in Nat /\ edits \in Nat
    /\ touched \subseteq Targets /\ abandoned \subseteq Targets

-----------------------------------------------------------------------------
(* The document and the journal *)

Answered(d, option) == {p \in Targets : d.sel[p] = option}

document_status_for_outcomes(d) ==
    CASE Answered(d, "yes") # {} /\ Answered(d, "other") # {} -> "partially_applied"
      [] Answered(d, "yes") = {} /\ Answered(d, "other") # {} -> "needs_revision"
      [] OTHER -> "applied"

DecisionStatus(option) ==
    CASE option = "yes" -> "committed"
      [] option = "no"  -> "rejected"
      [] option = "other" -> "needs_revision"
      [] OTHER -> "pending"

\* apply_decision_updates, with the outcomes of the document or of its journal.
apply_decision_updates(d, outcomes) ==
    [d EXCEPT !.status = document_status_for_outcomes(outcomes),
              !.dec = [p \in Targets |-> DecisionStatus(outcomes.sel[p])]]

Planned(j) == Answered(j.before, "yes")
Output(j)  == [by |-> "apply", at |-> j.stamp]
Created(j) == j.done \ updates

journal_path_state(p, j) ==
    CASE file[p] = Missing   -> "Missing"
      [] file[p] = Output(j) -> "ChecksumMatch"
      [] OTHER               -> "ChecksumMismatch"

-----------------------------------------------------------------------------
(* Steps of a call *)

At(c, pc) == c \in DOMAIN call /\ call[c].pc = pc
Goto(c, pc) == call' = [call EXCEPT ![c].pc = pc]
Fault == faults > 0 /\ faults' = faults - 1
NoFault == UNCHANGED faults
Env == <<updates, now, edits>>

\* The editor saves the document and passes the checksum of what it saved.
Start(c, recover) ==
    /\ At(c, "idle")
    /\ call' = [call EXCEPT ![c] = [Idle EXCEPT !.pc = "create", !.recover = recover,
                                                !.expected = doc]]
    /\ UNCHANGED <<disk, faults, ghost, Env>>

Acquiring == {c \in DOMAIN call : call[c].pc \in {"stale", "rename", "recreate"}}
MayAcquire(c) == RaceLocks \/ Acquiring \subseteq {c}

Acquired(c) ==
    /\ lock' = [lock EXCEPT ![call[c].want] = "held"]
    /\ call' = [call EXCEPT ![c].want = "document",
                            ![c].pc = IF call[c].want = "apply" THEN "create" ELSE "read"]

\* ApplyInProgress; an apply lock that was already acquired is dropped.
LockBusy(c) ==
    /\ call' = [call EXCEPT ![c] = Idle]
    /\ lock' = IF call[c].want = "document" THEN [lock EXCEPT !["apply"] = "free"] ELSE lock

\* create_lock_file, of the apply lock and then of the document's write lock.
CreateLock(c) ==
    /\ At(c, "create") /\ MayAcquire(c)
    /\ \/ lock[call[c].want] = "free" /\ Acquired(c)
       \/ lock[call[c].want] # "free" /\ Goto(c, "stale") /\ UNCHANGED lock
    /\ UNCHANGED <<doc, file, journal, faults, ghost, Env>>

\* lock_is_stale: a lock file that is gone by now counts as stale.
CheckStale_AnyAge(c) ==
    /\ At(c, "stale") /\ Goto(c, "rename") /\ UNCHANGED <<disk, faults, ghost, Env>>
CheckStale_Never(c) ==
    /\ At(c, "stale") /\ LockBusy(c) /\ UNCHANGED <<doc, file, journal, faults, ghost, Env>>
CheckStale(c) ==
    /\ At(c, "stale")
    /\ \/ lock[call[c].want] = "held" /\ LockBusy(c)
       \/ lock[call[c].want] # "held" /\ Goto(c, "rename") /\ UNCHANGED lock
    /\ UNCHANGED <<doc, file, journal, faults, ghost, Env>>

\* replace_stale_lock moves whatever lock file is there out of the way.
RenameLock(c) ==
    /\ At(c, "rename")
    /\ lock' = [lock EXCEPT ![call[c].want] = "free"]
    /\ Goto(c, "recreate")
    /\ UNCHANGED <<doc, file, journal, faults, ghost, Env>>

RecreateLock(c) ==
    /\ At(c, "recreate")
    /\ IF lock[call[c].want] = "free" THEN Acquired(c) ELSE LockBusy(c)
    /\ UNCHANGED <<doc, file, journal, faults, ghost, Env>>

\* Both locks are dropped: the lock files are removed, whoever wrote them.
Release(c) ==
    /\ At(c, "release")
    /\ lock' = [l \in Locks |-> "free"]
    /\ call' = [call EXCEPT ![c] = Idle]
    /\ UNCHANGED <<doc, file, journal, faults, ghost, Env>>

-----------------------------------------------------------------------------
(* An existing journal *)

\* handle_existing_journal: what the call does about the journal j it finds.
Existing(j, d, recover) ==
    CASE j = None -> "check"
      [] j # None /\ j.state = "Staged" ->
             IF Created(j) = {} /\ j.inflight = None THEN "discard" ELSE "rollback"
      [] j # None /\ j.state = "Finalized" ->
             IF d.status # "pending" THEN "orphan" ELSE IF recover THEN "validate" ELSE "release"
      [] j # None /\ j.state = "DocumentSaved" -> "discard"
      [] OTHER -> "release"

Read(c) ==
    /\ At(c, "read")
    /\ call' = [call EXCEPT ![c].doc = doc, ![c].journal = journal, ![c].next = "check",
                            ![c].pc = Existing(journal, doc, call[c].recover)]
    /\ UNCHANGED <<disk, faults, ghost, Env>>

\* remove_journal_file of a journal that needs no undoing; an error ends the call.
\* A staged journal is taken to need none when it lists no created path.
Discard(c) ==
    /\ At(c, "discard")
    /\ \/ /\ journal' = None /\ Goto(c, "check") /\ NoFault
          /\ abandoned' = IF call[c].journal.state = "Staged"
                          THEN abandoned \cup (call[c].journal.done \cap updates) ELSE abandoned
       \/ Fault /\ Goto(c, "release") /\ UNCHANGED <<journal, abandoned>>
    /\ UNCHANGED <<doc, file, lock, touched, Env>>

\* rollback_staged_journal: first the path whose publication was not recorded.
Rollback_RecordedOnly(c) ==
    /\ At(c, "rollback")
    /\ call' = [call EXCEPT ![c].todo = Created(call[c].journal), ![c].pc = "undo"]
    /\ UNCHANGED <<disk, faults, ghost, Env>>
Rollback(c) ==
    LET j == call[c].journal
        p == j.inflight
        state == IF p = None THEN "Missing" ELSE journal_path_state(p, j)
    IN  /\ At(c, "rollback")
        /\ \/ /\ state = "ChecksumMismatch" \/ (state = "ChecksumMatch" /\ p \in updates)
              /\ Goto(c, "giveup")
           \/ /\ state = "ChecksumMatch" /\ p \notin updates
              /\ call' = [call EXCEPT ![c].todo = Created(j) \cup {p}, ![c].pc = "undo"]
           \/ /\ state = "Missing"
              /\ call' = [call EXCEPT ![c].todo = Created(j), ![c].pc = "undo"]
        /\ UNCHANGED <<disk, faults, ghost, Env>>

\* One created path: only the bytes the call wrote are removed.
Undo_Unchecked(c) ==
    /\ At(c, "undo")
    /\ \/ call[c].todo = {} /\ Goto(c, "clear")
       \/ \E p \in call[c].todo : call' = [call EXCEPT ![c].path = p, ![c].pc = "unlink"]
    /\ UNCHANGED <<disk, faults, ghost, Env>>
Undo(c) ==
    /\ At(c, "undo")
    /\ \/ call[c].todo = {} /\ Goto(c, "clear")
       \/ \E p \in call[c].todo :
            CASE journal_path_state(p, call[c].journal) = "ChecksumMatch" ->
                     call' = [call EXCEPT ![c].path = p, ![c].pc = "unlink"]
              [] journal_path_state(p, call[c].journal) = "Missing" ->
                     call' = [call EXCEPT ![c].todo = @ \ {p}]
              [] OTHER -> Goto(c, "giveup")
    /\ UNCHANGED <<disk, faults, ghost, Env>>

\* remove_file; a file that is gone by now is an error like any other.
Unlink(c) ==
    /\ At(c, "unlink")
    /\ \/ /\ file[call[c].path] # Missing
          /\ file' = [file EXCEPT ![call[c].path] = Missing]
          /\ call' = [call EXCEPT ![c].todo = @ \ {call[c].path}, ![c].pc = "undo"]
          /\ NoFault
       \/ /\ IF file[call[c].path] = Missing THEN NoFault ELSE Fault
          /\ Goto(c, "giveup") /\ UNCHANGED file
    /\ UNCHANGED <<doc, journal, lock, ghost, Env>>

\* The undone journal is removed; pages updated in place stay as they are.
Clear(c) ==
    /\ At(c, "clear")
    /\ \/ /\ journal' = None /\ Goto(c, call[c].next) /\ NoFault
          /\ abandoned' = abandoned \cup (call[c].journal.done \cap updates)
       \/ Fault /\ Goto(c, "giveup") /\ UNCHANGED <<journal, abandoned>>
    /\ UNCHANGED <<doc, file, lock, touched, Env>>

\* persist_cleanup_required: no later call touches what this journal lists.
GiveUp(c) ==
    /\ At(c, "giveup")
    /\ \/ journal' = [call[c].journal EXCEPT !.state = "CleanupRequired"] /\ NoFault
       \/ Fault /\ UNCHANGED journal
    /\ Goto(c, "release")
    /\ UNCHANGED <<doc, file, lock, ghost, Env>>

\* validate_finalized_journal_match.  That an accepted path outside the journal
\* is missing needs no conjunct: the document is the one the journal was made from.
Matches(c) ==
    LET j == call[c].journal IN
    /\ call[c].doc = call[c].expected
    /\ call[c].doc = j.before
    /\ \A p \in Planned(j) : journal_path_state(p, j) = "ChecksumMatch"

\* A finalized journal finishes what its call could not: the document is saved
\* with the outcomes of the journal.  A journal that does not match is kept.
Validate(c) ==
    /\ At(c, "validate")
    /\ \/ /\ Matches(c) /\ NoFault
          /\ call' = [call EXCEPT ![c].pc = "swap", ![c].next = "saved",
                         ![c].put = apply_decision_updates(call[c].doc, call[c].journal.before)]
       \/ (Fault \/ (~Matches(c) /\ NoFault)) /\ Goto(c, "mismatch")
    /\ UNCHANGED <<disk, ghost, Env>>

\* handle_finalized_journal_mismatch
Mismatch(c) ==
    /\ At(c, "mismatch")
    /\ \/ journal' = [call[c].journal EXCEPT !.state = "CleanupRequired"] /\ NoFault
       \/ Fault /\ UNCHANGED journal
    /\ IF call[c].doc = call[c].expected
       THEN call' = [call EXCEPT ![c].pc = "swap", ![c].next = "release",
                                 ![c].put = [call[c].doc EXCEPT !.status = "apply_failed"]]
       ELSE Goto(c, "release")
    /\ UNCHANGED <<doc, file, lock, ghost, Env>>

\* completed_orphan_matches
Orphan(c) ==
    LET j == call[c].journal
        d == call[c].doc
    IN  /\ At(c, "orphan")
        /\ IF /\ d.status \in Resolved
              /\ \A p \in Planned(j) : journal_path_state(p, j) = "ChecksumMatch"
              /\ \A p \in Targets : d.dec[p] = DecisionStatus(j.before.sel[p])
           THEN Goto(c, "discard") ELSE Goto(c, "release")
        /\ UNCHANGED <<disk, faults, ghost, Env>>

-----------------------------------------------------------------------------
(* A new apply *)

\* The checks before anything is written.  Without an accepted proposal only
\* the document is saved.
Check(c) ==
    LET d == call[c].doc
        refused == d # call[c].expected \/ d.status # "pending" \/ Answered(d, "unset") # {}
    IN  /\ At(c, "check")
        /\ \/ refused /\ Goto(c, "release")
           \/ ~refused /\ Answered(d, "yes") # {} /\ Goto(c, "plan")
           \/ /\ ~refused /\ Answered(d, "yes") = {}
              /\ call' = [call EXCEPT ![c].pc = "swap", ![c].next = "release",
                                      ![c].put = apply_decision_updates(d, d)]
        /\ UNCHANGED <<disk, faults, ghost, Env>>

\* preflight_memory_paths, plan_wiki_writes: nothing at a path to create, the
\* expected page at a path to update.
Free(p) == file[p] = IF p \in updates THEN Original ELSE Missing

\* The writes are planned and the journal is written, before anything else is.
Plan(c) ==
    LET planned == Answered(call[c].doc, "yes")
        j == [state |-> "Staged", before |-> call[c].doc, stamp |-> now,
              done |-> {}, inflight |-> None]
    IN  /\ At(c, "plan")
        /\ \/ /\ \A p \in planned : Free(p)
              /\ journal' = j
              /\ call' = [call EXCEPT ![c].journal = j, ![c].todo = planned, ![c].pc = "stage"]
              /\ NoFault
           \/ /\ Fault \/ (NoFault /\ \E p \in planned : ~Free(p))
              /\ Goto(c, "release") /\ UNCHANGED journal
        /\ UNCHANGED <<doc, file, lock, ghost, Env>>

\* stage_memory_file, stage_wiki_file of every planned write.
Stage(c) ==
    /\ At(c, "stage")
    /\ \/ Goto(c, "inflight") /\ NoFault /\ UNCHANGED journal
       \/ Fault /\ Goto(c, "release") /\ journal' = None
    /\ UNCHANGED <<doc, file, lock, ghost, Env>>

\* The next path to publish is journalled first.  An error leaves the journal.
Inflight(c) ==
    /\ At(c, "inflight")
    /\ \/ call[c].todo = {} /\ Goto(c, "finalize") /\ NoFault /\ UNCHANGED journal
       \/ \E p \in call[c].todo :
            LET j == [call[c].journal EXCEPT !.inflight = p] IN
            /\ journal' = j
            /\ call' = [call EXCEPT ![c].journal = j, ![c].path = p, ![c].pc = "publish"]
            /\ NoFault
       \/ call[c].todo # {} /\ Fault /\ Goto(c, "release") /\ UNCHANGED journal
    /\ UNCHANGED <<doc, file, lock, ghost, Env>>

\* publish_memory_file, publish_wiki_file: a hard link never replaces a file; a
\* page is replaced after its checksum was compared.  An error may come before
\* the file is there or, from the verification, after it.
Publish_IgnoreError(c) ==
    /\ At(c, "publish")
    /\ Free(call[c].path) => /\ faults' \in {faults, faults - 1} \cap Nat
                             /\ file' = [file EXCEPT ![call[c].path] = IF faults' = faults
                                         THEN Output(call[c].journal) ELSE @]
    /\ ~Free(call[c].path) => UNCHANGED <<file, faults>>
    /\ Goto(c, "record") /\ UNCHANGED <<doc, journal, lock, ghost, Env>>
Publish(c) ==
    LET p == call[c].path IN
    /\ At(c, "publish")
    /\ \/ /\ Free(p) /\ p \notin updates
          /\ file' = [file EXCEPT ![p] = Output(call[c].journal)]
          /\ \/ Goto(c, "record") /\ NoFault
             \/ Fault /\ Goto(c, "abort")
       \/ Free(p) /\ p \in updates /\ Goto(c, "replace") /\ NoFault /\ UNCHANGED file
       \/ (Fault \/ (~Free(p) /\ NoFault)) /\ Goto(c, "abort") /\ UNCHANGED file
    /\ UNCHANGED <<doc, journal, lock, ghost, Env>>

\* guarded_replace_file of a wiki page, after its comparison.
Replace(c) ==
    /\ At(c, "replace")
    /\ \/ /\ file' = [file EXCEPT ![call[c].path] = Output(call[c].journal)]
          /\ \/ Goto(c, "record") /\ NoFault
             \/ Fault /\ Goto(c, "abort")
       \/ Fault /\ Goto(c, "abort") /\ UNCHANGED file
    /\ UNCHANGED <<doc, journal, lock, ghost, Env>>

\* A publication failed: the journal is removed, and with it the record of the
\* paths that were published before.
Abort(c) ==
    LET j == [call[c].journal EXCEPT !.inflight = None]
        published == {p \in Planned(j) : file[p] = Output(j)}
    IN  /\ At(c, "abort")
        /\ \/ journal' = None /\ NoFault /\ abandoned' = abandoned \cup published
           \/ Fault /\ journal' = j /\ abandoned' = abandoned \cup (published \ j.done)
        /\ Goto(c, "release")
        /\ UNCHANGED <<doc, file, lock, touched, Env>>

\* What a failed journal write after a publication leads to.
Undone(c, j, updated) ==
    call' = [call EXCEPT ![c].journal = j, ![c].next = "release",
                         ![c].pc = IF updated THEN "giveup" ELSE "rollback"]

\* The published path is recorded as created or updated.
Record(c) ==
    LET p == call[c].path
        j == [call[c].journal EXCEPT !.done = @ \cup {p}, !.inflight = None]
    IN  /\ At(c, "record")
        /\ \/ /\ journal' = j
              /\ call' = [call EXCEPT ![c].journal = j, ![c].todo = @ \ {p}, ![c].pc = "inflight"]
              /\ NoFault
           \/ Fault /\ Undone(c, j, p \in updates) /\ UNCHANGED journal
        /\ UNCHANGED <<doc, file, lock, ghost, Env>>

Finalize(c) ==
    LET j == [call[c].journal EXCEPT !.state = "Finalized"] IN
    /\ At(c, "finalize")
    /\ \/ /\ journal' = j
          /\ call' = [call EXCEPT ![c].journal = j, ![c].pc = "swap", ![c].next = "saved",
                                  ![c].put = apply_decision_updates(call[c].doc, call[c].doc)]
          /\ NoFault
       \/ Fault /\ Undone(c, j, Planned(j) \cap updates # {}) /\ UNCHANGED journal
    /\ UNCHANGED <<doc, file, lock, ghost, Env>>

-----------------------------------------------------------------------------
(* Saving the document *)

\* guarded_replace_file of the document: compare, then replace.
Swap(c) ==
    /\ At(c, "swap")
    /\ IF doc = call[c].doc THEN Goto(c, "write") ELSE Goto(c, "release")
    /\ UNCHANGED <<disk, faults, ghost, Env>>

Write(c) ==
    /\ At(c, "write")
    /\ \/ doc' = call[c].put /\ Goto(c, call[c].next) /\ NoFault
       \/ Fault /\ Goto(c, "release") /\ doc' \in {doc, call[c].put}
    /\ UNCHANGED <<file, journal, lock, ghost, Env>>

\* The journal is marked DocumentSaved and removed; an error is only a warning.
MarkSaved(c) ==
    /\ At(c, "saved")
    /\ \/ /\ journal' = [call[c].journal EXCEPT !.state = "DocumentSaved"]
          /\ Goto(c, "remove") /\ NoFault
       \/ Fault /\ Goto(c, "release") /\ UNCHANGED journal
    /\ UNCHANGED <<doc, file, lock, ghost, Env>>

RemoveJournal(c) ==
    /\ At(c, "remove")
    /\ (journal' = None /\ NoFault) \/ (Fault /\ UNCHANGED journal)
    /\ Goto(c, "release")
    /\ UNCHANGED <<doc, file, lock, ghost, Env>>

\* A file that cannot be read ends the call where it stands.
ReadFails(c) ==
    /\ call[c].pc \in {"read", "rollback", "undo", "orphan"}
    /\ Fault /\ Goto(c, "release")
    /\ UNCHANGED <<disk, ghost, Env>>

-----------------------------------------------------------------------------
(* The process, the clock and the user *)

\* The process dies: the files stay as they are, the lock files included.
Crash ==
    /\ \E c \in DOMAIN call : ~At(c, "idle")
    /\ Fault
    /\ call' = [c \in DOMAIN call |-> Idle]
    /\ UNCHANGED <<disk, ghost, Env>>

Inside(c) == call[c].pc \notin {"idle", "create", "stale", "rename", "recreate"}
Holds(c, l) == Inside(c) \/ (l = "apply" /\ call[c].want = "document")

\* Half an hour passes over a lock file that no running call holds.
AgeLock(l) ==
    /\ lock[l] = "held" /\ \A c \in DOMAIN call : ~Holds(c, l)
    /\ lock' = [lock EXCEPT ![l] = "stale"]
    /\ UNCHANGED <<doc, file, journal, call, faults, ghost, Env>>

Tick ==
    /\ now < MaxNow
    /\ now' = now + 1
    /\ UNCHANGED <<updates, disk, call, faults, edits, ghost>>

Edit == edits > 0 /\ edits' = edits - 1
Guarded(p) == \E c \in DOMAIN call : call[c].pc \in {"unlink", "replace"} /\ call[c].path = p

\* The user, or the sync of the vault, writes or deletes a target.
WriteTarget(p) ==
    /\ Edit /\ (RaceFiles \/ ~Guarded(p))
    /\ file' \in {[file EXCEPT ![p] = x] : x \in {Users, Missing}}
    /\ touched' = touched \cup {p}
    /\ UNCHANGED <<updates, doc, journal, lock, call, now, faults, abandoned>>

EditDocument(p, option) ==
    /\ Edit /\ (RaceFiles \/ \A c \in DOMAIN call : ~At(c, "write"))
    /\ doc.status = "pending"
    /\ doc' = [doc EXCEPT !.sel[p] = option]
    /\ UNCHANGED <<updates, file, journal, lock, call, now, faults, ghost>>

-----------------------------------------------------------------------------
Step(c) ==
  /\ c \in DOMAIN call
  /\ \/ CreateLock(c) \/ CheckStale(c) \/ RenameLock(c) \/ RecreateLock(c) \/ Release(c)
     \/ Read(c) \/ Discard(c) \/ Rollback(c) \/ Undo(c) \/ Unlink(c) \/ Clear(c) \/ GiveUp(c)
     \/ Validate(c) \/ Mismatch(c) \/ Orphan(c)
     \/ Check(c) \/ Plan(c) \/ Stage(c) \/ Inflight(c) \/ Publish(c) \/ Replace(c) \/ Abort(c)
     \/ Record(c) \/ Finalize(c) \/ Swap(c) \/ Write(c) \/ MarkSaved(c) \/ RemoveJournal(c)
     \/ ReadFails(c)

Next ==
    \/ \E c \in DOMAIN call : Step(c) \/ \E recover \in BOOLEAN : Start(c, recover)
    \/ Crash \/ Tick \/ \E l \in Locks : AgeLock(l)
    \/ \E p \in Targets : WriteTarget(p) \/ \E option \in Options : EditDocument(p, option)

Spec == Init /\ [][Next]_vars

\* A call that runs goes on, and the lock files of a dead process grow old.
Fairness ==
    /\ \A c \in Calls : WF_vars(Step(c))
    /\ \A l \in Locks : WF_vars(AgeLock(l))
FairSpec == Spec /\ Fairness

-----------------------------------------------------------------------------
(* Properties *)

\* The lock files keep two calls apart (ApplyLock, DocumentWriteLock): at most
\* one call is past them, also after a process died holding them.
OneCallInside == \A c, d \in DOMAIN call : Inside(c) /\ Inside(d) => c = d

\* A document that says a proposal was committed is right: its file is there as
\* the apply wrote it, unless the user changed it.  No crash, failed write or
\* recovery saves the document with a target that is missing or was rolled back.
CommittedIsPublished ==
    \A p \in Targets : doc.dec[p] = "committed" => file[p] \in Outputs \/ p \in touched

\* A call that did not resolve the document leaves nothing behind that the
\* journal does not lead to: without a journal and without a running call, a
\* pending document has no published target but the abandoned ones.
PendingIsUndone ==
    /\ doc.status = "pending" /\ journal = None
    /\ \A c \in DOMAIN call : ~Inside(c)
    => \A p \in Targets : file[p] \in Outputs => p \in abandoned

\* What the user wrote at a target is neither replaced nor removed by an apply,
\* a rollback or a recovery.
UserFilesKept ==
    [][\A p \in Targets : file[p] = Users => file'[p] = Users \/ edits' # edits]_vars

\* Nothing is left for another press of Apply to do.
Settled ==
    \/ doc.status # "pending"
    \/ journal # None /\ journal.state = "CleanupRequired"
    \/ Answered(doc, "unset") # {}
    \/ \E p \in Answered(doc, "yes") : ~Free(p) /\ (journal = None \/ p \notin Planned(journal))
Alone(c) == \A d \in DOMAIN call \ {c} : At(d, "idle")

\* However a call was interrupted, pressing Apply again settles the document: it
\* is resolved or marked apply_failed, the journal asks for manual cleanup, an
\* answer is missing, or a target is taken.  The presses ask for recovery
\* (default_recover) and, from some time on, no other call competes for the locks.
EventuallySettled ==
    \A c \in Calls : []<><<Start(c, TRUE)>>_vars /\ <>[]Alone(c) => <>[]Settled
=============================================================================
