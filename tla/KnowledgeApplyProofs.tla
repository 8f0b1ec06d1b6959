------------------------ MODULE KnowledgeApplyProofs ------------------------
(***************************************************************************)
(* Proofs about KnowledgeApply: that a committed proposal has its file,    *)
(* that a document that is still pending leaves nothing behind, that files *)
(* of the user are kept and that the lock files keep the calls apart.      *)
(*                                                                         *)
(* A step of a call is one of two kinds.  A call that holds both lock      *)
(* files works on the disk: Good says all that is needed of such a step,   *)
(* and there is one lemma for each of them.  A call that acquires or       *)
(* releases the lock files (Turns) touches nothing else.  The invariants   *)
(* follow from the kinds.                                                  *)
(***************************************************************************)
EXTENDS KnowledgeApply, TLAPS

-----------------------------------------------------------------------------
(* What holds between two steps *)

\* The steps of a call before it has both lock files; while it undoes the writes of
\* a journal; while it publishes; while it saves the document.
Outside == {"idle", "create", "stale", "rename", "recreate"}
Undoing == {"rollback", "undo", "unlink", "clear", "giveup"}
Publishing == {"stage", "inflight", "publish", "replace", "record", "abort", "finalize"}
Saving == {"swap", "write"}
Steps == Outside \cup Undoing \cup Publishing \cup Saving
         \cup {"read", "discard", "validate", "mismatch", "orphan", "check", "plan",
               "saved", "remove", "release"}

\* The local variables of a call.
CallRec ==
    [pc : Steps, want : Locks, recover : BOOLEAN, expected : Doc \cup {None},
     doc : Doc \cup {None}, journal : Journal \cup {None}, todo : SUBSET Targets,
     path : Targets \cup {None}, put : Doc \cup {None}, next : {"check", "saved", "release"}]

\* What a call has read and decided when it gets to a step.
Local(k) ==
    /\ k.pc \in {"discard", "validate", "mismatch", "orphan", "saved", "remove"}
                \cup Undoing \cup Publishing => k.journal \in Journal
    /\ k.pc \in Saving /\ k.next = "saved" => k.journal \in Journal
    /\ k.pc \in {"discard", "validate", "mismatch", "orphan", "check", "plan"}
                \cup Undoing \cup Publishing => k.doc \in Doc
    /\ k.pc \in Saving => k.put \in Doc /\ k.next \in {"saved", "release"}
    /\ k.pc \in Undoing => k.next \in {"check", "release"}
    /\ k.pc \in {"unlink", "publish", "replace", "record"} => k.path \in Targets
    /\ k.pc \in Undoing \cup Publishing \cup {"discard"} => k.todo \subseteq Targets

\* Every call is at a step with the values that step uses.
CallsTyped ==
    /\ call \in [DOMAIN call -> CallRec]
    /\ \A c \in DOMAIN call : Local(call[c])

\* The inductive form of the type invariant.
TypeInv == TypeOK /\ CallsTyped

\* Between a comparison and the write it guards (unlink, replace) the target is not
\* the user's: the inductive form of UserFilesKept.
GuardedKept ==
    \A c \in DOMAIN call : call[c].pc \in {"unlink", "replace"} => file[call[c].path] # Users

\* The inductive form of OneCallInside: a call holds a lock only while its file is
\* there and held, no other call holds it too, at most one call is replacing a lock
\* file that looked stale, and that one looked stale for good reason.
LockInv ==
    /\ \A c, d \in Acquiring : c = d
    /\ \A c \in DOMAIN call : call[c].pc = "rename" => lock[call[c].want] # "held"
    /\ \A c \in DOMAIN call : Inside(c) => call[c].want = "document"
    /\ \A c \in DOMAIN call : call[c].pc = "idle" => call[c].want = "apply"
    /\ \A c \in DOMAIN call, l \in Locks : Holds(c, l) => lock[l] = "held"
    /\ \A c, d \in DOMAIN call, l \in Locks : Holds(c, l) /\ Holds(d, l) => c = d

\* A pending document has decided nothing; a committed proposal has its file; a file
\* of an apply that no failed call abandoned.
Untouched(d) == d.status = "pending" => \A p \in Targets : d.dec[p] = "pending"
Kept(d) == \A p \in Targets : d.dec[p] = "committed" => file[p] \in Outputs \/ p \in touched
Written(p) == file[p] \in Outputs /\ p \notin abandoned

\* The disk, between any two steps: the state of the journal and the status of the
\* document agree, and a file written for a document still pending is one its journal
\* leads to.
Global ==
    /\ Untouched(doc) /\ Kept(doc)
    /\ journal # None /\ journal.state = "Staged" => doc.status = "pending"
    /\ journal # None /\ journal.state = "DocumentSaved" => doc.status # "pending"
    /\ doc.status = "pending" => \A p \in Targets : Written(p) =>
         journal # None /\ (journal.state = "Staged" => p \in journal.done \cup {journal.inflight})

\* What a call relies on after reading the document and the journal: the document has
\* the status it read, and the journal is the one it read.
AtStart(k) ==
    /\ k.pc \in {"discard", "validate", "mismatch", "orphan", "check", "plan"} =>
         k.doc.status = doc.status /\ Untouched(k.doc)
    /\ k.pc \in {"discard", "validate", "mismatch", "orphan"} => k.journal = journal
    /\ k.pc = "discard" => IF journal.state = "Staged"
                           THEN journal.done \subseteq updates /\ journal.inflight = None
                           ELSE doc.status # "pending"
    /\ k.pc \in {"validate", "mismatch"} => doc.status = "pending" /\ journal.state = "Finalized"
    /\ k.pc = "orphan" => doc.status # "pending" /\ journal.state = "Finalized"
    /\ k.pc \in {"check", "plan"} => journal = None
    /\ k.pc = "plan" => doc.status = "pending"

\* What a call relies on while it undoes a journal: the files still to be undone are
\* in its list, or are pages that were updated in place.
AtUndo(k) ==
    /\ k.pc \in Undoing => doc.status = "pending"
    /\ k.pc \in Undoing /\ k.next = "check" => k.doc.status = "pending" /\ Untouched(k.doc)
    /\ k.pc = "rollback" => \A p \in Targets :
         Written(p) => p \in k.journal.done \cup {k.journal.inflight}
    /\ k.pc \in {"undo", "unlink", "clear"} => \A p \in Targets :
         Written(p) => p \in k.todo \cup (k.journal.done \cap updates)
    /\ k.pc = "unlink" => k.path \in k.todo
    /\ k.pc = "clear" => k.todo = {}

\* What a call relies on while it publishes: the journal on disk is its own, and
\* everything it recorded as done is there, or was changed by the user.
AtPublish(k) ==
    k.pc \in Publishing =>
      /\ k.journal = journal /\ journal.state = "Staged" /\ journal.before = k.doc
      /\ doc.status = "pending"
      /\ journal.done \subseteq Planned(journal)
      /\ \A p \in Planned(journal) : file[p] \in Outputs => file[p] = Output(journal)
      /\ k.pc = "stage" => journal.done = {} /\ k.todo = Planned(journal)
      /\ k.pc \in {"stage", "inflight", "finalize"} => journal.inflight = None
      /\ k.pc \in {"publish", "replace", "record", "abort"} =>
           k.path = journal.inflight /\ k.path \in Planned(journal)
      /\ k.pc # "abort" => /\ k.todo \subseteq Planned(journal)
                           /\ Planned(journal) \subseteq journal.done \cup k.todo
                           /\ \A p \in journal.done : file[p] \in Outputs \/ p \in touched
      /\ k.pc = "record" => file[k.path] \in Outputs \/ k.path \in touched
      /\ k.pc = "finalize" => k.todo = {}

\* What a call relies on when it saves the document: what the document will say is
\* true of the files, and the journal no longer asks for a rollback.
AtSave(k) ==
    /\ k.pc \in Saving => /\ k.put.status # "pending" /\ Kept(k.put)
                          /\ journal # None => journal.state # "Staged"
    /\ k.pc \in {"saved", "remove"} => doc.status # "pending"

\* The inductive form of CommittedIsPublished and PendingIsUndone.
Data(k) == AtStart(k) /\ AtUndo(k) /\ AtPublish(k) /\ AtSave(k)

DataInv == Global /\ \A c \in DOMAIN call : Data(call[c])

-----------------------------------------------------------------------------
(* A step of a call that holds both locks *)

\* What a target can hold.
Contents == {Missing, Original, Users} \cup Outputs

\* The types of the files a call writes.
FilesTyped ==
    /\ doc \in Doc /\ file \in [Targets -> Contents]
    /\ journal \in Journal \cup {None} /\ abandoned \subseteq Targets

\* The call c has the local variables r after the step.
Becomes(c, r) ==
    /\ r \in CallRec /\ Local(r)
    /\ call' = [call EXCEPT ![c] = r]

\* A step of a call that holds both locks.
Works(c, r) ==
    /\ call[c].pc \in Steps \ Outside /\ r.pc \in Steps \ Outside
    /\ r.want = call[c].want
    /\ UNCHANGED <<lock, touched, Env>> /\ faults' \in Nat

\* What such a step does to files of the user: nothing, but for the write that a
\* comparison has guarded.
KeepsUsers(c, r) ==
    /\ r.pc \in {"unlink", "replace"} => file'[r.path] # Users
    /\ \A p \in Targets : file'[p] = Users => file[p] = Users
    /\ \A p \in Targets : file[p] = Users /\ file'[p] # Users =>
         call[c].pc \in {"unlink", "replace"} /\ call[c].path = p

\* It preserves what it relies on.
KeepsData(c, r) == Global /\ Data(call[c]) => Global' /\ Data(r)'

\* All that the proofs need of a step of a call that holds both locks.
Good(c) ==
    \E r : Becomes(c, r) /\ Works(c, r) /\ FilesTyped' /\ KeepsUsers(c, r) /\ KeepsData(c, r)

\* Faults are counted down from a natural number.
LEMMA Faults ==
  ASSUME TypeInv, Fault \/ NoFault
  PROVE  faults' \in Nat
BY DEF TypeInv, TypeOK, Fault, NoFault

\* A running call is at a step with the values it uses.
LEMMA CallIsTyped ==
  ASSUME TypeInv, NEW c \in DOMAIN call
  PROVE  call[c] \in CallRec /\ Local(call[c])
BY Zenon DEF TypeInv, CallsTyped

\* What a call relies on depends on its step.
LEMMA Elsewhere ==
  ASSUME NEW r
  PROVE  /\ r.pc \notin {"discard", "validate", "mismatch", "orphan", "check", "plan"} => AtStart(r)'
         /\ r.pc \notin Undoing => AtUndo(r)'
         /\ r.pc \notin Publishing => AtPublish(r)'
         /\ r.pc \notin Saving \cup {"saved", "remove"} => AtSave(r)'
<1>1. r.pc \notin {"discard", "validate", "mismatch", "orphan", "check", "plan"} => AtStart(r)'
  BY Zenon DEF AtStart
<1>2. r.pc \notin Undoing => AtUndo(r)'
  BY Zenon DEF AtUndo, Undoing
<1>3. r.pc \notin Publishing => AtPublish(r)'
  BY Zenon DEF AtPublish
<1>4. r.pc \notin Saving \cup {"saved", "remove"} => AtSave(r)'
  BY Zenon DEF AtSave
<1> QED
  BY Zenon, <1>1, <1>2, <1>3, <1>4

\* A step that changes no file leaves the disk as it was.
LEMMA Undisturbed ==
  ASSUME Global, UNCHANGED <<updates, doc, file, journal, abandoned, touched>>
  PROVE  Global'
BY Zenon DEF Global, Untouched, Kept, Written

\* A step that only goes on keeps the values of the call.
LEMMA GotoBecomes ==
  ASSUME TypeInv, NEW c \in DOMAIN call, NEW x \in Steps, Goto(c, x), NEW r,
         r = [call[c] EXCEPT !.pc = x]
  PROVE  /\ call' = [call EXCEPT ![c] = r] /\ r \in CallRec
         /\ r.pc = x /\ r.want = call[c].want /\ r.doc = call[c].doc /\ r.journal = call[c].journal
         /\ r.todo = call[c].todo /\ r.path = call[c].path /\ r.put = call[c].put /\ r.next = call[c].next
<1>1. call[c] \in CallRec
  BY CallIsTyped
<1>2. call' = [call EXCEPT ![c] = r]
  BY Zenon DEF Goto, TypeInv, CallsTyped
<1>3. r \in CallRec
  BY Zenon, <1>1 DEF CallRec
<1> QED
  BY Zenon, <1>1, <1>2, <1>3 DEF CallRec

\* A call that gives up, for whatever reason, relies on nothing any more.
LEMMA Leaves ==
  ASSUME TypeInv, NEW c \in DOMAIN call, call[c].pc \in Steps \ Outside, Goto(c,
         "release"),
         UNCHANGED <<file, lock, touched, Env>>, faults' \in Nat, FilesTyped',
         Global /\ Data(call[c]) => Global'
  PROVE  Good(c)
<1>1. PICK r : r = [call[c] EXCEPT !.pc = "release"]
  BY Zenon
<1>2. "release" \in Steps /\ "release" \in Steps \ Outside
  BY DEF Steps, Outside
<1>3. call' = [call EXCEPT ![c] = r] /\ r \in CallRec /\ r.pc = "release" /\ r.want = call[c].want
  BY <1>1, <1>2, GotoBecomes
<1>4. Local(r)
  BY <1>3 DEF Local, Undoing, Publishing, Saving
<1>5. Data(r)'
  BY <1>3, Elsewhere DEF Data, Undoing, Publishing, Saving
<1>6. KeepsUsers(c, r)
  BY <1>3 DEF KeepsUsers
<1> QED
  BY Zenon, <1>2, <1>3, <1>4, <1>5, <1>6 DEF Good, Becomes, Works, KeepsData

\* A step that changes no file needs only to establish what it relies on next.
LEMMA Control ==
  ASSUME TypeInv, NEW c \in DOMAIN call, NEW r, Becomes(c, r), Works(c, r),
         UNCHANGED <<doc, file, journal, abandoned>>,
         r.pc \in {"unlink", "replace"} => file[r.path] # Users,
         Global /\ Data(call[c]) => Data(r)'
  PROVE  Good(c)
<1>1. FilesTyped'
  BY Zenon DEF TypeInv, TypeOK, FilesTyped, Contents
<1>2. KeepsUsers(c, r)
  BY Zenon DEF KeepsUsers
<1>3. Global => Global'
  BY Zenon, Undisturbed DEF Works, Env
<1> QED
  BY Zenon, <1>1, <1>2, <1>3 DEF Good, KeepsData

\* What holds of the values of a call holds of the call.
LEMMA DataOf ==
  ASSUME NEW c, NEW r, r = call'[c], Data(r)'
  PROVE  Data(call[c])'
<1>1. AtStart(call[c])'
  BY DEF Data, AtStart
<1>2. AtUndo(call[c])'
  BY DEF Data, AtUndo
<1>3. AtPublish(call[c])'
  BY DEF Data, AtPublish
<1>4. AtSave(call[c])'
  BY DEF Data, AtSave
<1> QED
  BY Zenon, <1>1, <1>2, <1>3, <1>4 DEF Data

-----------------------------------------------------------------------------
(* An existing journal *)

\* The decision table of handle_existing_journal.
LEMMA ExistingDecides ==
  ASSUME NEW j \in Journal \cup {None}, NEW d \in Doc, NEW recover \in BOOLEAN,
         NEW x, x = Existing(j, d, recover)
  PROVE  /\ x \in {"check", "discard", "rollback", "orphan", "validate", "release"}
         /\ x = "check" <=> j = None
         /\ x = "discard" => \/ j.state = "Staged" /\ Created(j) = {} /\ j.inflight = None
                             \/ j.state = "DocumentSaved"
         /\ x = "rollback" => j.state = "Staged"
         /\ x \in {"orphan", "validate"} => j.state = "Finalized"
         /\ x = "orphan" => d.status # "pending"
         /\ x = "validate" => d.status = "pending"
BY KnowledgeAssumption DEF Existing

\* Reading the document and the journal: the call relies on the statuses it found.
LEMMA ReadStep ==
  ASSUME TypeInv, NEW c \in DOMAIN call, Read(c)
  PROVE  Good(c)
<1> DEFINE x == Existing(journal, doc, call[c].recover)
<1>1. PICK r : r = [call[c] EXCEPT !.doc = doc, !.journal = journal, !.next = "check", !.pc = x]
  BY Zenon
<1>2. call[c] \in CallRec /\ call[c].pc = "read" /\ call[c].recover \in BOOLEAN
  BY CallIsTyped DEF Read, At, CallRec
<1>3. doc \in Doc /\ journal \in Journal \cup {None}
  BY Zenon DEF TypeInv, TypeOK
<1>4. /\ x \in {"check", "discard", "rollback", "orphan", "validate", "release"}
      /\ x = "check" <=> journal = None
      /\ x = "discard" => \/ journal.state = "Staged" /\ Created(journal) = {} /\ journal.inflight = None
                          \/ journal.state = "DocumentSaved"
      /\ x = "rollback" => journal.state = "Staged"
      /\ x \in {"orphan", "validate"} => journal.state = "Finalized"
      /\ x = "orphan" => doc.status # "pending"
      /\ x = "validate" => doc.status = "pending"
  BY <1>2, <1>3, ExistingDecides
<1> HIDE DEF x
<1>5. x \in Steps \ Outside /\ x \in Steps
  BY <1>4 DEF Steps, Outside, Undoing
<1>6. call' = [call EXCEPT ![c] = r] /\ r.pc = x /\ r.doc = doc /\ r.journal = journal
  BY Zenon, <1>1, <1>2 DEF Read, TypeInv, CallsTyped, CallRec, x
<1>7. r.next = "check" /\ r.todo = call[c].todo /\ r.want = call[c].want
  BY Zenon, <1>1, <1>2 DEF CallRec
<1>8. r \in CallRec
  BY Zenon, <1>1, <1>2, <1>3, <1>5 DEF CallRec
<1>9. Local(r)
  BY <1>3, <1>4, <1>6, <1>7, <1>8 DEF Local, Undoing, Publishing, Saving, CallRec
<1>10. UNCHANGED <<updates, doc, file, journal, abandoned, touched, lock, Env>> /\ faults' \in Nat
  BY Zenon, Faults DEF Read, disk, ghost, Env, NoFault
<1>11. ASSUME Global PROVE Data(r)'
  <2>1. AtPublish(r)' /\ AtSave(r)'
    BY <1>4, <1>6, Elsewhere DEF Publishing, Saving
  <2>2. AtStart(r)'
    BY <1>4, <1>6, <1>10, <1>11, <1>3, KnowledgeAssumption DEF Global, AtStart, Created,
       Untouched, Journal
  <2>3. AtUndo(r)'
    BY <1>4, <1>6, <1>7, <1>10, <1>11, <1>3, KnowledgeAssumption DEF Global, AtUndo,
       Untouched, Written, Undoing
  <2> QED
    BY Zenon, <2>1, <2>2, <2>3 DEF Data
<1>12. Works(c, r) /\ Becomes(c, r)
  BY <1>2, <1>5, <1>6, <1>7, <1>8, <1>9, <1>10 DEF Works, Becomes, Steps, Outside
<1>13. r.pc \notin {"unlink", "replace"}
  BY <1>4, <1>6
<1> QED
  BY Zenon, <1>10, <1>11, <1>12, <1>13, Control

\* The bytes of an apply are not those of the author or the user.
LEMMA ContentsDiffer ==
  ASSUME NEW j
  PROVE  /\ Output(j) # Missing /\ Output(j) # Original /\ Output(j) # Users
         /\ Missing # Users /\ Original # Users
         /\ Missing \notin Outputs /\ Original \notin Outputs /\ Users \notin Outputs
BY DEF Output, Missing, Original, Users, Outputs

\* journal_path_state tells a missing file and the bytes of the journal apart.
LEMMA PathStates ==
  ASSUME NEW p, NEW j
  PROVE  /\ journal_path_state(p, j) = "Missing" <=> file[p] = Missing
         /\ journal_path_state(p, j) = "ChecksumMatch" <=> file[p] = Output(j)
BY ContentsDiffer DEF journal_path_state

\* rollback_staged_journal looks at the inflight path first: what it does not put on
\* the list of files to remove is missing, or makes the call give up.
LEMMA RollbackStep ==
  ASSUME TypeInv, NEW c \in DOMAIN call, Rollback(c)
  PROVE  Good(c)
<1>1. PICK k \in CallRec : k = call[c] /\ Local(k)
  BY Zenon, CallIsTyped
<1>2. PICK j \in Journal : j = k.journal
  BY <1>1 DEF Rollback, At, Local, Undoing
<1>3. /\ k.pc = "rollback" /\ k.next \in {"check", "release"}
      /\ k.pc \in Steps \ Outside /\ "giveup" \in Steps \ Outside /\ "undo" \in Steps \ Outside
      /\ "giveup" \in Steps /\ "undo" \in Steps
  BY <1>1 DEF Rollback, At, Local, Undoing, Steps, Outside
<1>4. UNCHANGED <<doc, file, journal, abandoned, touched, lock, Env>> /\ faults' \in Nat
  BY Zenon, Faults DEF Rollback, disk, ghost, NoFault
<1>5. CASE Goto(c, "giveup")
  <2>1. PICK r : r = [call[c] EXCEPT !.pc = "giveup"]
    BY Zenon
  <2>2. /\ call' = [call EXCEPT ![c] = r] /\ r \in CallRec /\ r.pc = "giveup" /\ r.want = k.want
        /\ r.journal = j /\ r.doc = k.doc /\ r.next = k.next /\ r.todo = k.todo
    BY <1>1, <1>2, <1>3, <1>5, <2>1, GotoBecomes
  <2>3. Becomes(c, r) /\ Works(c, r)
    BY <1>1, <1>2, <1>3, <1>4, <2>2 DEF Becomes, Works, Local, Undoing, Publishing,
       Saving, CallRec
  <2>4. ASSUME Data(k) PROVE Data(r)'
    BY <1>1, <1>3, <1>4, <2>2, <2>4, Elsewhere DEF Data, AtUndo, Untouched, Undoing,
       Publishing, Saving
  <2> QED
    BY <1>1, <1>4, <2>2, <2>3, <2>4, Control
<1>6. ASSUME NEW T \in SUBSET Targets,
             call' = [call EXCEPT ![c].todo = T, ![c].pc = "undo"],
             \A p \in Targets : p \in j.done \cup {j.inflight} =>
                 p \in T \cup (j.done \cap updates) \/ file[p] = Missing
      PROVE  Good(c)
  <2>1. PICK r : r = [k EXCEPT !.todo = T, !.pc = "undo"]
    BY Zenon
  <2>2. call' = [call EXCEPT ![c] = r] /\ r \in CallRec
    BY Zenon, <1>1, <1>3, <1>6, <2>1 DEF CallRec, TypeInv, CallsTyped
  <2>3. r.pc = "undo" /\ r.want = k.want /\ r.journal = j /\ r.doc = k.doc /\ r.next = k.next /\ r.todo = T
    BY Zenon, <1>1, <1>2, <2>1 DEF CallRec
  <2>4. Becomes(c, r) /\ Works(c, r)
    BY <1>1, <1>2, <1>3, <1>4, <2>2, <2>3 DEF Becomes, Works, Local, Undoing, Publishing,
       Saving
  <2>5. ASSUME Data(k) PROVE Data(r)'
    <3>1. AtStart(r)' /\ AtPublish(r)' /\ AtSave(r)'
      BY <2>3, Elsewhere DEF Publishing, Saving
    <3>2. AtUndo(r)'
      BY <1>2, <1>3, <1>4, <1>6, <2>3, <2>5, ContentsDiffer DEF Data, AtUndo, Untouched,
         Undoing, Written, Env
    <3> QED
      BY Zenon, <3>1, <3>2 DEF Data
  <2> QED
    BY <1>1, <1>4, <2>3, <2>4, <2>5, Control
<1>7. CASE /\ j.inflight # None /\ journal_path_state(j.inflight, j) = "ChecksumMatch"
           /\ j.inflight \notin updates
           /\ call' = [call EXCEPT ![c].todo = Created(j) \cup {j.inflight}, ![c].pc = "undo"]
  <2>1. Created(j) \cup {j.inflight} \in SUBSET Targets
    BY <1>7 DEF Journal, Created
  <2>2. \A p \in Targets : p \in j.done \cup {j.inflight} =>
             p \in (Created(j) \cup {j.inflight}) \cup (j.done \cap updates) \/ file[p] = Missing
    BY DEF Created
  <2> QED
    BY Zenon, <1>6, <1>7, <2>1, <2>2
<1>8. CASE /\ j.inflight = None \/ journal_path_state(j.inflight, j) = "Missing"
           /\ call' = [call EXCEPT ![c].todo = Created(j), ![c].pc = "undo"]
  <2>1. Created(j) \in SUBSET Targets
    BY DEF Journal, Created
  <2>2. \A p \in Targets : p \in j.done \cup {j.inflight} =>
             p \in Created(j) \cup (j.done \cap updates) \/ file[p] = Missing
    BY <1>8, PathStates, KnowledgeAssumption DEF Created
  <2> QED
    BY Zenon, <1>6, <1>8, <2>1, <2>2
<1> QED
  BY <1>1, <1>2, <1>5, <1>7, <1>8 DEF Rollback

\* A file is removed only after its checksum was compared with the journal's.
LEMMA UndoStep ==
  ASSUME TypeInv, NEW c \in DOMAIN call, Undo(c)
  PROVE  Good(c)
<1>1. PICK k \in CallRec : k = call[c] /\ Local(k)
  BY Zenon, CallIsTyped
<1>2. PICK j \in Journal : j = k.journal
  BY <1>1 DEF Undo, At, Local, Undoing
<1>3. /\ k.pc = "undo" /\ k.next \in {"check", "release"} /\ k.todo \subseteq Targets
      /\ \A x \in Undoing : x \in Steps /\ x \in Steps \ Outside
      /\ k.pc \in Steps \ Outside
  BY <1>1 DEF Undo, At, Local, Undoing, Steps, Outside
<1>4. UNCHANGED <<doc, file, journal, abandoned, touched, lock, Env>> /\ faults' \in Nat
  BY Zenon, Faults DEF Undo, disk, ghost, NoFault
<1>5. ASSUME NEW x \in {"giveup", "clear"}, Goto(c, x), x = "clear" => k.todo = {}
      PROVE  Good(c)
  <2>1. PICK r : r = [call[c] EXCEPT !.pc = x]
    BY Zenon
  <2>2. /\ call' = [call EXCEPT ![c] = r] /\ r \in CallRec /\ r.pc = x /\ r.want = k.want
        /\ r.journal = j /\ r.doc = k.doc /\ r.next = k.next /\ r.todo = k.todo
    BY <1>1, <1>2, <1>3, <1>5, <2>1, GotoBecomes DEF Undoing
  <2>3. Becomes(c, r) /\ Works(c, r)
    BY <1>1, <1>2, <1>3, <1>4, <1>5, <2>2 DEF Becomes, Works, Local, Undoing, Publishing,
       Saving
  <2>4. ASSUME Data(k) PROVE Data(r)'
    <3>1. AtStart(r)' /\ AtPublish(r)' /\ AtSave(r)'
      BY <1>5, <2>2, Elsewhere DEF Publishing, Saving
    <3>2. AtUndo(r)'
      BY <1>2, <1>3, <1>4, <1>5, <2>2, <2>4 DEF Data, AtUndo, Untouched, Undoing,
         Written, Env
    <3> QED
      BY Zenon, <3>1, <3>2 DEF Data
  <2> QED
    BY <1>1, <1>4, <1>5, <2>2, <2>3, <2>4, Control
<1>6. ASSUME NEW p \in k.todo, file[p] = Output(j),
             call' = [call EXCEPT ![c].path = p, ![c].pc = "unlink"]
      PROVE  Good(c)
  <2>1. PICK r : r = [k EXCEPT !.path = p, !.pc = "unlink"]
    BY Zenon
  <2>2. call' = [call EXCEPT ![c] = r] /\ r \in CallRec
    <3>1. p \in Targets \cup {None} /\ "unlink" \in Steps
      BY <1>3, <1>6 DEF Undoing
    <3> QED
      BY Zenon, <1>1, <1>6, <2>1, <3>1 DEF CallRec, TypeInv, CallsTyped
  <2>3. r.pc = "unlink" /\ r.want = k.want /\ r.journal = j /\ r.doc = k.doc /\ r.next = k.next /\ r.todo = k.todo /\ r.path = p
    BY Zenon, <1>1, <1>2, <2>1 DEF CallRec
  <2>4. Becomes(c, r) /\ Works(c, r)
    BY Zenon, <1>1, <1>2, <1>3, <1>4, <1>6, <2>2, <2>3 DEF Becomes, Works, Local,
       Undoing, Publishing, Saving
  <2>5. ASSUME Data(k) PROVE Data(r)'
    <3>1. AtStart(r)' /\ AtPublish(r)' /\ AtSave(r)'
      BY <2>3, Elsewhere DEF Publishing, Saving
    <3>2. AtUndo(r)'
      BY <1>2, <1>3, <1>4, <1>6, <2>3, <2>5 DEF Data, AtUndo, Untouched, Undoing,
         Written, Env
    <3> QED
      BY Zenon, <3>1, <3>2 DEF Data
  <2>6. file[r.path] # Users
    BY <1>6, <2>3, ContentsDiffer
  <2> QED
    BY <1>1, <1>4, <2>4, <2>5, <2>6, Control
<1>7. ASSUME NEW p \in k.todo, file[p] = Missing, call' = [call EXCEPT ![c].todo = @ \ {p}]
      PROVE  Good(c)
  <2>1. PICK r : r = [k EXCEPT !.todo = k.todo \ {p}]
    BY Zenon
  <2>2. call' = [call EXCEPT ![c] = r] /\ r \in CallRec
    <3>1. k.todo \ {p} \in SUBSET Targets
      BY <1>3
    <3> QED
      BY Zenon, <1>1, <1>7, <2>1, <3>1 DEF CallRec, TypeInv, CallsTyped
  <2>3. r.pc = "undo" /\ r.want = k.want /\ r.journal = j /\ r.doc = k.doc /\ r.next = k.next /\ r.todo = k.todo \ {p}
    BY Zenon, <1>1, <1>2, <1>3, <2>1 DEF CallRec
  <2>4. Becomes(c, r) /\ Works(c, r)
    BY Zenon, <1>1, <1>2, <1>3, <1>4, <1>7, <2>2, <2>3 DEF Becomes, Works, Local,
       Undoing, Publishing, Saving
  <2>5. ASSUME Data(k) PROVE Data(r)'
    <3>1. AtStart(r)' /\ AtPublish(r)' /\ AtSave(r)'
      BY <2>3, Elsewhere DEF Publishing, Saving
    <3>2. AtUndo(r)'
      BY <1>2, <1>3, <1>4, <1>7, <2>3, <2>5, ContentsDiffer DEF Data, AtUndo, Untouched,
         Undoing, Written, Env
    <3> QED
      BY Zenon, <3>1, <3>2 DEF Data
  <2> QED
    BY <1>1, <1>4, <2>3, <2>4, <2>5, Control
<1> QED
  BY <1>1, <1>2, <1>5, <1>6, <1>7, PathStates DEF Undo

\* apply_decision_updates resolves the document, and commits accepted proposals only.
LEMMA Outcomes ==
  ASSUME NEW d \in Doc, NEW o \in Doc, NEW put, put = apply_decision_updates(d, o)
  PROVE  /\ put \in Doc /\ put.status \in Resolved
         /\ \A p \in Targets : put.dec[p] = "committed" => o.sel[p] = "yes"
<1>1. document_status_for_outcomes(o) \in Resolved
  BY DEF document_status_for_outcomes, Resolved
<1>2. \A p \in Targets : /\ DecisionStatus(o.sel[p]) \in {"pending", "committed", "rejected", "needs_revision"}
                         /\ DecisionStatus(o.sel[p]) = "committed" => o.sel[p] = "yes"
  BY DEF DecisionStatus
<1>3. PICK dec : dec = [p \in Targets |-> DecisionStatus(o.sel[p])]
  BY Zenon
<1>4. dec \in [Targets -> {"pending", "committed", "rejected", "needs_revision"}]
  BY <1>2, <1>3
<1>5. put = [d EXCEPT !.status = document_status_for_outcomes(o), !.dec = dec]
  BY Zenon, <1>3 DEF apply_decision_updates
<1>6. put \in Doc
  BY Zenon, <1>1, <1>4, <1>5 DEF Doc
<1>7. put.status = document_status_for_outcomes(o) /\ put.dec = dec
  BY Zenon, <1>5 DEF Doc
<1> QED
  BY <1>1, <1>2, <1>3, <1>6, <1>7

\* A call that has decided what to save goes on to compare the document.
LEMMA PutBecomes ==
  ASSUME TypeInv, NEW c \in DOMAIN call, NEW put \in Doc,
         NEW next \in {"saved", "release"},
         call' = [call EXCEPT ![c].pc = "swap", ![c].next = next, ![c].put = put],
         next = "saved" => call[c].journal \in Journal,
         call[c].pc \in Steps \ Outside, UNCHANGED <<lock, touched, Env>>, faults' \in Nat
  PROVE  \E r : /\ Becomes(c, r) /\ Works(c, r) /\ r.pc = "swap" /\ r.put = put
<1>1. PICK k \in CallRec : k = call[c] /\ Local(k)
  BY Zenon, CallIsTyped
<1>2. PICK r : r = [k EXCEPT !.pc = "swap", !.next = next, !.put = put]
  BY Zenon
<1>3. call' = [call EXCEPT ![c] = r] /\ r \in CallRec
  <2>1. "swap" \in Steps /\ put \in Doc \cup {None} /\ next \in {"check", "saved", "release"}
    BY DEF Steps, Saving
  <2> QED
    BY Zenon, <1>1, <1>2, <2>1 DEF CallRec, TypeInv, CallsTyped
<1>4. r.pc = "swap" /\ r.want = k.want /\ r.journal = k.journal /\ r.next = next /\ r.put = put
  BY Zenon, <1>1, <1>2 DEF CallRec
<1>5. Local(r) /\ r.pc \in Steps \ Outside
  BY <1>1, <1>4 DEF Local, Undoing, Publishing, Saving, Steps, Outside
<1> QED
  BY Zenon, <1>1, <1>3, <1>4, <1>5 DEF Becomes, Works

\* It relies on the truth of what it saves.
LEMMA SwapData ==
  ASSUME NEW r, r.pc = "swap", r.put.status # "pending", Kept(r.put)',
         journal' # None => journal'.state # "Staged"
  PROVE  Data(r)'
<1>1. AtStart(r)' /\ AtUndo(r)' /\ AtPublish(r)'
  BY Elsewhere DEF Undoing, Publishing
<1>2. AtSave(r)'
  BY Zenon DEF AtSave
<1> QED
  BY Zenon, <1>1, <1>2 DEF Data

\* validate_finalized_journal_match has found every planned file with its bytes, so
\* that the outcomes it saves are true.
LEMMA ValidateStep ==
  ASSUME TypeInv, NEW c \in DOMAIN call, Validate(c)
  PROVE  Good(c)
<1>1. PICK k \in CallRec : k = call[c] /\ Local(k)
  BY Zenon, CallIsTyped
<1>2. PICK j \in Journal : j = k.journal
  BY <1>1 DEF Validate, At, Local
<1>3. /\ k.pc = "validate" /\ k.doc \in Doc /\ j.before \in Doc
      /\ k.pc \in Steps \ Outside /\ "mismatch" \in Steps \ Outside /\ "mismatch" \in Steps
  BY <1>1, <1>2 DEF Validate, At, Local, Journal, Steps, Outside
<1>4. UNCHANGED <<doc, file, journal, abandoned, touched, lock, Env>> /\ faults' \in Nat
  BY Zenon, Faults DEF Validate, disk, ghost, NoFault
<1>5. ASSUME Matches(c), NEW put, put = apply_decision_updates(k.doc, j.before),
             call' = [call EXCEPT ![c].pc = "swap", ![c].next = "saved", ![c].put = put]
      PROVE  Good(c)
  <2>1. /\ put \in Doc /\ put.status \in Resolved
        /\ \A p \in Targets : put.dec[p] = "committed" => j.before.sel[p] = "yes"
    BY Zenon, <1>3, <1>5, Outcomes
  <2>2. call[c].pc \in Steps \ Outside /\ call[c].journal \in Journal
    BY <1>1, <1>2, <1>3
  <2>3. PICK r : Becomes(c, r) /\ Works(c, r) /\ r.pc = "swap" /\ r.put = put
    BY Zenon, <1>4, <1>5, <2>1, <2>2, PutBecomes
  <2>4. \A p \in Targets : put.dec[p] = "committed" => file[p] \in Outputs
    <3> SUFFICES ASSUME NEW p \in Targets, put.dec[p] = "committed"
                 PROVE  file[p] \in Outputs
      BY Zenon
    <3>1. file[p] = Output(j)
      BY <1>1, <1>2, <1>5, <2>1, PathStates DEF Matches, Planned, Answered
    <3> QED
      BY <3>1 DEF Output, Outputs, Journal
  <2>5. ASSUME Data(k) PROVE Data(r)'
    <3>1. journal' # None => journal'.state # "Staged"
      BY <1>3, <1>4, <2>5 DEF Data, AtStart
    <3>2. r.put.status # "pending" /\ Kept(r.put)'
      BY <1>4, <2>1, <2>3, <2>4 DEF Kept, Resolved
    <3> QED
      BY Zenon, <2>3, <3>1, <3>2, SwapData
  <2> QED
    BY <1>1, <1>4, <2>3, <2>5, Control
<1>6. CASE Goto(c, "mismatch")
  <2>1. PICK r : r = [call[c] EXCEPT !.pc = "mismatch"]
    BY Zenon
  <2>2. /\ call' = [call EXCEPT ![c] = r] /\ r \in CallRec /\ r.pc = "mismatch" /\ r.want = k.want
        /\ r.journal = j /\ r.doc = k.doc
    BY <1>1, <1>2, <1>3, <1>6, <2>1, GotoBecomes
  <2>3. Becomes(c, r) /\ Works(c, r)
    BY <1>1, <1>2, <1>3, <1>4, <2>2 DEF Becomes, Works, Local, Undoing, Publishing, Saving
  <2>4. ASSUME Data(k) PROVE Data(r)'
    <3>1. AtUndo(r)' /\ AtPublish(r)' /\ AtSave(r)'
      BY <2>2, Elsewhere DEF Undoing, Publishing, Saving
    <3>2. AtStart(r)'
      BY <1>2, <1>3, <1>4, <2>2, <2>4 DEF Data, AtStart, Untouched
    <3> QED
      BY Zenon, <3>1, <3>2 DEF Data
  <2> QED
    BY <1>1, <1>4, <2>2, <2>3, <2>4, Control
<1> QED
  BY Zenon, <1>1, <1>2, <1>5, <1>6 DEF Validate

\* A finalized journal of a resolved document is discarded or left alone.
LEMMA OrphanStep ==
  ASSUME TypeInv, NEW c \in DOMAIN call, Orphan(c)
  PROVE  Good(c)
<1>1. PICK k \in CallRec : k = call[c] /\ Local(k)
  BY Zenon, CallIsTyped
<1>2. /\ k.pc = "orphan" /\ k.doc \in Doc /\ k.journal \in Journal /\ k.todo \subseteq Targets
      /\ k.pc \in Steps \ Outside /\ "discard" \in Steps \ Outside /\ "discard" \in Steps
  BY <1>1 DEF Orphan, At, Local, CallRec, Steps, Outside
<1>3. UNCHANGED <<doc, file, journal, abandoned, touched, lock, Env>> /\ faults' \in Nat
  BY Zenon, Faults DEF Orphan, disk, ghost, NoFault
<1>4. CASE Goto(c, "discard")
  <2>1. PICK r : r = [call[c] EXCEPT !.pc = "discard"]
    BY Zenon
  <2>2. /\ call' = [call EXCEPT ![c] = r] /\ r \in CallRec /\ r.pc = "discard" /\ r.want = k.want
        /\ r.journal = k.journal /\ r.doc = k.doc /\ r.todo = k.todo
    BY <1>1, <1>2, <1>4, <2>1, GotoBecomes
  <2>3. Becomes(c, r) /\ Works(c, r)
    BY <1>1, <1>2, <1>3, <2>2 DEF Becomes, Works, Local, Undoing, Publishing, Saving
  <2>4. ASSUME Data(k) PROVE Data(r)'
    <3>1. AtUndo(r)' /\ AtPublish(r)' /\ AtSave(r)'
      BY <2>2, Elsewhere DEF Undoing, Publishing, Saving
    <3>2. AtStart(r)'
      BY <1>2, <1>3, <2>2, <2>4 DEF Data, AtStart, Untouched
    <3> QED
      BY Zenon, <3>1, <3>2 DEF Data
  <2> QED
    BY <1>1, <1>3, <2>2, <2>3, <2>4, Control
<1>5. CASE Goto(c, "release")
  <2>1. FilesTyped'
    BY Zenon, <1>3 DEF FilesTyped, TypeInv, TypeOK, Contents
  <2>2. Global => Global'
    BY Zenon, <1>3, Undisturbed DEF Env
  <2> QED
    BY Zenon, <1>1, <1>2, <1>3, <1>5, <2>1, <2>2, Leaves
<1> QED
  BY Zenon, <1>4, <1>5 DEF Orphan

\* A call may stop anywhere without changing a file.
LEMMA Stops ==
  ASSUME TypeInv, NEW c \in DOMAIN call, call[c].pc \in Steps \ Outside, Goto(c,
         "release"),
         UNCHANGED <<doc, file, journal, abandoned, touched, lock, Env>>, faults' \in Nat
  PROVE  Good(c)
<1>1. FilesTyped'
  BY Zenon DEF FilesTyped, TypeInv, TypeOK, Contents
<1>2. Global => Global'
  BY Zenon, Undisturbed DEF Env
<1> QED
  BY Zenon, <1>1, <1>2, Leaves

\* Without an accepted proposal the document commits nothing.
LEMMA CheckStep ==
  ASSUME TypeInv, NEW c \in DOMAIN call, Check(c)
  PROVE  Good(c)
<1>1. PICK k \in CallRec : k = call[c] /\ Local(k)
  BY Zenon, CallIsTyped
<1>2. /\ k.pc = "check" /\ k.doc \in Doc
      /\ k.pc \in Steps \ Outside /\ "plan" \in Steps \ Outside /\ "plan" \in Steps
  BY <1>1 DEF Check, At, Local, Steps, Outside
<1>3. UNCHANGED <<doc, file, journal, abandoned, touched, lock, Env>> /\ faults' \in Nat
  BY Zenon, Faults DEF Check, disk, ghost, NoFault
<1>4. CASE Goto(c, "release")
  BY Zenon, <1>1, <1>2, <1>3, <1>4, Stops
<1>5. CASE k.doc.status = "pending" /\ Goto(c, "plan")
  <2>1. PICK r : r = [call[c] EXCEPT !.pc = "plan"]
    BY Zenon
  <2>2. /\ call' = [call EXCEPT ![c] = r] /\ r \in CallRec /\ r.pc = "plan" /\ r.want = k.want
        /\ r.doc = k.doc
    BY <1>1, <1>2, <1>5, <2>1, GotoBecomes
  <2>3. Becomes(c, r) /\ Works(c, r)
    BY <1>1, <1>2, <1>3, <2>2 DEF Becomes, Works, Local, Undoing, Publishing, Saving
  <2>4. ASSUME Data(k) PROVE Data(r)'
    <3>1. AtUndo(r)' /\ AtPublish(r)' /\ AtSave(r)'
      BY <2>2, Elsewhere DEF Undoing, Publishing, Saving
    <3>2. AtStart(r)'
      BY <1>2, <1>3, <1>5, <2>2, <2>4 DEF Data, AtStart, Untouched
    <3> QED
      BY Zenon, <3>1, <3>2 DEF Data
  <2> QED
    BY <1>1, <1>3, <2>2, <2>3, <2>4, Control
<1>6. ASSUME Answered(k.doc, "yes") = {}, NEW put, put = apply_decision_updates(k.doc, k.doc),
             call' = [call EXCEPT ![c].pc = "swap", ![c].next = "release", ![c].put = put]
      PROVE  Good(c)
  <2>1. /\ put \in Doc /\ put.status \in Resolved
        /\ \A p \in Targets : put.dec[p] = "committed" => k.doc.sel[p] = "yes"
    BY Zenon, <1>2, <1>6, Outcomes
  <2>2. PICK r : Becomes(c, r) /\ Works(c, r) /\ r.pc = "swap" /\ r.put = put
    BY <1>1, <1>2, <1>3, <1>6, <2>1, PutBecomes
  <2>3. ASSUME Data(k) PROVE Data(r)'
    <3>1. journal' = None
      BY <1>2, <1>3, <2>3 DEF Data, AtStart
    <3>2. r.put.status # "pending" /\ Kept(r.put)'
      BY <1>6, <2>1, <2>2 DEF Kept, Resolved, Answered
    <3> QED
      BY Zenon, <2>2, <3>1, <3>2, SwapData
  <2> QED
    BY <1>1, <1>3, <2>2, <2>3, Control
<1> QED
  BY Zenon, <1>1, <1>4, <1>5, <1>6 DEF Check

\* Comparing the document changes nothing.
LEMMA SwapStep ==
  ASSUME TypeInv, NEW c \in DOMAIN call, Swap(c)
  PROVE  Good(c)
<1>1. PICK k \in CallRec : k = call[c] /\ Local(k)
  BY Zenon, CallIsTyped
<1>2. /\ k.pc = "swap" /\ k.put \in Doc /\ k.next \in {"saved", "release"}
      /\ k.pc \in Steps \ Outside /\ "write" \in Steps \ Outside /\ "write" \in Steps
  BY <1>1 DEF Swap, At, Local, Saving, Steps, Outside
<1>3. UNCHANGED <<doc, file, journal, abandoned, touched, lock, Env>> /\ faults' \in Nat
  BY Zenon, Faults DEF Swap, disk, ghost, NoFault
<1>4. CASE Goto(c, "release")
  BY Zenon, <1>1, <1>2, <1>3, <1>4, Stops
<1>5. CASE Goto(c, "write")
  <2>1. PICK r : r = [call[c] EXCEPT !.pc = "write"]
    BY Zenon
  <2>2. /\ call' = [call EXCEPT ![c] = r] /\ r \in CallRec /\ r.pc = "write" /\ r.want = k.want
        /\ r.put = k.put /\ r.next = k.next /\ r.journal = k.journal
    BY <1>1, <1>2, <1>5, <2>1, GotoBecomes
  <2>3. Becomes(c, r) /\ Works(c, r)
    BY <1>1, <1>2, <1>3, <2>2 DEF Becomes, Works, Local, Undoing, Publishing, Saving
  <2>4. ASSUME Data(k) PROVE Data(r)'
    <3>1. AtStart(r)' /\ AtUndo(r)' /\ AtPublish(r)'
      BY <2>2, Elsewhere DEF Undoing, Publishing
    <3>2. AtSave(r)'
      BY <1>2, <1>3, <2>2, <2>4 DEF Data, AtSave, Kept, Saving
    <3> QED
      BY Zenon, <3>1, <3>2 DEF Data
  <2> QED
    BY <1>1, <1>3, <2>2, <2>3, <2>4, Control
<1> QED
  BY Zenon, <1>4, <1>5 DEF Swap

\* A failing read ends the call.
LEMMA ReadFailsStep ==
  ASSUME TypeInv, NEW c \in DOMAIN call, ReadFails(c)
  PROVE  Good(c)
<1>1. call[c].pc \in Steps \ Outside
  BY DEF ReadFails, Steps, Outside, Undoing
<1>2. UNCHANGED <<doc, file, journal, abandoned, touched, lock, Env>> /\ Goto(c, "release")
  BY Zenon DEF ReadFails, disk, ghost
<1>3. faults' \in Nat
  BY Zenon, Faults DEF ReadFails
<1> QED
  BY Zenon, <1>1, <1>2, <1>3, Stops

\* A journal that is discarded leaves only abandoned pages behind.
LEMMA DiscardStep ==
  ASSUME TypeInv, NEW c \in DOMAIN call, Discard(c)
  PROVE  Good(c)
<1>1. PICK k \in CallRec : k = call[c] /\ Local(k)
  BY Zenon, CallIsTyped
<1>2. /\ k.pc = "discard" /\ k.doc \in Doc /\ k.journal \in Journal
      /\ k.pc \in Steps \ Outside /\ "check" \in Steps \ Outside /\ "check" \in Steps
  BY <1>1 DEF Discard, At, Local, Steps, Outside
<1>3. UNCHANGED <<doc, file, touched, lock, Env>>
  BY Zenon DEF Discard
<1>4. faults' \in Nat
  BY Zenon, Faults DEF Discard
<1>5. CASE Goto(c, "release") /\ UNCHANGED <<journal, abandoned>>
  BY Zenon, <1>1, <1>2, <1>3, <1>4, <1>5, Stops
<1>6. CASE /\ journal' = None /\ Goto(c, "check")
           /\ abandoned' = IF k.journal.state = "Staged"
                           THEN abandoned \cup (k.journal.done \cap updates) ELSE abandoned
  <2>1. PICK r : r = [call[c] EXCEPT !.pc = "check"]
    BY Zenon
  <2>2. /\ call' = [call EXCEPT ![c] = r] /\ r \in CallRec /\ r.pc = "check" /\ r.want = k.want
        /\ r.doc = k.doc
    BY <1>1, <1>2, <1>6, <2>1, GotoBecomes
  <2>3. Becomes(c, r) /\ Works(c, r)
    BY <1>1, <1>2, <1>3, <1>4, <2>2 DEF Becomes, Works, Local, Undoing, Publishing, Saving
  <2>4. FilesTyped' /\ KeepsUsers(c, r)
    BY <1>2, <1>3, <1>6, <2>2 DEF FilesTyped, KeepsUsers, TypeInv, TypeOK, Contents, Env
  <2>5. ASSUME Global, Data(k) PROVE Global' /\ Data(r)'
    <3>1. AtUndo(r)' /\ AtPublish(r)' /\ AtSave(r)'
      BY <2>2, Elsewhere DEF Undoing, Publishing, Saving
    <3>2. AtStart(r)'
      BY <1>2, <1>3, <1>6, <2>2, <2>5 DEF Data, AtStart, Untouched
    <3>3. Untouched(doc)' /\ Kept(doc)'
      BY Zenon, <1>3, <2>5 DEF Global, Untouched, Kept
    <3>4. ASSUME doc.status = "pending", NEW p \in Targets PROVE ~Written(p)'
      <4>1. /\ k.journal = journal /\ journal.state = "Staged"
            /\ journal.done \subseteq updates /\ journal.inflight = None
        BY <1>2, <2>5, <3>4 DEF Data, AtStart
      <4> QED
        BY <1>3, <1>6, <2>5, <3>4, <4>1, KnowledgeAssumption DEF Global, Written
    <3> QED
      BY <1>3, <1>6, <3>1, <3>2, <3>3, <3>4 DEF Data, Global
  <2> QED
    BY Zenon, <1>1, <2>3, <2>4, <2>5 DEF Good, KeepsData
<1> QED
  BY Zenon, <1>1, <1>5, <1>6 DEF Discard

\* An undone journal is removed when nothing is left to undo but pages updated in
\* place.
LEMMA ClearStep ==
  ASSUME TypeInv, NEW c \in DOMAIN call, Clear(c)
  PROVE  Good(c)
<1>1. PICK k \in CallRec : k = call[c] /\ Local(k)
  BY Zenon, CallIsTyped
<1>2. /\ k.pc = "clear" /\ k.journal \in Journal /\ k.next \in {"check", "release"} /\ k.todo \subseteq Targets
      /\ k.pc \in Steps \ Outside
      /\ \A x \in {"check", "release", "giveup"} : x \in Steps \ Outside /\ x \in Steps
  BY <1>1 DEF Clear, At, Local, Steps, Outside, Undoing
<1>3. UNCHANGED <<doc, file, touched, lock, Env>>
  BY Zenon DEF Clear
<1>4. faults' \in Nat
  BY Zenon, Faults DEF Clear
<1>5. CASE Goto(c, "giveup") /\ UNCHANGED <<journal, abandoned>>
  <2>1. PICK r : r = [call[c] EXCEPT !.pc = "giveup"]
    BY Zenon
  <2>2. /\ call' = [call EXCEPT ![c] = r] /\ r \in CallRec /\ r.pc = "giveup" /\ r.want = k.want
        /\ r.journal = k.journal /\ r.doc = k.doc /\ r.next = k.next /\ r.todo = k.todo
    BY <1>1, <1>2, <1>5, <2>1, GotoBecomes
  <2>3. Becomes(c, r) /\ Works(c, r)
    BY <1>1, <1>2, <1>3, <1>4, <2>2 DEF Becomes, Works, Local, Undoing, Publishing, Saving
  <2>4. ASSUME Data(k) PROVE Data(r)'
    BY <1>2, <1>3, <2>2, <2>4, Elsewhere DEF Data, AtUndo, Untouched, Undoing,
       Publishing, Saving
  <2> QED
    BY <1>1, <1>3, <1>5, <2>2, <2>3, <2>4, Control
<1>6. CASE /\ journal' = None /\ Goto(c, k.next)
           /\ abandoned' = abandoned \cup (k.journal.done \cap updates)
  <2>1. FilesTyped'
    BY <1>3, <1>6 DEF FilesTyped, TypeInv, TypeOK, Contents, Env
  <2>2. ASSUME Global, Data(k) PROVE Global'
    <3>1. Untouched(doc)' /\ Kept(doc)'
      BY Zenon, <1>3, <2>2 DEF Global, Untouched, Kept
    <3>2. ASSUME NEW p \in Targets PROVE ~Written(p)'
      BY <1>2, <1>3, <1>6, <2>2 DEF Data, AtUndo, Written
    <3> QED
      BY <1>3, <1>6, <3>1, <3>2 DEF Global
  <2>3. CASE k.next = "release"
    BY <1>1, <1>2, <1>3, <1>4, <1>6, <2>1, <2>2, <2>3, Leaves
  <2>4. CASE k.next = "check"
    <3>1. PICK r : r = [call[c] EXCEPT !.pc = "check"]
      BY Zenon
    <3>2. /\ call' = [call EXCEPT ![c] = r] /\ r \in CallRec /\ r.pc = "check" /\ r.want = k.want
          /\ r.doc = k.doc
      BY <1>1, <1>2, <1>6, <2>4, <3>1, GotoBecomes
    <3>3. k.doc \in Doc
      BY <1>1, <1>2 DEF Local, Undoing
    <3>4. Becomes(c, r) /\ Works(c, r)
      BY <1>1, <1>2, <1>3, <1>4, <3>2, <3>3 DEF Becomes, Works, Local, Undoing,
         Publishing, Saving
    <3>5. KeepsUsers(c, r)
      BY <1>3, <3>2 DEF KeepsUsers
    <3>6. ASSUME Data(k) PROVE Data(r)'
      <4>1. AtUndo(r)' /\ AtPublish(r)' /\ AtSave(r)'
        BY <3>2, Elsewhere DEF Undoing, Publishing, Saving
      <4>2. AtStart(r)'
        BY <1>2, <1>3, <1>6, <2>4, <3>2, <3>6 DEF Data, AtStart, AtUndo, Undoing,
           Untouched
      <4> QED
        BY Zenon, <4>1, <4>2 DEF Data
    <3> QED
      BY Zenon, <1>1, <2>1, <2>2, <3>4, <3>5, <3>6 DEF Good, KeepsData
  <2> QED
    BY Zenon, <1>2, <2>3, <2>4
<1> QED
  BY Zenon, <1>1, <1>5, <1>6 DEF Clear

\* The journal with another state.
LEMMA JournalStates ==
  ASSUME NEW j \in Journal,
         NEW s \in {"Staged", "Finalized", "DocumentSaved", "CleanupRequired"},
         NEW i, i = [j EXCEPT !.state = s]
  PROVE  /\ i \in Journal /\ i.state = s /\ i.before = j.before /\ i.stamp = j.stamp
         /\ i.done = j.done /\ i.inflight = j.inflight
<1>1. i \in Journal
  BY Zenon DEF Journal
<1> QED
  BY Zenon, <1>1 DEF Journal

\* A journal that does not ask for a rollback leads to every file.
LEMMA ClosedJournal ==
  ASSUME Global, UNCHANGED <<doc, file, touched, abandoned>>, journal' \in Journal,
         journal'.state # "Staged",
         journal'.state = "DocumentSaved" => doc.status # "pending"
  PROVE  Global'
<1>1. Untouched(doc)' /\ Kept(doc)'
  BY Zenon DEF Global, Untouched, Kept
<1> QED
  BY <1>1, KnowledgeAssumption DEF Global

\* persist_cleanup_required keeps the journal, or leaves it as it was.
LEMMA GiveUpStep ==
  ASSUME TypeInv, NEW c \in DOMAIN call, GiveUp(c)
  PROVE  Good(c)
<1>1. PICK k \in CallRec : k = call[c] /\ Local(k)
  BY Zenon, CallIsTyped
<1>2. k.pc = "giveup" /\ k.journal \in Journal /\ k.pc \in Steps \ Outside
  BY <1>1 DEF GiveUp, At, Local, Steps, Outside, Undoing
<1>3. UNCHANGED <<doc, file, touched, abandoned, lock, Env>> /\ Goto(c, "release")
  BY Zenon DEF GiveUp, ghost
<1>4. faults' \in Nat
  BY Zenon, Faults DEF GiveUp
<1>5. CASE UNCHANGED journal
  BY Zenon, <1>1, <1>2, <1>3, <1>4, <1>5, Stops
<1>6. CASE journal' = [k.journal EXCEPT !.state = "CleanupRequired"]
  <2>1. journal' \in Journal /\ journal'.state = "CleanupRequired"
    BY <1>2, <1>6, JournalStates
  <2>2. FilesTyped'
    BY <1>3, <2>1 DEF FilesTyped, TypeInv, TypeOK, Contents
  <2>3. Global => Global'
    BY <1>3, <2>1, ClosedJournal
  <2> QED
    BY Zenon, <1>1, <1>2, <1>3, <1>4, <2>2, <2>3, Leaves
<1> QED
  BY Zenon, <1>1, <1>5, <1>6 DEF GiveUp

\* handle_finalized_journal_mismatch marks the document apply_failed and keeps the
\* journal.
LEMMA MismatchStep ==
  ASSUME TypeInv, NEW c \in DOMAIN call, Mismatch(c)
  PROVE  Good(c)
<1>1. PICK k \in CallRec : k = call[c] /\ Local(k)
  BY Zenon, CallIsTyped
<1>2. k.pc = "mismatch" /\ k.journal \in Journal /\ k.doc \in Doc /\ k.pc \in Steps \ Outside
  BY <1>1 DEF Mismatch, At, Local, Steps, Outside
<1>3. UNCHANGED <<doc, file, touched, abandoned, lock, Env>>
  BY Zenon DEF Mismatch, ghost
<1>4. faults' \in Nat
  BY Zenon, Faults DEF Mismatch
<1>5. journal' = journal \/ (journal' \in Journal /\ journal'.state = "CleanupRequired")
  BY <1>1, <1>2, JournalStates DEF Mismatch
<1>6. FilesTyped'
  BY <1>3, <1>5 DEF FilesTyped, TypeInv, TypeOK, Contents
<1>7. Global => Global'
  <2>1. CASE journal' = journal
    BY Zenon, <1>3, <2>1, Undisturbed DEF Env
  <2>2. CASE journal' \in Journal /\ journal'.state = "CleanupRequired"
    BY <1>3, <2>2, ClosedJournal
  <2> QED
    BY <1>5, <2>1, <2>2
<1>8. CASE Goto(c, "release")
  BY Zenon, <1>1, <1>2, <1>3, <1>4, <1>6, <1>7, <1>8, Leaves
<1>9. ASSUME NEW put, put = [k.doc EXCEPT !.status = "apply_failed"],
             call' = [call EXCEPT ![c].pc = "swap", ![c].next = "release", ![c].put = put]
      PROVE  Good(c)
  <2>1. put \in Doc /\ put.status = "apply_failed" /\ put.dec = k.doc.dec
    BY Zenon, <1>2, <1>9 DEF Doc
  <2>2. PICK r : Becomes(c, r) /\ Works(c, r) /\ r.pc = "swap" /\ r.put = put
    BY <1>1, <1>2, <1>3, <1>4, <1>9, <2>1, PutBecomes
  <2>3. ASSUME Data(k) PROVE Data(r)'
    <3>1. journal' # None => journal'.state # "Staged"
      BY <1>2, <1>5, <2>3 DEF Data, AtStart
    <3>2. r.put.status # "pending" /\ Kept(r.put)'
      BY <1>2, <2>1, <2>2, <2>3 DEF Data, AtStart, Untouched, Kept
    <3> QED
      BY Zenon, <2>2, <3>1, <3>2, SwapData
  <2>4. KeepsUsers(c, r)
    BY <1>3, <2>2 DEF KeepsUsers
  <2> QED
    BY Zenon, <1>1, <1>6, <1>7, <2>2, <2>3, <2>4 DEF Good, KeepsData
<1> QED
  BY Zenon, <1>1, <1>8, <1>9 DEF Mismatch

\* The journal is marked DocumentSaved after the document was saved only.
LEMMA MarkSavedStep ==
  ASSUME TypeInv, NEW c \in DOMAIN call, MarkSaved(c)
  PROVE  Good(c)
<1>1. PICK k \in CallRec : k = call[c] /\ Local(k)
  BY Zenon, CallIsTyped
<1>2. /\ k.pc = "saved" /\ k.journal \in Journal /\ k.pc \in Steps \ Outside
      /\ "remove" \in Steps /\ "remove" \in Steps \ Outside
  BY <1>1 DEF MarkSaved, At, Local, Steps, Outside
<1>3. UNCHANGED <<doc, file, touched, abandoned, lock, Env>>
  BY Zenon DEF MarkSaved, ghost
<1>4. faults' \in Nat
  BY Zenon, Faults DEF MarkSaved
<1>5. CASE UNCHANGED journal /\ Goto(c, "release")
  BY Zenon, <1>1, <1>2, <1>3, <1>4, <1>5, Stops
<1>6. CASE journal' = [k.journal EXCEPT !.state = "DocumentSaved"] /\ Goto(c, "remove")
  <2>1. journal' \in Journal /\ journal'.state = "DocumentSaved"
    BY <1>2, <1>6, JournalStates
  <2>2. FilesTyped'
    BY <1>3, <2>1 DEF FilesTyped, TypeInv, TypeOK, Contents
  <2>3. PICK r : r = [call[c] EXCEPT !.pc = "remove"]
    BY Zenon
  <2>4. /\ call' = [call EXCEPT ![c] = r] /\ r \in CallRec /\ r.pc = "remove" /\ r.want = k.want
        /\ r.journal = k.journal
    BY <1>1, <1>2, <1>6, <2>3, GotoBecomes
  <2>5. Becomes(c, r) /\ Works(c, r) /\ KeepsUsers(c, r)
    BY <1>1, <1>2, <1>3, <1>4, <2>4
       DEF Becomes, Works, KeepsUsers, Local, Undoing, Publishing, Saving
  <2>6. ASSUME Global, Data(k) PROVE Global' /\ Data(r)'
    <3>1. doc.status # "pending"
      BY <1>2, <2>6 DEF Data, AtSave
    <3>2. Global'
      BY <1>3, <2>1, <2>6, <3>1, ClosedJournal
    <3>3. AtStart(r)' /\ AtUndo(r)' /\ AtPublish(r)'
      BY <2>4, Elsewhere DEF Undoing, Publishing
    <3>4. AtSave(r)'
      BY <1>3, <2>4, <3>1 DEF AtSave, Saving
    <3> QED
      BY Zenon, <3>2, <3>3, <3>4 DEF Data
  <2> QED
    BY Zenon, <1>1, <2>2, <2>5, <2>6 DEF Good, KeepsData
<1> QED
  BY Zenon, <1>1, <1>5, <1>6 DEF MarkSaved

\* Removing the journal of a saved document, or failing to, is safe.
LEMMA RemoveJournalStep ==
  ASSUME TypeInv, NEW c \in DOMAIN call, RemoveJournal(c)
  PROVE  Good(c)
<1>1. call[c].pc = "remove" /\ call[c].pc \in Steps \ Outside
  BY DEF RemoveJournal, At, Steps, Outside
<1>2. UNCHANGED <<doc, file, touched, abandoned, lock, Env>> /\ Goto(c, "release")
  BY Zenon DEF RemoveJournal, ghost
<1>3. faults' \in Nat
  BY Zenon, Faults DEF RemoveJournal
<1>4. CASE UNCHANGED journal
  BY Zenon, <1>1, <1>2, <1>3, <1>4, Stops
<1>5. CASE journal' = None
  <2>1. FilesTyped'
    BY <1>2, <1>5 DEF FilesTyped, TypeInv, TypeOK, Contents
  <2>2. ASSUME Global, Data(call[c]) PROVE Global'
    <3>1. Untouched(doc)' /\ Kept(doc)'
      BY Zenon, <1>2, <2>2 DEF Global, Untouched, Kept
    <3>2. doc.status # "pending"
      BY <1>1, <2>2 DEF Data, AtSave
    <3> QED
      BY <1>2, <1>5, <3>1, <3>2 DEF Global
  <2> QED
    BY Zenon, <1>1, <1>2, <1>3, <2>1, <2>2, Leaves
<1> QED
  BY Zenon, <1>4, <1>5 DEF RemoveJournal

-----------------------------------------------------------------------------
(* A new apply *)

\* A call that publishes or undoes holds both locks.
LEMMA PublishingSteps ==
  /\ \A x \in Publishing : x \in Steps /\ x \in Steps \ Outside
  /\ \A x \in Undoing : x \in Steps /\ x \in Steps \ Outside
BY DEF Publishing, Undoing, Steps, Outside

\* While it publishes, a call relies on AtPublish only.
LEMMA PublishingData ==
  ASSUME NEW r, r.pc \in Publishing, AtPublish(r)'
  PROVE  Data(r)'
<1>1. AtStart(r)' /\ AtUndo(r)' /\ AtSave(r)'
  BY Elsewhere DEF Publishing, Undoing, Saving
<1> QED
  BY Zenon, <1>1 DEF Data

\* The values a call uses while it publishes.
LEMMA PublishingLocal ==
  ASSUME NEW r \in CallRec, r.pc \in Publishing, r.journal \in Journal, r.doc \in Doc,
         r.path \in Targets \/ r.pc \notin {"publish", "replace", "record"}
  PROVE  Local(r)
BY DEF Local, CallRec, Publishing, Undoing, Saving

\* The same, of a call that is publishing.
LEMMA PublishingCall ==
  ASSUME TypeInv, NEW c \in DOMAIN call, call[c].pc \in Publishing
  PROVE  /\ call[c] \in CallRec /\ call[c].journal \in Journal /\ call[c].doc \in Doc
         /\ call[c].todo \subseteq Targets
         /\ call[c].pc \in {"publish", "replace", "record"} => call[c].path \in Targets
BY CallIsTyped DEF Local, CallRec

\* The journal is written before anything else: nothing was there that it does not
\* lead to.
LEMMA PlanStep ==
  ASSUME TypeInv, NEW c \in DOMAIN call, Plan(c)
  PROVE  Good(c)
<1>1. PICK k \in CallRec : k = call[c] /\ Local(k)
  BY Zenon, CallIsTyped
<1>2. k.pc = "plan" /\ k.doc \in Doc /\ k.pc \in Steps \ Outside
  BY <1>1 DEF Plan, At, Local, Steps, Outside
<1>3. UNCHANGED <<doc, file, touched, abandoned, lock, Env>>
  BY Zenon DEF Plan, ghost
<1>4. faults' \in Nat
  BY Zenon, Faults DEF Plan
<1>5. CASE UNCHANGED journal /\ Goto(c, "release")
  BY Zenon, <1>1, <1>2, <1>3, <1>4, <1>5, Stops
<1>6. ASSUME NEW planned, planned = Answered(k.doc, "yes"), \A p \in planned : Free(p),
             NEW j, j = [state |-> "Staged", before |-> k.doc, stamp |-> now, done |-> {}, inflight |-> None],
             journal' = j,
             call' = [call EXCEPT ![c].journal = j, ![c].todo = planned, ![c].pc = "stage"]
      PROVE  Good(c)
  <2>1. j \in Journal /\ planned \in SUBSET Targets
    BY <1>2, <1>6 DEF Journal, TypeInv, TypeOK, Answered
  <2>2. /\ j.state = "Staged" /\ j.before = k.doc /\ j.done = {} /\ j.inflight = None
        /\ Planned(j) = planned
    BY <1>6 DEF Planned
  <2>3. PICK r : r = [k EXCEPT !.journal = j, !.todo = planned, !.pc = "stage"]
    BY Zenon
  <2>4. call' = [call EXCEPT ![c] = r] /\ r \in CallRec
    <3>1. "stage" \in Steps /\ j \in Journal \cup {None}
      BY <2>1, PublishingSteps DEF Publishing
    <3> QED
      BY Zenon, <1>1, <1>6, <2>1, <2>3, <3>1 DEF CallRec, TypeInv, CallsTyped
  <2>5. r.pc = "stage" /\ r.want = k.want /\ r.journal = j /\ r.doc = k.doc /\ r.todo = planned
    BY Zenon, <1>1, <2>3 DEF CallRec
  <2>6. r.pc \in Publishing /\ r.pc \in Steps \ Outside
    BY <2>5, PublishingSteps DEF Publishing
  <2>7. Becomes(c, r) /\ Works(c, r)
    BY <1>1, <1>2, <1>3, <1>4, <2>1, <2>4, <2>5, <2>6, PublishingLocal DEF Becomes, Works
  <2>8. FilesTyped' /\ KeepsUsers(c, r)
    BY <1>3, <1>6, <2>1, <2>5 DEF FilesTyped, KeepsUsers, TypeInv, TypeOK, Contents
  <2>9. ASSUME Global, Data(k) PROVE Global' /\ Data(r)'
    <3>1. doc.status = "pending" /\ journal = None
      BY <1>2, <2>9 DEF Data, AtStart
    <3>2. Untouched(doc)' /\ Kept(doc)'
      BY Zenon, <1>3, <2>9 DEF Global, Untouched, Kept
    <3>3. \A p \in Targets : ~Written(p)'
      BY <1>3, <2>9, <3>1 DEF Global, Written
    <3>4. \A p \in planned : file[p] \notin Outputs
      BY <1>6, ContentsDiffer DEF Free
    <3>5. AtPublish(r)'
      BY <1>3, <1>6, <2>2, <2>5, <3>1, <3>4 DEF AtPublish
    <3> QED
      BY <1>3, <1>6, <2>2, <2>6, <3>1, <3>2, <3>3, <3>5, PublishingData DEF Global
  <2> QED
    BY Zenon, <1>1, <2>7, <2>8, <2>9 DEF Good, KeepsData
<1> QED
  BY Zenon, <1>1, <1>5, <1>6 DEF Plan

\* A journal whose staging failed is removed before anything was published.
LEMMA StageStep ==
  ASSUME TypeInv, NEW c \in DOMAIN call, Stage(c)
  PROVE  Good(c)
<1>1. PICK k : k = call[c] /\ k.pc = "stage"
  BY Zenon DEF Stage, At
<1>2. k.pc \in Publishing /\ k.pc \in Steps \ Outside /\ "inflight" \in Publishing
  BY <1>1, PublishingSteps DEF Publishing
<1>3. k \in CallRec /\ k.journal \in Journal /\ k.doc \in Doc
  BY Zenon, <1>1, <1>2, PublishingCall
<1>4. UNCHANGED <<doc, file, touched, abandoned, lock, Env>>
  BY Zenon DEF Stage, ghost
<1>5. faults' \in Nat
  BY Zenon, Faults DEF Stage
<1>6. CASE Goto(c, "inflight") /\ UNCHANGED journal
  <2>1. PICK r : r = [call[c] EXCEPT !.pc = "inflight"]
    BY Zenon
  <2>2. /\ call' = [call EXCEPT ![c] = r] /\ r \in CallRec /\ r.pc = "inflight" /\ r.want = k.want
        /\ r.journal = k.journal /\ r.doc = k.doc /\ r.todo = k.todo
    BY <1>1, <1>2, <1>6, <2>1, GotoBecomes, PublishingSteps
  <2>3. Becomes(c, r) /\ Works(c, r)
    BY <1>1, <1>2, <1>3, <1>4, <1>5, <2>2, PublishingLocal, PublishingSteps DEF Becomes,
       Works
  <2>4. ASSUME Data(k) PROVE Data(r)'
    <3>1. AtPublish(r)'
      BY <1>1, <1>2, <1>4, <1>6, <2>2, <2>4 DEF Data, AtPublish, Planned, Answered, Output
    <3> QED
      BY <1>2, <2>2, <3>1, PublishingData
  <2> QED
    BY <1>1, <1>4, <1>6, <2>2, <2>3, <2>4, Control
<1>7. CASE Goto(c, "release") /\ journal' = None
  <2>1. FilesTyped'
    BY <1>4, <1>7 DEF FilesTyped, TypeInv, TypeOK, Contents
  <2>2. ASSUME Global, Data(k) PROVE Global'
    <3>1. Untouched(doc)' /\ Kept(doc)'
      BY Zenon, <1>4, <2>2 DEF Global, Untouched, Kept
    <3>2. \A p \in Targets : ~Written(p)'
      BY <1>1, <1>2, <1>4, <2>2, KnowledgeAssumption DEF Global, Written, Data, AtPublish
    <3> QED
      BY <1>4, <1>7, <3>1, <3>2 DEF Global
  <2> QED
    BY Zenon, <1>1, <1>2, <1>4, <1>5, <1>7, <2>1, <2>2, Leaves
<1> QED
  BY Zenon, <1>6, <1>7 DEF Stage

\* The journal with another inflight path.
LEMMA JournalInflight ==
  ASSUME NEW j \in Journal, NEW p \in Targets \cup {None}, NEW i,
         i = [j EXCEPT !.inflight = p]
  PROVE  /\ i \in Journal /\ i.state = j.state /\ i.before = j.before /\ i.stamp = j.stamp
         /\ i.done = j.done /\ i.inflight = p
<1>1. i \in Journal
  BY Zenon DEF Journal
<1> QED
  BY Zenon, <1>1 DEF Journal

\* The path is journalled before it is published; all paths done, all are there.
LEMMA InflightStep ==
  ASSUME TypeInv, NEW c \in DOMAIN call, Inflight(c)
  PROVE  Good(c)
<1>1. PICK k : k = call[c] /\ k.pc = "inflight"
  BY Zenon DEF Inflight, At
<1>2. /\ k.pc \in Publishing /\ k.pc \in Steps \ Outside
      /\ \A x \in {"finalize", "publish"} : x \in Publishing /\ x \in Steps /\ x \in Steps \ Outside
  BY <1>1, PublishingSteps DEF Publishing
<1>3. k \in CallRec /\ k.journal \in Journal /\ k.doc \in Doc /\ k.todo \subseteq Targets
  BY Zenon, <1>1, <1>2, PublishingCall
<1>4. UNCHANGED <<doc, file, touched, abandoned, lock, Env>>
  BY Zenon DEF Inflight, ghost
<1>5. faults' \in Nat
  BY Zenon, Faults DEF Inflight
<1>6. CASE Goto(c, "release") /\ UNCHANGED journal
  BY Zenon, <1>1, <1>2, <1>4, <1>5, <1>6, Stops
<1>7. CASE k.todo = {} /\ Goto(c, "finalize") /\ UNCHANGED journal
  <2>1. PICK r : r = [call[c] EXCEPT !.pc = "finalize"]
    BY Zenon
  <2>2. /\ call' = [call EXCEPT ![c] = r] /\ r \in CallRec /\ r.pc = "finalize" /\ r.want = k.want
        /\ r.journal = k.journal /\ r.doc = k.doc /\ r.todo = k.todo
    BY <1>1, <1>2, <1>7, <2>1, GotoBecomes
  <2>3. Becomes(c, r) /\ Works(c, r)
    BY <1>1, <1>2, <1>3, <1>4, <1>5, <2>2, PublishingLocal DEF Becomes, Works
  <2>4. ASSUME Data(k) PROVE Data(r)'
    <3>1. AtPublish(r)'
      BY <1>1, <1>2, <1>4, <1>7, <2>2, <2>4 DEF Data, AtPublish, Planned, Answered, Output
    <3> QED
      BY <1>2, <2>2, <3>1, PublishingData
  <2> QED
    BY <1>1, <1>4, <1>7, <2>2, <2>3, <2>4, Control
<1>8. ASSUME NEW p \in k.todo, NEW i, i = [k.journal EXCEPT !.inflight = p], journal' = i,
             call' = [call EXCEPT ![c].journal = i, ![c].path = p, ![c].pc = "publish"]
      PROVE  Good(c)
  <2>1. /\ i \in Journal /\ i.state = k.journal.state /\ i.before = k.journal.before
        /\ i.stamp = k.journal.stamp /\ i.done = k.journal.done /\ i.inflight = p /\ p \in Targets
    BY <1>3, <1>8, JournalInflight
  <2>2. PICK r : r = [k EXCEPT !.journal = i, !.path = p, !.pc = "publish"]
    BY Zenon
  <2>3. call' = [call EXCEPT ![c] = r] /\ r \in CallRec
    <3>1. "publish" \in Steps /\ i \in Journal \cup {None} /\ p \in Targets \cup {None}
      BY <1>2, <2>1
    <3> QED
      BY Zenon, <1>1, <1>3, <1>8, <2>2, <3>1 DEF CallRec, TypeInv, CallsTyped
  <2>4. r.pc = "publish" /\ r.want = k.want /\ r.journal = i /\ r.doc = k.doc /\ r.todo = k.todo /\ r.path = p
    BY Zenon, <1>3, <2>2 DEF CallRec
  <2>5. Becomes(c, r) /\ Works(c, r)
    BY <1>1, <1>2, <1>3, <1>4, <1>5, <2>1, <2>3, <2>4, PublishingLocal DEF Becomes, Works
  <2>6. FilesTyped' /\ KeepsUsers(c, r)
    BY <1>4, <1>8, <2>1, <2>4 DEF FilesTyped, KeepsUsers, TypeInv, TypeOK, Contents
  <2>7. ASSUME Global, Data(k) PROVE Global' /\ Data(r)'
    <3>1. AtPublish(k)
      BY <2>7 DEF Data
    <3>2. Untouched(doc)' /\ Kept(doc)'
      BY Zenon, <1>4, <2>7 DEF Global, Untouched, Kept
    <3>3. Planned(i) = Planned(journal) /\ Output(i) = Output(journal)
      BY <1>1, <1>2, <2>1, <3>1 DEF AtPublish, Planned, Output
    <3>4. AtPublish(r)'
      BY <1>1, <1>2, <1>4, <1>8, <2>1, <2>4, <3>1, <3>3 DEF AtPublish
    <3>5. Global'
      BY <1>1, <1>2, <1>4, <1>8, <2>1, <2>7, <3>1, <3>2, KnowledgeAssumption
         DEF AtPublish, Global, Written
    <3> QED
      BY <1>2, <2>4, <3>4, <3>5, PublishingData
  <2> QED
    BY Zenon, <1>1, <2>5, <2>6, <2>7 DEF Good, KeepsData
<1> QED
  BY Zenon, <1>1, <1>6, <1>7, <1>8 DEF Inflight

\* A target that is published is the inflight one, so that the journal leads to it.
LEMMA WritesTarget ==
  ASSUME TypeInv, NEW c \in DOMAIN call, call[c].pc \in {"publish", "replace"},
         call[c].pc = "replace" \/ file[call[c].path] # Users,
         file' = [file EXCEPT ![call[c].path] = Output(call[c].journal)],
         NEW x \in {"record", "abort"}, Goto(c, x),
         UNCHANGED <<doc, journal, touched, abandoned, lock, Env>>, faults' \in Nat
  PROVE  Good(c)
<1>1. PICK k : k = call[c]
  BY Zenon
<1>2. k.pc \in Publishing /\ k.pc \in Steps \ Outside /\ x \in Publishing /\ x \in Steps /\ x \in Steps \ Outside
  BY <1>1, PublishingSteps DEF Publishing
<1>3. k \in CallRec /\ k.journal \in Journal /\ k.doc \in Doc /\ k.todo \subseteq Targets /\ k.path \in Targets
  BY <1>1, <1>2, PublishingCall
<1>4. PICK p \in Targets, j \in Journal : p = k.path /\ j = k.journal
  BY Zenon, <1>3
<1>5. Output(j) \in Outputs
  BY DEF Output, Outputs, Journal
<1>6. /\ file' \in [Targets -> Contents] /\ file'[p] = Output(j)
      /\ \A q \in Targets \ {p} : file'[q] = file[q]
  BY <1>1, <1>4, <1>5 DEF TypeInv, TypeOK, Contents
<1>7. PICK r : r = [call[c] EXCEPT !.pc = x]
  BY Zenon
<1>8. /\ call' = [call EXCEPT ![c] = r] /\ r \in CallRec /\ r.pc = x /\ r.want = k.want
      /\ r.journal = j /\ r.doc = k.doc /\ r.todo = k.todo /\ r.path = p
  BY <1>1, <1>2, <1>4, <1>7, GotoBecomes
<1>9. Becomes(c, r) /\ Works(c, r)
  BY <1>1, <1>2, <1>3, <1>8, PublishingLocal DEF Becomes, Works
<1>10. FilesTyped'
  BY <1>6 DEF FilesTyped, TypeInv, TypeOK
<1>11. KeepsUsers(c, r)
  BY <1>1, <1>4, <1>6, <1>8, ContentsDiffer DEF KeepsUsers
<1>12. ASSUME Global, Data(k) PROVE Global' /\ Data(r)'
  <2>1. AtPublish(k) /\ k.pc \in {"publish", "replace"}
    BY <1>1, <1>12 DEF Data
  <2>2. /\ j = journal /\ journal.state = "Staged" /\ doc.status = "pending" /\ p = journal.inflight
        /\ journal.before = k.doc /\ p \in Planned(journal)
    BY <1>2, <1>4, <2>1 DEF AtPublish
  <2>3. Untouched(doc)'
    BY Zenon, <1>12 DEF Global, Untouched
  <2>4. Kept(doc)'
    BY <1>5, <1>6, <1>12 DEF Global, Kept
  <2>5. Global'
    BY <1>4, <1>6, <1>12, <2>2, <2>3, <2>4, KnowledgeAssumption DEF Global, Written
  <2>6. AtPublish(r)'
    BY <1>2, <1>4, <1>5, <1>6, <1>8, <2>1, <2>2 DEF AtPublish, Planned, Answered, Output
  <2> QED
    BY <1>2, <1>8, <2>5, <2>6, PublishingData
<1> QED
  BY Zenon, <1>1, <1>9, <1>10, <1>11, <1>12 DEF Good, KeepsData

\* Publishing nothing yet, or failing to.
LEMMA PublishMoves ==
  ASSUME TypeInv, NEW c \in DOMAIN call, call[c].pc \in {"publish", "replace"},
         NEW x \in {"replace", "abort"}, Goto(c, x),
         x = "replace" => file[call[c].path] # Users,
         UNCHANGED <<doc, file, journal, touched, abandoned, lock, Env>>, faults' \in Nat
  PROVE  Good(c)
<1>1. PICK k : k = call[c]
  BY Zenon
<1>2. k.pc \in Publishing /\ k.pc \in Steps \ Outside /\ x \in Publishing /\ x \in Steps /\ x \in Steps \ Outside
  BY <1>1, PublishingSteps DEF Publishing
<1>3. k \in CallRec /\ k.journal \in Journal /\ k.doc \in Doc /\ k.todo \subseteq Targets /\ k.path \in Targets
  BY <1>1, <1>2, PublishingCall
<1>4. PICK r : r = [call[c] EXCEPT !.pc = x]
  BY Zenon
<1>5. /\ call' = [call EXCEPT ![c] = r] /\ r \in CallRec /\ r.pc = x /\ r.want = k.want
      /\ r.journal = k.journal /\ r.doc = k.doc /\ r.todo = k.todo /\ r.path = k.path
  BY <1>1, <1>2, <1>4, GotoBecomes
<1>6. Becomes(c, r) /\ Works(c, r)
  BY <1>1, <1>2, <1>3, <1>5, PublishingLocal DEF Becomes, Works
<1>7. ASSUME Data(k) PROVE Data(r)'
  <2>1. AtPublish(r)'
    BY <1>1, <1>2, <1>5, <1>7 DEF Data, AtPublish, Planned, Answered, Output
  <2> QED
    BY <1>2, <1>5, <2>1, PublishingData
<1> QED
  BY <1>1, <1>5, <1>6, <1>7, Control

\* publish_memory_file and publish_wiki_file never overwrite what they do not expect.
LEMMA PublishStep ==
  ASSUME TypeInv, NEW c \in DOMAIN call, Publish(c)
  PROVE  Good(c)
<1>1. call[c].pc = "publish"
  BY Zenon DEF Publish, At
<1>2. UNCHANGED <<doc, journal, touched, abandoned, lock, Env>>
  BY Zenon DEF Publish, ghost
<1>3. faults' \in Nat
  BY Zenon, Faults DEF Publish
<1>4. Free(call[c].path) => file[call[c].path] # Users
  BY ContentsDiffer DEF Free
<1>5. CASE /\ Free(call[c].path) /\ file' = [file EXCEPT ![call[c].path] = Output(call[c].journal)]
           /\ Goto(c, "record") \/ Goto(c, "abort")
  BY Zenon, <1>1, <1>2, <1>3, <1>4, <1>5, WritesTarget
<1>6. CASE Free(call[c].path) /\ Goto(c, "replace") /\ UNCHANGED file
  BY <1>1, <1>2, <1>3, <1>4, <1>6, PublishMoves
<1>7. CASE Goto(c, "abort") /\ UNCHANGED file
  BY <1>1, <1>2, <1>3, <1>7, PublishMoves
<1> QED
  BY Zenon, <1>5, <1>6, <1>7 DEF Publish

\* guarded_replace_file of a page, after its comparison.
LEMMA ReplaceStep ==
  ASSUME TypeInv, NEW c \in DOMAIN call, Replace(c)
  PROVE  Good(c)
<1>1. call[c].pc = "replace"
  BY Zenon DEF Replace, At
<1>2. UNCHANGED <<doc, journal, touched, abandoned, lock, Env>>
  BY Zenon DEF Replace, ghost
<1>3. faults' \in Nat
  BY Zenon, Faults DEF Replace
<1>4. CASE /\ file' = [file EXCEPT ![call[c].path] = Output(call[c].journal)]
           /\ Goto(c, "record") \/ Goto(c, "abort")
  BY Zenon, <1>1, <1>2, <1>3, <1>4, WritesTarget
<1>5. CASE Goto(c, "abort") /\ UNCHANGED file
  BY <1>1, <1>2, <1>3, <1>5, PublishMoves
<1> QED
  BY Zenon, <1>4, <1>5 DEF Replace

\* A journal write failed: the call undoes, or gives up on, what its own copy of the
\* journal leads to.
LEMMA UndoneStep ==
  ASSUME TypeInv, NEW c \in DOMAIN call, call[c].pc \in Publishing, NEW j \in Journal,
         NEW x \in {"giveup", "rollback"},
         call' = [call EXCEPT ![c].journal = j, ![c].next = "release", ![c].pc = x],
         UNCHANGED <<doc, file, journal, touched, abandoned, lock, Env>>, faults' \in Nat,
         Data(call[c]) /\ Global =>
           /\ doc.status = "pending"
           /\ \A p \in Targets : Written(p) => p \in j.done \cup {j.inflight}
  PROVE  Good(c)
<1>1. PICK k : k = call[c]
  BY Zenon
<1>3. x \in Undoing /\ x \in Steps /\ x \in Steps \ Outside /\ k.pc \in Steps \ Outside
  BY <1>1, PublishingSteps DEF Undoing
<1>4. k \in CallRec /\ k.doc \in Doc /\ k.todo \subseteq Targets
  BY Zenon, <1>1, PublishingCall
<1>5. PICK r : r = [k EXCEPT !.journal = j, !.next = "release", !.pc = x]
  BY Zenon
<1>6. call' = [call EXCEPT ![c] = r] /\ r \in CallRec
  <2>1. j \in Journal \cup {None} /\ "release" \in {"check", "saved", "release"}
    OBVIOUS
  <2> QED
    BY Zenon, <1>1, <1>3, <1>4, <1>5, <2>1 DEF CallRec, TypeInv, CallsTyped
<1>7. r.pc = x /\ r.want = k.want /\ r.journal = j /\ r.doc = k.doc /\ r.todo = k.todo /\ r.next = "release"
  BY Zenon, <1>4, <1>5 DEF CallRec
<1>8. Local(r)
  BY <1>4, <1>7 DEF Local, Undoing, Publishing, Saving
<1>9. Becomes(c, r) /\ Works(c, r)
  BY Zenon, <1>1, <1>3, <1>6, <1>7, <1>8 DEF Becomes, Works
<1>10. ASSUME Global, Data(k) PROVE Data(r)'
  <2>1. AtStart(r)' /\ AtPublish(r)' /\ AtSave(r)'
    BY <1>7, Elsewhere DEF Publishing, Saving
  <2>2. AtUndo(r)'
    BY <1>1, <1>7, <1>10 DEF AtUndo, Written
  <2> QED
    BY Zenon, <2>1, <2>2 DEF Data
<1>11. r.pc \notin {"unlink", "replace"}
  BY <1>7
<1> QED
  BY Zenon, <1>1, <1>9, <1>10, <1>11, Control

\* Recording a published path, or failing to.
LEMMA RecordStep ==
  ASSUME TypeInv, NEW c \in DOMAIN call, Record(c)
  PROVE  Good(c)
<1>1. PICK k : k = call[c] /\ k.pc = "record"
  BY Zenon DEF Record, At
<1>2. k.pc \in Publishing /\ k.pc \in Steps \ Outside /\ "inflight" \in Publishing /\ "inflight" \in Steps
      /\ "inflight" \in Steps \ Outside
  BY <1>1, PublishingSteps DEF Publishing
<1>3. k \in CallRec /\ k.journal \in Journal /\ k.doc \in Doc /\ k.todo \subseteq Targets /\ k.path \in Targets
  BY <1>1, <1>2, PublishingCall
<1>4. UNCHANGED <<doc, file, touched, abandoned, lock, Env>>
  BY Zenon DEF Record, ghost
<1>5. faults' \in Nat
  BY Zenon, Faults DEF Record
<1>6. PICK p \in Targets : p = k.path
  BY Zenon, <1>3
<1>10. PICK i : i = [k.journal EXCEPT !.done = @ \cup {p}, !.inflight = None]
  BY Zenon
<1>7. /\ i \in Journal /\ i.state = k.journal.state /\ i.before = k.journal.before
      /\ i.stamp = k.journal.stamp /\ i.done = k.journal.done \cup {p} /\ i.inflight = None
  <2>1. PICK j \in Journal, done \in SUBSET Targets : j = k.journal /\ done = j.done \cup {p}
    BY Zenon, <1>3 DEF Journal
  <2>2. i = [j EXCEPT !.done = done, !.inflight = None]
    BY Zenon, <1>10, <2>1
  <2>3. /\ i \in Journal /\ i.state = j.state /\ i.before = j.before /\ i.stamp = j.stamp
        /\ i.done = j.done \cup {p} /\ i.inflight = None
    <3>1. i \in Journal
      BY Zenon, <2>2 DEF Journal
    <3> QED
      BY Zenon, <2>1, <2>2, <3>1 DEF Journal
  <2> QED
    BY Zenon, <2>1, <2>3
<1>8. CASE Undone(c, i, p \in updates) /\ UNCHANGED journal
  <2>1. ASSUME Global, Data(k)
        PROVE  doc.status = "pending" /\ \A q \in Targets : Written(q) => q \in i.done \cup {i.inflight}
    BY <1>1, <1>2, <1>6, <1>7, <2>1 DEF Global, Data, AtPublish, Written
  <2>2. PICK x \in {"giveup", "rollback"} : x = IF p \in updates THEN "giveup" ELSE "rollback"
    BY Zenon
  <2>3. call' = [call EXCEPT ![c].journal = i, ![c].next = "release", ![c].pc = x]
    BY Zenon, <1>8, <2>2 DEF Undone
  <2> QED
    BY Zenon, <1>1, <1>2, <1>4, <1>5, <1>7, <1>8, <2>1, <2>3, UndoneStep
<1>9. CASE /\ journal' = i
           /\ call' = [call EXCEPT ![c].journal = i, ![c].todo = @ \ {p}, ![c].pc = "inflight"]
  <2>1. PICK r : r = [k EXCEPT !.journal = i, !.todo = k.todo \ {p}, !.pc = "inflight"]
    BY Zenon
  <2>2. call' = [call EXCEPT ![c] = r] /\ r \in CallRec
    <3>1. i \in Journal \cup {None} /\ k.todo \ {p} \in SUBSET Targets
      BY <1>3, <1>7
    <3> QED
      BY Zenon, <1>1, <1>2, <1>3, <1>9, <2>1, <3>1 DEF CallRec, TypeInv, CallsTyped
  <2>3. /\ r.pc = "inflight" /\ r.want = k.want /\ r.journal = i /\ r.doc = k.doc
        /\ r.todo = k.todo \ {p}
    BY Zenon, <1>3, <2>1 DEF CallRec
  <2>4. Becomes(c, r) /\ Works(c, r)
    BY <1>1, <1>2, <1>3, <1>4, <1>5, <1>7, <2>2, <2>3, PublishingLocal DEF Becomes, Works
  <2>5. FilesTyped' /\ KeepsUsers(c, r)
    BY <1>4, <1>7, <1>9, <2>3 DEF FilesTyped, KeepsUsers, TypeInv, TypeOK, Contents
  <2>6. ASSUME Global, Data(k) PROVE Global' /\ Data(r)'
    <3>1. AtPublish(k)
      BY <2>6 DEF Data
    <3>2. Untouched(doc)' /\ Kept(doc)'
      BY Zenon, <1>4, <2>6 DEF Global, Untouched, Kept
    <3>3. Planned(i) = Planned(journal) /\ Output(i) = Output(journal)
      BY <1>1, <1>2, <1>7, <3>1 DEF AtPublish, Planned, Output
    <3>4. AtPublish(r)'
      BY <1>1, <1>2, <1>4, <1>6, <1>7, <1>9, <2>3, <3>1, <3>3 DEF AtPublish
    <3>5. Global'
      BY <1>1, <1>2, <1>4, <1>6, <1>7, <1>9, <2>6, <3>1, <3>2, KnowledgeAssumption
         DEF AtPublish, Global, Written
    <3> QED
      BY <1>2, <2>3, <3>4, <3>5, PublishingData
  <2> QED
    BY Zenon, <1>1, <2>4, <2>5, <2>6 DEF Good, KeepsData
<1> QED
  BY Zenon, <1>1, <1>6, <1>8, <1>9, <1>10 DEF Record

\* A publication failed: what was published before is abandoned with the journal.
LEMMA AbortStep ==
  ASSUME TypeInv, NEW c \in DOMAIN call, Abort(c)
  PROVE  Good(c)
<1>1. PICK k : k = call[c] /\ k.pc = "abort"
  BY Zenon DEF Abort, At
<1>2. k.pc \in Publishing /\ k.pc \in Steps \ Outside
  BY <1>1, PublishingSteps DEF Publishing
<1>3. k \in CallRec /\ k.journal \in Journal
  BY Zenon, <1>1, <1>2, PublishingCall
<1>4. UNCHANGED <<doc, file, touched, lock, Env>> /\ Goto(c, "release")
  BY Zenon DEF Abort
<1>5. faults' \in Nat
  BY Zenon, Faults DEF Abort
<1>6. PICK i : i = [k.journal EXCEPT !.inflight = None]
  BY Zenon
<1>7. /\ i \in Journal /\ i.state = k.journal.state /\ i.before = k.journal.before
      /\ i.stamp = k.journal.stamp /\ i.done = k.journal.done /\ i.inflight = None
  BY <1>3, <1>6, JournalInflight
<1>8. PICK published \in SUBSET Targets : published = {p \in Planned(i) : file[p] = Output(i)}
  BY Zenon DEF Planned, Answered
<1>9. \/ journal' = None /\ abandoned' = abandoned \cup published
      \/ journal' = i /\ abandoned' = abandoned \cup (published \ i.done)
  BY Zenon, <1>1, <1>6, <1>8 DEF Abort
<1>10. FilesTyped'
  BY <1>4, <1>7, <1>9 DEF FilesTyped, TypeInv, TypeOK, Contents
<1>11. ASSUME Global, Data(k) PROVE Global'
  <2>1. /\ k.journal = journal /\ journal.state = "Staged" /\ doc.status = "pending"
        /\ journal.done \subseteq Planned(journal) /\ journal.inflight \in Planned(journal)
        /\ \A p \in Planned(journal) : file[p] \in Outputs => file[p] = Output(journal)
    BY <1>1, <1>2, <1>11 DEF Data, AtPublish
  <2>2. Planned(i) = Planned(journal) /\ Output(i) = Output(journal)
    BY <1>7, <2>1 DEF Planned, Output
  <2>3. Untouched(doc)' /\ Kept(doc)'
    BY Zenon, <1>4, <1>11 DEF Global, Untouched, Kept
  <2>4. \A p \in Targets : Written(p) => p \in published
    BY <1>8, <1>11, <2>1, <2>2 DEF Global, Written
  <2> QED
    BY <1>4, <1>7, <1>9, <2>1, <2>3, <2>4, KnowledgeAssumption DEF Global, Written
<1> QED
  BY Zenon, <1>1, <1>2, <1>4, <1>5, <1>10, <1>11, Leaves

\* Every planned path is done, so that the outcomes saved next are true.
LEMMA FinalizeStep ==
  ASSUME TypeInv, NEW c \in DOMAIN call, Finalize(c)
  PROVE  Good(c)
<1>1. PICK k : k = call[c] /\ k.pc = "finalize"
  BY Zenon DEF Finalize, At
<1>2. k.pc \in Publishing /\ k.pc \in Steps \ Outside
  BY <1>1, PublishingSteps DEF Publishing
<1>3. k \in CallRec /\ k.journal \in Journal /\ k.doc \in Doc
  BY Zenon, <1>1, <1>2, PublishingCall
<1>4. UNCHANGED <<doc, file, touched, abandoned, lock, Env>>
  BY Zenon DEF Finalize, ghost
<1>5. faults' \in Nat
  BY Zenon, Faults DEF Finalize
<1>6. PICK i : i = [k.journal EXCEPT !.state = "Finalized"]
  BY Zenon
<1>7. /\ i \in Journal /\ i.state = "Finalized" /\ i.before = k.journal.before
      /\ i.stamp = k.journal.stamp /\ i.done = k.journal.done /\ i.inflight = k.journal.inflight
  BY <1>3, <1>6, JournalStates
<1>8. CASE Undone(c, i, Planned(i) \cap updates # {}) /\ UNCHANGED journal
  <2>1. ASSUME Global, Data(k)
        PROVE  doc.status = "pending" /\ \A q \in Targets : Written(q) => q \in i.done \cup {i.inflight}
    BY <1>1, <1>2, <1>7, <2>1 DEF Global, Data, AtPublish, Written
  <2>2. PICK x \in {"giveup", "rollback"} :
          x = IF Planned(i) \cap updates # {} THEN "giveup" ELSE "rollback"
    BY Zenon
  <2>3. call' = [call EXCEPT ![c].journal = i, ![c].next = "release", ![c].pc = x]
    BY Zenon, <1>8, <2>2 DEF Undone
  <2> QED
    BY Zenon, <1>1, <1>2, <1>4, <1>5, <1>7, <1>8, <2>1, <2>3, UndoneStep
<1>9. ASSUME journal' = i, NEW put, put = apply_decision_updates(k.doc, k.doc),
             call' = [call EXCEPT ![c].journal = i, ![c].pc = "swap", ![c].next = "saved", ![c].put = put]
      PROVE  Good(c)
  <2>1. /\ put \in Doc /\ put.status \in Resolved
        /\ \A p \in Targets : put.dec[p] = "committed" => k.doc.sel[p] = "yes"
    BY Zenon, <1>3, <1>9, Outcomes
  <2>2. PICK r : r = [k EXCEPT !.journal = i, !.pc = "swap", !.next = "saved", !.put = put]
    BY Zenon
  <2>3. call' = [call EXCEPT ![c] = r] /\ r \in CallRec
    <3>1. /\ i \in Journal \cup {None} /\ put \in Doc \cup {None} /\ "swap" \in Steps
          /\ "saved" \in {"check", "saved", "release"}
      BY <1>7, <2>1 DEF Steps, Saving
    <3>2. r \in CallRec
      BY Zenon, <1>3, <2>2, <3>1 DEF CallRec
    <3> QED
      BY Zenon, <1>1, <1>9, <2>2, <3>2 DEF TypeInv, CallsTyped
  <2>4. r.pc = "swap" /\ r.want = k.want /\ r.journal = i
    BY Zenon, <1>3, <2>2 DEF CallRec
  <2>5. r.next = "saved" /\ r.put = put
    BY Zenon, <1>3, <2>2 DEF CallRec
  <2>6. Local(r) /\ r.pc \in Steps \ Outside
    BY <1>7, <2>1, <2>4, <2>5 DEF Local, Undoing, Publishing, Saving, Steps, Outside
  <2>7. Becomes(c, r) /\ Works(c, r)
    BY Zenon, <1>1, <1>2, <1>4, <1>5, <2>3, <2>4, <2>6 DEF Becomes, Works
  <2>8. FilesTyped' /\ KeepsUsers(c, r)
    BY <1>4, <1>7, <1>9, <2>4 DEF FilesTyped, KeepsUsers, TypeInv, TypeOK, Contents
  <2>9. ASSUME Global, Data(k) PROVE Global' /\ Data(r)'
    <3>1. Global'
      BY <1>4, <1>7, <1>9, <2>9, ClosedJournal
    <3>2. \A p \in Planned(journal) : file[p] \in Outputs \/ p \in touched
      BY <1>1, <1>2, <2>9 DEF Data, AtPublish
    <3>3. journal.before = k.doc
      BY <1>1, <1>2, <2>9 DEF Data, AtPublish
    <3>4. r.put.status # "pending" /\ Kept(r.put)'
      BY <1>4, <2>1, <2>5, <3>2, <3>3 DEF Kept, Resolved, Planned, Answered
    <3>5. Data(r)'
      BY <1>7, <1>9, <2>4, <3>4, SwapData
    <3> QED
      BY Zenon, <3>1, <3>5
  <2> QED
    BY Zenon, <1>1, <2>7, <2>8, <2>9 DEF Good, KeepsData
<1> QED
  BY Zenon, <1>1, <1>6, <1>8, <1>9 DEF Finalize

-----------------------------------------------------------------------------
(* Removing a file, saving the document *)

\* The file removed is on the list; one that cannot be removed makes the call give up.
LEMMA UnlinkStep ==
  ASSUME TypeInv, NEW c \in DOMAIN call, Unlink(c)
  PROVE  Good(c)
<1>1. PICK k \in CallRec : k = call[c] /\ Local(k)
  BY Zenon, CallIsTyped
<1>2. /\ k.pc = "unlink" /\ k.journal \in Journal /\ k.doc \in Doc /\ k.next \in {"check", "release"}
      /\ k.todo \subseteq Targets /\ k.path \in Targets /\ k.pc \in Steps \ Outside
      /\ \A x \in Undoing : x \in Steps /\ x \in Steps \ Outside
  BY <1>1, PublishingSteps DEF Unlink, At, Local, Undoing
<1>3. UNCHANGED <<doc, journal, touched, abandoned, lock, Env>>
  BY Zenon DEF Unlink, ghost
<1>4. faults' \in Nat
  BY Zenon, Faults DEF Unlink
<1>5. CASE Goto(c, "giveup") /\ UNCHANGED file
  <2>1. PICK r : r = [call[c] EXCEPT !.pc = "giveup"]
    BY Zenon
  <2>2. /\ call' = [call EXCEPT ![c] = r] /\ r \in CallRec /\ r.pc = "giveup" /\ r.want = k.want
        /\ r.journal = k.journal /\ r.doc = k.doc /\ r.next = k.next /\ r.todo = k.todo
    BY <1>1, <1>2, <1>5, <2>1, GotoBecomes DEF Undoing
  <2>3. Becomes(c, r) /\ Works(c, r)
    BY <1>1, <1>2, <1>3, <1>4, <2>2 DEF Becomes, Works, Local, Undoing, Publishing, Saving
  <2>4. ASSUME Data(k) PROVE Data(r)'
    BY <1>2, <1>3, <1>5, <2>2, <2>4, Elsewhere
       DEF Data, AtUndo, Untouched, Undoing, Publishing, Saving
  <2> QED
    BY <1>1, <1>3, <1>5, <2>2, <2>3, <2>4, Control
<1>6. CASE /\ file' = [file EXCEPT ![k.path] = Missing]
           /\ call' = [call EXCEPT ![c].todo = @ \ {k.path}, ![c].pc = "undo"]
  <2>1. PICK r : r = [k EXCEPT !.todo = k.todo \ {k.path}, !.pc = "undo"]
    BY Zenon
  <2>2. call' = [call EXCEPT ![c] = r] /\ r \in CallRec
    <3>1. k.todo \ {k.path} \in SUBSET Targets /\ "undo" \in Steps
      BY <1>2 DEF Undoing
    <3>2. r \in CallRec
      BY Zenon, <1>1, <2>1, <3>1 DEF CallRec
    <3> QED
      BY Zenon, <1>1, <1>6, <2>1, <3>2 DEF TypeInv, CallsTyped
  <2>3. /\ r.pc = "undo" /\ r.want = k.want /\ r.journal = k.journal /\ r.doc = k.doc
        /\ r.next = k.next /\ r.todo = k.todo \ {k.path}
    BY Zenon, <1>1, <2>1 DEF CallRec
  <2>4. Becomes(c, r) /\ Works(c, r)
    BY <1>1, <1>2, <1>3, <1>4, <2>2, <2>3 DEF Becomes, Works, Local, Undoing, Publishing,
       Saving
  <2>5. /\ file' \in [Targets -> Contents] /\ file'[k.path] = Missing
        /\ \A q \in Targets \ {k.path} : file'[q] = file[q]
    BY <1>2, <1>6 DEF TypeInv, TypeOK, Contents
  <2>6. FilesTyped' /\ KeepsUsers(c, r)
    BY <1>1, <1>2, <1>3, <2>3, <2>5, ContentsDiffer DEF FilesTyped, KeepsUsers, TypeInv,
       TypeOK
  <2>7. ASSUME Global, Data(k) PROVE Global' /\ Data(r)'
    <3>1. doc.status = "pending" /\ \A p \in Targets : doc.dec[p] = "pending"
      BY <1>2, <2>7 DEF Data, AtUndo, Undoing, Global, Untouched
    <3>2. \A p \in Targets : Written(p)' => Written(p)
      BY <1>3, <2>5, ContentsDiffer DEF Written
    <3>3. Untouched(doc)' /\ Kept(doc)'
      BY <1>3, <3>1 DEF Untouched, Kept
    <3>4. Global'
      BY <1>3, <2>7, <3>2, <3>3 DEF Global
    <3>5. AtStart(r)' /\ AtPublish(r)' /\ AtSave(r)'
      BY <2>3, Elsewhere DEF Publishing, Saving
    <3>6. ~Written(k.path)'
      BY <1>2, <2>5, ContentsDiffer DEF Written
    <3>7. AtUndo(r)'
      BY <1>2, <1>3, <2>3, <2>7, <3>1, <3>2, <3>6 DEF Data, AtUndo, Undoing, Untouched,
         Env
    <3> QED
      BY Zenon, <3>4, <3>5, <3>7 DEF Data
  <2> QED
    BY Zenon, <1>1, <2>4, <2>6, <2>7 DEF Good, KeepsData
<1> QED
  BY Zenon, <1>1, <1>5, <1>6 DEF Unlink

\* The disk after a resolved document was saved.
LEMMA SavedDocument ==
  ASSUME Global, NEW put, put.status # "pending", Kept(put), doc' = put,
         journal # None => journal.state # "Staged",
         UNCHANGED <<file, journal, touched, abandoned>>
  PROVE  Global'
<1>1. Untouched(doc)'
  BY Zenon DEF Untouched
<1>2. Kept(doc)'
  BY Zenon DEF Kept
<1> QED
  BY <1>1, <1>2 DEF Global

\* Saving the document, an error before or after the rename included.
LEMMA WriteStep ==
  ASSUME TypeInv, NEW c \in DOMAIN call, Write(c)
  PROVE  Good(c)
<1>1. PICK k \in CallRec : k = call[c] /\ Local(k)
  BY Zenon, CallIsTyped
<1>2. /\ k.pc = "write" /\ k.put \in Doc /\ k.next \in {"saved", "release"}
      /\ k.next = "saved" => k.journal \in Journal
      /\ k.pc \in Steps \ Outside /\ "saved" \in Steps /\ "saved" \in Steps \ Outside
  BY <1>1 DEF Write, At, Local, Saving, Steps, Outside
<1>3. UNCHANGED <<file, journal, touched, abandoned, lock, Env>>
  BY Zenon DEF Write, ghost
<1>4. faults' \in Nat
  BY Zenon, Faults DEF Write
<1>5. doc' = k.put \/ doc' = doc
  BY <1>1 DEF Write
<1>6. FilesTyped'
  BY <1>2, <1>3, <1>5 DEF FilesTyped, TypeInv, TypeOK, Contents
<1>7. ASSUME Global, Data(k) PROVE Global'
  <2>1. k.put.status # "pending" /\ Kept(k.put) /\ (journal # None => journal.state # "Staged")
    BY <1>2, <1>7 DEF Data, AtSave, Saving
  <2>2. CASE doc' = k.put
    BY Zenon, <1>3, <1>7, <2>1, <2>2, SavedDocument
  <2>3. CASE doc' = doc
    BY Zenon, <1>3, <1>7, <2>3, Undisturbed DEF Env
  <2> QED
    BY <1>5, <2>2, <2>3
<1>8. CASE Goto(c, "release")
  BY Zenon, <1>1, <1>2, <1>3, <1>4, <1>6, <1>7, <1>8, Leaves
<1>9. CASE k.next = "saved" /\ Goto(c, "saved") /\ doc' = k.put
  <2>1. PICK r : r = [call[c] EXCEPT !.pc = "saved"]
    BY Zenon
  <2>2. /\ call' = [call EXCEPT ![c] = r] /\ r \in CallRec /\ r.pc = "saved" /\ r.want = k.want
        /\ r.journal = k.journal
    BY <1>1, <1>2, <1>9, <2>1, GotoBecomes
  <2>3. Becomes(c, r) /\ Works(c, r) /\ KeepsUsers(c, r)
    BY <1>1, <1>2, <1>3, <1>4, <1>9, <2>2
       DEF Becomes, Works, KeepsUsers, Local, Undoing, Publishing, Saving
  <2>4. ASSUME Data(k) PROVE Data(r)'
    <3>1. doc'.status # "pending"
      BY <1>2, <1>9, <2>4 DEF Data, AtSave, Saving
    <3>2. AtStart(r)' /\ AtUndo(r)' /\ AtPublish(r)'
      BY <2>2, Elsewhere DEF Undoing, Publishing
    <3>3. AtSave(r)'
      BY <2>2, <3>1 DEF AtSave, Saving
    <3> QED
      BY Zenon, <3>2, <3>3 DEF Data
  <2> QED
    BY Zenon, <1>1, <1>6, <1>7, <2>3, <2>4 DEF Good, KeepsData
<1> QED
  BY <1>1, <1>2, <1>8, <1>9 DEF Write

-----------------------------------------------------------------------------
(* The lock files *)

\* The type of the lock files.
LockTyped == lock \in [Locks -> {"free", "held", "stale"}]

\* A step changes the values of one call.
LEMMA BecomesPointwise ==
  ASSUME TypeInv, NEW c \in DOMAIN call, NEW r, Becomes(c, r)
  PROVE  /\ DOMAIN call' = DOMAIN call /\ call'[c] = r
         /\ \A d \in DOMAIN call \ {c} : call'[d] = call[d]
         /\ CallsTyped'
<1>1. /\ DOMAIN call' = DOMAIN call /\ call'[c] = r
      /\ \A d \in DOMAIN call \ {c} : call'[d] = call[d]
  BY Zenon DEF Becomes, TypeInv, CallsTyped
<1>2. call' \in [DOMAIN call -> CallRec]
  BY Zenon DEF Becomes, TypeInv, CallsTyped
<1>3. \A d \in DOMAIN call : Local(call[d])'
  BY <1>1 DEF Becomes, TypeInv, CallsTyped, Local
<1> QED
  BY Zenon, <1>1, <1>2, <1>3 DEF CallsTyped

\* A step of a call that acquires or releases the locks changes no other file.
Turns(c, r) ==
    /\ Becomes(c, r) /\ r.pc \in Outside \cup {"read"}
    /\ LockTyped' /\ UNCHANGED <<doc, file, journal, faults, ghost, Env>>

\* A call that is not running.
LEMMA IdleCall ==
  /\ Idle \in CallRec /\ Local(Idle) /\ Idle.pc = "idle" /\ Idle.want = "apply"
BY KnowledgeAssumption DEF Idle, CallRec, Local, Steps, Outside, Undoing, Publishing,
   Saving, Locks

\* Outside the locks a call relies on nothing.
LEMMA OutsideLocal ==
  ASSUME NEW r, r.pc \in Outside \cup {"read", "release"}
  PROVE  Local(r) /\ Data(r)'
<1>1. Local(r)
  BY DEF Local, Outside, Undoing, Publishing, Saving
<1>2. Data(r)'
  BY Elsewhere DEF Data, Outside, Undoing, Publishing, Saving
<1> QED
  BY <1>1, <1>2

\* An acquired apply lock leads to the write lock, and that one to the work.
LEMMA AcquiredBecomes ==
  ASSUME TypeInv, NEW c \in DOMAIN call, Acquired(c)
  PROVE  \E r : /\ Becomes(c, r) /\ r.want = "document" /\ r.pc \in {"create", "read"}
                /\ r.pc = "read" <=> call[c].want = "document"
                /\ r.pc \in Outside \cup {"read"}
<1>1. PICK k \in CallRec : k = call[c] /\ Local(k)
  BY Zenon, CallIsTyped
<1>2. PICK x \in {"create", "read"} : x = IF k.want = "apply" THEN "create" ELSE "read"
  BY Zenon
<1>3. PICK r : r = [k EXCEPT !.want = "document", !.pc = x]
  BY Zenon
<1>4. call' = [call EXCEPT ![c] = r] /\ r \in CallRec
  <2>1. x \in Steps /\ "document" \in Locks
    BY <1>2 DEF Steps, Outside, Locks
  <2>2. r \in CallRec
    BY Zenon, <1>3, <2>1 DEF CallRec
  <2> QED
    BY Zenon, <1>1, <1>2, <1>3, <2>2 DEF Acquired, TypeInv, CallsTyped
<1>5. r.pc = x /\ r.want = "document" /\ k.want \in {"apply", "document"}
  BY Zenon, <1>3 DEF CallRec, Locks
<1>6. r.pc \in Outside \cup {"read"}
  BY <1>2, <1>5 DEF Outside
<1> QED
  BY Zenon, <1>1, <1>2, <1>4, <1>5, <1>6, OutsideLocal DEF Becomes

\* ApplyInProgress ends the call.
LEMMA LockBusyBecomes ==
  ASSUME TypeInv, NEW c \in DOMAIN call, LockBusy(c)
  PROVE  Becomes(c, Idle)
BY Zenon, IdleCall DEF LockBusy, Becomes

\* One lock file changes.
LEMMA LockFile ==
  ASSUME LockTyped, NEW w \in Locks, NEW v \in {"free", "held", "stale"},
         lock' = [lock EXCEPT ![w] = v]
  PROVE  LockTyped' /\ lock'[w] = v /\ \A l \in Locks \ {w} : lock'[l] = lock[l]
BY Zenon DEF LockTyped

\* A new call holds nothing.
LEMMA StartStep ==
  ASSUME TypeInv, NEW c \in DOMAIN call, NEW recover \in BOOLEAN, Start(c, recover)
  PROVE  /\ \E r : Turns(c, r)
         /\ LockInv => LockInv'
<1>1. PICK r : r = [Idle EXCEPT !.pc = "create", !.recover = recover, !.expected = doc]
  BY Zenon
<1>2. call' = [call EXCEPT ![c] = r] /\ call[c].pc = "idle"
  BY Zenon, <1>1 DEF Start, At
<1>3. r \in CallRec /\ r.pc = "create" /\ r.want = "apply"
  <2>1. doc \in Doc \cup {None} /\ "create" \in Steps
    BY DEF TypeInv, TypeOK, Steps, Outside
  <2> QED
    BY Zenon, <1>1, <2>1, IdleCall DEF CallRec
<1>4. Turns(c, r)
  <2>1. r.pc \in Outside \cup {"read"}
    BY <1>3 DEF Outside
  <2>2. Becomes(c, r)
    BY <1>2, <1>3, <2>1, OutsideLocal DEF Becomes
  <2> QED
    BY Zenon, <2>1, <2>2 DEF Turns, Start, disk, LockTyped, TypeInv, TypeOK
<1>5. ASSUME LockInv PROVE LockInv'
  <2>1. /\ DOMAIN call' = DOMAIN call /\ call'[c] = r
        /\ \A d \in DOMAIN call \ {c} : call'[d] = call[d]
    BY Zenon, <1>4, BecomesPointwise DEF Turns
  <2>2. lock' = lock
    BY Zenon DEF Start, disk
  <2>3. \A d \in DOMAIN call, l \in Locks : Holds(d, l)' => Holds(d, l)
    BY <1>2, <1>3, <2>1 DEF Holds, Inside
  <2>4. Acquiring' \subseteq Acquiring
    BY <1>3, <2>1 DEF Acquiring
  <2> QED
    BY <1>2, <1>3, <1>5, <2>1, <2>2, <2>3, <2>4 DEF LockInv, Inside
<1> QED
  BY Zenon, <1>4, <1>5

\* The lock a call wants next is one of the two.
LEMMA TypedLocks ==
  ASSUME TypeInv
  PROVE  LockTyped /\ \A c \in DOMAIN call : call[c].want \in Locks
BY CallIsTyped DEF TypeInv, TypeOK, LockTyped, CallRec

\* create_new succeeds on a free lock file only: no other call held it.
LEMMA AcquiredStep ==
  ASSUME TypeInv, NEW c \in DOMAIN call, Acquired(c),
         call[c].pc \in {"create", "recreate"},
         lock[call[c].want] = "free", UNCHANGED <<doc, file, journal, faults, ghost, Env>>
  PROVE  /\ \E r : Turns(c, r)
         /\ LockInv /\ Acquiring \subseteq {c} => LockInv'
<1>1. PICK r : /\ Becomes(c, r) /\ r.want = "document" /\ r.pc \in {"create", "read"}
               /\ r.pc = "read" <=> call[c].want = "document"
               /\ r.pc \in Outside \cup {"read"}
  BY Zenon, AcquiredBecomes
<1>2. LockTyped /\ call[c].want \in Locks /\ Locks = {"apply", "document"}
  BY Zenon, TypedLocks DEF Locks
<1>3. /\ LockTyped' /\ lock'[call[c].want] = "held"
      /\ \A l \in Locks \ {call[c].want} : lock'[l] = lock[l]
  BY Zenon, <1>2, LockFile DEF Acquired
<1>4. Turns(c, r)
  BY Zenon, <1>1, <1>3 DEF Turns
<1>5. ASSUME LockInv, Acquiring \subseteq {c} PROVE LockInv'
  <2>1. /\ DOMAIN call' = DOMAIN call /\ call'[c] = r
        /\ \A d \in DOMAIN call \ {c} : call'[d] = call[d]
    BY Zenon, <1>1, BecomesPointwise
  <2>2. Acquiring' = {}
    BY <1>1, <1>5, <2>1 DEF Acquiring
  <2>3. \A d \in DOMAIN call \ {c}, l \in Locks : Holds(d, l)' <=> Holds(d, l)
    BY <2>1 DEF Holds, Inside
  <2>4. \A l \in Locks : Holds(c, l)' <=> Holds(c, l) \/ l = call[c].want
    BY <1>1, <1>2, <2>1 DEF Holds, Inside
  <2>5. \A d \in DOMAIN call : ~Holds(d, call[c].want)
    BY <1>2, <1>5 DEF LockInv
  <2>6. \A d \in DOMAIN call, l \in Locks : Holds(d, l)' => lock'[l] = "held"
    BY <1>2, <1>3, <1>5, <2>3, <2>4 DEF LockInv
  <2>7. \A d, e \in DOMAIN call, l \in Locks : Holds(d, l)' /\ Holds(e, l)' => d = e
    BY <1>5, <2>3, <2>4, <2>5 DEF LockInv
  <2>8. /\ \A d \in DOMAIN call : Inside(d)' => call'[d].want = "document"
        /\ \A d \in DOMAIN call : call'[d].pc = "idle" => call'[d].want = "apply"
    BY <1>1, <1>5, <2>1 DEF LockInv, Inside
  <2>9. \A d \in DOMAIN call : call'[d].pc # "rename"
    BY <2>1, <2>2 DEF Acquiring
  <2> QED
    BY <2>1, <2>2, <2>6, <2>7, <2>8, <2>9 DEF LockInv
<1> QED
  BY Zenon, <1>4, <1>5

\* A call that gives up drops the apply lock it held.
LEMMA LockBusyStep ==
  ASSUME TypeInv, NEW c \in DOMAIN call, LockBusy(c),
         call[c].pc \in {"stale", "recreate"},
         UNCHANGED <<doc, file, journal, faults, ghost, Env>>
  PROVE  /\ \E r : Turns(c, r)
         /\ LockInv => LockInv'
<1>1. Becomes(c, Idle) /\ Idle.pc = "idle" /\ Idle.want = "apply"
  BY Zenon, LockBusyBecomes, IdleCall
<1>2. LockTyped /\ call[c].want \in Locks /\ Locks = {"apply", "document"}
  BY Zenon, TypedLocks DEF Locks
<1>3. /\ LockTyped' /\ \A l \in Locks : lock'[l] = IF l = "apply" /\ call[c].want = "document" THEN "free" ELSE lock[l]
  BY <1>2 DEF LockBusy, LockTyped
<1>4. Turns(c, Idle)
  <2>1. Idle.pc \in Outside \cup {"read"}
    BY <1>1 DEF Outside
  <2> QED
    BY Zenon, <1>1, <1>3, <2>1 DEF Turns
<1>5. ASSUME LockInv PROVE LockInv'
  <2>1. /\ DOMAIN call' = DOMAIN call /\ call'[c] = Idle
        /\ \A d \in DOMAIN call \ {c} : call'[d] = call[d]
    BY Zenon, <1>1, BecomesPointwise
  <2>2. Acquiring' \subseteq Acquiring
    BY <1>1, <2>1 DEF Acquiring
  <2>3. \A d \in DOMAIN call \ {c}, l \in Locks : Holds(d, l)' <=> Holds(d, l)
    BY <2>1 DEF Holds, Inside
  <2>4. \A l \in Locks : ~Holds(c, l)'
    BY <1>1, <2>1 DEF Holds, Inside
  <2>5. call[c].want = "document" => Holds(c, "apply")
    BY DEF Holds
  <2>6. \A d \in DOMAIN call, l \in Locks : Holds(d, l)' => lock'[l] = "held"
    BY <1>2, <1>3, <1>5, <2>3, <2>4, <2>5 DEF LockInv
  <2>7. \A d, e \in DOMAIN call, l \in Locks : Holds(d, l)' /\ Holds(e, l)' => d = e
    BY <1>5, <2>3, <2>4 DEF LockInv
  <2>8. /\ \A d \in DOMAIN call : Inside(d)' => call'[d].want = "document"
        /\ \A d \in DOMAIN call : call'[d].pc = "idle" => call'[d].want = "apply"
    BY <1>1, <1>5, <2>1 DEF LockInv, Inside
  <2>9. \A d \in DOMAIN call : call'[d].pc = "rename" => lock'[call'[d].want] # "held"
    BY <1>1, <1>2, <1>3, <1>5, <2>1, TypedLocks DEF LockInv
  <2> QED
    BY <1>5, <2>1, <2>2, <2>6, <2>7, <2>8, <2>9 DEF LockInv
<1> QED
  BY Zenon, <1>4, <1>5

\* On the way to replacing a lock file that looked stale.
LEMMA AcquiringStep ==
  ASSUME TypeInv, NEW c \in DOMAIN call, call[c].pc \in {"create", "stale", "rename"},
         NEW x \in {"stale", "rename", "recreate"}, Goto(c, x), LockTyped',
         UNCHANGED <<doc, file, journal, faults, ghost, Env>>
  PROVE  /\ \E r : Turns(c, r)
         /\ LockInv /\ Acquiring \subseteq {c} /\ lock' = lock /\ (x = "rename" => lock[call[c].want] # "held")
              => LockInv'
<1>1. PICK r : r = [call[c] EXCEPT !.pc = x]
  BY Zenon
<1>2. x \in Steps /\ x \in Outside \cup {"read"}
  BY DEF Steps, Outside
<1>3. call' = [call EXCEPT ![c] = r] /\ r \in CallRec /\ r.pc = x /\ r.want = call[c].want
  BY <1>1, <1>2, GotoBecomes
<1>4. Becomes(c, r)
  BY <1>2, <1>3, OutsideLocal DEF Becomes
<1>5. Turns(c, r)
  BY Zenon, <1>2, <1>3, <1>4 DEF Turns
<1>6. ASSUME LockInv, Acquiring \subseteq {c}, lock' = lock, x = "rename" => lock[call[c].want] # "held"
      PROVE  LockInv'
  <2>1. /\ DOMAIN call' = DOMAIN call /\ call'[c] = r
        /\ \A d \in DOMAIN call \ {c} : call'[d] = call[d]
    BY Zenon, <1>4, BecomesPointwise
  <2>2. Acquiring' \subseteq {c}
    BY <1>6, <2>1 DEF Acquiring
  <2>3. \A d \in DOMAIN call, l \in Locks : Holds(d, l)' <=> Holds(d, l)
    BY <1>3, <2>1 DEF Holds, Inside
  <2>4. /\ \A d \in DOMAIN call : Inside(d)' => call'[d].want = "document"
        /\ \A d \in DOMAIN call : call'[d].pc = "idle" => call'[d].want = "apply"
    BY <1>3, <1>6, <2>1 DEF LockInv, Inside
  <2> QED
    BY <1>3, <1>6, <2>1, <2>2, <2>3, <2>4 DEF LockInv
<1> QED
  BY Zenon, <1>5, <1>6

\* create_lock_file, one call acquiring at a time.
LEMMA CreateLockStep ==
  ASSUME TypeInv, NEW c \in DOMAIN call, CreateLock(c)
  PROVE  /\ \E r : Turns(c, r)
         /\ LockInv /\ ~RaceLocks => LockInv'
<1>1. /\ call[c].pc = "create" /\ (~RaceLocks => Acquiring \subseteq {c})
      /\ UNCHANGED <<doc, file, journal, faults, ghost, Env>>
  BY Zenon DEF CreateLock, At, MayAcquire
<1>2. CASE lock[call[c].want] = "free" /\ Acquired(c)
  BY <1>1, <1>2, AcquiredStep
<1>3. CASE Goto(c, "stale") /\ UNCHANGED lock
  <2>1. LockTyped'
    BY Zenon, <1>3, TypedLocks DEF LockTyped
  <2> QED
    BY <1>1, <1>3, <2>1, AcquiringStep
<1> QED
  BY Zenon, <1>2, <1>3 DEF CreateLock

\* lock_is_stale: a lock file that some call holds never looks stale.
LEMMA CheckStaleStep ==
  ASSUME TypeInv, NEW c \in DOMAIN call, CheckStale(c)
  PROVE  /\ \E r : Turns(c, r)
         /\ LockInv => LockInv'
<1>1. call[c].pc = "stale" /\ UNCHANGED <<doc, file, journal, faults, ghost, Env>>
  BY Zenon DEF CheckStale, At
<1>2. CASE LockBusy(c)
  BY <1>1, <1>2, LockBusyStep
<1>3. CASE lock[call[c].want] # "held" /\ Goto(c, "rename") /\ UNCHANGED lock
  <2>1. LockTyped'
    BY Zenon, <1>3, TypedLocks DEF LockTyped
  <2>2. LockInv => Acquiring \subseteq {c}
    BY <1>1 DEF LockInv, Acquiring
  <2> QED
    BY <1>1, <1>3, <2>1, <2>2, AcquiringStep
<1> QED
  BY Zenon, <1>2, <1>3 DEF CheckStale

\* The lock file is created anew, or another call was faster.
LEMMA RecreateLockStep ==
  ASSUME TypeInv, NEW c \in DOMAIN call, RecreateLock(c)
  PROVE  /\ \E r : Turns(c, r)
         /\ LockInv => LockInv'
<1>1. call[c].pc = "recreate" /\ UNCHANGED <<doc, file, journal, faults, ghost, Env>>
  BY Zenon DEF RecreateLock, At
<1>2. CASE LockBusy(c)
  BY <1>1, <1>2, LockBusyStep
<1>3. CASE lock[call[c].want] = "free" /\ Acquired(c)
  <2>1. LockInv => Acquiring \subseteq {c}
    BY <1>1 DEF LockInv, Acquiring
  <2> QED
    BY <1>1, <1>3, <2>1, AcquiredStep
<1> QED
  BY Zenon, <1>2, <1>3 DEF RecreateLock

\* The lock file moved out of the way is one no call holds.
LEMMA RenameLockStep ==
  ASSUME TypeInv, NEW c \in DOMAIN call, RenameLock(c)
  PROVE  /\ \E r : Turns(c, r)
         /\ LockInv => LockInv'
<1>1. call[c].pc = "rename" /\ UNCHANGED <<doc, file, journal, faults, ghost, Env>>
  BY Zenon DEF RenameLock, At
<1>2. LockTyped /\ call[c].want \in Locks
  BY Zenon, TypedLocks
<1>3. /\ LockTyped' /\ lock'[call[c].want] = "free"
      /\ \A l \in Locks \ {call[c].want} : lock'[l] = lock[l]
  BY Zenon, <1>2, LockFile DEF RenameLock
<1>4. PICK r : r = [call[c] EXCEPT !.pc = "recreate"]
  BY Zenon
<1>5. "recreate" \in Steps /\ "recreate" \in Outside \cup {"read"}
  BY DEF Steps, Outside
<1>6. call' = [call EXCEPT ![c] = r] /\ r \in CallRec /\ r.pc = "recreate" /\ r.want = call[c].want
  BY <1>4, <1>5, GotoBecomes DEF RenameLock
<1>7. Becomes(c, r)
  BY <1>5, <1>6, OutsideLocal DEF Becomes
<1>8. Turns(c, r)
  BY Zenon, <1>1, <1>3, <1>5, <1>6, <1>7 DEF Turns
<1>9. ASSUME LockInv PROVE LockInv'
  <2>1. /\ DOMAIN call' = DOMAIN call /\ call'[c] = r
        /\ \A d \in DOMAIN call \ {c} : call'[d] = call[d]
    BY Zenon, <1>7, BecomesPointwise
  <2>2. Acquiring \subseteq {c} /\ Acquiring' \subseteq {c}
    BY <1>1, <1>9, <2>1 DEF LockInv, Acquiring
  <2>3. \A d \in DOMAIN call, l \in Locks : Holds(d, l)' <=> Holds(d, l)
    BY <1>1, <1>6, <2>1 DEF Holds, Inside
  <2>4. \A d \in DOMAIN call : ~Holds(d, call[c].want)
    BY <1>1, <1>2, <1>9 DEF LockInv
  <2>5. \A d \in DOMAIN call, l \in Locks : Holds(d, l)' => lock'[l] = "held"
    BY <1>3, <1>9, <2>3, <2>4 DEF LockInv
  <2>6. /\ \A d \in DOMAIN call : Inside(d)' => call'[d].want = "document"
        /\ \A d \in DOMAIN call : call'[d].pc = "idle" => call'[d].want = "apply"
        /\ \A d \in DOMAIN call : call'[d].pc # "rename"
    BY <1>1, <1>6, <1>9, <2>1, <2>2 DEF LockInv, Inside, Acquiring
  <2> QED
    BY <1>9, <2>1, <2>2, <2>3, <2>5, <2>6 DEF LockInv
<1> QED
  BY Zenon, <1>8, <1>9

\* Dropping both locks frees lock files that no other call holds.
LEMMA ReleaseStep ==
  ASSUME TypeInv, NEW c \in DOMAIN call, Release(c)
  PROVE  /\ \E r : Turns(c, r)
         /\ LockInv => LockInv'
<1>1. call[c].pc = "release" /\ UNCHANGED <<doc, file, journal, faults, ghost, Env>>
  BY Zenon DEF Release, At
<1>2. LockTyped' /\ \A l \in Locks : lock'[l] = "free"
  BY DEF Release, LockTyped
<1>3. Becomes(c, Idle) /\ Idle.pc = "idle" /\ Idle.want = "apply"
  BY Zenon, IdleCall DEF Release, Becomes
<1>4. Turns(c, Idle)
  <2>1. Idle.pc \in Outside \cup {"read"}
    BY <1>3 DEF Outside
  <2> QED
    BY Zenon, <1>1, <1>2, <1>3, <2>1 DEF Turns
<1>5. ASSUME LockInv PROVE LockInv'
  <2>1. /\ DOMAIN call' = DOMAIN call /\ call'[c] = Idle
        /\ \A d \in DOMAIN call \ {c} : call'[d] = call[d]
    BY Zenon, <1>3, BecomesPointwise
  <2>2. Acquiring' \subseteq Acquiring
    BY <1>3, <2>1 DEF Acquiring
  <2>3. \A l \in Locks : Holds(c, l)
    BY <1>1 DEF Holds, Inside
  <2>4. \A d \in DOMAIN call, l \in Locks : ~Holds(d, l)'
    <3>1. \A d \in DOMAIN call \ {c}, l \in Locks : ~Holds(d, l)
      BY <1>5, <2>3 DEF LockInv
    <3> QED
      BY <1>3, <2>1, <3>1 DEF Holds, Inside
  <2>5. /\ \A d \in DOMAIN call : Inside(d)' => call'[d].want = "document"
        /\ \A d \in DOMAIN call : call'[d].pc = "idle" => call'[d].want = "apply"
    BY <1>3, <1>5, <2>1 DEF LockInv, Inside
  <2>6. \A d \in DOMAIN call : call'[d].pc = "rename" => lock'[call'[d].want] # "held"
    BY <1>2, <1>3, <2>1, TypedLocks
  <2> QED
    BY <1>5, <2>1, <2>2, <2>4, <2>5, <2>6 DEF LockInv
<1> QED
  BY Zenon, <1>4, <1>5

\* A call that works keeps its locks.
LEMMA WorkKeepsLocks ==
  ASSUME TypeInv, LockInv, NEW c \in DOMAIN call, NEW r, Becomes(c, r), Works(c, r)
  PROVE  LockInv'
<1>1. /\ DOMAIN call' = DOMAIN call /\ call'[c] = r
      /\ \A d \in DOMAIN call \ {c} : call'[d] = call[d]
  BY Zenon, BecomesPointwise
<1>2. lock' = lock /\ call[c].pc \notin Outside /\ r.pc \notin Outside /\ r.want = call[c].want
  BY Zenon DEF Works
<1>3. Acquiring' = Acquiring
  BY <1>1, <1>2 DEF Acquiring, Outside
<1>4. \A d \in DOMAIN call : Inside(d)' <=> Inside(d)
  BY <1>1, <1>2 DEF Inside, Outside
<1>5. \A d \in DOMAIN call, l \in Locks : Holds(d, l)' <=> Holds(d, l)
  BY <1>1, <1>2, <1>4 DEF Holds
<1>6. /\ \A d \in DOMAIN call : Inside(d)' => call'[d].want = "document"
      /\ \A d \in DOMAIN call : call'[d].pc = "idle" => call'[d].want = "apply"
      /\ \A d \in DOMAIN call : call'[d].pc = "rename" => lock'[call'[d].want] # "held"
  BY <1>1, <1>2, <1>4 DEF LockInv, Outside
<1> QED
  BY <1>1, <1>2, <1>3, <1>5, <1>6 DEF LockInv

\* The process dies, and with it every call that held a lock.
LEMMA CrashKeepsLocks ==
  ASSUME TypeInv, LockInv, Crash
  PROVE  LockInv'
<1>1. /\ DOMAIN call' = DOMAIN call /\ \A c \in DOMAIN call : call'[c] = Idle
  BY Zenon DEF Crash
<1>2. Idle.pc = "idle" /\ Idle.want = "apply"
  BY Zenon, IdleCall
<1>3. Acquiring' = {} /\ \A c \in DOMAIN call : ~Inside(c)'
  BY <1>1, <1>2 DEF Acquiring, Inside
<1> QED
  BY <1>1, <1>2, <1>3 DEF LockInv, Holds

\* Only a lock that no running call holds grows old.
LEMMA AgeKeepsLocks ==
  ASSUME TypeInv, LockInv, NEW l \in Locks, AgeLock(l)
  PROVE  LockInv'
<1>1. call' = call /\ lock' = [lock EXCEPT ![l] = "stale"] /\ \A c \in DOMAIN call : ~Holds(c, l)
  BY Zenon DEF AgeLock
<1>2. lock'[l] = "stale" /\ \A m \in Locks \ {l} : lock'[m] = lock[m]
  BY Zenon, <1>1, LockFile, TypedLocks
<1>3. Acquiring' = Acquiring
  BY Zenon, <1>1 DEF Acquiring
<1>4. \A c \in DOMAIN call, m \in Locks : (Holds(c, m)' <=> Holds(c, m)) /\ (Inside(c)' <=> Inside(c))
  BY Zenon, <1>1 DEF Holds, Inside
<1>5. \A c \in DOMAIN call : call[c].pc = "rename" => lock'[call[c].want] # "held"
  BY <1>2, TypedLocks DEF LockInv
<1>6. \A c \in DOMAIN call, m \in Locks : Holds(c, m) => lock'[m] = "held"
  BY <1>1, <1>2 DEF LockInv
<1> QED
  BY <1>1, <1>3, <1>4, <1>5, <1>6 DEF LockInv, Locks

\* Steps of the user and the clock change no lock.
LEMMA SameLocks ==
  ASSUME LockInv, UNCHANGED <<call, lock>>
  PROVE  LockInv'
BY DEF LockInv, Acquiring, Holds, Inside

-----------------------------------------------------------------------------
(* Types *)

\* Every step of a call is one or the other kind.
LEMMA StepKinds ==
  ASSUME TypeInv, NEW c \in DOMAIN call, Step(c)
  PROVE  \/ Good(c)
         \/ (\E r : Turns(c, r)) /\ (LockInv /\ ~RaceLocks => LockInv')
<1>1. CASE CreateLock(c) \/ CheckStale(c) \/ RenameLock(c) \/ RecreateLock(c) \/ Release(c)
  BY Zenon, <1>1, CreateLockStep, CheckStaleStep, RenameLockStep, RecreateLockStep,
     ReleaseStep
<1>2. CASE Read(c) \/ Discard(c) \/ Rollback(c) \/ Undo(c) \/ Unlink(c) \/ Clear(c) \/ GiveUp(c)
  BY Zenon, <1>2, ReadStep, DiscardStep, RollbackStep, UndoStep, UnlinkStep, ClearStep,
     GiveUpStep
<1>3. CASE Validate(c) \/ Mismatch(c) \/ Orphan(c) \/ Check(c) \/ Plan(c) \/ Stage(c) \/ Inflight(c)
  BY Zenon, <1>3, ValidateStep, MismatchStep, OrphanStep, CheckStep, PlanStep, StageStep,
     InflightStep
<1>4. CASE Publish(c) \/ Replace(c) \/ Abort(c) \/ Record(c) \/ Finalize(c)
  BY Zenon, <1>4, PublishStep, ReplaceStep, AbortStep, RecordStep, FinalizeStep
<1>5. CASE Swap(c) \/ Write(c) \/ MarkSaved(c) \/ RemoveJournal(c) \/ ReadFails(c)
  BY Zenon, <1>5, SwapStep, WriteStep, MarkSavedStep, RemoveJournalStep, ReadFailsStep
<1> QED
  BY Zenon, <1>1, <1>2, <1>3, <1>4, <1>5 DEF Step

\* The steps of the system, by kind.
LEMMA NextKinds ==
  ASSUME TypeInv, Next
  PROVE  \/ \E c \in DOMAIN call : Good(c)
         \/ (\E c \in DOMAIN call : \E r : Turns(c, r)) /\ (LockInv /\ ~RaceLocks => LockInv')
         \/ Crash \/ Tick \/ \E l \in Locks : AgeLock(l)
         \/ \E p \in Targets : WriteTarget(p) \/ \E option \in Options : EditDocument(p, option)
BY Zenon, StepKinds, StartStep DEF Next

\* The types of the fields TypeOK lists.
LEMMA CallFields ==
  ASSUME CallsTyped'
  PROVE  \A c \in DOMAIN call' :
         /\ call'[c].expected \in Doc \cup {None} /\ call'[c].doc \in Doc \cup {None}
         /\ call'[c].journal \in Journal \cup {None} /\ call'[c].put \in Doc \cup {None}
         /\ call'[c].todo \subseteq Targets /\ call'[c].path \in Targets \cup {None}
BY DEF CallsTyped, CallRec

\* The initial state is typed.
LEMMA InitTyped ==
  ASSUME Init
  PROVE  TypeInv
<1>1. PICK b \in Budgets : call = [c \in b.calls |-> Idle] /\ faults = b.faults /\ edits = b.edits
  BY Zenon DEF Init
<1>2. faults \in Nat /\ edits \in Nat
  BY <1>1, KnowledgeAssumption
<1>3. DOMAIN call = b.calls /\ \A c \in DOMAIN call : call[c] = Idle
  BY Zenon, <1>1
<1>4. CallsTyped
  BY Zenon, <1>1, <1>3, IdleCall DEF CallsTyped
<1>5. doc \in Doc
  BY KnowledgeAssumption DEF Init, Doc
<1>6. file \in [Targets -> Contents]
  BY DEF Init, Contents
<1>7. lock \in [Locks -> {"free", "held", "stale"}] /\ now \in 0..MaxNow
  BY KnowledgeAssumption DEF Init
<1>8. \A c \in DOMAIN call :
         /\ call[c].expected \in Doc \cup {None} /\ call[c].doc \in Doc \cup {None}
         /\ call[c].journal \in Journal \cup {None} /\ call[c].put \in Doc \cup {None}
         /\ call[c].todo \subseteq Targets /\ call[c].path \in Targets \cup {None}
  BY <1>3, IdleCall DEF CallRec
<1> QED
  BY <1>2, <1>4, <1>5, <1>6, <1>7, <1>8 DEF TypeInv, TypeOK, Init, Contents

\* What is left to show of a step of a call.
LEMMA CallOnlyTyped ==
  ASSUME TypeInv, CallsTyped', FilesTyped', LockTyped', faults' \in Nat,
         UNCHANGED <<updates, now, edits, touched>>
  PROVE  TypeInv'
<1>1. \A c \in DOMAIN call' :
         /\ call'[c].expected \in Doc \cup {None} /\ call'[c].doc \in Doc \cup {None}
         /\ call'[c].journal \in Journal \cup {None} /\ call'[c].put \in Doc \cup {None}
         /\ call'[c].todo \subseteq Targets /\ call'[c].path \in Targets \cup {None}
  BY Zenon, CallFields
<1> QED
  BY Zenon, <1>1 DEF TypeInv, TypeOK, FilesTyped, LockTyped, Contents

\* Every step preserves the types.
LEMMA NextTyped ==
  ASSUME TypeInv, [Next]_vars
  PROVE  TypeInv'
<1>1. FilesTyped /\ LockTyped /\ CallsTyped /\ faults \in Nat /\ edits \in Nat /\ now \in 0..MaxNow
  BY Zenon DEF TypeInv, TypeOK, FilesTyped, LockTyped, Contents
<1>2. ASSUME NEW c \in DOMAIN call, Good(c) PROVE TypeInv'
  <2>1. PICK r : Becomes(c, r) /\ Works(c, r) /\ FilesTyped'
    BY Zenon, <1>2 DEF Good
  <2>2. CallsTyped'
    BY Zenon, <2>1, BecomesPointwise
  <2>3. LockTyped' /\ faults' \in Nat /\ UNCHANGED <<updates, now, edits, touched>>
    BY Zenon, <1>1, <2>1 DEF Works, Env, LockTyped
  <2> QED
    BY Zenon, <2>1, <2>2, <2>3, CallOnlyTyped
<1>3. ASSUME NEW c \in DOMAIN call, NEW r, Turns(c, r) PROVE TypeInv'
  <2>1. CallsTyped'
    BY Zenon, <1>3, BecomesPointwise DEF Turns
  <2>2. FilesTyped' /\ LockTyped' /\ faults' \in Nat /\ UNCHANGED <<updates, now, edits, touched>>
    BY Zenon, <1>1, <1>3 DEF Turns, Env, ghost, FilesTyped
  <2> QED
    BY Zenon, <2>1, <2>2, CallOnlyTyped
<1>4. CASE Crash
  <2>1. call' = [c \in DOMAIN call |-> Idle] /\ UNCHANGED <<disk, ghost, Env>> /\ Fault
    BY Zenon, <1>4 DEF Crash
  <2>2. CallsTyped'
    BY Zenon, <2>1, IdleCall DEF CallsTyped
  <2>3. faults' \in Nat
    BY <2>1, Faults
  <2> QED
    BY Zenon, <1>1, <2>1, <2>2, <2>3, CallOnlyTyped DEF Env, ghost, disk, FilesTyped,
       LockTyped
<1>5. CASE Tick
  <2>1. now' \in 0..MaxNow
    BY <1>1, <1>5, KnowledgeAssumption DEF Tick
  <2> QED
    BY Zenon, <1>5, <2>1 DEF Tick, TypeInv, TypeOK, CallsTyped, disk, ghost
<1>6. ASSUME NEW l \in Locks, AgeLock(l) PROVE TypeInv'
  <2>1. LockTyped'
    BY Zenon, <1>1, <1>6, LockFile DEF AgeLock
  <2>2. CallsTyped' /\ FilesTyped' /\ faults' \in Nat /\ UNCHANGED <<updates, now, edits, touched>>
    BY Zenon, <1>1, <1>6 DEF AgeLock, CallsTyped, FilesTyped, Env, ghost
  <2> QED
    BY Zenon, <2>1, <2>2, CallOnlyTyped
<1>7. ASSUME NEW p \in Targets, WriteTarget(p) PROVE TypeInv'
  <2>1. PICK x \in {Users, Missing} : file' = [file EXCEPT ![p] = x]
    BY <1>7 DEF WriteTarget
  <2>2. file' \in [Targets -> Contents]
    BY <1>1, <2>1 DEF FilesTyped, Contents
  <2>3. edits' \in Nat /\ touched' \subseteq Targets
    BY <1>1, <1>7 DEF WriteTarget, Edit, TypeInv, TypeOK
  <2> QED
    BY Zenon, <1>7, <2>2, <2>3 DEF WriteTarget, TypeInv, TypeOK, CallsTyped, Contents
<1>8. ASSUME NEW p \in Targets, NEW option \in Options, EditDocument(p, option) PROVE TypeInv'
  <2>1. doc' \in Doc
    BY <1>1, <1>8 DEF EditDocument, FilesTyped, Doc
  <2>2. edits' \in Nat
    BY <1>1, <1>8 DEF EditDocument, Edit
  <2> QED
    BY Zenon, <1>8, <2>1, <2>2 DEF EditDocument, TypeInv, TypeOK, CallsTyped, ghost
<1>9. CASE UNCHANGED vars
  BY Zenon, <1>9 DEF vars, disk, ghost, TypeInv, TypeOK, CallsTyped
<1> QED
  BY Zenon, <1>2, <1>3, <1>4, <1>5, <1>6, <1>7, <1>8, <1>9, NextKinds

\* Every reachable state is typed.
LEMMA KnowledgeTypeInv == Spec => []TypeInv
<1>1. Init => TypeInv
  BY InitTyped
<1>2. TypeInv /\ [Next]_vars => TypeInv'
  BY NextTyped
<1> QED
  BY <1>1, <1>2, PTL DEF Spec

\* The document, the journal, the files and the calls always have their types: in
\* particular no call of apply.rs uses a journal, a document or a path it has not
\* read, and the journal it writes back is a journal.
THEOREM ApplyTyped == Spec => []TypeOK
<1>1. TypeInv => TypeOK
  BY Zenon DEF TypeInv
<1> QED
  BY <1>1, KnowledgeTypeInv, PTL

-----------------------------------------------------------------------------
(* The user's files, the locks, the document and the journal *)

\* An edit of the user is counted.
LEMMA EditsCount ==
  ASSUME TypeInv, Edit
  PROVE  edits' # edits
BY DEF Edit, TypeInv, TypeOK

\* The invariant of the guarded writes is inductive, and with it a file of the user
\* is changed by the user only.
LEMMA GuardedStep ==
  ASSUME TypeInv, GuardedKept, [Next]_vars, ~RaceFiles
  PROVE  /\ GuardedKept'
         /\ \A p \in Targets : file[p] = Users => file'[p] = Users \/ edits' # edits
<1>1. ASSUME NEW c \in DOMAIN call, Good(c)
      PROVE  GuardedKept' /\ \A p \in Targets : file[p] = Users => file'[p] = Users
  <2>1. PICK r : Becomes(c, r) /\ KeepsUsers(c, r)
    BY Zenon, <1>1 DEF Good
  <2>2. /\ DOMAIN call' = DOMAIN call /\ call'[c] = r
        /\ \A d \in DOMAIN call \ {c} : call'[d] = call[d]
    BY Zenon, <2>1, BecomesPointwise
  <2>3. \A d \in DOMAIN call : call[d].pc \in {"unlink", "replace"} => call[d].path \in Targets
    BY CallIsTyped DEF Local
  <2> QED
    BY <2>1, <2>2, <2>3 DEF KeepsUsers, GuardedKept
<1>2. ASSUME NEW c \in DOMAIN call, NEW r, Turns(c, r)
      PROVE  GuardedKept' /\ file' = file
  <2>1. /\ DOMAIN call' = DOMAIN call /\ call'[c] = r
        /\ \A d \in DOMAIN call \ {c} : call'[d] = call[d]
    BY Zenon, <1>2, BecomesPointwise DEF Turns
  <2>2. r.pc \notin {"unlink", "replace"} /\ file' = file
    BY <1>2 DEF Turns, Outside
  <2> QED
    BY <2>1, <2>2 DEF GuardedKept
<1>3. CASE Crash
  <2>1. file' = file /\ \A c \in DOMAIN call' : call'[c].pc = "idle"
    BY Zenon, <1>3, IdleCall DEF Crash, disk
  <2> QED
    BY <2>1 DEF GuardedKept
<1>4. ASSUME NEW p \in Targets, WriteTarget(p)
      PROVE  GuardedKept' /\ edits' # edits
  <2>1. /\ call' = call /\ edits' # edits /\ ~Guarded(p)
        /\ \A q \in Targets \ {p} : file'[q] = file[q]
    BY <1>4, EditsCount DEF WriteTarget, TypeInv, TypeOK
  <2>2. \A d \in DOMAIN call : call[d].pc \in {"unlink", "replace"} => call[d].path \in Targets
    BY CallIsTyped DEF Local
  <2> QED
    BY <2>1, <2>2 DEF GuardedKept, Guarded
<1>5. CASE \/ UNCHANGED vars \/ Tick \/ \E l \in Locks : AgeLock(l)
           \/ \E p \in Targets : \E option \in Options : EditDocument(p, option)
  <2>1. UNCHANGED <<call, file>>
    BY Zenon, <1>5 DEF vars, disk, Tick, AgeLock, EditDocument
  <2> QED
    BY Zenon, <2>1 DEF GuardedKept
<1> QED
  BY Zenon, <1>1, <1>2, <1>3, <1>4, <1>5, NextKinds

\* What the user wrote at a target is neither replaced by guarded_replace_file nor
\* removed by rollback_staged_journal, whatever calls run, fail, die and recover, and
\* also when the lock files fail to keep them apart: every write is guarded by a
\* comparison.  The hypothesis sets the window between the two aside.
THEOREM UserFilesAreKept ==
  ASSUME ~RaceFiles
  PROVE  Spec => UserFilesKept
<1>1. Init => GuardedKept
  <2> SUFFICES ASSUME Init PROVE GuardedKept
    OBVIOUS
  <2>1. \A c \in DOMAIN call : call[c].pc = "idle"
    BY Zenon, IdleCall DEF Init
  <2> QED
    BY <2>1 DEF GuardedKept
<1>2. TypeInv /\ GuardedKept /\ [Next]_vars =>
        GuardedKept' /\ [\A p \in Targets : file[p] = Users => file'[p] = Users \/ edits' # edits]_vars
  BY Zenon, GuardedStep
<1> QED
  BY <1>1, <1>2, KnowledgeTypeInv, PTL DEF Spec, UserFilesKept

\* Every step preserves the invariant of the lock files.
LEMMA NextKeepsLocks ==
  ASSUME TypeInv, LockInv, [Next]_vars, ~RaceLocks
  PROVE  LockInv'
<1>1. ASSUME NEW c \in DOMAIN call, Good(c) PROVE LockInv'
  <2>1. PICK r : Becomes(c, r) /\ Works(c, r)
    BY Zenon, <1>1 DEF Good
  <2> QED
    BY Zenon, <2>1, WorkKeepsLocks
<1>2. CASE \/ UNCHANGED vars \/ Tick
           \/ \E p \in Targets : WriteTarget(p) \/ \E option \in Options : EditDocument(p, option)
  <2>1. UNCHANGED <<call, lock>>
    BY Zenon, <1>2 DEF vars, disk, Tick, WriteTarget, EditDocument
  <2> QED
    BY Zenon, <2>1, SameLocks
<1>3. ASSUME NEW l \in Locks, AgeLock(l) PROVE LockInv'
  BY Zenon, <1>3, AgeKeepsLocks
<1>4. CASE Crash
  BY Zenon, <1>4, CrashKeepsLocks
<1> QED
  BY Zenon, <1>1, <1>2, <1>3, <1>4, NextKinds

\* There are no lock files at first.
LEMMA InitLocks ==
  ASSUME Init
  PROVE  LockInv
<1>1. \A c \in DOMAIN call : call[c].pc = "idle" /\ call[c].want = "apply"
  BY Zenon, IdleCall DEF Init
<1>2. Acquiring = {} /\ \A c \in DOMAIN call : ~Inside(c)
  BY <1>1 DEF Acquiring, Inside
<1> QED
  BY <1>1, <1>2 DEF LockInv, Holds

\* The invariant of the lock files holds in every reachable state.
LEMMA LocksInvariant ==
  ASSUME ~RaceLocks
  PROVE  Spec => [](TypeInv /\ LockInv)
<1>1. Init => LockInv
  BY InitLocks
<1>2. TypeInv /\ LockInv /\ [Next]_vars => LockInv'
  BY Zenon, NextKeepsLocks
<1> QED
  BY <1>1, <1>2, KnowledgeTypeInv, PTL DEF Spec

\* It implies that at most one call is inside.
LEMMA OneInside ==
  ASSUME LockInv
  PROVE  OneCallInside
<1>1. "apply" \in Locks
  BY DEF Locks
<1> QED
  BY <1>1 DEF LockInv, OneCallInside, Holds

\* At most one call of apply_decision_document_for_root is past the lock files,
\* also after processes died holding them and their lock files were taken for stale.
\* The hypothesis sets aside that two calls replace the same stale lock file.
THEOREM CallsAreApart ==
  ASSUME ~RaceLocks
  PROVE  Spec => []OneCallInside
<1>1. TypeInv /\ LockInv => OneCallInside
  BY OneInside
<1> QED
  BY <1>1, LocksInvariant, PTL

\* What a call relies on is not disturbed by what it does not mention.
LEMMA DataStays ==
  ASSUME NEW r, Data(r), UNCHANGED <<updates, doc, file, journal, touched, abandoned>>
  PROVE  Data(r)'
<1>1. AtStart(r)'
  BY Zenon DEF Data, AtStart, Untouched
<1>2. AtUndo(r)'
  BY Zenon DEF Data, AtUndo, Untouched, Written
<1>3. AtPublish(r)'
  BY Zenon DEF Data, AtPublish
<1>4. AtSave(r)'
  BY Zenon DEF Data, AtSave, Kept
<1> QED
  BY Zenon, <1>1, <1>2, <1>3, <1>4 DEF Data

\* A step of the call inside: the other calls rely on nothing, as they are outside.
LEMMA GoodKeepsData ==
  ASSUME TypeInv, LockInv, DataInv, NEW c \in DOMAIN call, Good(c)
  PROVE  DataInv'
<1>1. PICK r : Becomes(c, r) /\ Works(c, r) /\ KeepsData(c, r)
  BY Zenon DEF Good
<1>2. /\ DOMAIN call' = DOMAIN call /\ call'[c] = r
      /\ \A d \in DOMAIN call \ {c} : call'[d] = call[d]
  BY Zenon, <1>1, BecomesPointwise
<1>3. Global' /\ Data(r)'
  BY Zenon, <1>1 DEF KeepsData, DataInv
<1>5. Data(call[c])'
  BY Zenon, <1>2, <1>3, DataOf
<1>4. ASSUME NEW d \in DOMAIN call \ {c} PROVE Data(call[d])'
  <2>1. call[d].pc \in Outside
    BY <1>1, OneInside DEF OneCallInside, Inside, Works, Outside
  <2>2. PICK q : q = call[d] /\ q = call'[d] /\ q.pc \in Outside \cup {"read", "release"}
    BY <1>2, <2>1
  <2>3. Data(q)'
    BY Zenon, <2>2, OutsideLocal
  <2> QED
    BY Zenon, <2>2, <2>3, DataOf
<1> QED
  BY Zenon, <1>2, <1>3, <1>4, <1>5 DEF DataInv

\* Acquiring and releasing the locks disturbs nothing.
LEMMA TurnKeepsData ==
  ASSUME TypeInv, DataInv, NEW c \in DOMAIN call, NEW r, Turns(c, r)
  PROVE  DataInv'
<1>1. /\ DOMAIN call' = DOMAIN call /\ call'[c] = r
      /\ \A d \in DOMAIN call \ {c} : call'[d] = call[d]
  BY Zenon, BecomesPointwise DEF Turns
<1>2. UNCHANGED <<updates, doc, file, journal, touched, abandoned>> /\ r.pc \in Outside \cup {"read", "release"}
  BY DEF Turns, Env, ghost
<1>3. Global'
  BY Zenon, <1>2, Undisturbed DEF DataInv
<1>4. ASSUME NEW d \in DOMAIN call PROVE Data(call[d])'
  <2>1. PICK q : q = call'[d] /\ (Data(q) \/ q = r)
    BY Zenon, <1>1 DEF DataInv
  <2>2. Data(q)'
    BY Zenon, <1>2, <2>1, OutsideLocal, DataStays
  <2> QED
    BY Zenon, <2>1, <2>2, DataOf
<1> QED
  BY Zenon, <1>1, <1>3, <1>4 DEF DataInv

\* After a crash the disk is as the last step left it, and no call relies on anything:
\* what Global says is what the recovery works from.
LEMMA CrashKeepsData ==
  ASSUME DataInv, Crash
  PROVE  DataInv'
<1>1. /\ DOMAIN call' = DOMAIN call /\ \A c \in DOMAIN call : call'[c] = Idle
      /\ UNCHANGED <<updates, doc, file, journal, touched, abandoned>>
  BY Zenon DEF Crash, disk, ghost, Env
<1>2. Global'
  BY Zenon, <1>1, Undisturbed DEF DataInv
<1>3. Idle.pc \in Outside \cup {"read", "release"}
  BY IdleCall DEF Outside
<1>4. Data(Idle)'
  BY Zenon, <1>3, OutsideLocal
<1>5. \A c \in DOMAIN call : Data(call[c])'
  BY Zenon, <1>1, <1>4, DataOf
<1> QED
  BY Zenon, <1>1, <1>2, <1>5 DEF DataInv

\* The clock and the aging of lock files disturb nothing.
LEMMA QuietKeepsData ==
  ASSUME DataInv, UNCHANGED <<updates, doc, file, journal, touched, abandoned, call>>
  PROVE  DataInv'
<1>1. Global'
  BY Zenon, Undisturbed DEF DataInv
<1>2. ASSUME NEW d \in DOMAIN call PROVE Data(call[d])'
  <2>1. PICK q : q = call[d] /\ q = call'[d] /\ Data(q)
    BY Zenon, <1>2 DEF DataInv
  <2>2. Data(q)'
    BY Zenon, <2>1, DataStays
  <2> QED
    BY Zenon, <2>1, <2>2, DataOf
<1> QED
  BY Zenon, <1>1, <1>2 DEF DataInv

\* The user may write or delete a target at any time, also between a comparison and
\* the write it guards.
LEMMA UserWriteKeepsData ==
  ASSUME TypeInv, DataInv, NEW p \in Targets, WriteTarget(p)
  PROVE  DataInv'
<1>1. /\ UNCHANGED <<updates, doc, journal, abandoned, call>>
      /\ touched' = touched \cup {p}
      /\ file'[p] \notin Outputs /\ \A q \in Targets \ {p} : file'[q] = file[q]
  BY ContentsDiffer DEF WriteTarget, TypeInv, TypeOK
<1>2. \A q \in Targets : file'[q] \in Outputs => file'[q] = file[q]
  BY <1>1
<1>3. \A q \in Targets : file[q] \in Outputs \/ q \in touched => file'[q] \in Outputs \/ q \in touched'
  BY <1>1
<1>4. \A q \in Targets : Written(q)' => Written(q)
  BY <1>1, <1>2 DEF Written
<1>5. Global'
  <2>1. Untouched(doc)' /\ Kept(doc)'
    BY <1>1, <1>3 DEF DataInv, Global, Untouched, Kept
  <2> QED
    BY <1>1, <1>4, <2>1 DEF DataInv, Global
<1>6. ASSUME NEW d \in DOMAIN call PROVE Data(call[d])'
  <2>1. PICK r \in CallRec : r = call[d] /\ r = call'[d] /\ Data(r) /\ Local(r)
    BY Zenon, <1>1, <1>6, CallIsTyped DEF DataInv
  <2>2. AtStart(r)'
    BY Zenon, <1>1, <2>1 DEF Data, AtStart, Untouched
  <2>3. AtUndo(r)'
    BY <1>1, <1>4, <2>1 DEF Data, AtUndo, Untouched
  <2>4. AtPublish(r)'
    <3> SUFFICES ASSUME r.pc \in Publishing PROVE AtPublish(r)'
      BY Zenon DEF AtPublish
    <3>1. r.journal \in Journal /\ r.journal = journal
      BY <2>1 DEF Local, Data, AtPublish
    <3>2. journal.done \subseteq Targets /\ Planned(journal) \subseteq Targets
      BY <3>1 DEF Journal, Planned, Answered
    <3> QED
      BY <1>1, <1>2, <1>3, <2>1, <3>2 DEF Data, AtPublish
  <2>5. AtSave(r)'
    BY <1>1, <1>3, <2>1 DEF Data, AtSave, Kept
  <2>6. Data(r)'
    BY Zenon, <2>2, <2>3, <2>4, <2>5 DEF Data
  <2> QED
    BY Zenon, <2>1, <2>6, DataOf
<1> QED
  BY Zenon, <1>1, <1>5, <1>6 DEF DataInv

\* The user may change an answer of the pending document at any time.
LEMMA UserAnswerKeepsData ==
  ASSUME TypeInv, DataInv, NEW p \in Targets, NEW option \in Options, EditDocument(p,
         option)
  PROVE  DataInv'
<1>1. UNCHANGED <<updates, file, journal, touched, abandoned, call>> /\ doc.status = "pending"
  BY Zenon DEF EditDocument, ghost
<1>2. doc'.status = doc.status /\ doc'.dec = doc.dec
  BY DEF EditDocument, TypeInv, TypeOK, Doc
<1>3. Global'
  BY <1>1, <1>2 DEF DataInv, Global, Untouched, Kept, Written
<1>4. ASSUME NEW d \in DOMAIN call PROVE Data(call[d])'
  <2>1. PICK r : r = call[d] /\ r = call'[d] /\ Data(r)
    BY Zenon, <1>1, <1>4 DEF DataInv
  <2>2. AtStart(r)'
    BY <1>1, <1>2, <2>1 DEF Data, AtStart, Untouched
  <2>3. AtUndo(r)'
    BY <1>1, <1>2, <2>1 DEF Data, AtUndo, Untouched, Written
  <2>4. AtPublish(r)'
    BY <1>1, <1>2, <2>1 DEF Data, AtPublish
  <2>5. AtSave(r)'
    BY <1>1, <1>2, <2>1 DEF Data, AtSave, Kept
  <2>6. Data(r)'
    BY Zenon, <2>2, <2>3, <2>4, <2>5 DEF Data
  <2> QED
    BY Zenon, <2>1, <2>6, DataOf
<1> QED
  BY Zenon, <1>1, <1>3, <1>4 DEF DataInv

\* Every step preserves the invariant of the files, the journal and the document.
LEMMA NextKeepsData ==
  ASSUME TypeInv, LockInv, DataInv, [Next]_vars
  PROVE  DataInv'
<1>1. CASE UNCHANGED vars \/ Tick \/ \E l \in Locks : AgeLock(l)
  <2>1. UNCHANGED <<updates, doc, file, journal, touched, abandoned, call>>
    BY Zenon, <1>1 DEF vars, disk, ghost, Tick, AgeLock, Env
  <2> QED
    BY Zenon, <2>1, QuietKeepsData
<1> QED
  BY Zenon, <1>1, NextKinds, GoodKeepsData, TurnKeepsData, CrashKeepsData,
     UserWriteKeepsData, UserAnswerKeepsData

\* At first nothing is decided and nothing is written.
LEMMA InitData ==
  ASSUME Init
  PROVE  DataInv
<1>1. \A c \in DOMAIN call : call[c].pc = "idle"
  BY Zenon, IdleCall DEF Init
<1>2. \A c \in DOMAIN call : Data(call[c])
  BY <1>1 DEF Data, AtStart, AtUndo, AtPublish, AtSave, Undoing, Publishing, Saving
<1>3. doc.status = "pending" /\ \A p \in Targets : doc.dec[p] = "pending"
  BY DEF Init
<1>4. \A p \in Targets : ~Written(p)
  BY ContentsDiffer DEF Init, Written
<1>5. Global
  BY <1>3, <1>4 DEF Init, Global, Untouched, Kept
<1> QED
  BY Zenon, <1>2, <1>5 DEF DataInv

\* It holds in every reachable state.
LEMMA DataInvariant ==
  ASSUME ~RaceLocks
  PROVE  Spec => []DataInv
<1>1. Init => DataInv
  BY InitData
<1>2. TypeInv /\ LockInv /\ DataInv /\ [Next]_vars => DataInv'
  BY NextKeepsData
<1> QED
  BY <1>1, <1>2, LocksInvariant, PTL DEF Spec

\* A document that says a proposal was committed is right: its file is there as
\* the apply wrote it, or the user has changed it since.  However calls are
\* interrupted, rolled back and recovered, for any number of calls, targets, faults
\* and edits, as long as the lock files keep the calls apart.
THEOREM CommittedFilesAreThere ==
  ASSUME ~RaceLocks
  PROVE  Spec => []CommittedIsPublished
<1>1. DataInv => CommittedIsPublished
  BY Zenon DEF DataInv, Global, Kept, CommittedIsPublished
<1> QED
  BY <1>1, DataInvariant, PTL

\* A pending document without a journal and without a running call has no published
\* target but those a failed call had to abandon: whatever a dead or failing call
\* published, its journal leads the next call to it.
THEOREM PendingLeavesNothing ==
  ASSUME ~RaceLocks
  PROVE  Spec => []PendingIsUndone
<1>1. DataInv => PendingIsUndone
  BY Zenon DEF DataInv, Global, Written, PendingIsUndone
<1> QED
  BY <1>1, DataInvariant, PTL
=============================================================================
