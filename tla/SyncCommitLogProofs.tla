------------------------ MODULE SyncCommitLogProofs ------------------------
(***************************************************************************)
(* Proofs about SyncCommitLog, for any number of devices, commits,         *)
(* transactions and requests.                                              *)
(***************************************************************************)
EXTENDS SyncCommitLog, TLAPS

\* An empty workspace is well typed.
LEMMA InitTyped == Init => TypeOK
<1> SUFFICES ASSUME Init PROVE TypeOK
  OBVIOUS
<1>a. commits \in Seq(Requests)
  BY DEF Init
<1>b. deleted \in BOOLEAN
  BY DEF Init
<1>1. /\ head \in Heads
      /\ headVersion \in Nat
      /\ lastSeq \in [Devices -> Nat]
  BY DEF Init, Heads
<1>2. cursor \in [Devices -> [seen : Heads, checkpoint : Heads]]
  BY DEF Init, Heads
<1>3. /\ available \subseteq LogObjects
      /\ requests \subseteq Requests
      /\ tx \in [Txs -> Requests \cup {Idle}]
      /\ replies \subseteq [req : Requests, result : Results]
  BY DEF Init
<1> QED
  BY <1>a, <1>b, <1>1, <1>2, <1>3 DEF TypeOK

\* The type invariant: every column of the server's tables keeps its type under
\* all the steps of PublishCommit.
THEOREM TypeCorrect == Spec => []TypeOK
<1>1. TypeOK /\ [Next]_vars => TypeOK'
  <2> SUFFICES ASSUME TypeOK, [Next]_vars PROVE TypeOK'
    OBVIOUS
  <2> USE DEF TypeOK
  <2>1. ASSUME NEW r \in Drafts, Compose(r) PROVE TypeOK'
    BY <2>1, LogAssumption DEF Compose
  <2>2. ASSUME NEW t \in Txs, NEW r \in requests, PublishBegin(t, r) PROVE TypeOK'
    <3>1. AnswerExisting(r) \in Results /\ "refused" \in Results
      BY DEF AnswerExisting, Results
    <3>2. r \in Requests
      OBVIOUS
    <3>3. tx' \in [Txs -> Requests \cup {Idle}]
      BY <2>2, <3>2 DEF PublishBegin, Reply
    <3>4. replies' \subseteq [req : Requests, result : Results]
      <4>1. replies' \subseteq replies \cup {[req |-> r, result |-> "refused"],
                                           [req |-> r, result |-> AnswerExisting(r)]}
        BY <2>2 DEF PublishBegin, Reply
      <4> QED
        BY <3>1, <3>2, <4>1
    <3> QED
      BY <2>2, <3>3, <3>4 DEF PublishBegin
  <2>3. ASSUME NEW t \in Txs, PublishCommit(t) PROVE TypeOK'
    <3> DEFINE r == tx[t]
    <3>1. r \in Requests
      BY <2>3 DEF PublishCommit
    <3>2. commits' \in Seq(Requests)
      BY <2>3, <3>1 DEF PublishCommit
    <3>3. /\ r.id \in CommitIds
          /\ r.author \in Devices
          /\ r.seq \in Nat
      BY <3>1, LogAssumption DEF Requests
    <3>4. cursor' \in [Devices -> [seen : Heads, checkpoint : Heads]]
      BY <2>3, <3>3 DEF PublishCommit, AdvancedCursor, Heads
    <3>5. /\ replies' \subseteq [req : Requests, result : Results]
          /\ tx' \in [Txs -> Requests \cup {Idle}]
      BY <2>3, <3>1 DEF PublishCommit, Reply, Results
    <3>6. /\ lastSeq' \in [Devices -> Nat]
          /\ head' \in Heads
          /\ headVersion' \in Nat
      BY <2>3, <3>3 DEF PublishCommit, MoveHead, Heads
    <3> QED
      BY <2>3, <3>2, <3>4, <3>5, <3>6 DEF PublishCommit
  <2>4. ASSUME NEW t \in Txs, PublishReturn(t) PROVE TypeOK'
    <3>1. AnswerExisting(tx[t]) \in Results /\ {"refused", "head_conflict"} \subseteq Results
      BY DEF AnswerExisting, Results
    <3>2. tx[t] \in Requests
      BY <2>4 DEF PublishReturn
    <3>3. PICK result \in Results : Reply(t, tx[t], result)
      BY <2>4, <3>1 DEF PublishReturn
    <3>4. /\ tx' \in [Txs -> Requests \cup {Idle}]
          /\ replies' \subseteq [req : Requests, result : Results]
      BY <3>2, <3>3 DEF Reply
    <3> QED
      BY <2>4, <3>4 DEF PublishReturn
  <2>5. ASSUME NEW t \in Txs, PublishAbort(t) PROVE TypeOK'
    BY <2>5 DEF PublishAbort
  <2>6. ASSUME NEW S \in SUBSET LogObjects, ObjectsAvailable(S) PROVE TypeOK'
    BY <2>6 DEF ObjectsAvailable, logVars
  <2>7. CASE DeleteWorkspace
    BY <2>7 DEF DeleteWorkspace, logVars
  <2>8. CASE UNCHANGED vars
    BY <2>8 DEF vars, logVars
  <2> QED
    BY <2>1, <2>2, <2>3, <2>4, <2>5, <2>6, <2>7, <2>8 DEF Next, PublishStep
<1> QED
  BY InitTyped, <1>1, PTL DEF Spec

-----------------------------------------------------------------------------
\* The inductive invariant: the safety invariants together with what makes a
\* head conflict final.
IInv ==
    /\ TypeOK
    /\ HeadIsLastCommit
    /\ LinearHistory
    /\ DeviceSeqMonotonic
    /\ SuccessIsPublished
    /\ CommitObjectsAvailable
    /\ ConflictIsStale

\* Publishing adds one row and one id: what INSERT INTO sync_commits does to the
\* sets the other checks look at.
LEMMA AppendedRow ==
    ASSUME NEW r \in Requests, commits \in Seq(Requests), commits' = Append(commits, r)
    PROVE  /\ Rows' = Rows \cup {r}
           /\ PublishedIds' = PublishedIds \cup {r.id}
           /\ Len(commits') = Len(commits) + 1
           /\ DOMAIN commits' = 1..(Len(commits) + 1)
           /\ commits'[Len(commits) + 1] = r
           /\ \A i \in 1..Len(commits) : commits'[i] = commits[i]
<1>1. /\ Len(commits) \in Nat
      /\ DOMAIN commits = 1..Len(commits)
      /\ Len(commits') = Len(commits) + 1
      /\ DOMAIN commits' = 1..(Len(commits) + 1)
      /\ commits'[Len(commits) + 1] = r
      /\ \A i \in 1..Len(commits) : commits'[i] = commits[i]
  OBVIOUS
<1>2. Rows' = Rows \cup {r}
  BY <1>1 DEF Rows
<1>3. PublishedIds' = PublishedIds \cup {r.id}
  BY <1>2 DEF PublishedIds
<1> QED
  BY <1>1, <1>2, <1>3

\* A successful PublishCommit preserves the invariant.
LEMMA PublishPreserves ==
    ASSUME IInv, TypeOK', NEW t \in Txs, PublishCommit(t)
    PROVE  IInv'
<1> DEFINE r == tx[t]
<1> DEFINE n == Len(commits)
<1>1. /\ r \in Requests
      /\ r \in requests
      /\ ~(r.id \in PublishedIds)
      /\ r.expected = head
      /\ Acceptable(r)
      /\ commits' = Append(commits, r)
  BY DEF IInv, TypeOK, ConflictIsStale, PublishCommit, FoundUnderLock, HeadMatches
<1>2. /\ n \in Nat
      /\ DOMAIN commits = 1..n
      /\ \A i \in 1..n : commits[i] \in Requests
      /\ r.id \in CommitIds
      /\ r.author \in Devices
      /\ r.seq \in Nat
  <2>1. commits \in Seq(Requests)
    BY DEF IInv, TypeOK
  <2>2. /\ n \in Nat
        /\ DOMAIN commits = 1..n
        /\ \A i \in 1..n : commits[i] \in Requests
    BY <2>1
  <2>3. /\ r.id \in CommitIds
        /\ r.author \in Devices
        /\ r.seq \in Nat
    BY <1>1, LogAssumption DEF Requests
  <2> QED
    BY <2>2, <2>3
<1>3. /\ Rows' = Rows \cup {r}
      /\ PublishedIds' = PublishedIds \cup {r.id}
      /\ Len(commits') = n + 1
      /\ DOMAIN commits' = 1..(n + 1)
      /\ commits'[n + 1] = r
      /\ \A i \in 1..n : commits'[i] = commits[i]
  BY <1>1, AppendedRow DEF IInv, TypeOK
<1>4. /\ head' = r.id
      /\ headVersion' = headVersion + 1
      /\ lastSeq' = [lastSeq EXCEPT ![r.author] = r.seq]
      /\ replies' = replies \cup {[req |-> r, result |-> "ok"]}
      /\ tx' = [tx EXCEPT ![t] = Idle]
      /\ UNCHANGED <<deleted, available, requests>>
  BY DEF PublishCommit, MoveHead, Reply
<1>5. HeadIsLastCommit'
  BY <1>2, <1>3, <1>4 DEF IInv, HeadIsLastCommit
<1>6. LinearHistory'
  <2>1. \A i \in 1..n : commits[i].id # r.id
    BY <1>1, <1>2 DEF PublishedIds, Rows
  <2>2. r.expected = IF n + 1 = 1 THEN NoCommit ELSE commits[n].id
    BY <1>1, <1>2 DEF IInv, HeadIsLastCommit
  <2>3. n + 1 > 1 => commits[n].id \in r.parents
    <3>1. r.expected # NoCommit => r.expected \in r.parents
      BY <1>1, <1>2 DEF Acceptable, validateParents, Requests, Kinds
    <3>2. n + 1 > 1 => r.expected # NoCommit
      BY <1>2, <2>2, LogAssumption DEF Requests
    <3> QED
      BY <1>2, <2>2, <3>1, <3>2
  <2> QED
    BY <1>2, <1>3, <2>1, <2>2, <2>3 DEF IInv, LinearHistory
<1>7. DeviceSeqMonotonic'
  <2>a. \A i \in 1..n : commits[i].seq \in Nat /\ commits[i].author \in Devices
    BY <1>2, LogAssumption DEF Requests
  <2>b. lastSeq \in [Devices -> Nat]
    BY DEF IInv, TypeOK
  <2>c. r.seq > lastSeq[r.author]
    BY <1>1 DEF Acceptable, SeqIsNew
  <2>d. \A i \in 1..n : commits[i].seq <= lastSeq[commits[i].author]
    BY <1>2 DEF IInv, DeviceSeqMonotonic
  <2>1. \A i \in 1..n : commits[i].author = r.author => commits[i].seq < r.seq
    BY <1>2, <2>a, <2>b, <2>c, <2>d
  <2>2. \A i \in 1..(n + 1) : commits'[i].seq <= lastSeq'[commits'[i].author]
    BY <1>2, <1>3, <1>4, <2>a, <2>b, <2>d, <2>1
  <2> QED
    BY <1>2, <1>3, <2>1, <2>2 DEF IInv, DeviceSeqMonotonic
<1>8. SuccessIsPublished'
  BY <1>3, <1>4 DEF IInv, SuccessIsPublished
<1>9. CommitObjectsAvailable'
  BY <1>1, <1>3, <1>4 DEF IInv, CommitObjectsAvailable, Acceptable, validateCommitObjects
<1>10. ConflictIsStale'
  <2>1. \A a \in replies : a.result = "head_conflict" =>
            a.req # r /\ a.req.expected # r.id
    BY <1>1, <1>2, LogAssumption DEF IInv, ConflictIsStale
  <2>2. \A a \in replies' : a.result = "head_conflict" =>
            a.req \notin Rows' /\ a.req.expected # head'
    BY <1>3, <1>4, <2>1 DEF IInv, ConflictIsStale
  <2>3. \A u \in Txs : tx'[u] # Idle => tx'[u] \in requests'
    BY <1>4 DEF IInv, TypeOK, ConflictIsStale
  <2> QED
    BY <1>1, <1>3, <1>4, <2>2, <2>3 DEF IInv, ConflictIsStale
<1> QED
  BY <1>5, <1>6, <1>7, <1>8, <1>9, <1>10 DEF IInv

\* A step that publishes nothing and answers "ok" only about a row, and
\* "head_conflict" only about a request on another head, preserves the invariant.
LEMMA AnswerPreserves ==
    ASSUME IInv, TypeOK', NEW r \in requests, NEW result,
           UNCHANGED <<commits, head, headVersion, deleted, lastSeq, available, requests>>,
           \A u \in Txs : tx'[u] # Idle => tx'[u] \in requests,
           replies' \subseteq replies \cup {[req |-> r, result |-> result]},
           result = "ok" => r \in Rows,
           result = "head_conflict" => r \notin Rows /\ r.expected # head
    PROVE  IInv'
<1>1. Rows' = Rows /\ PublishedIds' = PublishedIds
  BY DEF Rows, PublishedIds
<1>2. HeadIsLastCommit' /\ LinearHistory' /\ DeviceSeqMonotonic' /\ CommitObjectsAvailable'
  BY <1>1 DEF IInv, HeadIsLastCommit, LinearHistory, DeviceSeqMonotonic, CommitObjectsAvailable
<1>3. \A a \in replies' : a \in replies \/ (a.req = r /\ a.result = result)
  OBVIOUS
<1>4. SuccessIsPublished'
  BY <1>1, <1>3 DEF IInv, SuccessIsPublished
<1>5. ConflictIsStale'
  BY <1>1, <1>3 DEF IInv, ConflictIsStale
<1> QED
  BY <1>2, <1>4, <1>5 DEF IInv

\* The invariant is inductive: one step per action of the server.
LEMMA Inductive == IInv /\ TypeOK' /\ [Next]_vars => IInv'
<1> SUFFICES ASSUME IInv, TypeOK', [Next]_vars PROVE IInv'
  OBVIOUS
<1> USE DEF IInv
<1>1. ASSUME NEW r \in Drafts, Compose(r) PROVE IInv'
  <2>1. Rows' = Rows /\ PublishedIds' = PublishedIds
    BY <1>1 DEF Compose, Rows, PublishedIds
  <2>2. /\ HeadIsLastCommit'
        /\ LinearHistory'
        /\ DeviceSeqMonotonic'
        /\ SuccessIsPublished'
        /\ CommitObjectsAvailable'
    BY <1>1, <2>1 DEF Compose, HeadIsLastCommit, LinearHistory, DeviceSeqMonotonic,
                      SuccessIsPublished, CommitObjectsAvailable
  <2>3. ConflictIsStale'
    BY <1>1, <2>1 DEF Compose, ConflictIsStale
  <2> QED
    BY <2>2, <2>3
<1>2. ASSUME NEW t \in Txs, NEW r \in requests, PublishBegin(t, r) PROVE IInv'
  <2>1. \A u \in Txs : tx'[u] # Idle => tx'[u] \in requests
    BY <1>2 DEF PublishBegin, Reply, TypeOK, ConflictIsStale
  <2>2. PICK result \in {"ok", "refused"} :
           /\ replies' \subseteq replies \cup {[req |-> r, result |-> result]}
           /\ result = "ok" => r \in Rows
    BY <1>2 DEF PublishBegin, Reply, AnswerExisting, commitMatchesPayload
  <2>3. UNCHANGED <<commits, head, headVersion, deleted, lastSeq, available, requests>>
    BY <1>2 DEF PublishBegin
  <2> QED
    BY <2>1, <2>2, <2>3, AnswerPreserves
<1>3. ASSUME NEW t \in Txs, PublishCommit(t) PROVE IInv'
  BY <1>3, PublishPreserves
<1>4. ASSUME NEW t \in Txs, PublishReturn(t) PROVE IInv'
  <2>1. tx[t] \in requests
    BY <1>4 DEF PublishReturn, ConflictIsStale
  <2>2. \A u \in Txs : tx'[u] # Idle => tx'[u] \in requests
    BY <1>4 DEF PublishReturn, Reply, TypeOK, ConflictIsStale
  <2>3. PICK result :
           /\ replies' \subseteq replies \cup {[req |-> tx[t], result |-> result]}
           /\ result = "ok" => tx[t] \in Rows
           /\ result = "head_conflict" => tx[t] \notin Rows /\ tx[t].expected # head
    <3>1. AnswerExisting(tx[t]) = "ok" => tx[t] \in Rows
      BY DEF AnswerExisting, commitMatchesPayload
    <3>2. AnswerExisting(tx[t]) # "head_conflict"
      BY DEF AnswerExisting
    <3>3. ~FoundUnderLock(tx[t]) => tx[t] \notin Rows
      BY DEF FoundUnderLock, PublishedIds
    <3>4. PICK result :
             /\ Reply(t, tx[t], result)
             /\ result = "ok" => tx[t] \in Rows
             /\ result = "head_conflict" => tx[t] \notin Rows /\ tx[t].expected # head
      BY <1>4, <3>1, <3>2, <3>3 DEF PublishReturn, HeadMatches
    <3> QED
      BY <3>4 DEF Reply
  <2>4. UNCHANGED <<commits, head, headVersion, deleted, lastSeq, available, requests>>
    BY <1>4 DEF PublishReturn
  <2> QED
    BY <2>1, <2>2, <2>3, <2>4, AnswerPreserves
<1>5. ASSUME NEW t \in Txs, PublishAbort(t) PROVE IInv'
  <2>1. tx[t] \in requests
    BY <1>5 DEF PublishAbort, ConflictIsStale
  <2>2. \A u \in Txs : tx'[u] # Idle => tx'[u] \in requests
    BY <1>5 DEF PublishAbort, TypeOK, ConflictIsStale
  <2>3. /\ UNCHANGED <<commits, head, headVersion, deleted, lastSeq, available, requests>>
        /\ replies' \subseteq replies \cup {[req |-> tx[t], result |-> "refused"]}
    BY <1>5 DEF PublishAbort
  <2> QED
    BY <2>1, <2>2, <2>3, AnswerPreserves
<1>6. ASSUME UNCHANGED logVars, available \subseteq available' PROVE IInv'
  BY <1>6 DEF logVars, Rows, PublishedIds, HeadIsLastCommit, LinearHistory,
              DeviceSeqMonotonic, SuccessIsPublished, CommitObjectsAvailable, ConflictIsStale
<1>7. ASSUME NEW S \in SUBSET LogObjects, ObjectsAvailable(S) PROVE IInv'
  BY <1>6, <1>7 DEF ObjectsAvailable
<1>8. CASE DeleteWorkspace
  BY <1>6, <1>8 DEF DeleteWorkspace
<1>9. CASE UNCHANGED vars
  BY <1>6, <1>9 DEF vars
<1> QED
  BY <1>1, <1>2, <1>3, <1>4, <1>5, <1>7, <1>8, <1>9 DEF Next, PublishStep

\* Every reachable state of the server satisfies the inductive invariant.
LEMMA Invariance == Spec => []IInv
<1>1. Init => IInv
  <2> SUFFICES ASSUME Init, TypeOK PROVE IInv
    BY InitTyped
  <2>1. Rows = {} /\ DOMAIN commits = {} /\ Len(commits) = 0
    BY DEF Init, Rows
  <2> QED
    BY <2>1 DEF Init, IInv, HeadIsLastCommit, LinearHistory, DeviceSeqMonotonic,
                SuccessIsPublished, CommitObjectsAvailable, ConflictIsStale
<1> QED
  BY <1>1, TypeCorrect, Inductive, PTL DEF Spec

\* Whatever the interleaving of publishers, retries and rollbacks: the history is
\* one chain that ends in the head of the workspace.
THEOREM HistoryIsLinear == Spec => [](HeadIsLastCommit /\ LinearHistory)
  BY Invariance, PTL DEF IInv

\* A device's sequence numbers strictly increase along the history.
THEOREM SequencesIncrease == Spec => []DeviceSeqMonotonic
  BY Invariance, PTL DEF IInv

\* A request that was told "head_conflict" never becomes a commit, so composing
\* its changes again cannot apply them twice.
THEOREM ConflictsAreFinal == Spec => []ConflictIsFinal
<1>1. IInv => ConflictIsFinal
  BY DEF IInv, ConflictIsStale, ConflictIsFinal
<1> QED
  BY <1>1, Invariance, PTL

\* A request that was told "ok" is in the history with the client's payload, and
\* all that it refers to can be downloaded.
THEOREM SuccessIsDurable == Spec => [](SuccessIsPublished /\ CommitObjectsAvailable)
  BY Invariance, PTL DEF IInv

-----------------------------------------------------------------------------
\* What a step of PublishCommit does to the history, seen from the abstract
\* specification: it accepts the request on the current head.
LEMMA PublishAccepts ==
    ASSUME IInv, NEW t \in Txs, PublishCommit(t)
    PROVE  tx[t] \in Drafts /\ History!Accept(tx[t])
<1>1. tx[t] \in Drafts
  BY DEF IInv, ConflictIsStale, PublishCommit
<1>2. tx[t].id \notin History!Ids /\ tx[t].expected = History!CurrentHead
  BY DEF PublishCommit, FoundUnderLock, HeadMatches, PublishedIds, Rows, IInv,
         HeadIsLastCommit, History!Ids, History!CurrentHead
<1> QED
  BY <1>1, <1>2 DEF PublishCommit, WorkspaceLocked, Reply, History!Accept

\* An answer that publishes nothing is a Confirm, a Conflict or a Refuse of the
\* abstract specification.
LEMMA AnswerRefines ==
    ASSUME NEW r \in Drafts, IInv, NEW result,
           UNCHANGED <<commits, deleted>>,
           replies' = replies \cup {[req |-> r, result |-> result]},
           \/ result = "ok" /\ r \in Rows
           \/ result = "head_conflict" /\ r.id \notin PublishedIds /\ r.expected # head
           \/ result = "refused"
    PROVE  History!Next
<1>1. History!Ids = PublishedIds /\ History!CurrentHead = head
  BY DEF IInv, HeadIsLastCommit, PublishedIds, Rows, History!Ids, History!CurrentHead
<1>2. CASE result = "ok" /\ r \in Rows
  BY <1>2 DEF Rows, History!Confirm, History!Next
<1>3. CASE result = "head_conflict" /\ r.id \notin PublishedIds /\ r.expected # head
  BY <1>1, <1>3 DEF History!Conflict, History!Next
<1>4. CASE result = "refused"
  BY <1>4 DEF History!Refuse, History!Next
<1> QED
  BY <1>2, <1>3, <1>4

\* PublishCommit with its unlocked lookup, its lock and its early returns
\* implements the linear history the clients rely on.
THEOREM RefinesHistory == Spec => HistorySpec
<1>1. Init => History!Init
  BY DEF Init, History!Init
<1>2. IInv /\ [Next]_vars => [History!Next]_(History!vars)
  <2> SUFFICES ASSUME IInv, [Next]_vars PROVE [History!Next]_(History!vars)
    OBVIOUS
  <2> USE DEF History!vars
  <2>1. ASSUME NEW r \in Drafts, Compose(r) PROVE UNCHANGED History!vars
    BY <2>1 DEF Compose
  <2>2. ASSUME NEW t \in Txs, NEW r \in requests, PublishBegin(t, r)
        PROVE  [History!Next]_(History!vars)
    <3>1. r \in Drafts
      BY DEF IInv, ConflictIsStale
    <3>2. CASE UNCHANGED replies
      BY <2>2, <3>2 DEF PublishBegin
    <3>3. CASE Reply(t, r, "refused")
      BY <2>2, <3>1, <3>3, AnswerRefines DEF PublishBegin, Reply
    <3>4. CASE Reply(t, r, AnswerExisting(r))
      BY <2>2, <3>1, <3>4, AnswerRefines
      DEF PublishBegin, Reply, AnswerExisting, commitMatchesPayload
    <3> QED
      BY <2>2, <3>2, <3>3, <3>4 DEF PublishBegin
  <2>3. ASSUME NEW t \in Txs, PublishCommit(t) PROVE History!Next
    BY <2>3, PublishAccepts DEF History!Next
  <2>4. ASSUME NEW t \in Txs, PublishReturn(t) PROVE History!Next
    <3>1. tx[t] \in Drafts
      BY <2>4 DEF IInv, ConflictIsStale, PublishReturn
    <3>2. PICK result :
            /\ Reply(t, tx[t], result)
            /\ \/ result = "ok" /\ tx[t] \in Rows
               \/ /\ result = "head_conflict"
                  /\ tx[t].id \notin PublishedIds /\ tx[t].expected # head
               \/ result = "refused"
      BY <2>4 DEF PublishReturn, AnswerExisting, commitMatchesPayload,
                  FoundUnderLock, HeadMatches
    <3> QED
      BY <2>4, <3>1, <3>2, AnswerRefines DEF PublishReturn, Reply
  <2>5. ASSUME NEW t \in Txs, PublishAbort(t) PROVE UNCHANGED History!vars
    BY <2>5 DEF PublishAbort
  <2>6. ASSUME NEW S \in SUBSET LogObjects, ObjectsAvailable(S) PROVE UNCHANGED History!vars
    BY <2>6 DEF ObjectsAvailable, logVars
  <2>7. CASE DeleteWorkspace
    BY <2>7 DEF DeleteWorkspace, logVars, History!Close, History!Next
  <2>8. CASE UNCHANGED vars
    BY <2>8 DEF vars, logVars
  <2> QED
    BY <2>1, <2>2, <2>3, <2>4, <2>5, <2>6, <2>7, <2>8 DEF Next, PublishStep
<1> QED
  BY <1>1, <1>2, Invariance, PTL DEF Spec, HistorySpec, History!Spec

\* No step rewrites or removes a published commit, and a deleted workspace gets
\* no more commits.
THEOREM HistoryOnlyGrows == Spec => AppendOnly
<1> DEFINE Grows == /\ \A i \in DOMAIN commits : i \in DOMAIN commits' /\ commits'[i] = commits[i]
                    /\ deleted => commits' = commits
<1>1. IInv /\ [Next]_vars => [Grows]_vars
  <2> SUFFICES ASSUME IInv, Next PROVE Grows
    OBVIOUS
  <2>1. ASSUME NEW t \in Txs, PublishCommit(t) PROVE Grows
    <3>1. commits \in Seq(Requests) /\ tx[t] \in Requests /\ ~deleted
      BY <2>1 DEF IInv, TypeOK, PublishCommit, WorkspaceLocked
    <3>2. commits' = Append(commits, tx[t])
      BY <2>1 DEF PublishCommit
    <3> QED
      BY <3>1, <3>2
  <2>2. CASE UNCHANGED commits
    BY <2>2
  <2> QED
    BY <2>1, <2>2 DEF Next, PublishStep, Compose, PublishBegin, PublishReturn, PublishAbort,
                      ObjectsAvailable, DeleteWorkspace, logVars
<1> QED
  BY <1>1, Invariance, PTL DEF Spec, AppendOnly
=============================================================================
