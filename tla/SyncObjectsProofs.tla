------------------------ MODULE SyncObjectsProofs --------------------------
(***************************************************************************)
(* Proofs about the rows and the blobs of SyncObjects: that an available   *)
(* object is really stored, with the content its row describes, and stays  *)
(* so as long as its workspace is live.                                    *)
(***************************************************************************)
EXTENDS SyncObjects, TLAPS

\* The types of everything but the counters.
RowsTyped ==
    /\ ws \in [Workspaces -> {"none", "live", "deleted", "gone"}]
    /\ row \in [Objects -> Row]
    /\ blob \in [Objects -> Contents \cup {NoContent}]
    /\ urls \subseteq Objects \X Contents
    /\ store \in Stores
    /\ tx \in [Txs -> Call \cup {Idle}]
    /\ raced \in BOOLEAN

\* Requests and rows belong to workspaces that have been created; an object that
\* counts has a descriptor.
RowsOwned ==
    /\ \A t \in Txs : tx[t] # Idle => ws[tx[t].ws] # "none"
    /\ \A o \in Objects : row[o].state # "none" => ws[row[o].ws] # "none"
    /\ \A o \in Objects : row[o].state \in {"pending", "available"} => row[o].content \in Contents

\* A presigned URL admits only the content its row has had since; the local store
\* presigns nothing.
UrlsMatch ==
    /\ \A o \in Objects, c \in Contents : <<o, c>> \in urls =>
          row[o].state \notin {"none", "reserved"} /\ row[o].content = c
    /\ store = "local" => urls = {} /\ \A o \in Objects : row[o].state # "pending"

\* The inductive invariant of the rows and the blobs.
RowInv == RowsTyped /\ RowsOwned /\ UrlsMatch /\ AvailableMatchesBlob

\* An empty database satisfies it.
LEMMA RowInit == Init => RowInv
<1> SUFFICES ASSUME Init PROVE RowInv
  OBVIOUS
<1>1. RowsTyped
  BY Zenon, ObjectsAssumption DEF Init, RowsTyped
<1>2. \A o \in Objects : row[o].state = "none"
  BY DEF Init
<1> QED
  BY <1>1, <1>2 DEF Init, RowInv, RowsOwned, UrlsMatch, AvailableMatchesBlob

\* The transaction that ends had been authorized for a workspace that exists.
LEMMA FinishTyped ==
    ASSUME RowInv, NEW t \in Txs, Finish(t), tx[t] # Idle
    PROVE  /\ tx' \in [Txs -> Call \cup {Idle}]
           /\ raced' \in BOOLEAN
           /\ \A u \in Txs : tx'[u] # Idle => tx'[u] = tx[u]
           /\ tx[t] \in Call
           /\ tx[t].ws \in Workspaces /\ tx[t].dev \in Devices
           /\ ws[tx[t].ws] # "none"
BY DEF RowInv, RowsTyped, RowsOwned, Finish, Call

\* What a step may do to the row of an object that exists already.
RowMoves(o) ==
    /\ row'[o] \in Row
    /\ row[o].state = "none" <=> row'[o].state = "none"
    /\ row[o].state # "none" => row'[o].ws = row[o].ws
    /\ row'[o].state \in {"pending", "available"} => row'[o].content \in Contents
    /\ row[o].state \notin {"none", "reserved"} =>
          /\ row'[o].state \notin {"none", "reserved"}
          /\ store # "local" => row'[o].content = row[o].content
    /\ store = "local" => row'[o].state # "pending"

\* A row that stays as it is moves as it may.
LEMMA UnmovedRow ==
    ASSUME RowInv, NEW o \in Objects, row'[o] = row[o]
    PROVE  RowMoves(o)
BY DEF RowInv, RowsTyped, RowsOwned, UrlsMatch, RowMoves

\* A step that moves rows only so, and hands out URLs only for what it makes
\* pending, preserves the invariant but for AvailableMatchesBlob.
LEMMA RowStep ==
    ASSUME RowInv, UNCHANGED store,
           \A o \in Objects : RowMoves(o),
           row' = [o \in Objects |-> row'[o]],
           ws' \in [Workspaces -> {"none", "live", "deleted", "gone"}],
           \A w \in Workspaces : ws[w] # "none" => ws'[w] # "none",
           blob' \in [Objects -> Contents \cup {NoContent}],
           tx' \in [Txs -> Call \cup {Idle}],
           \A t \in Txs : tx'[t] # Idle => tx'[t] = tx[t] \/ ws[tx'[t].ws] # "none",
           raced' \in BOOLEAN,
           urls' \subseteq Objects \X Contents,
           \A o \in Objects, c \in Contents :
              <<o, c>> \in urls' => \/ <<o, c>> \in urls
                                    \/ row'[o].state = "pending" /\ row'[o].content = c,
           store = "local" => urls' = {}
    PROVE  RowsTyped' /\ RowsOwned' /\ UrlsMatch'
<1>1. RowsTyped'
  <2>1. row' \in [Objects -> Row]
    BY DEF RowMoves
  <2> QED
    BY <2>1 DEF RowInv, RowsTyped
<1>2. RowsOwned'
  <2>1. ASSUME NEW t \in Txs, tx'[t] # Idle PROVE ws'[tx'[t].ws] # "none"
    <3>1. ws[tx'[t].ws] # "none" /\ tx'[t].ws \in Workspaces
      BY <2>1 DEF RowInv, RowsOwned, Call
    <3> QED
      BY <3>1
  <2>2. ASSUME NEW o \in Objects, row'[o].state # "none" PROVE ws'[row'[o].ws] # "none"
    <3>1. ws[row[o].ws] # "none" /\ row'[o].ws = row[o].ws /\ row'[o].ws \in Workspaces
      BY <2>2 DEF RowMoves, RowInv, RowsOwned, Row
    <3> QED
      BY <3>1
  <2> QED
    BY <2>1, <2>2 DEF RowsOwned, RowMoves
<1>3. UrlsMatch'
  <2>1. ASSUME NEW o \in Objects, NEW c \in Contents, <<o, c>> \in urls'
        PROVE  row'[o].state \notin {"none", "reserved"} /\ row'[o].content = c
    BY <2>1 DEF RowMoves, RowInv, UrlsMatch
  <2> QED
    BY <2>1 DEF UrlsMatch, RowMoves
<1> QED
  BY <1>1, <1>2, <1>3

\* ReserveObjectIDs inserts one row that nothing refers to yet.
LEMMA ReservePreservesRows ==
    ASSUME RowInv, NEW t \in Txs, NEW o \in Objects, ReserveObjectIDs(t, o)
    PROVE  RowInv'
<1>1. /\ tx' \in [Txs -> Call \cup {Idle}] /\ raced' \in BOOLEAN
      /\ \A u \in Txs : tx'[u] # Idle => tx'[u] = tx[u]
      /\ tx[t].ws \in Workspaces /\ tx[t].dev \in Devices /\ ws[tx[t].ws] # "none"
  BY FinishTyped DEF ReserveObjectIDs
<1> DEFINE new == [state |-> "reserved", ws |-> tx[t].ws, by |-> tx[t].dev,
                   content |-> NoContent, expired |-> FALSE]
<1>2. new \in Row
  BY Zenon, <1>1 DEF Row, UploadStates
<1>3. /\ row' = [row EXCEPT ![o] = new]
      /\ row[o].state = "none"
      /\ UNCHANGED <<ws, blob, urls, store>>
  BY DEF ReserveObjectIDs
<1> HIDE DEF new
<1>4. RowsTyped'
  BY <1>1, <1>2, <1>3 DEF RowInv, RowsTyped
<1>5. \A p \in Objects : row'[p] = IF p = o THEN new ELSE row[p]
  BY <1>3 DEF RowInv, RowsTyped
<1>6. new.state = "reserved" /\ new.ws = tx[t].ws
  BY DEF new
<1>7. RowsOwned'
  BY <1>1, <1>3, <1>5, <1>6 DEF RowInv, RowsOwned
<1>8. UrlsMatch'
  BY <1>3, <1>5, <1>6 DEF RowInv, UrlsMatch
<1>9. AvailableMatchesBlob'
  BY <1>3, <1>5, <1>6 DEF RowInv, AvailableMatchesBlob
<1> QED
  BY <1>4, <1>7, <1>8, <1>9 DEF RowInv

\* CreateObjectUploadBatch presigns URLs only for the contents it records.
LEMMA CreateBatchPreservesRows ==
    ASSUME RowInv, NEW t \in Txs, NEW batch \in Batches, CreateObjectUploadBatch(t, batch)
    PROVE  RowInv'
<1> DEFINE S == DOMAIN batch
<1>0. batch \in [S -> Contents] /\ S \subseteq Objects
  BY DEF Batches
<1>1. /\ tx' \in [Txs -> Call \cup {Idle}] /\ raced' \in BOOLEAN
      /\ \A u \in Txs : tx'[u] # Idle => tx'[u] = tx[u]
  BY FinishTyped, Zenon DEF CreateObjectUploadBatch
<1>2. /\ row' = [o \in Objects |->
                 IF o \in S THEN [row[o] EXCEPT !.state = "pending", !.content = batch[o],
                                                !.expired = FALSE]
                            ELSE row[o]]
      /\ urls' = urls \cup {<<o, batch[o]>> : o \in S}
      /\ UNCHANGED <<ws, blob, store>>
      /\ store = "s3_compatible"
      /\ \A o \in S : CanUpload(o, batch[o])
  BY Zenon DEF CreateObjectUploadBatch
<1>3. ASSUME NEW o \in S
      PROVE  RowMoves(o) /\ row'[o].state = "pending" /\ row'[o].content = batch[o]
  <2>1. row'[o] = [row[o] EXCEPT !.state = "pending", !.content = batch[o], !.expired = FALSE]
    BY <1>0, <1>2
  <2>2. row[o] \in Row /\ batch[o] \in Contents
    BY <1>0 DEF RowInv, RowsTyped
  <2>3. /\ row'[o] \in Row /\ row'[o].state = "pending" /\ row'[o].content = batch[o]
        /\ row'[o].ws = row[o].ws
    <3>1. "pending" \in UploadStates
      BY DEF UploadStates
    <3> QED
      BY Zenon, <2>1, <2>2, <3>1 DEF Row
  <2>4. CanUpload(o, batch[o])
    BY <1>2
  <2> QED
    BY <1>2, <2>2, <2>3, <2>4 DEF CanUpload, RowMoves
<1>4. ASSUME NEW o \in Objects \ S PROVE row'[o] = row[o] /\ RowMoves(o)
  BY <1>2, UnmovedRow
<1>5. urls' \subseteq Objects \X Contents
  <2>1. \A o \in S : <<o, batch[o]>> \in Objects \X Contents
    BY <1>0
  <2>2. {<<o, batch[o]>> : o \in S} \subseteq Objects \X Contents
    BY Zenon, <2>1
  <2>3. urls \subseteq Objects \X Contents
    BY DEF RowInv, RowsTyped
  <2> HIDE DEF S
  <2> QED
    BY Zenon, <1>2, <2>2, <2>3
<1>6. ASSUME NEW o \in Objects, NEW c \in Contents, <<o, c>> \in urls'
      PROVE  <<o, c>> \in urls \/ (row'[o].state = "pending" /\ row'[o].content = c)
  <2>1. <<o, c>> \in urls \/ (o \in S /\ c = batch[o])
    BY <1>2, <1>6
  <2> QED
    BY <1>3, <2>1
<1>7. row' = [o \in Objects |-> row'[o]]
  BY Zenon, <1>2
<1>8. RowsTyped' /\ RowsOwned' /\ UrlsMatch'
  <2>1. \A o \in Objects : RowMoves(o)
    BY <1>3, <1>4
  <2>2. store # "local"
    BY <1>2
  <2>3. /\ ws' \in [Workspaces -> {"none", "live", "deleted", "gone"}]
        /\ blob' \in [Objects -> Contents \cup {NoContent}]
        /\ ws' = ws /\ store' = store
    BY <1>2 DEF RowInv, RowsTyped
  <2> QED
    BY <1>1, <1>5, <1>6, <1>7, <2>1, <2>2, <2>3, RowStep
<1>9. AvailableMatchesBlob'
  BY <1>2, <1>3, <1>4 DEF RowInv, AvailableMatchesBlob
<1> QED
  BY <1>8, <1>9 DEF RowInv

\* CompleteObjectUploadBatch makes available only what store.Head has found in the
\* store with the recorded content.
LEMMA CompleteBatchPreservesRows ==
    ASSUME RowInv, NEW t \in Txs, NEW batch \in Batches, CompleteObjectUploadBatch(t, batch)
    PROVE  RowInv'
<1> DEFINE S == DOMAIN batch
           pending == {o \in S : row[o].state = "pending"}
           done == {o \in pending : UploadIsComplete(o, batch[o])}
           failed == pending \ done
<1>0. batch \in [S -> Contents] /\ S \subseteq Objects
  BY DEF Batches
<1>1. /\ tx' \in [Txs -> Call \cup {Idle}] /\ raced' \in BOOLEAN
      /\ \A u \in Txs : tx'[u] # Idle => tx'[u] = tx[u]
  BY FinishTyped, Zenon DEF CompleteObjectUploadBatch
<1>2. /\ row' = [o \in Objects |->
                   CASE o \in done   -> [row[o] EXCEPT !.state = "available", !.expired = FALSE]
                     [] o \in failed -> [row[o] EXCEPT !.state = "failed"]
                     [] OTHER        -> row[o]]
      /\ UNCHANGED <<ws, blob, urls, store>>
      /\ store = "s3_compatible"
  BY Zenon DEF CompleteObjectUploadBatch
<1>3. ASSUME NEW o \in done
      PROVE  RowMoves(o) /\ row'[o].content = batch[o] /\ batch[o] \in Contents /\ blob[o] = batch[o]
  <2>1. o \in Objects /\ row[o].state = "pending" /\ UploadIsComplete(o, batch[o])
    BY <1>0
  <2>2. row'[o] = [row[o] EXCEPT !.state = "available", !.expired = FALSE]
    BY <1>2, <2>1
  <2>3. row[o] \in Row
    BY <2>1 DEF RowInv, RowsTyped
  <2>4. /\ row'[o] \in Row /\ row'[o].state = "available" /\ row'[o].content = row[o].content
        /\ row'[o].ws = row[o].ws
    <3>1. "available" \in UploadStates
      BY DEF UploadStates
    <3> QED
      BY Zenon, <2>2, <2>3, <3>1 DEF Row
  <2>5. row[o].content = batch[o] /\ blob[o] = batch[o] /\ batch[o] \in Contents
    BY <1>0, <2>1 DEF UploadIsComplete
  <2> QED
    BY <1>2, <2>1, <2>4, <2>5 DEF RowMoves
<1>4. ASSUME NEW o \in failed PROVE RowMoves(o) /\ row'[o].state = "failed"
  <2>1. o \in Objects /\ row[o].state = "pending" /\ o \notin done
    BY <1>0
  <2>2. row'[o] = [row[o] EXCEPT !.state = "failed"]
    BY <1>2, <2>1
  <2>3. row[o] \in Row
    BY <2>1 DEF RowInv, RowsTyped
  <2>4. /\ row'[o] \in Row /\ row'[o].state = "failed" /\ row'[o].content = row[o].content
        /\ row'[o].ws = row[o].ws
    <3>1. "failed" \in UploadStates
      BY DEF UploadStates
    <3> QED
      BY Zenon, <2>2, <2>3, <3>1 DEF Row
  <2> QED
    BY <1>2, <2>1, <2>4 DEF RowMoves
<1>5. ASSUME NEW o \in Objects \ (done \cup failed) PROVE row'[o] = row[o] /\ RowMoves(o)
  <2>1. row'[o] = row[o]
    BY <1>2
  <2> QED
    BY <2>1, UnmovedRow
<1>6. row' = [o \in Objects |-> row'[o]]
  BY Zenon, <1>2
<1> HIDE DEF done, failed
<1>7. RowsTyped' /\ RowsOwned' /\ UrlsMatch'
  <2>1. \A o \in Objects : RowMoves(o)
    BY <1>3, <1>4, <1>5
  <2>2. store # "local"
    BY <1>2
  <2>3. /\ ws' \in [Workspaces -> {"none", "live", "deleted", "gone"}]
        /\ blob' \in [Objects -> Contents \cup {NoContent}]
        /\ ws' = ws /\ store' = store /\ urls' = urls
        /\ urls' \subseteq Objects \X Contents
    BY <1>2 DEF RowInv, RowsTyped
  <2> QED
    BY <1>1, <1>6, <2>1, <2>2, <2>3, RowStep
<1>8. AvailableMatchesBlob'
  <2>1. ASSUME NEW o \in Objects, row'[o].state = "available", ws'[row'[o].ws] = "live"
        PROVE  row'[o].content \in Contents /\ blob'[o] = row'[o].content
    <3>1. CASE o \in done
      BY <1>2, <1>3, <3>1
    <3>2. CASE o \in failed
      BY <1>4, <2>1, <3>2
    <3>3. CASE o \notin done \cup failed
      BY <1>2, <1>5, <2>1, <3>3 DEF RowInv, AvailableMatchesBlob
    <3> QED
      BY <3>1, <3>2, <3>3
  <2> QED
    BY <2>1 DEF AvailableMatchesBlob
<1> QED
  BY <1>7, <1>8 DEF RowInv

\* UploadObjectBytesDev writes the blob before the row, whether it commits or not.
LEMMA UploadPreservesRows ==
    ASSUME RowInv, NEW t \in Txs, NEW o \in Objects, NEW c \in Contents,
           UploadObjectBytesDev(t, o, c)
    PROVE  RowInv'
<1>1. /\ tx' \in [Txs -> Call \cup {Idle}] /\ raced' \in BOOLEAN
      /\ \A u \in Txs : tx'[u] # Idle => tx'[u] = tx[u]
  BY FinishTyped, Zenon DEF UploadObjectBytesDev
<1>2. /\ store = "local"
      /\ row[o].state \in {"reserved", "pending"}
      /\ blob' = [blob EXCEPT ![o] = c]
      /\ UNCHANGED <<ws, urls, store>>
      /\ \/ row' = [row EXCEPT ![o].state = "available", ![o].content = c, ![o].expired = FALSE]
         \/ row' = row
  BY Zenon DEF UploadObjectBytesDev
<1>3. \A p \in Objects \ {o} : row'[p] = row[p]
  BY <1>2 DEF RowInv, RowsTyped
<1>4. \/ row'[o] = [row[o] EXCEPT !.state = "available", !.content = c, !.expired = FALSE]
      \/ row'[o] = row[o]
  BY Zenon, <1>2 DEF RowInv, RowsTyped
<1>5. ASSUME row'[o] # row[o]
      PROVE  RowMoves(o) /\ row'[o].state = "available" /\ row'[o].content = c
  <2>1. row'[o] = [row[o] EXCEPT !.state = "available", !.content = c, !.expired = FALSE]
    BY <1>4, <1>5
  <2>2. row[o] \in Row /\ "available" \in UploadStates
    BY DEF RowInv, RowsTyped, UploadStates
  <2>3. /\ row'[o] \in Row /\ row'[o].state = "available" /\ row'[o].content = c
        /\ row'[o].ws = row[o].ws
    BY Zenon, <2>1, <2>2 DEF Row
  <2> QED
    BY <1>2, <2>3 DEF RowMoves
<1>6. row' = [p \in Objects |-> row'[p]]
  BY Zenon, <1>2 DEF RowInv, RowsTyped
<1>7. RowsTyped' /\ RowsOwned' /\ UrlsMatch'
  <2>1. \A p \in Objects : RowMoves(p)
    BY <1>3, <1>5, UnmovedRow
  <2>2. /\ ws' \in [Workspaces -> {"none", "live", "deleted", "gone"}]
        /\ blob' \in [Objects -> Contents \cup {NoContent}]
        /\ ws' = ws /\ store' = store /\ urls' = urls
        /\ urls' \subseteq Objects \X Contents
        /\ store = "local" => urls' = {}
    BY <1>2 DEF RowInv, RowsTyped, UrlsMatch
  <2> QED
    BY <1>1, <1>6, <2>1, <2>2, RowStep
<1>8. AvailableMatchesBlob'
  BY <1>2, <1>3, <1>5 DEF RowInv, RowsTyped, AvailableMatchesBlob
<1> QED
  BY <1>7, <1>8 DEF RowInv

\* The rows that a collection or a cleanup marks as deleted.
LEMMA DeletedRows ==
    ASSUME RowInv, NEW S \in SUBSET Objects, \A o \in S : row[o].state # "none",
           row' = [o \in Objects |->
                     IF o \in S THEN [row[o] EXCEPT !.state = "deleted", !.expired = FALSE]
                                ELSE row[o]]
    PROVE  /\ row' = [o \in Objects |-> row'[o]]
           /\ \A o \in Objects : RowMoves(o)
           /\ \A o \in Objects : o \notin S => row'[o] = row[o]
           /\ \A o \in S : /\ row'[o].state = "deleted"
                           /\ row'[o].ws = row[o].ws /\ row'[o].content = row[o].content
<1>1. row' = [o \in Objects |-> row'[o]]
  BY Zenon
<1>2. ASSUME NEW o \in S
      PROVE  RowMoves(o) /\ row'[o].state = "deleted" /\ row'[o].ws = row[o].ws
                         /\ row'[o].content = row[o].content
  <2>1. row'[o] = [row[o] EXCEPT !.state = "deleted", !.expired = FALSE]
    OBVIOUS
  <2>2. row[o] \in Row /\ "deleted" \in UploadStates
    BY DEF RowInv, RowsTyped, UploadStates
  <2>3. /\ row'[o] \in Row /\ row'[o].state = "deleted" /\ row'[o].content = row[o].content
        /\ row'[o].ws = row[o].ws
    BY Zenon, <2>1, <2>2 DEF Row
  <2> QED
    BY <2>3 DEF RowMoves
<1>3. \A o \in Objects : o \notin S => row'[o] = row[o]
  OBVIOUS
<1> QED
  BY <1>1, <1>2, <1>3, UnmovedRow

\* RunWorkspaceGC deletes blobs of rows that are not available only.
LEMMA CollectPreservesRows ==
    ASSUME RowInv, NEW t \in Txs, NEW S \in SUBSET Objects, RunWorkspaceGC(t, S)
    PROVE  RowInv'
<1>1. /\ tx' \in [Txs -> Call \cup {Idle}] /\ raced' \in BOOLEAN
      /\ \A u \in Txs : tx'[u] # Idle => tx'[u] = tx[u]
  BY FinishTyped, Zenon DEF RunWorkspaceGC
<1>2. /\ \A o \in S : row[o].state \in {"reserved", "pending", "failed"}
      /\ blob' = WithoutBlobs(S)
      /\ UNCHANGED <<ws, urls, store>>
      /\ \/ row' = [o \in Objects |->
                       IF o \in S THEN [row[o] EXCEPT !.state = "deleted", !.expired = FALSE]
                                  ELSE row[o]]
         \/ row' = row
  BY Zenon DEF RunWorkspaceGC, Orphans
<1>3. /\ row' = [o \in Objects |-> row'[o]]
      /\ \A o \in Objects : RowMoves(o)
      /\ \A o \in Objects : o \notin S => row'[o] = row[o]
      /\ \A o \in S : row'[o].state # "available"
  <2>1. CASE row' = row
    BY <1>2, <2>1, UnmovedRow DEF RowInv, RowsTyped
  <2>2. CASE row' # row
    BY <1>2, <2>2, DeletedRows
  <2> QED
    BY <2>1, <2>2
<1>4. /\ blob' \in [Objects -> Contents \cup {NoContent}]
      /\ \A o \in Objects : o \notin S => blob'[o] = blob[o]
  BY <1>2 DEF WithoutBlobs, RowInv, RowsTyped
<1>5. RowsTyped' /\ RowsOwned' /\ UrlsMatch'
  <2>1. /\ ws' \in [Workspaces -> {"none", "live", "deleted", "gone"}]
        /\ ws' = ws /\ store' = store /\ urls' = urls
        /\ urls' \subseteq Objects \X Contents
        /\ store = "local" => urls' = {}
    BY <1>2 DEF RowInv, RowsTyped, UrlsMatch
  <2> QED
    BY <1>1, <1>3, <1>4, <2>1, RowStep
<1>6. AvailableMatchesBlob'
  BY <1>2, <1>3, <1>4 DEF RowInv, AvailableMatchesBlob
<1> QED
  BY <1>5, <1>6 DEF RowInv

\* RunDeletedWorkspaceCleanup deletes blobs of a workspace that is not live.
LEMMA CleanupPreservesRows ==
    ASSUME RowInv, NEW w \in Workspaces, RunDeletedWorkspaceCleanup(w)
    PROVE  RowInv'
<1> DEFINE mine == {o \in Objects : row[o].ws = w /\ row[o].state # "none"}
<1>1. /\ ws[w] = "deleted"
      /\ UNCHANGED <<urls, store, tx, raced>>
      /\ \E S \in SUBSET mine : blob' = WithoutBlobs(S)
      /\ \/ /\ ws' = [ws EXCEPT ![w] = "gone"]
            /\ row' = [o \in Objects |->
                       IF o \in mine THEN [row[o] EXCEPT !.state = "deleted", !.expired = FALSE]
                                     ELSE row[o]]
         \/ UNCHANGED <<ws, row>>
  BY Zenon DEF RunDeletedWorkspaceCleanup
<1>2. /\ ws' \in [Workspaces -> {"none", "live", "deleted", "gone"}]
      /\ \A v \in Workspaces : ws[v] # "none" => ws'[v] # "none"
      /\ \A v \in Workspaces \ {w} : ws'[v] = ws[v]
      /\ ws'[w] # "live"
  BY <1>1 DEF RowInv, RowsTyped
<1>3. /\ row' = [o \in Objects |-> row'[o]]
      /\ \A o \in Objects : RowMoves(o)
      /\ \A o \in Objects : o \notin mine => row'[o] = row[o]
      /\ \A o \in mine : row'[o].ws = w
  <2>1. CASE UNCHANGED row
    BY <2>1, UnmovedRow DEF RowInv, RowsTyped
  <2>2. CASE row' # row
    BY <1>1, <2>2, DeletedRows
  <2> QED
    BY <2>1, <2>2
<1>4. /\ blob' \in [Objects -> Contents \cup {NoContent}]
      /\ \A o \in Objects : o \notin mine => blob'[o] = blob[o]
  BY <1>1 DEF WithoutBlobs, RowInv, RowsTyped
<1>5. RowsTyped' /\ RowsOwned' /\ UrlsMatch'
  <2>1. /\ tx' \in [Txs -> Call \cup {Idle}] /\ raced' \in BOOLEAN
        /\ tx' = tx /\ store' = store /\ urls' = urls
        /\ urls' \subseteq Objects \X Contents
        /\ store = "local" => urls' = {}
    BY <1>1 DEF RowInv, RowsTyped, UrlsMatch
  <2> HIDE DEF mine
  <2> QED
    BY <1>2, <1>3, <1>4, <2>1, RowStep
<1>6. AvailableMatchesBlob'
  <2>1. ASSUME NEW o \in Objects, row'[o].state = "available", ws'[row'[o].ws] = "live"
        PROVE  row'[o].content \in Contents /\ blob'[o] = row'[o].content
    <3>1. o \notin mine
      BY <1>2, <1>3, <2>1
    <3>2. row'[o] = row[o] /\ row[o].ws \in Workspaces
      BY <1>3, <3>1 DEF RowInv, RowsTyped, Row
    <3> QED
      BY <1>2, <1>4, <2>1, <3>1, <3>2 DEF RowInv, AvailableMatchesBlob
  <2> QED
    BY <2>1 DEF AvailableMatchesBlob
<1> QED
  BY <1>5, <1>6 DEF RowInv

\* The steps that leave every row as it is, or only let it expire.
LEMMA QuietPreservesRows ==
    ASSUME RowInv, UNCHANGED <<blob, urls, store, raced>>,
           \/ UNCHANGED row
           \/ \E o \in Objects : /\ row[o].state # "available"
                                 /\ row' = [row EXCEPT ![o].expired = TRUE],
           ws' \in [Workspaces -> {"none", "live", "deleted", "gone"}],
           \A w \in Workspaces : ws[w] # "none" => ws'[w] # "none",
           \A o \in Objects : row[o].state = "available" /\ ws'[row[o].ws] = "live" =>
                                 ws[row[o].ws] = "live",
           tx' \in [Txs -> Call \cup {Idle}],
           \A t \in Txs : tx'[t] # Idle => tx'[t] = tx[t] \/ ws[tx'[t].ws] # "none"
    PROVE  RowInv'
<1> DEFINE Kept == /\ row' = [o \in Objects |-> row'[o]]
                   /\ \A o \in Objects : /\ RowMoves(o)
                                         /\ row'[o].state = row[o].state
                                         /\ row'[o].content = row[o].content
                                         /\ row'[o].ws = row[o].ws
<1>1. Kept
  <2>1. CASE UNCHANGED row
    BY <2>1, UnmovedRow DEF RowInv, RowsTyped
  <2>2. ASSUME NEW o \in Objects, row' = [row EXCEPT ![o].expired = TRUE] PROVE Kept
    <3>1. row'[o] = [row[o] EXCEPT !.expired = TRUE] /\ row[o] \in Row
      BY Zenon, <2>2 DEF RowInv, RowsTyped
    <3>2. /\ row'[o] \in Row /\ row'[o].state = row[o].state
          /\ row'[o].content = row[o].content /\ row'[o].ws = row[o].ws
      BY Zenon, <3>1 DEF Row
    <3>3. RowMoves(o)
      BY <3>2 DEF RowInv, RowsOwned, UrlsMatch, RowMoves
    <3>4. \A p \in Objects \ {o} : row'[p] = row[p]
      BY <2>2 DEF RowInv, RowsTyped
    <3>5. row' = [p \in Objects |-> row'[p]]
      BY Zenon, <2>2 DEF RowInv, RowsTyped
    <3> QED
      BY <3>2, <3>3, <3>4, <3>5, UnmovedRow
  <2> HIDE DEF Kept
  <2> QED
    BY <2>1, <2>2
<1>2. RowsTyped' /\ RowsOwned' /\ UrlsMatch'
  <2>1. /\ blob' \in [Objects -> Contents \cup {NoContent}]
        /\ urls' \subseteq Objects \X Contents /\ raced' \in BOOLEAN
        /\ store = "local" => urls' = {}
    BY DEF RowInv, RowsTyped, UrlsMatch
  <2> QED
    BY <1>1, <2>1, RowStep
<1>3. AvailableMatchesBlob'
  BY <1>1 DEF RowInv, AvailableMatchesBlob
<1> QED
  BY <1>2, <1>3 DEF RowInv

\* A PUT to a presigned URL, however late, writes the content the row has.
LEMMA PutPreservesRows ==
    ASSUME RowInv, NEW o \in Objects, NEW c \in Contents, PutObject(o, c)
    PROVE  RowInv'
<1>1. row[o].content = c
  BY DEF PutObject, RowInv, UrlsMatch
<1> QED
  BY <1>1 DEF PutObject, RowInv, RowsTyped, RowsOwned, UrlsMatch, AvailableMatchesBlob

\* Every step preserves the invariant of the rows.
LEMMA RowsInductive == RowInv /\ [Next]_vars => RowInv'
<1> SUFFICES ASSUME RowInv, [Next]_vars PROVE RowInv'
  OBVIOUS
<1>0. /\ ws \in [Workspaces -> {"none", "live", "deleted", "gone"}]
      /\ tx \in [Txs -> Call \cup {Idle}]
  BY DEF RowInv, RowsTyped
<1>1. ASSUME NEW t \in Txs, Request(t) PROVE RowInv'
  <2>1. ASSUME NEW w \in Workspaces, NEW d \in Devices, Authorize(t, w, d) PROVE RowInv'
    <3>1. [ws |-> w, dev |-> d] \in Call
      BY DEF Call
    <3>2. /\ tx' \in [Txs -> Call \cup {Idle}]
          /\ \A u \in Txs : tx'[u] # Idle => tx'[u] = tx[u] \/ ws[tx'[u].ws] # "none"
          /\ UNCHANGED <<ws, row, blob, urls, store, raced>>
      BY <1>0, <2>1, <3>1 DEF Authorize
    <3> QED
      BY <1>0, <3>2, QuietPreservesRows
  <2>2. CASE Rollback(t)
    <3>1. /\ tx' \in [Txs -> Call \cup {Idle}]
          /\ \A u \in Txs : tx'[u] # Idle => tx'[u] = tx[u]
          /\ UNCHANGED <<ws, row, blob, urls, store, raced>>
      BY <1>0, <2>2 DEF Rollback
    <3> QED
      BY <1>0, <3>1, QuietPreservesRows
  <2>3. ASSUME NEW o \in Objects, ReserveObjectIDs(t, o) PROVE RowInv'
    BY <2>3, ReservePreservesRows
  <2>4. ASSUME NEW batch \in Batches, CreateObjectUploadBatch(t, batch) PROVE RowInv'
    BY <2>4, CreateBatchPreservesRows
  <2>5. ASSUME NEW batch \in Batches, CompleteObjectUploadBatch(t, batch) PROVE RowInv'
    BY <2>5, CompleteBatchPreservesRows
  <2>6. ASSUME NEW o \in Objects, NEW c \in Contents, UploadObjectBytesDev(t, o, c) PROVE RowInv'
    BY <2>6, UploadPreservesRows
  <2>7. ASSUME NEW S \in SUBSET Objects, RunWorkspaceGC(t, S) PROVE RowInv'
    BY <2>7, CollectPreservesRows
  <2>8. CASE RecalculateSyncUsage(t)
    <3>1. /\ tx' \in [Txs -> Call \cup {Idle}] /\ raced' \in BOOLEAN
          /\ \A u \in Txs : tx'[u] # Idle => tx'[u] = tx[u]
      BY <2>8, FinishTyped DEF RecalculateSyncUsage
    <3>2. UNCHANGED <<ws, row, blob, urls, store>>
      BY <2>8 DEF RecalculateSyncUsage
    <3> QED
      BY <3>1, <3>2 DEF RowInv, RowsTyped, RowsOwned, UrlsMatch, AvailableMatchesBlob
  <2> QED
    BY <1>1, <2>1, <2>2, <2>3, <2>4, <2>5, <2>6, <2>7, <2>8 DEF Request
<1>2. ASSUME NEW w \in Workspaces, CreateWorkspace(w) PROVE RowInv'
  <2>1. /\ ws' = [ws EXCEPT ![w] = "live"] /\ ws[w] = "none"
        /\ UNCHANGED <<row, blob, urls, store, tx, raced>>
    BY <1>2 DEF CreateWorkspace
  <2>2. \A o \in Objects : row[o].state = "available" => row[o].ws # w
    BY <2>1 DEF RowInv, RowsOwned
  <2> QED
    BY <1>0, <2>1, <2>2, QuietPreservesRows DEF RowInv, RowsTyped, Row
<1>3. ASSUME NEW w \in Workspaces, DeleteWorkspace(w) PROVE RowInv'
  <2>1. /\ ws' = [ws EXCEPT ![w] = "deleted"]
        /\ UNCHANGED <<row, blob, urls, store, tx, raced>>
    BY <1>3 DEF DeleteWorkspace
  <2> QED
    BY <1>0, <2>1, QuietPreservesRows DEF RowInv, RowsTyped, Row
<1>4. ASSUME NEW w \in Workspaces, RunDeletedWorkspaceCleanup(w) PROVE RowInv'
  BY <1>4, CleanupPreservesRows
<1>5. ASSUME NEW o \in Objects, Expire(o) PROVE RowInv'
  <2>1. /\ row' = [row EXCEPT ![o].expired = TRUE] /\ row[o].state # "available"
        /\ UNCHANGED <<ws, blob, urls, store, tx, raced>>
    BY <1>5 DEF Expire
  <2> QED
    BY Zenon, <1>0, <2>1, QuietPreservesRows
<1>6. ASSUME NEW o \in Objects, NEW c \in Contents, PutObject(o, c) PROVE RowInv'
  BY <1>6, PutPreservesRows
<1>7. CASE UNCHANGED vars
  BY <1>7 DEF vars, RowInv, RowsTyped, RowsOwned, UrlsMatch, AvailableMatchesBlob
<1> QED
  BY <1>1, <1>2, <1>3, <1>4, <1>5, <1>6, <1>7 DEF Next

\* The invariant of the rows holds in every reachable state.
LEMMA RowInvariance == Spec => []RowInv
  BY RowInit, RowsInductive, PTL DEF Spec

\* An available object of a live workspace is in the object store with the content
\* its row describes, whatever PUTs, retries, collections and rollbacks happen in
\* whatever order (presign.go, gc.go).
THEOREM AvailableObjectsAreStored == Spec => []AvailableMatchesBlob
  BY RowInvariance, PTL DEF RowInv

\* No step changes the row of an available object, until its workspace is cleaned
\* up: the requests and the collector look at other states only.
LEMMA AvailableRowKept ==
    ASSUME RowInv, Next, NEW o \in Objects, row[o].state = "available", ws'[row[o].ws] # "gone"
    PROVE  row'[o] = row[o]
<1>0. /\ row \in [Objects -> Row]
      /\ ws \in [Workspaces -> {"none", "live", "deleted", "gone"}] /\ row[o].ws \in Workspaces
  BY DEF RowInv, RowsTyped, Row
<1>1. ASSUME NEW t \in Txs, Request(t) PROVE row'[o] = row[o]
  <2>1. ASSUME NEW p \in Objects, ReserveObjectIDs(t, p) PROVE row'[o] = row[o]
    BY <1>0, <2>1 DEF ReserveObjectIDs
  <2>2. ASSUME NEW batch \in Batches, CreateObjectUploadBatch(t, batch) PROVE row'[o] = row[o]
    <3>1. /\ row' = [p \in Objects |->
                       IF p \in DOMAIN batch
                         THEN [row[p] EXCEPT !.state = "pending", !.content = batch[p],
                                             !.expired = FALSE]
                         ELSE row[p]]
          /\ \A p \in DOMAIN batch : CanUpload(p, batch[p])
      BY Zenon, <2>2 DEF CreateObjectUploadBatch
    <3>2. o \notin DOMAIN batch
      BY <3>1 DEF CanUpload
    <3> QED
      BY <3>1, <3>2
  <2>3. ASSUME NEW batch \in Batches, CompleteObjectUploadBatch(t, batch) PROVE row'[o] = row[o]
    <3> DEFINE pending == {p \in DOMAIN batch : row[p].state = "pending"}
               done == {p \in pending : UploadIsComplete(p, batch[p])}
               failed == pending \ done
    <3>1. row' = [p \in Objects |->
                    CASE p \in done   -> [row[p] EXCEPT !.state = "available", !.expired = FALSE]
                      [] p \in failed -> [row[p] EXCEPT !.state = "failed"]
                      [] OTHER        -> row[p]]
      BY Zenon, <2>3 DEF CompleteObjectUploadBatch
    <3>2. o \notin done /\ o \notin failed
      OBVIOUS
    <3> HIDE DEF done, failed
    <3> QED
      BY <3>1, <3>2
  <2>4. ASSUME NEW p \in Objects, NEW c \in Contents, UploadObjectBytesDev(t, p, c)
        PROVE  row'[o] = row[o]
    <3>1. /\ row[p].state \in {"reserved", "pending"}
          /\ \/ row' = [row EXCEPT ![p].state = "available", ![p].content = c,
                                   ![p].expired = FALSE]
             \/ row' = row
      BY Zenon, <2>4 DEF UploadObjectBytesDev
    <3> QED
      BY <1>0, <3>1
  <2>5. ASSUME NEW S \in SUBSET Objects, RunWorkspaceGC(t, S) PROVE row'[o] = row[o]
    <3>1. /\ \A p \in S : row[p].state \in {"reserved", "pending", "failed"}
          /\ \/ row' = [p \in Objects |->
                     IF p \in S THEN [row[p] EXCEPT !.state = "deleted", !.expired = FALSE]
                                ELSE row[p]]
             \/ row' = row
      BY Zenon, <2>5 DEF RunWorkspaceGC, Orphans
    <3>2. o \notin S
      BY <3>1
    <3> QED
      BY <1>0, <3>1, <3>2
  <2> QED
    BY <1>1, <2>1, <2>2, <2>3, <2>4, <2>5
    DEF Request, Authorize, Rollback, RecalculateSyncUsage
<1>2. ASSUME NEW w \in Workspaces, RunDeletedWorkspaceCleanup(w) PROVE row'[o] = row[o]
  <2> DEFINE mine == {p \in Objects : row[p].ws = w /\ row[p].state # "none"}
  <2>1. \/ /\ ws' = [ws EXCEPT ![w] = "gone"]
           /\ row' = [p \in Objects |->
                  IF p \in mine THEN [row[p] EXCEPT !.state = "deleted", !.expired = FALSE]
                                ELSE row[p]]
        \/ UNCHANGED <<ws, row>>
    BY Zenon, <1>2 DEF RunDeletedWorkspaceCleanup
  <2>2. CASE UNCHANGED <<ws, row>>
    BY <2>2
  <2>3. CASE /\ ws' = [ws EXCEPT ![w] = "gone"]
             /\ row' = [p \in Objects |->
                    IF p \in mine THEN [row[p] EXCEPT !.state = "deleted", !.expired = FALSE]
                                  ELSE row[p]]
    <3>1. o \notin mine
      BY <1>0, <2>3
    <3> HIDE DEF mine
    <3> QED
      BY <1>0, <2>3, <3>1
  <2> QED
    BY <2>1, <2>2, <2>3
<1>3. ASSUME NEW p \in Objects, Expire(p) PROVE row'[o] = row[o]
  BY <1>0, <1>3 DEF Expire
<1> QED
  BY <1>1, <1>2, <1>3 DEF Next, CreateWorkspace, DeleteWorkspace, PutObject

\* Once available, an object keeps its row and its blob as long as its workspace
\* is live: no PUT, no collection and no cleanup reaches it.
THEOREM AvailabilityIsStable == Spec => AvailableIsStable
<1> DEFINE Stable == \A o \in Objects :
             row[o].state = "available" /\ ws'[row[o].ws] = "live" =>
                /\ row'[o].state = "available"
                /\ row'[o].content = row[o].content
                /\ blob'[o] = blob[o]
<1>1. RowInv /\ [Next]_vars => [Stable]_vars
  <2> SUFFICES ASSUME RowInv, Next,
                      NEW o \in Objects, row[o].state = "available", ws'[row[o].ws] = "live"
               PROVE  /\ row'[o].state = "available"
                      /\ row'[o].content = row[o].content
                      /\ blob'[o] = blob[o]
    OBVIOUS
  <2>1. row'[o] = row[o]
    BY AvailableRowKept
  <2>2. /\ row \in [Objects -> Row] /\ blob \in [Objects -> Contents \cup {NoContent}]
        /\ ws \in [Workspaces -> {"none", "live", "deleted", "gone"}] /\ row[o].ws \in Workspaces
    BY DEF RowInv, RowsTyped, Row
  <2>3. ASSUME NEW t \in Txs, NEW p \in Objects, NEW c \in Contents, UploadObjectBytesDev(t, p, c)
        PROVE  blob'[o] = blob[o]
    <3>1. row[p].state \in {"reserved", "pending"} /\ blob' = [blob EXCEPT ![p] = c]
      BY Zenon, <2>3 DEF UploadObjectBytesDev
    <3> QED
      BY <2>2, <3>1
  <2>4. ASSUME NEW t \in Txs, NEW S \in SUBSET Objects, RunWorkspaceGC(t, S)
        PROVE  blob'[o] = blob[o]
    <3>1. /\ \A p \in S : row[p].state \in {"reserved", "pending", "failed"}
          /\ blob' = WithoutBlobs(S)
      BY Zenon, <2>4 DEF RunWorkspaceGC, Orphans
    <3>2. o \notin S
      BY <3>1
    <3> QED
      BY <2>2, <3>1, <3>2 DEF WithoutBlobs
  <2>5. ASSUME NEW w \in Workspaces, RunDeletedWorkspaceCleanup(w) PROVE blob'[o] = blob[o]
    <3> DEFINE mine == {p \in Objects : row[p].ws = w /\ row[p].state # "none"}
    <3>1. /\ ws[w] = "deleted"
          /\ \E S \in SUBSET mine : blob' = WithoutBlobs(S)
          /\ ws' = [ws EXCEPT ![w] = "gone"] \/ UNCHANGED ws
      BY Zenon, <2>5 DEF RunDeletedWorkspaceCleanup
    <3>2. o \notin mine
      BY <2>2, <3>1
    <3> HIDE DEF mine
    <3> QED
      BY <2>2, <3>1, <3>2 DEF WithoutBlobs
  <2>6. ASSUME NEW p \in Objects, NEW c \in Contents, PutObject(p, c) PROVE blob'[o] = blob[o]
    <3>1. /\ blob' = [blob EXCEPT ![p] = c] /\ UNCHANGED <<row, ws>> /\ <<p, c>> \in urls
      BY <2>6 DEF PutObject
    <3>2. row[p].content = c /\ blob[o] = row[o].content
      BY <3>1 DEF RowInv, UrlsMatch, AvailableMatchesBlob
    <3> QED
      BY <2>2, <3>1, <3>2
  <2>7. ASSUME NEW t \in Txs, Request(t) PROVE blob'[o] = blob[o]
    <3>1. UNCHANGED blob \/ (\E p \in Objects, c \in Contents : UploadObjectBytesDev(t, p, c))
             \/ (\E S \in SUBSET Objects : RunWorkspaceGC(t, S))
      BY Zenon, <2>7 DEF Request, Authorize, Rollback, ReserveObjectIDs, CreateObjectUploadBatch,
                         CompleteObjectUploadBatch, RecalculateSyncUsage
    <3> QED
      BY <2>3, <2>4, <3>1
  <2> QED
    BY <2>1, <2>5, <2>6, <2>7 DEF Next, CreateWorkspace, DeleteWorkspace, Expire
<1> QED
  BY <1>1, RowInvariance, PTL DEF Spec, AvailableIsStable
=============================================================================
