SPECIFICATION Spec
CONSTANTS
    Devices = {d1, d2}
    CommitIds <- MCCommitIds
    MaxId = 3
    NoCommit <- MCNoCommit
    body = body
    pack = pack
    chk = chk
    BodyObjects = {body}
    CheckpointPacks = {chk}
    ContentPacks = {pack}
    Drafts <- MCAllDrafts
    Txs = {t1, t2}
    Idle = Idle
    MaxSeq = 2
    MaxRequests = 3
SYMMETRY Symm
INVARIANTS
    LinearHistory
    DeviceSeqMonotonic
    ConflictIsFinal
    SuccessIsPublished
PROPERTIES
    HistorySpec
