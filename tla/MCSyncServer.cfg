SPECIFICATION ServerSpec
CONSTANTS
    Workspaces = {w1}
    W = w1
    d1 = d1
    d2 = d2
    Devices = {d1, d2}
    body = body
    chk = chk
    Objects = {body, chk}
    BodyObjects = {body}
    CheckpointPacks = {chk}
    ContentPacks = {}
    content = content
    Contents = {content}
    Size <- MCSize
    NoContent = NoContent
    Txs = {t1}
    PublishTxs = {p1, p2}
    Idle = Idle
    Stores = {"s3_compatible"}
    MaxBatch = 2
    GCLimit = 1
    SyncMaxSingleBlobBytes = 2
    SyncMaxPendingUploadBytes = 2
    SyncMaxStorageBytesPerWorkspace = 3
    SyncMaxTotalStorageBytesPerUser = 3
    SyncMaxWorkspacesPerUser = 1
    CommitIds <- MCCommitIds
    NoCommit <- MCNoCommit
    Drafts <- MCDrafts
    MaxSeq = 2
    MaxRequests = 2
SYMMETRY Symm
INVARIANTS
    CommitsDownloadable
PROPERTIES
    LogSpec
