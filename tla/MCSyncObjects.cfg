CONSTANTS
    Workspaces = {w1, w2}
    Devices = {d1, d2}
    Objects = {o1, o2}
    small = small
    big = big
    Contents <- MCContents
    Size <- MCSize
    NoContent = NoContent
    Txs = {t1, t2}
    Idle = Idle
    Stores = {"s3_compatible", "local"}
    MaxBatch = 2
    GCLimit = 1
    SyncMaxSingleBlobBytes = 2
    SyncMaxPendingUploadBytes = 2
    SyncMaxStorageBytesPerWorkspace = 3
    SyncMaxTotalStorageBytesPerUser = 3
    SyncMaxWorkspacesPerUser = 2
SYMMETRY Symm
SPECIFICATION Spec
INVARIANTS
    UsageExact
    QuotaKept
    AvailableMatchesBlob
PROPERTIES
    AvailableIsStable
CHECK_DEADLOCK FALSE
