SPECIFICATION ApplicationSpec
CONSTANTS
    m1 = m1
    m2 = m2
    x = x
    y = y
    TaskRuns = 2
    Artifacts = {1}
    MaxEncodeJobs = 2
    MaxEncodeFaults = 2
    Creators = {1, 2}
    MaxRemoteRows = 2
    MaxRemoteFaults = 3
    MaxPreparations = 2
    MaxPrepFaults = 2
    Folders = {1, 2, 3}
    Links = {1, 2}
    Users = {u, admin}
    Admin = admin
    LibraryFiles = {1}
    MaxLibraryOps = 5
    AdminMounts = {m1, m2}
    Places = {x, y}
    AdminFiles = {1}
    AdminPools = {p1, p2}
    Admins = {a1, a2}
    ReconnectBatch = 1
    MaxAdminOps = 2
    Interval = 3
    MaxClock = 7
    RunsOnStart = {TRUE, FALSE}
    MaxManualRuns = 1
    MaxScheduleFaults = 1
    Key <- LockKeys
    Rank <- ByName
    Entry = {1, 2, 3}
    None = None
    Proc = {w1, w2, w3}
    Plans <- FileFirst
INVARIANTS
    NothingForgotten
    ReplayKeepsBatch
    CompletedHasVideo
    ReadyHasFile
    LibrarySound
    DeletionComplete
    AvailableIsReadable
    OneDefaultPool
    NoRunSwallowed
    Exclusion
    NoCircularWait
CHECK_DEADLOCK FALSE
