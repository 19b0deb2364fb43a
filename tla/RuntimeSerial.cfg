SPECIFICATION Spec
CONSTANTS
    j1 = j1
    root = root
    child = child
    q1 = q1
    NoTask = NoTask
    Job <- OneJob
    Task <- Family
    JobOf <- AllOfOneJob
    ParentOf <- Parents
    Required <- RootRequired
    Delayed <- Single
    Pausable <- OneJob
    Commits <- Family
    Queue <- OneQueue
    QueueOf <- SameQueue
    Capacity <- CapacityOne
    MaxAttempts = 2
    MaxRuns = 2
    Admin = {a1}
    Ops = {"pause", "resume", "runNow", "cancelJob", "cancelTask", "retryJob", "retryTask", "queue"}
    Faults = {"crash", "shutdown", "lostFinish", "busy"}
    Results = {"ok", "ctx", "transient", "permanent", "deferred"}
    StopCause = "parent"
INVARIANTS
    TypeOK
    JobStatusReduced
    CommitFence
    AttemptLog
PROPERTIES
    OrphanedCommitFails
    ReclaimedOnlyIfLapped
    ReopenedOnlyByRetry
CHECK_DEADLOCK FALSE
