SPECIFICATION ProgressSpec
CONSTANTS
    family = family
    single = single
    root = root
    child = child
    solo = solo
    q1 = q1
    NoTask = NoTask
    Job <- TwoJobs
    Task <- Tasks
    JobOf <- JobOfTask
    ParentOf <- Parents
    Required <- AllButChild
    Delayed <- DelayedRoot
    Pausable <- TwoJobs
    Commits <- Tasks
    Queue <- OneQueue
    QueueOf <- SameQueue
    Capacity <- CapacityOne
    MaxAttempts = 2
    MaxRuns = 2
    Admin = {a1}
    Ops = {"pause", "resume", "cancelJob", "cancelTask", "retryJob", "retryTask"}
    Faults = {"crash", "shutdown", "lostFinish"}
    Results = {"ok", "ctx", "transient", "permanent", "deferred"}
    StopCause = "parent"
PROPERTIES
    CancelCompletes
    PauseSettles
    JobEnds
CHECK_DEADLOCK FALSE
