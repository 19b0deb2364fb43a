SPECIFICATION Spec
CONSTANTS
    j1 = j1
    root = root
    child = child
    q1 = q1
    NoTask = NoTask
    Job <- OneJob
    Task <- Single
    JobOf <- AllOfOneJob
    ParentOf <- Parents
    Required <- RootRequired
    Delayed = {}
    Pausable <- OneJob
    Commits <- Single
    Queue <- OneQueue
    QueueOf <- SameQueue
    Capacity <- CapacityOne
    MaxAttempts = 2
    MaxRuns = 2
    Admin = {a1}
    Ops = {}
    Faults = {"shutdown"}
    Results = {"ok", "ctx"}
    StopCause = "parent"
PROPERTIES
    CanceledOnlyOnRequest
CHECK_DEADLOCK FALSE
