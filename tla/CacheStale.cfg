SPECIFICATION CacheSpec
CONSTANTS
    CacheObjects = {o1}
    CacheMounts = {k1}
    Flows = {w1}
    ObjectSize = 4
    CacheMaxBytes = 5
    WorkspaceBytes = 4
    MaxPublications = 1
    MaxFills = 1
INVARIANTS CaptureDiscarded
CHECK_DEADLOCK FALSE
