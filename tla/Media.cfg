SPECIFICATION MediaSpec
CONSTANTS
    a1 = a1
    a2 = a2
    b1 = b1
    b2 = b2
    k1 = k1
    UploadSessions = {a1, a2}
    UploadGroups = {b1, b2}
    UserStorage = 2
    MaxUploadSize = 2
    MaxActiveGroups = 2
    MaxImportTries = 2
    MaxUploadFaults = 1
    Guests = {1}
    GuestSessions = {1, 2, 3}
    GuestGroups = {b1, b2}
    ShareVideoSize = 2
    ShareLocks = {TRUE}
    FolderSizes = {2}
    MaxShareActs = 1
    CacheObjects = {a1, a2}
    CacheMounts = {k1}
    Flows = {b1, b2}
    ObjectSize = 4
    CacheMaxBytes = 5
    WorkspaceBytes = 4
    MaxPublications = 1
    MaxFills = 1
SYMMETRY Symmetry
INVARIANTS
    QuotaKept
    UploadDataKept
    OneLinkPerUpload
    FolderLimitKept
    CacheBounded
    ClaimsOwned
CHECK_DEADLOCK FALSE
