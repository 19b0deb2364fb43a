SPECIFICATION UploadsSpec
CONSTANTS
    UploadSessions = {s1}
    UploadGroups = {g1}
    UserStorage = 2
    MaxUploadSize = 2
    MaxActiveGroups = 1
    MaxImportTries = 2
    MaxUploadFaults = 1
INVARIANTS RecordedSourceKept
CHECK_DEADLOCK FALSE
