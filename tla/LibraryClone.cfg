SPECIFICATION LibrarySpec
CONSTANTS
    TaskRuns = 2
    Folders = {1}
    Links = {1, 2}
    Users = {u, admin}
    Admin = admin
    LibraryFiles = {1}
    MaxLibraryOps = 5
INVARIANTS ClonedLinkUsable
CHECK_DEADLOCK FALSE
