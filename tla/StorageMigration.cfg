SPECIFICATION MigSpec
CONSTANTS
    f1 = f1
    m1 = m1
    east = east
    west = west
    Files = {f1}
    Mounts = {east, west}
    Objs = {"source", "output"}
    SourceObj = "source"
    Migs = {m1}
    Home = east
    MaxVersion = 2
    MaxGen = 1
    MaxMishaps = 1
    MaxOperations = 2
    MaxReconciles = 1
    MaxEvents = 3
INVARIANTS
    NoOrphans
    OverReleases
PROPERTIES
    ContentsPreserved
CHECK_DEADLOCK FALSE
