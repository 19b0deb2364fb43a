SPECIFICATION Spec
CONSTANTS
    Key <- LockKeys
    Rank <- ByName
    Entry = {1, 2, 3}
    None = None
    Proc = {p1, p2, p3}
    Plans <- WithMigrationStart
INVARIANTS
    NoCircularWait
CHECK_DEADLOCK FALSE
