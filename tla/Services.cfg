SPECIFICATION ServicesSpec
CONSTANTS
    local = local
    remote = remote
    h1 = h1
    h2 = h2
    c1 = c1
    c2 = c2
    a = a
    b = b
    c = c
    Id <- TwoIds
    DefaultId = local
    NoHandle = NoHandle
    Handle = {h1, h2}
    Client = {c1, c2}
    Caller = {c1, c2}
    MaxSFTPFaults = 1
    Key <- ThreeKeys
    MaxPending = 2
    BatchSize = 1
    MaxEvents = 2
INVARIANTS
    NoUseAfterClose
    CloseComplete
    ConnectionsOwned
    ObjectWhole
    Conservation
    BufferBounded
    ShutdownFlushes
PROPERTIES
    CloseTerminates
    CallsReturn
    Delivered
CHECK_DEADLOCK FALSE
