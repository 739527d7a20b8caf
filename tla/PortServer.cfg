SPECIFICATION FairSpec
CONSTANTS
    Client = {t1, t2}
    Pid = {p1}
    Owner <- OneProcess
    Worker = {w1, w2}
    NoWorker = NoWorker
    NoClient = NoClient
    Chunks = {1, 2}
    Pieces = {1, 2}
    MayFail = TRUE
    MaxStarts = 2
    MaxConns = 2
    MaxCalls = 2
INVARIANTS
    InUse
PROPERTIES
    RemoteSpec
    EndNoticed
CHECK_DEADLOCK FALSE
