\* InitProcess, KillAllHelper and a program that asks for the proxy; waits are bounded, proxies may end and fail to start.
SPECIFICATION GuiSpec
CONSTANTS
    Pid <- MCPid
    Service = svc
    SlavesEvent = qe
    Initer = {i1}
    Killer = {k1}
    Asker = {c1}
    Server = {w1, w2}
    Mortal = {w1, w2}
    Impatient = {i1, k1}
    Event <- MCEvent
    Data <- MCData
    Starter <- MCStarter
    Box = {b1}
    NoBox = NoBox
    Asterisk = {star}
    Proxy = star
    Plain = {}
    Slot = {s1}
    NoEvent = NoEvent
    NoData = NoData
    NoQueue = NoQueue
    NoOne = NoOne
    NoThread = NoThread
    MayFail = TRUE
    Slow = TRUE
    IdMod = 6
    MaxRequests = 4
    MaxStarts = 1
SYMMETRY Symmetry
INVARIANTS
    SuccessMeansDone
    DoneOnce
CHECK_DEADLOCK FALSE
