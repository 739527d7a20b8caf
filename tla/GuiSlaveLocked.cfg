\* Two threads execute InitProcess; waits are bounded, proxies may end and fail to start.
SPECIFICATION FairGuiSpec
CONSTANTS
    Pid <- MCPid
    Service = svc
    SlavesEvent = qe
    Initer = {i1, i2}
    Killer = {}
    Asker = {}
    Server = {w1, w2}
    Mortal = {w1, w2}
    Impatient = {i1, i2}
    Event <- MCEvent
    Data <- MCData
    Starter <- MCStarter
    Box = {b1}
    NoBox = NoBox
    Asterisk = {star}
    Proxy = star
    Plain = {}
    Slot = {s1}
    NoEvent = NoEvent
    NoData = NoData
    NoQueue = NoQueue
    NoOne = NoOne
    NoThread = NoThread
    MayFail = TRUE
    Slow = TRUE
    IdMod = 6
    MaxRequests = 4
    MaxStarts = 1
INVARIANTS
    WokenInTurn
PROPERTIES
    InitReturns
CHECK_DEADLOCK FALSE
