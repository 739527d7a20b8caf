\* Two clients, a proxy with two callbacks; any process may end and calls may fail.
SPECIFICATION CallSpec
CONSTANTS
    Pid <- MCPid
    Client = {c1, c2}
    Server = {w1, w2}
    Mortal = {c1, c2, w1, w2}
    Impatient = {}
    Event <- MCEvent
    Data <- MCCalls
    Starter <- MCCalls
    Box = {b1}
    NoBox = NoBox
    Asterisk = {star}
    Proxy = star
    Plain = {}
    Slot = {s1, s2}
    NoEvent = NoEvent
    NoData = NoData
    NoQueue = NoQueue
    NoOne = NoOne
    Failed = Failed
    MayFail = TRUE
    Slow = FALSE
    IdMod = 4
    MaxRequests = 2
    MaxStarts = 1
    MaxCalls = 1
SYMMETRY Symmetry
INVARIANTS
    OneProxy
    CallTypeOK
    NoSilentStall
    OneCallbackEach
PROPERTIES
    RemoteSpec
CHECK_DEADLOCK FALSE
