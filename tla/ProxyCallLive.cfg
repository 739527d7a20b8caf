\* One client that calls twice and may give up; proxies may end at any time and be slow to start.
SPECIFICATION FairCallSpec
CONSTANTS
    Pid <- MCPid
    Client = {c1}
    Server = {w1, w2}
    Mortal = {w1, w2}
    Impatient = {c1}
    Event <- MCEvent
    Data <- MCCalls
    Starter <- MCCalls
    Box = {b1}
    NoBox = NoBox
    Asterisk = {star}
    Proxy = star
    Plain = {}
    Slot = {s1}
    NoEvent = NoEvent
    NoData = NoData
    NoQueue = NoQueue
    NoOne = NoOne
    Failed = Failed
    MayFail = FALSE
    Slow = TRUE
    IdMod = 4
    MaxRequests = 2
    MaxStarts = 1
    MaxCalls = 2
PROPERTIES
    RemoteSpec
    Answered
CHECK_DEADLOCK FALSE
