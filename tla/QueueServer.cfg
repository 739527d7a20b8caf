\* Two pids that are reused, callers without events, one box, one asterisk and one plain queue name.
SPECIFICATION Spec
CONSTANTS
    Pid = {p1, p2}
    Box = {b1}
    NoBox = NoBox
    Asterisk = {star}
    Plain = {plain}
    Event = {}
    NoEvent = NoEvent
    Data = {d1}
    NoData = NoData
    NoQueue = NoQueue
    NoOne = NoOne
    IdMod = 4
    MaxRequests = 2
    MaxStarts = 2
SYMMETRY Symmetry
INVARIANTS
    HandedToCreator
    FirstComeFirstServed
    NoOrphans
    BoxIsolation
PROPERTY
    LifeSpec
CHECK_DEADLOCK FALSE
