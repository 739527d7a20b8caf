\* A caller of MonitorGet2 whose buffer holds the entry but not the terminator.
SPECIFICATION SessionSpec
CONSTANTS
    BufferSize = 17
    Base = 3
    SessionId = {1}
    Instance = {1}
    Null = Null
    DataLength = {0}
    BufferLength = {4}
    MayFail = FALSE
INVARIANTS ReplyFits
