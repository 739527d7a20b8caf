\* A ring for two entries with room to spare, readers whose buffer holds one or both; the session and its monitor come and go.
SPECIFICATION SessionSpec
CONSTANTS
    BufferSize = 16
    Base = 3
    SessionId = {1}
    Instance = {1}
    Null = Null
    DataLength = {0, 1}
    BufferLength = {4, 7}
    MayFail = TRUE
INVARIANTS
    CountExact
PROPERTY
    QueueSpec
