\* A ring for two entries with room to spare, numbers that wrap, two sessions and the service.
SPECIFICATION MessageSpec
CONSTANTS
    BufferSize = 17
    Base = 2
    Session = {1, 2}
    Everything = Everything
    Reader = {1, Everything}
    TextLength = {0, 1}
    Capacity = {0, 1}
INVARIANT TextOwn
PROPERTY WindowSpec
