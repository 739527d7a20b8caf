\* Two threads and a reader, one key with one value or none; git may fail and the program restart at any time.
SPECIFICATION FairSpec
CONSTANTS
    Thread = {t1, t2}
    Reader = {r1}
    Key = {k1}
    Value = {v1}
    Absent = Absent
    NotCached = NotCached
    NoThread = NoThread
    NoKey = NoKey
    MaxEntries = 2
    MaxCalls = 3
INVARIANTS
    NewestLast
    HeadIsLive
    CacheFresh
PROPERTIES
    NoFalseClaim
    Undoable
    CallsReturn
CHECK_DEADLOCK FALSE
