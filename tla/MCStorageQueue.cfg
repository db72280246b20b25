SPECIFICATION FairSpec
CONSTANTS
    Absent = Absent
    Writes <- SomeWrites
    RoomIds = {"r"}
    Nicks = {"n"}
    MaxPending = 2
    MaxBatch = 2
    MaxCalls = 3
    Flushers = {"f1"}
INVARIANTS TypeOK FlushSettles NoSilentLoss
PROPERTIES ImplementsLog FlushReturns DestructorReturns
CHECK_DEADLOCK FALSE
