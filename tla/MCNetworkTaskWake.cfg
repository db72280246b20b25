SPECIFICATION WorkersSpec
CONSTANTS
    Certs = {c1, c2}
    Absent = Absent
    MaxTasks = 2
    PollLimit = 1
PROPERTY WorkerEnds
CHECK_DEADLOCK FALSE
