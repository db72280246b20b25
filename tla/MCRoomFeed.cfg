SPECIFICATION Spec
CONSTANTS
    c1 = c1
    c2 = c2
    Absent = Absent
    Clients = {c1, c2}
    Host = h
    h = h
    Listable = {{}, {c1}, {c2}, {h}, {c1, c2}, {c1, h}, {c2, h}}
    Names = {"x"}
    Topics = {"t"}
    Lobby = "lobby"
    MaxRooms = 2
    HistoryLimit = 2
    MaxLines = 3
    MaxOps = 5
    MaxOverlaps = 1
    CrashOps = 3
    MaxCrashes = 2
SYMMETRY ClientSymmetry
INVARIANTS RoomsAreSeparate HistoryBelongs RestartRestores ScreensFollow
CHECK_DEADLOCK FALSE
