SPECIFICATION Spec
CONSTANTS
    s1 = s1
    s2 = s2
    k1 = k1
    k2 = k2
    n1 = n1
    n2 = n2
    host = host
    Sess = {s1, s2}
    Nicks = {n1, n2}
    Keys = {k1}
    KeyOf <- OneKey
    RoomNames = {"lobby", "red"}
    LobbyName = "lobby"
    None = None
    LocalNick = None
    HasPassword = TRUE
    MaxRooms = 2
    ConsoleCmds <- Moderation
    StoredBans <- NoBans
    StoredIdentities <- KnownIdentities
INVARIANTS EndedLeavesNoTrace
CHECK_DEADLOCK FALSE
SYMMETRY SessionSymmetry
