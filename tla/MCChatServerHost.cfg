SPECIFICATION FairSpec
CONSTANTS
    s1 = s1
    s2 = s2
    k1 = k1
    k2 = k2
    n1 = n1
    n2 = n2
    host = host
    Sess = {s1, s2}
    Nicks = {n1, n2, host}
    Keys = {k1, k2}
    KeyOf <- TwoKeys
    RoomNames = {"lobby", "red", "blue"}
    LobbyName = "lobby"
    None = None
    LocalNick = host
    HasPassword = TRUE
    MaxRooms = 2
    ConsoleCmds <- Passive
    StoredBans <- OneBan
    StoredIdentities <- HostIdentity
INVARIANTS TypeOK IdentityHeld EndedLeavesNoTrace MembershipConsistent
PROPERTIES IdentityPermanent ClosedIsForgotten
CHECK_DEADLOCK FALSE
