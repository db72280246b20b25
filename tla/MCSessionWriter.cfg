SPECIFICATION FairSpec
CONSTANTS
    Frames = {"a", "b"}
    MaxGiven = 4
    MaxCloses = 2
    NotAsked = NotAsked
INVARIANTS TypeOK OneWriteAtATime
PROPERTIES ImplementsChannel ServerCloseIsSilent CloseCompletes
CHECK_DEADLOCK FALSE
