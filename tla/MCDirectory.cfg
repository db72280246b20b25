SPECIFICATION FairSpec
CONSTANTS
    Others = {2}
    MaxPublishers = 2
    Interval = 2
    TTL = 5
    ReachTime = 1
    ExchangeTime = 1
    MaxLines = 2
    MaxLists = 1
INVARIANTS RenewedStaysListed ListIsWhole
PROPERTY WithdrawnDisappears
CHECK_DEADLOCK FALSE
