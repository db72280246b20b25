SPECIFICATION FairSpec
INVARIANTS VerdictIsTrue ReasonIsPublished
PROPERTY LoginReturns
CHECK_DEADLOCK FALSE
