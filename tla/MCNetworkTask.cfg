SPECIFICATION FairSpec
CONSTANTS
    Certs = {c1, c2}
    Absent = Absent
    MaxTasks = 2
    PollLimit = 1
INVARIANT NoUnreviewedRequest
PROPERTIES TrustIsReviewed TaskReturns
CHECK_DEADLOCK FALSE
