SPECIFICATION FairSpec
CONSTANTS
    MaxAttempts = 6
INVARIANTS TypeOK NoUseAfterDestroy CompletedOnce RetryIsBounded
PROPERTIES TimeoutIsOfThisPhase AttemptEnds
CHECK_DEADLOCK FALSE
