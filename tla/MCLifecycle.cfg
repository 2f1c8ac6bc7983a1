SPECIFICATION FairSpec
INVARIANT TypeOK
INVARIANT StackOutlivesThread
INVARIANT NothingLeftBehind
INVARIANT RadioHasItsResources
INVARIANT LoadReportsOwnSession
INVARIANT UnloadRequestKept
PROPERTY CallsReturn
