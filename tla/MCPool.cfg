CONSTANTS
    Resources = {r1, r2, r3}
    NumItems = 3
    MaxConcurrentInit = 2
SPECIFICATION FairSpec
CHECK_DEADLOCK FALSE
INVARIANTS
    IInv
    ExclusiveUse
    InitialisedBeforeUse
    QueuesAreFair
    StoppedMeansSettled
    CreatedAreDisposed
PROPERTIES
    NothingStartsWhenStopped
    ImplementsExclusiveWork
    EveryWaitEnds
