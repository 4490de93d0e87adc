CONSTANTS
    StaticMutants = {s1}
    RuntimeMutants = {m1, m2}
    DryRun = dry
    MaxReuse = 2
    Faults = {"crash", "timeout", "initFails", "busyDispose"}
SPECIFICATION FairSpec
CHECK_DEADLOCK FALSE
INVARIANT
    ProcessesAreBounded
PROPERTY
    EveryJobAnswered
