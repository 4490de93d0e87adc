CONSTANTS
    StaticMutants = {s1, s2}
    RuntimeMutants = {m1, m2}
    DryRun = dry
    MaxReuse = 2
    Faults = {"crash"}
SPECIFICATION Spec
CHECK_DEADLOCK FALSE
INVARIANT
    RightEnvironment
