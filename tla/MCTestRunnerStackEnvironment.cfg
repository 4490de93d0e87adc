CONSTANTS
    StaticMutants = {s1, s2}
    RuntimeMutants = {m1, m2}
    DryRun = dry
    MaxReuse = 2
    Faults = {"timeout"}
SPECIFICATION Spec
SYMMETRY Symmetry
CHECK_DEADLOCK FALSE
INVARIANTS
    RightEnvironment
    ReloadIsSound
