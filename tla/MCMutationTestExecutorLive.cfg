CONSTANTS
    Mutants = {m1, m2}
    MaxCheckers = 2
    MaxConcurrency = 3
    Faults = {"job", "init", "kill"}
SPECIFICATION FairSpec
CHECK_DEADLOCK FALSE
PROPERTY
    EverythingEnds
