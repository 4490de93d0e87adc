CONSTANTS
    Mutants = {m1, m2, m3}
    MaxCheckers = 2
    MaxConcurrency = 3
    Faults = {"job", "init", "kill"}
SPECIFICATION Spec
SYMMETRY Symmetry
CHECK_DEADLOCK FALSE
INVARIANTS
    ResultsAreComplete
    ChecksComeFirst
    ConcurrencyIsShared
