SPECIFICATION Spec
CHECK_DEADLOCK FALSE
CONSTANT
  MaxEntries = 1
INVARIANT
  IncludedLevelIsWhole
