SPECIFICATION Spec
CHECK_DEADLOCK FALSE
CONSTANT
  Files = {f1, f2}
INVARIANT
  OriginalNeverLost
