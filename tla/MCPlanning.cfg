SPECIFICATION Spec
CHECK_DEADLOCK FALSE
CONSTANTS
  MaxText = 4
  MaxAdded = 2
  MaxChanges = 3
  Mutants = {m}
  Tests = {t1, t2}
  MaxEdits = 2
  Ranges = {r1, r2}
  Depth = 2
  MaxPatterns = 3
  Planned = {m1, m2}
  DryRunTests = {t1, t2}
  OtherTests = {t3}
  Times = {1, 3}
  Groups = {g1, g2}
  MaxShaped = 5
  MaxJudged = 4
  MaxLine = 2
  MaxSpecial = 2
  MaxEntries = 2
  MaxPieces = 3
INVARIANTS
  DiffIsRight
  SelectionIsRight
  
  PlansAreRight
  InstrumentationIsRight
  
  

  
