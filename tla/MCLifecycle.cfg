SPECIFICATION Spec
CHECK_DEADLOCK FALSE
CONSTANTS
  Files = {f1, f2}
  Mutants = {m1, m2}
  Times = {2}
  Overhead = 3
  Break = 50
  Statuses <- SomeStatuses
  ReporterSets <- SomeReporters
  Checkers <- TwoCheckers
  Checked = {m1, m2}
  Stranger = stranger
  MaxSettings = 2
  MaxErrors = 3
  Cpus = 4
  MaxDirs = 5
  MaxTests = 2
  MaxResults = 2
INVARIANTS
  
  ReportingIsRight
  
PROPERTIES
  OptionsAreSound
  EverythingSettles
