SPECIFICATION Spec
CHECK_DEADLOCK FALSE
CONSTANTS
  Plugins = {"jest", "jest-jasmine2", "mocha", "jasmine", "vitest", "karma", "cucumber", "tap"}
  Tests <- TwoTests
  Shapes <- PairsOfMutants
  Runs = {m1, m2}
  TsFiles = {"a", "b", "c"}
  OtherFile = "other"
  TsMutants <- ThreeMutants
  ImportSets <- TwoGraphs
  MaxRuns = 2
  MaxLosses = 2
  MaxSessions = 2
  MaxLines = 2
  TsOptions = {"composite", "declaration", "declarationDir", "declarationMap", "emitDeclarationOnly", "noEmit",
               "outFile", "mapRoot", "noUnusedLocals"}

  
  
PROPERTIES
  
  RunsAreSeparate
