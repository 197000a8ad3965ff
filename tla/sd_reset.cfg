SPECIFICATION Spec
CONSTANTS
  MaxFiles = 2
  MaxSeq = 7
  NvsMayFail = FALSE
  FactoryResets = TRUE
INVARIANTS ActiveSurvives
