CONSTANTS
  Labels = {"f", "m", "n", "x"}
  MaxCalls = 2
  Programs <- MCPrograms
SPECIFICATION RunSpec
INVARIANTS
  TypeOK
  JumpsAlike
  FlowCovered
  ReadsAlike
CHECK_DEADLOCK FALSE
