SPECIFICATION Spec
CONSTANTS
  Supply = 4
  Amount = 2
  Executions <- Asked
  MaxExecutions = 2
  MaxHeight = 4
  MaxCrashes = 1
INVARIANTS SupplyConserved StateNeedsCode
PROPERTIES BlockEffect
CHECK_DEADLOCK FALSE
