SPECIFICATION Spec
CONSTANTS
  p1 = p1
  a1 = a1
  a2 = a2
  Insts = {p1}
  Approvals = {a1, a2}
  Launch = Launch
  None = None
  BatchLen = 2
  MaxToolCalls = 3
  MaxCrashes = 1
  DbFaults = FALSE
  EarlyDecisions = TRUE
SYMMETRY Symmetry
INVARIANT TypeOK
INVARIANT GrantBacksExecution
PROPERTY DecisionIsFinal
\* A run that ended has no next step.
CHECK_DEADLOCK FALSE
