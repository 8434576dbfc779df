SPECIFICATION FairSpec
CONSTANTS
  p1 = p1
  p2 = p2
  a1 = a1
  a2 = a2
  Insts = {p1, p2}
  Approvals = {a1, a2}
  Launch = Launch
  None = None
  BatchLen = 1
  MaxToolCalls = 3
  MaxCrashes = 0
  DbFaults = FALSE
  EarlyDecisions = FALSE
INVARIANT SuspensionIsAnswerable
PROPERTY EveryRunEnds
\* A run that ended has no next step.
CHECK_DEADLOCK FALSE
