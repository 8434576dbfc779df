SPECIFICATION FairSpec
CONSTANTS
  p1 = p1
  p2 = p2
  a1 = a1
  a2 = a2
  Insts = {p1, p2}
  Approvals = {a1, a2}
  Launch = Launch
  None = None
  BatchLen = 2
  MaxToolCalls = 3
  MaxCrashes = 1
  DbFaults = TRUE
  EarlyDecisions = FALSE
INVARIANT SingleDriver
INVARIANT ExecutesWhatWasGranted
INVARIANT KeysAreUnique
INVARIANT CapHolds
 
 
 
PROPERTY InFlightEnds
\* A run that ended has no next step.
CHECK_DEADLOCK FALSE
