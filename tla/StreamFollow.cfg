SPECIFICATION Spec
CONSTANTS
  Insts = {p1, p2}
  Streams = {s1}
  Parent = Parent
  Child = Child
  None = None
  Team = TRUE
  MaxEvents = 1
  BufCap = 2
  QueueCap = 2
  MaxSlots = 1
  Shutdowns = FALSE
  DbFaults = TRUE
SYMMETRY Symmetry
INVARIANT TypeOK
 
 
INVARIANT DelegationLeavesNothing
 
\* A run that ended, and a stream that nothing ends, have no next step.
CHECK_DEADLOCK FALSE
