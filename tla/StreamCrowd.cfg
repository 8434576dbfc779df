SPECIFICATION Spec
CONSTANTS
  Insts = {p1, p2}
  Streams = {s1, s2, s3}
  Parent = Parent
  Child = Child
  None = None
  Team = FALSE
  MaxEvents = 1
  BufCap = 1
  QueueCap = 1
  MaxSlots = 1
  Shutdowns = TRUE
  DbFaults = FALSE
SYMMETRY Symmetry
INVARIANT SlotsAreExact
INVARIANT EndMeansOver
INVARIANT NeverSendsOnClosed
\* A run that ended, and a stream that nothing ends, have no next step.
CHECK_DEADLOCK FALSE
