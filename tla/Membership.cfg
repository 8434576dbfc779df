SPECIFICATION Spec
CONSTANTS
  p1 = p1
  p2 = p2
  People = {p1, p2}
  MaxEvents = 4
  MaxRequests = 2
SYMMETRY Symmetry
INVARIANTS PermissionsFollowRole 
\* Clerk may have nothing more to say, and nobody anything to ask.
CHECK_DEADLOCK FALSE
