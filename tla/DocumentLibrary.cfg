SPECIFICATION Spec
CONSTANTS
  Jobs = {j1, j2}
  Readers = {r1}
  NChunks = 2
  MaxReindexes = 1
  MaxDeletes = 1
  MaxFailures = 1
  MaxDeaths = 1
INVARIANT EmbeddedOnce
 
INVARIANT PurgeLeavesNothing
\* A document that is gone, with nobody reading, rests.
CHECK_DEADLOCK FALSE
