SPECIFICATION Spec
CONSTANTS
  Flows = {w1}
  Agents = {a1}
  Names = {n1, n2}
  Providers = {k1}
  Procs = {p1, p2}
  Callers = {c1}
  Runs = {r1, r2}
  Periods = {1}
  MinInterval = 1
  MaxActive = 2
  MaxFlows = 1
  MaxAgents = 1
  Stale = 0
  MaxEdits = 1
  MaxCrashes = 1
SYMMETRY Symmetry
INVARIANT ScheduleIsCoupled
INVARIANT SlotsFireOnce
\* Every bound may be used up with nothing left to ask for.
CHECK_DEADLOCK FALSE
