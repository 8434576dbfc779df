SPECIFICATION Spec
SYMMETRY Symmetry
CONSTANTS
  Workspaces = {w1}
  p1 = p1
  p2 = p2
  k1 = k1
  Procs = {p1, p2}
  plain = plain
  keyed = keyed
  Texts = {plain, keyed}
  Params = {k1}
  Uses <- TheUses
  Approval = approval
  MaxOps = 6
INVARIANTS RowsMatchTheRecord UpToDateIsCurrent
\* The bound may be used up with no request left.
CHECK_DEADLOCK FALSE
