SPECIFICATION Spec
CONSTANTS
  Agents = {a1, a2}
  Roles = {q1, q2}
  Teams = {t1}
  Leads = {l1}
  Tasks = {k1, k2}
  MaxTeams = 1
  MaxActive = 1
  MaxEdits = 1
  MaxDeaths = 1
INVARIANT NoneServedAfterTheEnd
 
\* A team may be created, run and never touched again.
CHECK_DEADLOCK FALSE
