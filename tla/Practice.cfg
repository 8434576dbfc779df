SPECIFICATION Spec
CONSTANTS
  starter = starter
  growth = growth
  Workspaces = {w1, w2}
  Subscriptions = {s1, s2}
  Procs = {p1, p2}
  Job = Job
  Tiers <- SmallTiers
  DefaultPlan = starter
  Included <- SmallIncluded
  MaxClients <- SmallMaxClients
  ExtraPriced <- SmallExtraPriced
  MaxOps = 5
 
INVARIANT ClientsFollowPlan
PROPERTIES CapacityHolds UsageConverges
\* All operations may be over, and the job then has nothing to do.
CHECK_DEADLOCK FALSE
