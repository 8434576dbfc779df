SPECIFICATION FairSpec
CONSTANTS
  Jobs = {j1, j2}
  Calls = {k1}
  Checks = {s1}
  Disconnects = {d1}
  Connects = {c1}
  First = First
  None = None
  MaxLapses = 2
  MaxAborts = 1
INVARIANT OnlyLostTokensExpire
PROPERTY CallsGetTheStoredToken
PROPERTY RefreshIsNotUndone
 
\* Requests and sign-ins are finitely many; a connected, fresh connection rests.
CHECK_DEADLOCK FALSE
