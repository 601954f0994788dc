SPECIFICATION FairSpec
CONSTANTS
  n1 = n1  n2 = n2  t1 = t1  t2 = t2  p = p  q = q  r1 = r1  r2 = r2  r3 = r3
  Worker = worker
  None = none
  Nodes = {n1, n2}
  Threads = {t1}
  Policies = {p}
  DefaultPolicies = {}
  Rules = {r1, r2}
  Facts = {r2}
  Recursive = {}
  Operations <- AllRequests
  Replicated = TRUE
  DbFails = TRUE
  MaxRequests = 3
  MaxCrashes = 0
INVARIANTS TypeOK NoOrphans
PROPERTIES Converges RequestsEnd SyncKeepsInserts
