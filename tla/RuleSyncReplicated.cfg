SPECIFICATION Spec
CONSTANTS
  n1 = n1  n2 = n2  t1 = t1  t2 = t2  p = p  q = q  r1 = r1  r2 = r2  r3 = r3
  Worker = worker
  None = none
  Nodes = {n1, n2}
  Threads = {t1, t2}
  Policies = {p}
  DefaultPolicies = {p}
  Rules = {r1, r2, r3}
  Facts = {r3}
  Recursive <- OneCycle
  Operations <- Inserts
  Replicated = TRUE
  DbFails = FALSE
  MaxRequests = 3
  MaxCrashes = 1
INVARIANTS NoCycleSaved NoDuplicates
PROPERTY LatestState
SYMMETRY Symmetry
