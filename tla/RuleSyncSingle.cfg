SPECIFICATION Spec
CONSTANTS
  n1 = n1  n2 = n2  t1 = t1  t2 = t2  p = p  q = q  r1 = r1  r2 = r2  r3 = r3
  Worker = worker
  None = none
  Nodes = {n1}
  Threads = {t1, t2}
  Policies = {p}
  DefaultPolicies = {}
  Rules = {r1, r2, r3}
  Facts = {r3}
  Recursive <- OneCycle
  Operations <- NoDeletions
  Replicated = FALSE
  DbFails = TRUE
  MaxRequests = 4
  MaxCrashes = 1
INVARIANTS Enforced NoCycleSaved
SYMMETRY Symmetry
