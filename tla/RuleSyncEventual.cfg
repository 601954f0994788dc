SPECIFICATION FairSpec
CONSTANTS
  n1 = n1  n2 = n2  t1 = t1  t2 = t2  p = p  q = q  r1 = r1  r2 = r2  r3 = r3
  Worker = worker
  None = none
  Nodes = {n1, n2}
  Threads = {t1}
  Policies = {p, q}
  DefaultPolicies = {p, q}
  Rules = {r1, r2}
  Facts = {}
  Recursive = {}
  Operations <- Inserts
  Replicated = TRUE
  DbFails = FALSE
  MaxRequests = 2
  MaxCrashes = 0
PROPERTY Converges
