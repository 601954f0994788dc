SPECIFICATION FairSpec
CONSTANTS
  d1 = d1  d2 = d2  n1 = n1  n2 = n2
  Ids = {d1, d2}
  Names = {n1, n2}
  NameOf <- OwnNames
  None = None
  MaxFaults = 2
INVARIANTS TypeOK
PROPERTIES ServicesKept PoliciesKept Converges
