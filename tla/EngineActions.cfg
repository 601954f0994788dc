SPECIFICATION Spec
CONSTANTS
  s1 = s1  s2 = s2  p = p  q = q   a1 = a1  a2 = a2
  Tables = {s1, s2, p, q, a1, a2}
  Sources = {s1, s2}
  Rules <- AllRules
  MaxBatch = 2
  MaxRefs = 2
INVARIANTS RunsItsAction
