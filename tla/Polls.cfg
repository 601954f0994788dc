SPECIFICATION FairSpec
CONSTANTS
  Eager = {eager}
  Lazy = {lazy}
  Callers = {c1}
  NotYet = NotYet
  MaxChanges = 2
  MaxErrors = 1
INVARIANTS TypeOK RestIsPublished
PROPERTIES Fresh RefreshServed RequestsReturn
CHECK_DEADLOCK FALSE
