SPECIFICATION Spec
CONSTANTS
  d1 = d1
  d2 = d2
  f = f
  h1 = h1
  h2 = h2
  Dest = {d1, d2}
  Field = {f}
  Needs <- NeedsOf
  Thread = {h1, h2}
  MAX_REPAIR_EXECUTIONS = 2
  MaxVersion = 2
  MaxCrashes = 1
SYMMETRY Threads
INVARIANTS OneActiveClaim CompletedIsReached
CHECK_DEADLOCK FALSE
