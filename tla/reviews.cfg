CONSTANTS
  Tickets = {"t1", "t2"}
  Verifiers = {"v1", "v2"}
  Files = {"a"}
  Contents = {c1, c2}
  Of <- MCOf
  Touches <- MCTouches
  Modules <- MCModules
  Classes = {"bug"}
  MaxRuns <- MCRuns
  MaxChanges = 1
  LogFaults = {"write"}
SPECIFICATION Spec
INVARIANTS  DecisionsAreKept
SYMMETRY Symmetry
CHECK_DEADLOCK FALSE
