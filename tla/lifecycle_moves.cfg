SPECIFICATION Spec
CONSTANTS
  found = found
  planned = planned
  Ticket = {found, planned}
  FirstState <- FirstStates
  FirstFields <- FirstHas
  Risky = {planned}
  Faults = {"log", "artifact"}
  Moves = {"IMPLEMENT", "REVIEW", "REWORK", "VERIFY", "COMPLETE", "SUPERSEDED"}
  MaxVersion <- Versions
  MaxBatch = 2
  MaxArtifacts = 1
  MaxCrashes = 1
CHECK_DEADLOCK FALSE
INVARIANTS IndexMatchesTickets CallsAreDurable WorkIsResumable CompleteIsEarned
PROPERTIES ClosedStaysClosed RefusalsAreRemembered PatchesAreInformed
