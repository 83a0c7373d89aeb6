SPECIFICATION Spec
CONSTANTS
  found = found
  planned = planned
  Ticket = {found, planned}
  FirstState <- FirstStates
  FirstFields <- FirstHas
  Risky = {planned}
  Faults = {}
  Moves = {"IMPLEMENT", "REVIEW", "REWORK", "VERIFY", "COMPLETE", "SUPERSEDED"}
  MaxVersion <- Versions
  MaxBatch = 2
  MaxArtifacts = 1
  MaxCrashes = 0
CHECK_DEADLOCK FALSE
INVARIANTS RejectionsAreHeard
