SPECIFICATION Spec
CONSTANTS
  t1 = t1
  t2 = t2
  w1 = w1
  NoSaver = NoSaver
  Ticket = {t1, t2}
  Worker = {w1}
  Flusher = {}
  FullSaveInterval = 3
  SmallSaves = TRUE
  Ops = {"add", "transition", "batch", "record_commit", "update_context", "remove"}
  Faults = {"append", "io", "lock", "replace", "crash"}
  MaxClock = 3
  MaxFaults = 2
SYMMETRY TicketSymmetry
INVARIANT MergeIsTheLoop
PROPERTIES UnlinkOnlyCompacted
CHECK_DEADLOCK FALSE
