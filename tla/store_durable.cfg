SPECIFICATION Spec
CONSTANTS
  t1 = t1
  t2 = t2
  f1 = f1
  NoSaver = NoSaver
  Ticket = {t1, t2}
  Worker = {}
  Flusher = {f1}
  FullSaveInterval = 1
  SmallSaves = TRUE
  Ops = {"add", "transition", "batch", "record_commit", "update_context", "remove"}
  Faults = {"io", "lock", "replace", "crash"}
  MaxClock = 3
  MaxFaults = 2
SYMMETRY TicketSymmetry
INVARIANTS AckedDurable
PROPERTIES ImplementsDurableMap
CHECK_DEADLOCK FALSE
