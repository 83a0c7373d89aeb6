SPECIFICATION FairSpec
CONSTANTS
  t1 = t1
  t2 = t2
  w1 = w1
  f1 = f1
  NoSaver = NoSaver
  Ticket = {t1, t2}
  Worker = {w1}
  Flusher = {f1}
  FullSaveInterval = 3
  SmallSaves = TRUE
  Ops = {"add", "transition", "batch"}
  Faults = {"lock", "replace", "crash"}
  MaxClock = 3
  MaxFaults = 1
 
PROPERTIES DirtyIsSaved
CHECK_DEADLOCK FALSE
