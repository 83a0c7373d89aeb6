SPECIFICATION Spec
CONSTANTS
  t1 = t1
  t2 = t2
  fp = fp
  fq = fq
  NoSaver = NoSaver
  Ticket = {t1, t2}
  SaverP = {fp}
  SaverQ = {fq}
  Ops = {"add", "transition"}
  MaxClock = 3
INVARIANTS NoLostUpdate
CHECK_DEADLOCK FALSE
