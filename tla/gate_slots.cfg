SPECIFICATION Spec
CONSTANTS
  a1 = a1
  a2 = a2
  a3 = a3
  r1 = r1
  r2 = r2
  t1 = t1
  t2 = t2
  t3 = t3
  h1 = h1
  h2 = h2
  NoAgent = NoAgent
  NoTicket = NoTicket
  Thread = {h1, h2}
  Agent = {a1, a2, a3}
  Ticket = {t1, t2, t3}
  Role = {r1, r2}
  RoleOf <- TwoRoles
  MaxSlots = 2
  Faults = {"claim", "unlink"}
SYMMETRY TicketThreadSymmetry
INVARIANTS ClaimHasSlot ActiveOwnsClaim QuiescentBalance
PROPERTIES RoleFifo ImplementsOwnership
CHECK_DEADLOCK FALSE
