SPECIFICATION FairSpec
CONSTANTS
  t1 = t1
  t2 = t2
  p1 = p1
  NoAgent = NoAgent
  NoTicket = NoTicket
  Agent <- Staff
  WorkRole <- RoleOfId
  WorkTicket <- TicketOfId
  Ticket = {t1, t2}
  Prefix = {p1}
  PrefixOf <- SharedName
  Numeric = {}
  FirstState = {"IMPLEMENT", "REVIEW"}
  MaxSlots = 2
  Reports = {"code"}
  Faults = {"start", "unlink"}
  MaxCrashes = 1
INVARIANTS WorkIsOwned DeadOwnsNothing
PROPERTIES SlotsFollowBots ClaimsEnd
