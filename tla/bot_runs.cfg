SPECIFICATION MCSpec
CONSTANTS
  implementer = implementer
  reviewer = reviewer
  hunter = hunter
  ticket = ticket
  own = own
  NoBot = NoBot
  NoPad = NoPad
  Bot = {implementer, reviewer, hunter}
  Pad = {ticket, own}
  PadOf <- MCPadOf
  Implementer = {implementer}
  Hunter = {hunter}
  Followed = hunter
  ReadsCodes = TRUE
  MaxCrashes = 1
  Chain = 1
  HasFallback = TRUE
  MaxQuarters = 2
  MaxNudges = 1
  MaxRetries = 1
  MaxTimeouts = 1
  Max429 = 2
INVARIANTS FailuresAreBounded GivesUpLate CompletionIsHandedOn
PROPERTIES MarkerIsEarned  BotsEnd ImplementsBotRun
