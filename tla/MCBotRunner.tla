----------------------------- MODULE MCBotRunner -----------------------------
(* Two bots that share the scratchpad of a ticket, an implementer and the reviewer, *)
(* or a discovery bot on its own.                                                   *)
EXTENDS BotRunner

CONSTANTS implementer, reviewer, hunter, ticket, own

MCPadOf == [b \in Bot |-> IF b = hunter THEN own ELSE ticket]

VARIABLE crew  \* the bots of this behaviour

MCInit == RunnerInit /\ crew \in {{implementer, reviewer}, {hunter}}
MCNext == RunnerNext /\ (\A b \in Bot \ crew : pc'[b] = "off") /\ UNCHANGED crew

MCSpec == MCInit /\ [][MCNext]_<<runnerVars, crew>> /\ Fairness
=============================================================================
