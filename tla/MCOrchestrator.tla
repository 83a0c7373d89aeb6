--------------------------- MODULE MCOrchestrator ---------------------------
(* Orchestrator on small instances: an agent id is a role, a ticket and a *)
(* number that tells successive dispatches apart.                          *)
EXTENDS Orchestrator, TLC

CONSTANTS t1, t2, p1

\* Two implementers whose bots have one name, and the next stage of one ticket.
Staff == {<<"implementer", t1, 1>>, <<"implementer", t2, 1>>, <<"reviewer", t1, 1>>}
RoleOfId == [a \in Agent |-> a[1]]
TicketOfId == [a \in Agent |-> a[2]]

SharedName == (t1 :> p1) @@ (t2 :> p1)
=============================================================================
