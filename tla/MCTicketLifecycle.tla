------------------------- MODULE MCTicketLifecycle -------------------------
(* TicketLifecycle on two tickets: one just found, with what its finder    *)
(* fills in, and one that has come as far as its planning.                 *)
EXTENDS TicketLifecycle, TLC

CONSTANTS found, planned

Filled == Field \ {"attempts", "rework_count", "goal_disposition", "reviewer_feedback",
                   "commit_sha", "origin_id"}

FirstStates == (found :> "TRIAGED") @@ (planned :> "PLANNING")
FirstHas == (found :> Filled) @@ (planned :> Filled)
Versions == (found :> 1) @@ (planned :> 5)
=============================================================================
