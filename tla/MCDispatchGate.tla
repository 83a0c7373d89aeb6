--------------------------- MODULE MCDispatchGate ---------------------------
(* DispatchGate on small instances. *)
EXTENDS DispatchGate, TLC

CONSTANTS a1, a2, a3, r1, r2

\* Two agents of one role and one of another.
TwoRoles == (a1 :> r1) @@ (a2 :> r1) @@ (a3 :> r2)

TicketThreadSymmetry == Permutations(Ticket) \cup Permutations(Thread)
=============================================================================
