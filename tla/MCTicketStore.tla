--------------------------- MODULE MCTicketStore ---------------------------
(* TicketStore on small instances. *)
EXTENDS TicketStore, TLC

TicketSymmetry == Permutations(Ticket)
=============================================================================
