-------------------------- MODULE MCContextRepair --------------------------
(* ContextRepair for a ticket with two moves, one of which asks for more.  *)
EXTENDS ContextRepair, TLC

CONSTANTS d1, d2, f

NeedsOf == [d \in Dest |-> {f}]
Threads == Permutations(Thread)
=============================================================================
