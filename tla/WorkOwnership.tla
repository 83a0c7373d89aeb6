--------------------------- MODULE WorkOwnership ---------------------------
(***************************************************************************)
(* What the dispatch gate promises, without its steps: a ticket is owned by *)
(* at most one agent, an agent owns at most one ticket, and at most         *)
(* MaxSlots agents own one.  Tickets are freed one by one, or all those of  *)
(* a process that dies.                                                     *)
(***************************************************************************)
EXTENDS Naturals, FiniteSets

CONSTANTS Ticket, Agent, NoAgent, MaxSlots
VARIABLE owner   \* the agent that owns each ticket

Owners == {owner[t] : t \in Ticket} \ {NoAgent}

Init == owner = [t \in Ticket |-> NoAgent]

Acquire(t, a) ==
  /\ owner[t] = NoAgent
  /\ a \notin Owners
  /\ Cardinality(Owners) < MaxSlots
  /\ owner' = [owner EXCEPT ![t] = a]

\* Owned tickets become free, and nothing else changes.
Release(S) ==
  /\ S # {} /\ \A t \in S : owner[t] # NoAgent
  /\ owner' = [t \in Ticket |-> IF t \in S THEN NoAgent ELSE owner[t]]

Next ==
  \/ \E t \in Ticket, a \in Agent : Acquire(t, a)
  \/ \E S \in SUBSET Ticket : Release(S)

Spec == Init /\ [][Next]_owner
=============================================================================
