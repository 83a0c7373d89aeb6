---------------------------- MODULE DispatchGate ----------------------------
(***************************************************************************)
(* The dispatch gate of codebot/scheduler_v2/dispatch_gate.py: concurrency *)
(* slots (memory, under a lock), claim files (one per ticket, under a flock), *)
(* the spawn queue (memory, under a lock) and the table of active dispatches *)
(* (memory, under the gate's lock).  No lock spans two of them, so a call is *)
(* a sequence of atomic steps and the calls of several threads interleave.  *)
(*                                                                         *)
(* Every dispatch has an agent id of its own (a fresh uuid4), so a slot    *)
(* token, a queue entry and an active entry are named by their agent.      *)
(***************************************************************************)
EXTENDS Naturals, Sequences, FiniteSets

CONSTANTS
  Thread, Agent, Ticket, Role,
  NoAgent, NoTicket,
  RoleOf,      \* the role each agent is dispatched for
  MaxSlots,    \* MAX_CONCURRENCY
  Faults       \* I/O errors that may happen: a subset of {"claim", "unlink"}

ASSUME GateAssumption ==
  /\ NoAgent \notin Agent
  /\ NoTicket \notin Ticket
  /\ RoleOf \in [Agent -> Role]
  /\ MaxSlots \in Nat \ {0}
  /\ Faults \subseteq {"claim", "unlink"}

VARIABLES
  tokens,   \* ConcurrencyController._tokens
  claims,   \* the owner in each ticket's claim file, NoAgent without a file
  queue,    \* SpawnQueue._queue
  cooling,  \* the roles whose last start is less than the stagger ago
  active,   \* the agents in DispatchGate._active
  target,   \* the ticket each agent was dispatched for; NoTicket for an unused id
  handed,   \* the agents dequeue_ready has handed out to be started
  stuck,    \* history: the tickets whose claim file could not be removed
  job       \* where each thread is inside a call, and for which agent

vars == <<tokens, claims, queue, cooling, active, target, handed, stuck, job>>
gateVars == <<tokens, claims, active>>
queueVars == <<queue, cooling, handed>>

Idle == [pc |-> "idle", agent |-> NoAgent]
At(th, pc) == job[th].pc = pc
Goto(th, pc) == job' = [job EXCEPT ![th].pc = pc]
Return(th) == job' = [job EXCEPT ![th] = Idle]
TicketOf(th) == target[job[th].agent]

Taken(i) == SubSeq(queue, 1, i - 1) \o SubSeq(queue, i + 1, Len(queue))

\* SpawnQueue.cancel: the first entry of the agent is deleted, if there is one.
CancelQueued(a) ==
  IF \E i \in 1..Len(queue) : queue[i] = a
    THEN \E i \in 1..Len(queue) :
           /\ queue[i] = a /\ \A j \in 1..(i - 1) : queue[j] # a
           /\ queue' = Taken(i)
    ELSE UNCHANGED queue

Init ==
  /\ tokens = {} /\ active = {} /\ handed = {} /\ stuck = {} /\ cooling = {}
  /\ claims = [t \in Ticket |-> NoAgent]
  /\ queue = <<>>
  /\ target = [a \in Agent |-> NoTicket]
  /\ job = [th \in Thread |-> Idle]

-----------------------------------------------------------------------------
(* try_dispatch *)

\* Mutant: the capacity is not tested.
ReserveUnbounded(th, a, t) ==
  /\ At(th, "idle") /\ target[a] = NoTicket
  /\ target' = [target EXCEPT ![a] = t]
  /\ tokens' = tokens \cup {a}
  /\ job' = [job EXCEPT ![th] = [pc |-> "claim", agent |-> a]]
  /\ UNCHANGED <<claims, active, stuck, queueVars>>

\* ConcurrencyController.reserve: NO_CAPACITY, or a token.
Reserve(th, a, t) ==
  /\ At(th, "idle") /\ target[a] = NoTicket
  /\ target' = [target EXCEPT ![a] = t]
  /\ \/ /\ Cardinality(tokens) >= MaxSlots
        /\ UNCHANGED <<tokens, job>>
     \/ /\ Cardinality(tokens) < MaxSlots
        /\ tokens' = tokens \cup {a}
        /\ job' = [job EXCEPT ![th] = [pc |-> "claim", agent |-> a]]
  /\ UNCHANGED <<claims, active, stuck, queueVars>>

\* Mutant: an existing claim file is overwritten.
ClaimAnyway(th) ==
  /\ At(th, "claim")
  /\ claims' = [claims EXCEPT ![TicketOf(th)] = job[th].agent]
  /\ Goto(th, "enqueue")
  /\ UNCHANGED <<tokens, active, target, stuck, queueVars>>

\* claim_ticket, under the ticket's flock: the file is created for this agent,
\* or it is another agent's, or an OSError leaves it as it is.
Claim(th) ==
  LET t == TicketOf(th) IN
  /\ At(th, "claim")
  /\ \/ /\ claims[t] = NoAgent
        /\ claims' = [claims EXCEPT ![t] = job[th].agent]
        /\ Goto(th, "enqueue")
     \/ /\ claims[t] # NoAgent \/ "claim" \in Faults
        /\ Goto(th, "unreserve")
        /\ UNCHANGED claims
  /\ UNCHANGED <<tokens, active, target, stuck, queueVars>>

\* Mutant: a refused claim keeps its slot.
UnreserveNot(th) ==
  /\ At(th, "unreserve") /\ Return(th)
  /\ UNCHANGED <<tokens, claims, active, target, stuck, queueVars>>

Unreserve(th) ==
  /\ At(th, "unreserve")
  /\ tokens' = tokens \ {job[th].agent}
  /\ Return(th)
  /\ UNCHANGED <<claims, active, target, stuck, queueVars>>

Enqueue(th) ==
  /\ At(th, "enqueue")
  /\ queue' = Append(queue, job[th].agent)
  /\ Goto(th, "record")
  /\ UNCHANGED <<gateVars, target, stuck, cooling, handed>>

Record(th) ==
  /\ At(th, "record")
  /\ active' = active \cup {job[th].agent}
  /\ Return(th)
  /\ UNCHANGED <<tokens, claims, target, stuck, queueVars>>

-----------------------------------------------------------------------------
(* dequeue_ready: for each role in the queue, the oldest request of that role *)
(* unless the role's last start is too recent                               *)

\* Mutant: the newest request of the role is taken.
DequeueNewest(r) ==
  /\ r \notin cooling
  /\ \E i \in 1..Len(queue) :
       /\ RoleOf[queue[i]] = r
       /\ \A j \in (i + 1)..Len(queue) : RoleOf[queue[j]] # r
       /\ queue' = Taken(i)
       /\ handed' = handed \cup {queue[i]}
  /\ cooling' = cooling \cup {r}
  /\ UNCHANGED <<gateVars, target, stuck, job>>

DequeueReady(r) ==
  /\ r \notin cooling
  /\ \E i \in 1..Len(queue) :
       /\ RoleOf[queue[i]] = r
       /\ \A j \in 1..(i - 1) : RoleOf[queue[j]] # r
       /\ queue' = Taken(i)
       /\ handed' = handed \cup {queue[i]}
  /\ cooling' = cooling \cup {r}
  /\ UNCHANGED <<gateVars, target, stuck, job>>

StaggerElapses(r) ==
  /\ r \in cooling
  /\ cooling' = cooling \ {r}
  /\ UNCHANGED <<gateVars, queue, handed, target, stuck, job>>

-----------------------------------------------------------------------------
(* cancel_dispatch, complete_dispatch, release_claim *)

\* Callers know an agent from the request handed out to them or, the
\* reconciling scheduler, from the table of active dispatches.
Known(a) == a \in handed \cup active

CancelCalled(th, a) ==
  /\ At(th, "idle") /\ Known(a)
  /\ CancelQueued(a)
  /\ job' = [job EXCEPT ![th] = [pc |-> "pop", agent |-> a]]
  /\ UNCHANGED <<gateVars, cooling, handed, target, stuck>>

CompleteCalled(th, a) ==
  /\ At(th, "idle") /\ Known(a)
  /\ job' = [job EXCEPT ![th] = [pc |-> "pop", agent |-> a]]
  /\ UNCHANGED <<gateVars, queueVars, target, stuck>>

\* _active.pop under the gate's lock: the caller that finds the entry goes on.
Pop(th) ==
  /\ At(th, "pop")
  /\ IF job[th].agent \in active
       THEN active' = active \ {job[th].agent} /\ Goto(th, "owner")
       ELSE Return(th) /\ UNCHANGED active
  /\ UNCHANGED <<tokens, claims, target, stuck, queueVars>>

\* Mutant: the slot is given back before the claim file is removed.
CheckOwnerReleases(th) ==
  /\ At(th, "owner")
  /\ Goto(th, "unlink")
  /\ tokens' = tokens \ {job[th].agent}
  /\ UNCHANGED <<claims, active, target, stuck, queueVars>>

\* release_claim reads the owner before it takes the flock.
CheckOwner(th) ==
  /\ At(th, "owner")
  /\ Goto(th, IF claims[TicketOf(th)] = job[th].agent THEN "unlink" ELSE "release")
  /\ UNCHANGED <<gateVars, target, stuck, queueVars>>

\* Under the flock the file is unlinked if it exists, whoever owns it now;
\* or an OSError leaves it, and the call goes on.
Unlink(th) ==
  /\ At(th, "unlink")
  /\ \/ claims' = [claims EXCEPT ![TicketOf(th)] = NoAgent] /\ UNCHANGED stuck
     \/ "unlink" \in Faults /\ stuck' = stuck \cup {TicketOf(th)} /\ UNCHANGED claims
  /\ Goto(th, "release")
  /\ UNCHANGED <<tokens, active, target, queueVars>>

ReleaseToken(th) ==
  /\ At(th, "release")
  /\ tokens' = tokens \ {job[th].agent}
  /\ Goto(th, "withdraw")
  /\ UNCHANGED <<claims, active, target, stuck, queueVars>>

\* The last step of either call: a request still queued is withdrawn.
Withdraw(th) ==
  /\ At(th, "withdraw")
  /\ CancelQueued(job[th].agent)
  /\ Return(th)
  /\ UNCHANGED <<gateVars, cooling, handed, target, stuck>>

-----------------------------------------------------------------------------
Step(th) ==
  \/ \E a \in Agent : \/ \E t \in Ticket : Reserve(th, a, t)
                      \/ CancelCalled(th, a)
                      \/ CompleteCalled(th, a)
  \/ Claim(th) \/ Unreserve(th) \/ Enqueue(th) \/ Record(th)
  \/ Pop(th) \/ CheckOwner(th) \/ Unlink(th) \/ ReleaseToken(th) \/ Withdraw(th)

Next ==
  \/ \E th \in Thread : Step(th)
  \/ \E r \in Role : DequeueReady(r) \/ StaggerElapses(r)

Spec == Init /\ [][Next]_vars

-----------------------------------------------------------------------------
(* Properties *)

Pcs == {"idle", "claim", "unreserve", "enqueue", "record", "pop", "owner", "unlink", "release",
        "withdraw"}

\* The types of the gate's state and of a call's locals: a call under way knows
\* its agent.
TypeOK ==
  /\ tokens \subseteq Agent /\ IsFiniteSet(tokens)
  /\ claims \in [Ticket -> Agent \cup {NoAgent}]
  /\ queue \in Seq(Agent)
  /\ cooling \subseteq Role
  /\ active \subseteq Agent /\ handed \subseteq Agent /\ stuck \subseteq Ticket \cup {NoTicket}
  /\ target \in [Agent -> Ticket \cup {NoTicket}]
  /\ job \in [Thread -> [pc : Pcs, agent : Agent \cup {NoAgent}]]
  /\ \A th \in Thread : At(th, "idle") \/ job[th].agent \in Agent

\* The owner of a ticket's claim file; a file left by a failed unlink has none
\* (and keeps the ticket from being claimed).
OwnerOf(t) == IF t \in stuck THEN NoAgent ELSE claims[t]

\* MAX_CONCURRENCY bounds the agents at work, not only the tokens: whoever
\* owns a ticket holds a slot, during every step of every call (a slot is
\* taken before the claim and given back after it).
ClaimHasSlot ==
  /\ Cardinality(tokens) <= MaxSlots
  /\ \A t \in Ticket : OwnerOf(t) # NoAgent => OwnerOf(t) \in tokens

\* An active dispatch owns its ticket's claim file and a slot, whatever other
\* calls are doing: no interleaving lets a release remove another agent's claim.
ActiveOwnsClaim ==
  \A a \in active : a \in tokens /\ OwnerOf(target[a]) = a

\* When no call is under way, slots, owners and active dispatches agree: no
\* refused, cancelled or completed dispatch leaves a slot or a claim behind.
QuiescentBalance ==
  (\A th \in Thread : At(th, "idle")) =>
    /\ tokens = active
    /\ {OwnerOf(t) : t \in Ticket} \ {NoAgent} = active

\* Requests of one role are handed out in the order they were queued.
RoleFifo ==
  [][\A i, j \in 1..Len(queue) :
       /\ i < j
       /\ RoleOf[queue[i]] = RoleOf[queue[j]]
       /\ queue[j] \in handed' \ handed
       => queue[i] \in handed']_vars

\* The gate implements the ownership of tickets: a claim file created is an
\* acquisition within the limit, the end of a dispatch a release.
owners == [t \in Ticket |-> OwnerOf(t)]
Ownership == INSTANCE WorkOwnership WITH owner <- owners
ImplementsOwnership == Ownership!Spec
=============================================================================
