------------------------ MODULE DispatchGate_proofs ------------------------
(***************************************************************************)
(* Proofs about the dispatch gate, for any number of threads, agents and   *)
(* tickets.  SlotInv says which calls stand for which agent: a slot belongs *)
(* to one agent, at most one call is past its first step for it, and while  *)
(* that call is between its claim and its unlink, or the dispatch is active, *)
(* the claim file is the agent's.  BalanceInv is the converse: a slot or a  *)
(* claim file without a call or an active dispatch behind it does not exist. *)
(***************************************************************************)
EXTENDS DispatchGate, FiniteSetTheorems, SequenceTheorems, TLAPS

Pc(th) == job[th].pc
Ag(th) == job[th].agent
EngagedPcs == {"claim", "unreserve", "enqueue", "record", "owner", "unlink", "release"}
OwningPcs == {"enqueue", "record", "owner", "unlink"}

EngagedHasSlot ==
  \A th \in Thread : Pc(th) \in EngagedPcs =>
    Ag(th) \in tokens /\ Ag(th) \notin active
OneCallPerAgent ==
  \A h1, h2 \in Thread :
    Pc(h1) \in EngagedPcs /\ Pc(h2) \in EngagedPcs /\ h1 # h2 => Ag(h1) # Ag(h2)
OwningOwns ==
  \A th \in Thread : Pc(th) \in OwningPcs =>
    claims[target[Ag(th)]] = Ag(th) /\ target[Ag(th)] \notin stuck
StuckClaimed == \A t \in Ticket : t \in stuck => claims[t] # NoAgent
SlotHasTarget == \A a \in tokens : target[a] \in Ticket
WithinLimit == Cardinality(tokens) <= MaxSlots

ActiveHasClaim ==
  \A a \in active : a \in tokens /\ claims[target[a]] = a /\ target[a] \notin stuck

SlotInv ==
  /\ EngagedHasSlot /\ OneCallPerAgent /\ OwningOwns
  /\ StuckClaimed /\ SlotHasTarget /\ WithinLimit /\ ActiveHasClaim

ClaimBacked ==
  \A t \in Ticket \ stuck : claims[t] # NoAgent =>
    /\ target[claims[t]] = t
    /\ \/ claims[t] \in active
       \/ \E th \in Thread : Pc(th) \in OwningPcs /\ Ag(th) = claims[t]
SlotBacked ==
  \A a \in tokens :
    a \in active \/ \E th \in Thread : Pc(th) \in EngagedPcs /\ Ag(th) = a

BalanceInv == ClaimBacked /\ SlotBacked

-----------------------------------------------------------------------------
(* Lemmas *)

\* Deleting one entry of the queue leaves a sequence of agents.
LEMMA TakenType ==
  ASSUME NEW q \in Seq(Agent), NEW i \in 1..Len(q)
  PROVE  SubSeq(q, 1, i - 1) \o SubSeq(q, i + 1, Len(q)) \in Seq(Agent)
<1>1. Len(q) \in Nat /\ \A j \in 1..Len(q) : q[j] \in Agent
  BY LenProperties, ElementOfSeq
<1>2. SubSeq(q, 1, i - 1) \in Seq(Agent)
  BY <1>1, SubSeqProperties
<1>3. SubSeq(q, i + 1, Len(q)) \in Seq(Agent)
  BY <1>1, SubSeqProperties
<1>4. QED
  BY <1>2, <1>3, ConcatProperties

LEMMA CancelType ==
  ASSUME queue \in Seq(Agent), NEW a, CancelQueued(a)
  PROVE  queue' \in Seq(Agent)
BY TakenType DEF CancelQueued, Taken

JobType ==
  /\ job \in [Thread -> [pc : Pcs, agent : Agent \cup {NoAgent}]]
  /\ \A th \in Thread : Pc(th) = "idle" \/ Ag(th) \in Agent

\* What the three ways a call moves on do to the threads' locals.
LEMMA GotoJob ==
  ASSUME JobType, NEW th \in Thread, NEW p \in Pcs, Goto(th, p), Pc(th) # "idle"
  PROVE  /\ JobType'
         /\ Pc(th)' = p /\ Ag(th)' = Ag(th)
         /\ \A h \in Thread : h # th => Pc(h)' = Pc(h) /\ Ag(h)' = Ag(h)
BY DEF JobType, Goto, Pc, Ag

LEMMA ReturnJob ==
  ASSUME JobType, NEW th \in Thread, Return(th)
  PROVE  /\ JobType'
         /\ Pc(th)' = "idle"
         /\ \A h \in Thread : h # th => Pc(h)' = Pc(h) /\ Ag(h)' = Ag(h)
BY DEF JobType, Return, Idle, Pc, Ag, Pcs

LEMMA StartJob ==
  ASSUME JobType, NEW th \in Thread, NEW p \in Pcs, NEW a \in Agent,
         job' = [job EXCEPT ![th] = [pc |-> p, agent |-> a]]
  PROVE  /\ JobType'
         /\ Pc(th)' = p /\ Ag(th)' = a
         /\ \A h \in Thread : h # th => Pc(h)' = Pc(h) /\ Ag(h)' = Ag(h)
BY DEF JobType, Pc, Ag

RestType ==
  /\ tokens \subseteq Agent /\ IsFiniteSet(tokens)
  /\ claims \in [Ticket -> Agent \cup {NoAgent}]
  /\ queue \in Seq(Agent)
  /\ cooling \subseteq Role
  /\ active \subseteq Agent /\ handed \subseteq Agent /\ stuck \subseteq Ticket \cup {NoTicket}
  /\ target \in [Agent -> Ticket \cup {NoTicket}]

LEMMA TypeSplit == (TypeOK <=> RestType /\ JobType) /\ (TypeOK' <=> RestType' /\ JobType')
BY DEF TypeOK, RestType, JobType, Pc, Ag, At

-----------------------------------------------------------------------------
\* Type correctness of the gate.
THEOREM GateTypeCorrect == Spec => []TypeOK
<1>1. Init => TypeOK
  <2>1. IsFiniteSet({})
    BY FS_EmptySet
  <2>2. QED
    BY <2>1 DEF Init, TypeOK, Idle, Pcs, At
<1>2. TypeOK /\ [Next]_vars => TypeOK'
  <2> SUFFICES ASSUME RestType, JobType, [Next]_vars PROVE RestType' /\ JobType'
    BY TypeSplit
  <2> USE DEF RestType, gateVars, queueVars
  <2>1. ASSUME NEW th \in Thread, NEW a \in Agent, NEW t \in Ticket, Reserve(th, a, t)
        PROVE  RestType' /\ JobType'
    <3>1. IsFiniteSet(tokens') /\ tokens' \subseteq Agent
      BY <2>1, FS_AddElement DEF Reserve
    <3>2. JobType'
      <4>1. CASE UNCHANGED job
        BY <4>1 DEF JobType, Pc, Ag
      <4>2. CASE job' = [job EXCEPT ![th] = [pc |-> "claim", agent |-> a]]
        BY <4>2, StartJob DEF Pcs
      <4>3. QED
        BY <2>1, <4>1, <4>2 DEF Reserve
    <3>3. QED
      BY <2>1, <3>1, <3>2 DEF Reserve
  <2>2. ASSUME NEW th \in Thread, NEW a \in Agent, CancelCalled(th, a)
        PROVE  RestType' /\ JobType'
    <3>1. JobType'
      BY <2>2, StartJob DEF CancelCalled, Pcs
    <3>2. queue' \in Seq(Agent)
      BY <2>2, CancelType DEF CancelCalled
    <3>3. QED
      BY <2>2, <3>1, <3>2 DEF CancelCalled
  <2>3. ASSUME NEW th \in Thread, NEW a \in Agent, CompleteCalled(th, a)
        PROVE  RestType' /\ JobType'
    <3>1. JobType'
      BY <2>3, StartJob DEF CompleteCalled, Pcs
    <3>2. QED
      BY <2>3, <3>1 DEF CompleteCalled
  <2>4. ASSUME NEW th \in Thread, Claim(th) PROVE RestType' /\ JobType'
    <3>1. JobType' /\ Ag(th) \in Agent
      BY <2>4, GotoJob DEF Claim, At, Pc, Pcs, JobType
    <3>2. claims' \in [Ticket -> Agent \cup {NoAgent}]
      BY <2>4, <3>1 DEF Claim, Ag
    <3>3. QED
      BY <2>4, <3>1, <3>2 DEF Claim
  <2>5. ASSUME NEW th \in Thread, Unreserve(th) PROVE RestType' /\ JobType'
    <3>1. JobType'
      BY <2>5, ReturnJob DEF Unreserve
    <3>2. IsFiniteSet(tokens')
      BY <2>5, FS_RemoveElement DEF Unreserve
    <3>3. QED
      BY <2>5, <3>1, <3>2 DEF Unreserve
  <2>6. ASSUME NEW th \in Thread, Enqueue(th) PROVE RestType' /\ JobType'
    <3>1. JobType' /\ Ag(th) \in Agent
      BY <2>6, GotoJob DEF Enqueue, At, Pc, Pcs, JobType
    <3>2. queue' \in Seq(Agent)
      BY <2>6, <3>1, AppendProperties DEF Enqueue, Ag
    <3>3. QED
      BY <2>6, <3>1, <3>2 DEF Enqueue
  <2>7. ASSUME NEW th \in Thread, Record(th) PROVE RestType' /\ JobType'
    <3>1. JobType' /\ Ag(th) \in Agent
      BY <2>7, ReturnJob DEF Record, At, Pc, JobType
    <3>2. QED
      BY <2>7, <3>1 DEF Record, Ag
  <2>8. ASSUME NEW th \in Thread, Pop(th) PROVE RestType' /\ JobType'
    <3>1. JobType' /\ Ag(th) \in Agent
      BY <2>8, GotoJob, ReturnJob DEF Pop, At, Pc, Pcs, JobType
    <3>2. QED
      BY <2>8, <3>1 DEF Pop, Ag
  <2>9. ASSUME NEW th \in Thread, CheckOwner(th) PROVE RestType' /\ JobType'
    <3>1. JobType'
      BY <2>9, GotoJob DEF CheckOwner, At, Pc, Pcs
    <3>2. QED
      BY <2>9, <3>1 DEF CheckOwner
  <2>10. ASSUME NEW th \in Thread, Unlink(th) PROVE RestType' /\ JobType'
    <3>1. JobType'
      BY <2>10, GotoJob DEF Unlink, At, Pc, Pcs
    <3>2. claims' \in [Ticket -> Agent \cup {NoAgent}]
      BY <2>10 DEF Unlink
    <3>3. stuck' \subseteq Ticket \cup {NoTicket}
      BY <2>10 DEF Unlink, TicketOf, At, JobType, Pc, Ag
    <3>4. QED
      BY <2>10, <3>1, <3>2, <3>3 DEF Unlink
  <2>11. ASSUME NEW th \in Thread, ReleaseToken(th) PROVE RestType' /\ JobType'
    <3>1. JobType'
      BY <2>11, GotoJob DEF ReleaseToken, At, Pc, Pcs
    <3>2. IsFiniteSet(tokens')
      BY <2>11, FS_RemoveElement DEF ReleaseToken
    <3>3. QED
      BY <2>11, <3>1, <3>2 DEF ReleaseToken
  <2>12. ASSUME NEW r \in Role, DequeueReady(r) PROVE RestType' /\ JobType'
    <3>1. queue' \in Seq(Agent)
      BY <2>12, TakenType DEF DequeueReady, Taken
    <3>2. handed' \subseteq Agent
      BY <2>12, ElementOfSeq DEF DequeueReady
    <3>3. QED
      BY <2>12, <3>1, <3>2 DEF DequeueReady, JobType, Pc, Ag
  <2>13. ASSUME NEW r \in Role, StaggerElapses(r) PROVE RestType' /\ JobType'
    BY <2>13 DEF StaggerElapses, JobType, Pc, Ag
  <2>14. ASSUME NEW th \in Thread, Withdraw(th) PROVE RestType' /\ JobType'
    <3>1. JobType'
      BY <2>14, ReturnJob DEF Withdraw
    <3>2. queue' \in Seq(Agent)
      BY <2>14, CancelType DEF Withdraw
    <3>3. QED
      BY <2>14, <3>1, <3>2 DEF Withdraw
  <2>15. CASE UNCHANGED vars
    BY <2>15 DEF vars, JobType, Pc, Ag
  <2>16. QED
    BY <2>1, <2>2, <2>3, <2>4, <2>5, <2>6, <2>7, <2>8, <2>9, <2>10, <2>11, <2>12, <2>13, <2>14, <2>15
    DEF Next, Step
<1>3. QED
  BY <1>1, <1>2, PTL DEF Spec
-----------------------------------------------------------------------------
(* The slot invariant *)

\* No step of the gate disturbs SlotInv: every slot has one call or one active
\* dispatch for its agent, and an owning call or dispatch has the claim file.
LEMMA SlotInvStep ==
  ASSUME RestType, JobType, SlotInv, [Next]_vars
  PROVE  SlotInv'
<1> USE GateAssumption DEF RestType, gateVars, queueVars
<1>1. ASSUME NEW th \in Thread, NEW a \in Agent, NEW t \in Ticket, Reserve(th, a, t)
      PROVE  SlotInv'
  <2>1. CASE UNCHANGED <<tokens, job>>
    BY <1>1, <2>1 DEF Reserve, SlotInv, EngagedHasSlot, OneCallPerAgent, OwningOwns,
       SlotHasTarget, WithinLimit, StuckClaimed, ActiveHasClaim, Pc, Ag, OwningPcs, EngagedPcs
  <2>2. CASE Cardinality(tokens) < MaxSlots /\ tokens' = tokens \cup {a}
             /\ job' = [job EXCEPT ![th] = [pc |-> "claim", agent |-> a]]
    <3>1. /\ Pc(th) = "idle" /\ Pc(th)' = "claim" /\ Ag(th)' = a
          /\ \A h \in Thread : h # th => Pc(h)' = Pc(h) /\ Ag(h)' = Ag(h)
      BY <1>1, <2>2, StartJob DEF Reserve, At, Pc, Pcs
    <3>2. a \notin tokens /\ a \notin active
      BY <1>1 DEF Reserve, SlotInv, SlotHasTarget, ActiveHasClaim
    <3>3. EngagedHasSlot' /\ OneCallPerAgent'
      BY <1>1, <2>2, <3>1, <3>2 DEF Reserve, SlotInv, EngagedHasSlot, OneCallPerAgent, EngagedPcs
    <3>4. OwningOwns'
      BY <1>1, <3>1, <3>2 DEF Reserve, SlotInv, EngagedHasSlot, OwningOwns, EngagedPcs, OwningPcs
    <3>5. SlotHasTarget' /\ ActiveHasClaim' /\ StuckClaimed'
      BY <1>1, <2>2, <3>2 DEF Reserve, SlotInv, SlotHasTarget, ActiveHasClaim, StuckClaimed
    <3>6. WithinLimit'
      <4>1. Cardinality(tokens) \in Nat
        BY FS_CardinalityType
      <4>2. Cardinality(tokens \cup {a}) = Cardinality(tokens) + 1
        BY <3>2, FS_AddElement
      <4>3. QED
        BY <2>2, <4>1, <4>2 DEF WithinLimit
    <3>7. QED
      BY <3>3, <3>4, <3>5, <3>6 DEF SlotInv
  <2>3. QED
    BY <1>1, <2>1, <2>2 DEF Reserve
<1>2. ASSUME NEW th \in Thread, NEW a \in Agent, CancelCalled(th, a) \/ CompleteCalled(th, a)
      PROVE  SlotInv'
  <2>1. /\ Pc(th)' = "pop"
        /\ \A h \in Thread : h # th => Pc(h)' = Pc(h) /\ Ag(h)' = Ag(h)
    BY <1>2, StartJob DEF CancelCalled, CompleteCalled, Pcs
  <2>2. QED
    BY <1>2, <2>1 DEF CancelCalled, CompleteCalled, SlotInv, EngagedHasSlot, OneCallPerAgent,
       OwningOwns, SlotHasTarget, WithinLimit, StuckClaimed, ActiveHasClaim, EngagedPcs, OwningPcs
<1>3. ASSUME NEW th \in Thread, Claim(th) PROVE SlotInv'
  <2>1. Pc(th) = "claim" /\ Ag(th) \in Agent /\ Ag(th) \in tokens
    BY <1>3 DEF Claim, At, Pc, JobType, SlotInv, EngagedHasSlot, EngagedPcs
  <2>2. /\ Pc(th)' \in {"enqueue", "unreserve"} /\ Ag(th)' = Ag(th)
        /\ \A h \in Thread : h # th => Pc(h)' = Pc(h) /\ Ag(h)' = Ag(h)
    BY <1>3, <2>1, GotoJob DEF Claim, Pcs
  <2>3. EngagedHasSlot' /\ OneCallPerAgent'
    BY <1>3, <2>1, <2>2 DEF Claim, SlotInv, EngagedHasSlot, OneCallPerAgent, EngagedPcs
  <2>4. SlotHasTarget' /\ WithinLimit'
    BY <1>3 DEF Claim, SlotInv, SlotHasTarget, WithinLimit
  <2>5. OwningOwns' /\ ActiveHasClaim' /\ StuckClaimed'
    <3>1. CASE UNCHANGED claims /\ Pc(th)' = "unreserve"
      BY <1>3, <2>2, <3>1 DEF Claim, SlotInv, OwningOwns, ActiveHasClaim, StuckClaimed, OwningPcs
    <3>2. CASE /\ claims[target[Ag(th)]] = NoAgent
               /\ claims' = [claims EXCEPT ![target[Ag(th)]] = Ag(th)]
      <4>1. \A h \in Thread : h # th /\ Pc(h) \in OwningPcs => Ag(h) \in Agent
        BY DEF JobType, OwningPcs
      <4>2. target[Ag(th)] \in Ticket
        BY <2>1 DEF SlotInv, SlotHasTarget
      <4>3. \A h \in Thread : h # th /\ Pc(h) \in OwningPcs => target[Ag(h)] # target[Ag(th)]
        BY <3>2, <4>1 DEF SlotInv, OwningOwns
      <4>4. \A b \in active : target[b] # target[Ag(th)]
        BY <3>2 DEF SlotInv, ActiveHasClaim
      <4>5. target' = target /\ active' = active /\ tokens' = tokens /\ stuck' = stuck
        BY <1>3 DEF Claim
      <4>6. OwningOwns'
        BY <2>2, <3>2, <4>1, <4>2, <4>3, <4>5 DEF SlotInv, OwningOwns, StuckClaimed
      <4>7. ActiveHasClaim'
        BY <3>2, <4>2, <4>4, <4>5 DEF SlotInv, ActiveHasClaim
      <4>8. StuckClaimed'
        BY <2>1, <3>2, <4>2, <4>5, GateAssumption DEF SlotInv, StuckClaimed
      <4>9. QED
        BY <4>6, <4>7, <4>8
    <3>3. \/ UNCHANGED claims /\ Goto(th, "unreserve")
          \/ /\ claims[target[Ag(th)]] = NoAgent
             /\ claims' = [claims EXCEPT ![target[Ag(th)]] = Ag(th)]
      BY <1>3 DEF Claim, TicketOf, Ag
    <3>4. Goto(th, "unreserve") => Pc(th)' = "unreserve"
      BY <2>1, GotoJob DEF Pcs
    <3>5. QED
      BY <3>1, <3>2, <3>3, <3>4
  <2>6. QED
    BY <2>3, <2>4, <2>5 DEF SlotInv
<1>4. ASSUME NEW th \in Thread, Unreserve(th) \/ ReleaseToken(th) PROVE SlotInv'
  <2>1. Pc(th) \in {"unreserve", "release"} /\ Ag(th) \notin active
    BY <1>4 DEF Unreserve, ReleaseToken, At, Pc, SlotInv, EngagedHasSlot, EngagedPcs
  <2>2. /\ Pc(th)' \in {"idle", "withdraw"} /\ tokens' = tokens \ {Ag(th)}
        /\ \A h \in Thread : h # th => Pc(h)' = Pc(h) /\ Ag(h)' = Ag(h)
    BY <1>4, <2>1, ReturnJob, GotoJob DEF Unreserve, ReleaseToken, Ag, Pcs
  <2>3. target' = target /\ active' = active /\ claims' = claims /\ stuck' = stuck
    BY <1>4 DEF Unreserve, ReleaseToken
  <2>4. \A h \in Thread : h # th /\ Pc(h) \in EngagedPcs => Ag(h) # Ag(th)
    BY <2>1 DEF SlotInv, OneCallPerAgent, EngagedPcs
  <2>5. EngagedHasSlot' /\ OneCallPerAgent' /\ OwningOwns'
    BY <2>2, <2>3, <2>4 DEF SlotInv, EngagedHasSlot, OneCallPerAgent, OwningOwns, EngagedPcs, OwningPcs
  <2>6. SlotHasTarget' /\ ActiveHasClaim' /\ StuckClaimed'
    BY <2>1, <2>2, <2>3 DEF SlotInv, SlotHasTarget, ActiveHasClaim, StuckClaimed
  <2>7. WithinLimit'
    <3>1. Cardinality(tokens \ {Ag(th)}) <= Cardinality(tokens)
      BY FS_Subset
    <3>2. Cardinality(tokens) \in Nat /\ Cardinality(tokens \ {Ag(th)}) \in Nat
      BY FS_CardinalityType, FS_Subset
    <3>3. QED
      BY <2>2, <3>1, <3>2 DEF SlotInv, WithinLimit
  <2>8. QED
    BY <2>5, <2>6, <2>7 DEF SlotInv
<1>5. ASSUME NEW th \in Thread, Enqueue(th) PROVE SlotInv'
  <2>1. /\ Pc(th) = "enqueue" /\ Pc(th)' = "record" /\ Ag(th)' = Ag(th)
        /\ \A h \in Thread : h # th => Pc(h)' = Pc(h) /\ Ag(h)' = Ag(h)
    BY <1>5, GotoJob DEF Enqueue, At, Pc, Pcs
  <2>2. QED
    BY <1>5, <2>1 DEF Enqueue, SlotInv, EngagedHasSlot, OneCallPerAgent,
       OwningOwns, SlotHasTarget, WithinLimit, StuckClaimed, ActiveHasClaim, EngagedPcs, OwningPcs
<1>6. ASSUME NEW th \in Thread, Record(th) PROVE SlotInv'
  <2>1. /\ Pc(th) = "record" /\ Pc(th)' = "idle" /\ active' = active \cup {Ag(th)}
        /\ \A h \in Thread : h # th => Pc(h)' = Pc(h) /\ Ag(h)' = Ag(h)
    BY <1>6, ReturnJob DEF Record, At, Pc, Ag
  <2>2. target' = target /\ tokens' = tokens /\ claims' = claims /\ stuck' = stuck
    BY <1>6 DEF Record
  <2>3. \A h \in Thread : h # th /\ Pc(h) \in EngagedPcs => Ag(h) # Ag(th)
    BY <2>1 DEF SlotInv, OneCallPerAgent, EngagedPcs
  <2>4. EngagedHasSlot' /\ OneCallPerAgent' /\ OwningOwns'
    BY <2>1, <2>2, <2>3 DEF SlotInv, EngagedHasSlot, OneCallPerAgent, OwningOwns, EngagedPcs, OwningPcs
  <2>5. /\ Ag(th) \in tokens /\ claims[target[Ag(th)]] = Ag(th)
        /\ target[Ag(th)] \notin stuck
    BY <2>1 DEF SlotInv, EngagedHasSlot, OwningOwns, EngagedPcs, OwningPcs
  <2>6. SlotHasTarget' /\ ActiveHasClaim' /\ StuckClaimed' /\ WithinLimit'
    BY <2>1, <2>2, <2>5 DEF SlotInv, SlotHasTarget, ActiveHasClaim, StuckClaimed, WithinLimit
  <2>7. QED
    BY <2>4, <2>6 DEF SlotInv
<1>7. ASSUME NEW th \in Thread, Pop(th) PROVE SlotInv'
  <2>1. target' = target /\ tokens' = tokens /\ claims' = claims /\ stuck' = stuck
    BY <1>7 DEF Pop
  <2>2. CASE Ag(th) \in active
    <3>1. /\ Pc(th) = "pop" /\ Pc(th)' = "owner" /\ Ag(th)' = Ag(th) /\ active' = active \ {Ag(th)}
          /\ \A h \in Thread : h # th => Pc(h)' = Pc(h) /\ Ag(h)' = Ag(h)
      BY <1>7, <2>2, GotoJob DEF Pop, At, Pc, Ag, Pcs
    <3>2. /\ Ag(th) \in tokens /\ claims[target[Ag(th)]] = Ag(th)
          /\ target[Ag(th)] \notin stuck
      BY <2>2 DEF SlotInv, ActiveHasClaim
    <3>3. \A h \in Thread : h # th /\ Pc(h) \in EngagedPcs => Ag(h) # Ag(th)
      BY <2>2 DEF SlotInv, EngagedHasSlot
    <3>4. EngagedHasSlot' /\ OneCallPerAgent' /\ OwningOwns'
      BY <2>1, <3>1, <3>2, <3>3
      DEF SlotInv, EngagedHasSlot, OneCallPerAgent, OwningOwns, EngagedPcs, OwningPcs
    <3>5. SlotHasTarget' /\ ActiveHasClaim' /\ StuckClaimed' /\ WithinLimit'
      BY <2>1, <3>1 DEF SlotInv, SlotHasTarget, ActiveHasClaim, StuckClaimed, WithinLimit
    <3>6. QED
      BY <3>4, <3>5 DEF SlotInv
  <2>3. CASE Ag(th) \notin active
    <3>1. /\ Pc(th)' = "idle" /\ active' = active
          /\ \A h \in Thread : h # th => Pc(h)' = Pc(h) /\ Ag(h)' = Ag(h)
      BY <1>7, <2>3, ReturnJob DEF Pop, Ag
    <3>2. QED
      BY <2>1, <3>1 DEF SlotInv, EngagedHasSlot, OneCallPerAgent,
         OwningOwns, SlotHasTarget, WithinLimit, StuckClaimed, ActiveHasClaim, EngagedPcs, OwningPcs
  <2>4. QED
    BY <2>2, <2>3
<1>8. ASSUME NEW th \in Thread, CheckOwner(th) PROVE SlotInv'
  <2>1. /\ Pc(th) = "owner" /\ Pc(th)' = "unlink" /\ Ag(th)' = Ag(th)
        /\ \A h \in Thread : h # th => Pc(h)' = Pc(h) /\ Ag(h)' = Ag(h)
    BY <1>8, GotoJob DEF CheckOwner, At, Pc, Ag, TicketOf, Pcs, SlotInv, OwningOwns, OwningPcs
  <2>2. QED
    BY <1>8, <2>1 DEF CheckOwner, SlotInv, EngagedHasSlot, OneCallPerAgent,
       OwningOwns, SlotHasTarget, WithinLimit, StuckClaimed, ActiveHasClaim, EngagedPcs, OwningPcs
<1>9. ASSUME NEW th \in Thread, Unlink(th) PROVE SlotInv'
  <2>1. /\ Pc(th) = "unlink" /\ Pc(th)' = "release" /\ Ag(th)' = Ag(th)
        /\ \A h \in Thread : h # th => Pc(h)' = Pc(h) /\ Ag(h)' = Ag(h)
    BY <1>9, GotoJob DEF Unlink, At, Pc, Pcs
  <2>2. target' = target /\ tokens' = tokens /\ active' = active
    BY <1>9 DEF Unlink
  <2>3. EngagedHasSlot' /\ OneCallPerAgent' /\ SlotHasTarget' /\ WithinLimit'
    BY <2>1, <2>2 DEF SlotInv, EngagedHasSlot, OneCallPerAgent, SlotHasTarget, WithinLimit, EngagedPcs
  <2>4. claims[target[Ag(th)]] = Ag(th) /\ Ag(th) \notin active /\ target[Ag(th)] \in Ticket
        /\ target[Ag(th)] \notin stuck
    BY <2>1 DEF SlotInv, OwningOwns, EngagedHasSlot, SlotHasTarget, EngagedPcs, OwningPcs
  <2>5. /\ \A t \in Ticket : claims'[t] = claims[t] \/ t = target[Ag(th)]
        /\ \A t \in Ticket : t \in stuck' => t \in stuck \/ t = target[Ag(th)]
    BY <1>9 DEF Unlink, TicketOf, Ag
  <2>6. \A h \in Thread : h # th /\ Pc(h) \in OwningPcs => Ag(h) # Ag(th) /\ Ag(h) \in tokens
    BY <2>1 DEF SlotInv, OneCallPerAgent, EngagedHasSlot, EngagedPcs, OwningPcs
  <2>7. OwningOwns'
    BY <2>1, <2>2, <2>4, <2>5, <2>6 DEF SlotInv, OwningOwns, SlotHasTarget, OwningPcs
  <2>8. ActiveHasClaim'
    BY <2>2, <2>4, <2>5 DEF SlotInv, ActiveHasClaim, SlotHasTarget
  <2>9. StuckClaimed'
    BY <1>9, <2>1, <2>4 DEF Unlink, TicketOf, Ag, SlotInv, StuckClaimed, JobType
  <2>10. QED
    BY <2>3, <2>7, <2>8, <2>9 DEF SlotInv
<1>10. CASE (\E r \in Role : DequeueReady(r) \/ StaggerElapses(r)) \/ UNCHANGED vars
  <2>1. UNCHANGED <<tokens, claims, active, target, stuck, job>>
    BY <1>10 DEF DequeueReady, StaggerElapses, vars
  <2>2. QED
    BY <2>1 DEF SlotInv, EngagedHasSlot, OneCallPerAgent,
       OwningOwns, SlotHasTarget, WithinLimit, StuckClaimed, ActiveHasClaim, EngagedPcs, OwningPcs, Pc, Ag
<1>11. ASSUME NEW th \in Thread, Withdraw(th) PROVE SlotInv'
  <2>1. /\ Pc(th) = "withdraw" /\ Pc(th)' = "idle"
        /\ \A h \in Thread : h # th => Pc(h)' = Pc(h) /\ Ag(h)' = Ag(h)
    BY <1>11, ReturnJob DEF Withdraw, At, Pc
  <2>2. QED
    BY <1>11, <2>1 DEF Withdraw, SlotInv, EngagedHasSlot, OneCallPerAgent,
       OwningOwns, SlotHasTarget, WithinLimit, StuckClaimed, ActiveHasClaim, EngagedPcs, OwningPcs
<1>12. QED
  BY <1>1, <1>2, <1>3, <1>4, <1>5, <1>6, <1>7, <1>8, <1>9, <1>10, <1>11 DEF Next, Step

LEMMA SlotInvAlways == Spec => [](TypeOK /\ SlotInv)
<1>1. Init => SlotInv
  <2>1. Cardinality({}) = 0
    BY FS_EmptySet
  <2>2. QED
    BY <2>1, GateAssumption DEF Init, SlotInv, EngagedHasSlot, OneCallPerAgent,
       OwningOwns, SlotHasTarget, WithinLimit, StuckClaimed, ActiveHasClaim, EngagedPcs, OwningPcs, Pc, Ag, Idle
<1>2. TypeOK /\ SlotInv /\ [Next]_vars => SlotInv'
  BY TypeSplit, SlotInvStep
<1>3. QED
  BY <1>1, <1>2, GateTypeCorrect, PTL DEF Spec

\* An active dispatch owns its slot and its claim file at every step of every
\* interleaving, whatever I/O errors happen.
THEOREM ActiveOwns == Spec => []ActiveOwnsClaim
<1>1. TypeOK /\ SlotInv => ActiveOwnsClaim
  BY DEF SlotInv, ActiveHasClaim, ActiveOwnsClaim, OwnerOf
<1>2. QED
  BY <1>1, SlotInvAlways, PTL

-----------------------------------------------------------------------------
(* Balance: nothing is held without a holder                               *)

LEMMA BalanceStep ==
  ASSUME RestType, JobType, SlotInv, BalanceInv, [Next]_vars
  PROVE  BalanceInv'
<1> USE GateAssumption DEF RestType, gateVars, queueVars, BalanceInv
<1>1. ASSUME NEW th \in Thread, NEW a \in Agent, NEW t \in Ticket, Reserve(th, a, t)
      PROVE  BalanceInv'
  <2>1. CASE UNCHANGED <<tokens, job>>
    <3>1. a \notin tokens /\ target[a] = NoTicket
      BY <1>1 DEF Reserve, SlotInv, SlotHasTarget
    <3>2. \A u \in Ticket \ stuck : claims[u] # NoAgent => claims[u] # a
      BY <3>1 DEF ClaimBacked
    <3>3. QED
      BY <1>1, <2>1, <3>1, <3>2 DEF Reserve, ClaimBacked, SlotBacked, Pc, Ag
  <2>2. CASE tokens' = tokens \cup {a}
             /\ job' = [job EXCEPT ![th] = [pc |-> "claim", agent |-> a]]
    <3>1. /\ Pc(th) = "idle" /\ Pc(th)' = "claim" /\ Ag(th)' = a
          /\ \A h \in Thread : h # th => Pc(h)' = Pc(h) /\ Ag(h)' = Ag(h)
      BY <1>1, <2>2, StartJob DEF Reserve, At, Pc, Pcs
    <3>2. \A u \in Ticket \ stuck : claims[u] # NoAgent => claims[u] # a
      BY <1>1 DEF Reserve, ClaimBacked
    <3>3. ClaimBacked'
      BY <1>1, <3>1, <3>2 DEF Reserve, ClaimBacked, OwningPcs
    <3>4. SlotBacked'
      BY <1>1, <2>2, <3>1 DEF Reserve, SlotBacked, EngagedPcs
    <3>5. QED
      BY <3>3, <3>4
  <2>3. QED
    BY <1>1, <2>1, <2>2 DEF Reserve
<1>2. ASSUME NEW th \in Thread, NEW a \in Agent, CancelCalled(th, a) \/ CompleteCalled(th, a)
      PROVE  BalanceInv'
  <2>1. /\ Pc(th) = "idle" /\ Pc(th)' = "pop"
        /\ \A h \in Thread : h # th => Pc(h)' = Pc(h) /\ Ag(h)' = Ag(h)
    BY <1>2, StartJob DEF CancelCalled, CompleteCalled, At, Pc, Pcs
  <2>2. QED
    BY <1>2, <2>1 DEF CancelCalled, CompleteCalled, ClaimBacked, SlotBacked, EngagedPcs, OwningPcs
<1>3. ASSUME NEW th \in Thread, Claim(th) PROVE BalanceInv'
  <2>1. Pc(th) = "claim" /\ Ag(th) \in Agent /\ Ag(th) \in tokens /\ target[Ag(th)] \in Ticket
    BY <1>3 DEF Claim, At, Pc, JobType, SlotInv, EngagedHasSlot, EngagedPcs, SlotHasTarget
  <2>2. /\ Pc(th)' \in {"enqueue", "unreserve"} /\ Ag(th)' = Ag(th)
        /\ \A h \in Thread : h # th => Pc(h)' = Pc(h) /\ Ag(h)' = Ag(h)
    BY <1>3, <2>1, GotoJob DEF Claim, Pcs
  <2>3. tokens' = tokens /\ active' = active /\ target' = target /\ stuck' = stuck
    BY <1>3 DEF Claim
  <2>4. SlotBacked'
    BY <2>1, <2>2, <2>3 DEF SlotBacked, EngagedPcs
  <2>5. \/ claims' = claims
        \/ Goto(th, "enqueue") /\ claims' = [claims EXCEPT ![target[Ag(th)]] = Ag(th)]
    BY <1>3 DEF Claim, TicketOf, Ag
  <2>6. Goto(th, "enqueue") => Pc(th)' = "enqueue"
    BY <2>1, GotoJob DEF Pcs
  <2>7. ClaimBacked'
    <3>1. CASE claims' = claims
      BY <2>1, <2>2, <2>3, <3>1 DEF ClaimBacked, OwningPcs
    <3>2. CASE Pc(th)' = "enqueue" /\ claims' = [claims EXCEPT ![target[Ag(th)]] = Ag(th)]
      BY <2>1, <2>2, <2>3, <3>2 DEF ClaimBacked, OwningPcs
    <3>3. QED
      BY <2>5, <2>6, <3>1, <3>2
  <2>8. QED
    BY <2>4, <2>7
<1>4. ASSUME NEW th \in Thread, Unreserve(th) \/ ReleaseToken(th) PROVE BalanceInv'
  <2>1. Pc(th) \in {"unreserve", "release"}
    BY <1>4 DEF Unreserve, ReleaseToken, At, Pc
  <2>2. /\ Pc(th)' \in {"idle", "withdraw"} /\ tokens' = tokens \ {Ag(th)}
        /\ \A h \in Thread : h # th => Pc(h)' = Pc(h) /\ Ag(h)' = Ag(h)
    BY <1>4, <2>1, ReturnJob, GotoJob DEF Unreserve, ReleaseToken, Ag, Pcs
  <2>3. target' = target /\ active' = active /\ claims' = claims /\ stuck' = stuck
    BY <1>4 DEF Unreserve, ReleaseToken
  <2>4. QED
    BY <2>1, <2>2, <2>3 DEF ClaimBacked, SlotBacked, OwningPcs
<1>5. ASSUME NEW th \in Thread, Enqueue(th) PROVE BalanceInv'
  <2>1. /\ Pc(th) = "enqueue" /\ Pc(th)' = "record" /\ Ag(th)' = Ag(th)
        /\ \A h \in Thread : h # th => Pc(h)' = Pc(h) /\ Ag(h)' = Ag(h)
    BY <1>5, GotoJob DEF Enqueue, At, Pc, Pcs
  <2>2. QED
    BY <1>5, <2>1 DEF Enqueue, ClaimBacked, SlotBacked, EngagedPcs, OwningPcs
<1>6. ASSUME NEW th \in Thread, Record(th) PROVE BalanceInv'
  <2>1. /\ Pc(th)' = "idle" /\ active' = active \cup {Ag(th)}
        /\ \A h \in Thread : h # th => Pc(h)' = Pc(h) /\ Ag(h)' = Ag(h)
    BY <1>6, ReturnJob DEF Record, Ag
  <2>2. target' = target /\ tokens' = tokens /\ claims' = claims /\ stuck' = stuck
    BY <1>6 DEF Record
  <2>3. QED
    BY <2>1, <2>2 DEF ClaimBacked, SlotBacked, EngagedPcs, OwningPcs
<1>7. ASSUME NEW th \in Thread, Pop(th) PROVE BalanceInv'
  <2>1. target' = target /\ tokens' = tokens /\ claims' = claims /\ stuck' = stuck
    BY <1>7 DEF Pop
  <2>2. CASE Ag(th) \in active
    <3>1. /\ Pc(th)' = "owner" /\ Ag(th)' = Ag(th) /\ active' = active \ {Ag(th)}
          /\ \A h \in Thread : h # th => Pc(h)' = Pc(h) /\ Ag(h)' = Ag(h)
          /\ Pc(th) = "pop"
      BY <1>7, <2>2, GotoJob DEF Pop, At, Pc, Ag, Pcs
    <3>2. QED
      BY <2>1, <3>1 DEF ClaimBacked, SlotBacked, EngagedPcs, OwningPcs
  <2>3. CASE Ag(th) \notin active
    <3>1. /\ Pc(th)' = "idle" /\ active' = active /\ Pc(th) = "pop"
          /\ \A h \in Thread : h # th => Pc(h)' = Pc(h) /\ Ag(h)' = Ag(h)
      BY <1>7, <2>3, ReturnJob DEF Pop, At, Pc, Ag
    <3>2. QED
      BY <2>1, <3>1 DEF ClaimBacked, SlotBacked, EngagedPcs, OwningPcs
  <2>4. QED
    BY <2>2, <2>3
<1>8. ASSUME NEW th \in Thread, CheckOwner(th) PROVE BalanceInv'
  <2>1. /\ Pc(th) = "owner" /\ Pc(th)' = "unlink" /\ Ag(th)' = Ag(th)
        /\ \A h \in Thread : h # th => Pc(h)' = Pc(h) /\ Ag(h)' = Ag(h)
    BY <1>8, GotoJob DEF CheckOwner, At, Pc, Ag, TicketOf, Pcs, SlotInv, OwningOwns, OwningPcs
  <2>2. UNCHANGED <<tokens, claims, active, target, stuck>>
    BY <1>8 DEF CheckOwner
  <2>3. ClaimBacked'
    BY <2>1, <2>2 DEF ClaimBacked, OwningPcs
  <2>4. SlotBacked'
    BY <2>1, <2>2 DEF SlotBacked, EngagedPcs
  <2>5. QED
    BY <2>3, <2>4
<1>9. ASSUME NEW th \in Thread, Unlink(th) PROVE BalanceInv'
  <2>1. /\ Pc(th) = "unlink" /\ Pc(th)' = "release" /\ Ag(th)' = Ag(th)
        /\ \A h \in Thread : h # th => Pc(h)' = Pc(h) /\ Ag(h)' = Ag(h)
    BY <1>9, GotoJob DEF Unlink, At, Pc, Pcs
  <2>2. target' = target /\ tokens' = tokens /\ active' = active
    BY <1>9 DEF Unlink
  <2>3. \/ claims' = [claims EXCEPT ![target[Ag(th)]] = NoAgent] /\ stuck' = stuck
        \/ claims' = claims /\ stuck' = stuck \cup {target[Ag(th)]}
    BY <1>9 DEF Unlink, TicketOf, Ag
  <2>4. SlotBacked'
    BY <2>1, <2>2 DEF SlotBacked, EngagedPcs
  <2>5. \A u \in Ticket \ stuck' : claims'[u] # NoAgent =>
           u \notin stuck /\ claims'[u] = claims[u] /\ u # target[Ag(th)]
    BY <2>3
  <2>6. ClaimBacked'
    BY <2>1, <2>2, <2>5 DEF ClaimBacked, OwningPcs
  <2>7. QED
    BY <2>4, <2>6
<1>10. CASE (\E r \in Role : DequeueReady(r) \/ StaggerElapses(r)) \/ UNCHANGED vars
  <2>1. UNCHANGED <<tokens, claims, active, target, stuck, job>>
    BY <1>10 DEF DequeueReady, StaggerElapses, vars
  <2>2. ClaimBacked'
    BY <2>1 DEF ClaimBacked, Pc, Ag
  <2>3. SlotBacked'
    BY <2>1 DEF SlotBacked, Pc, Ag
  <2>4. QED
    BY <2>2, <2>3
<1>11. ASSUME NEW th \in Thread, Withdraw(th) PROVE BalanceInv'
  <2>1. /\ Pc(th) = "withdraw" /\ Pc(th)' = "idle"
        /\ \A h \in Thread : h # th => Pc(h)' = Pc(h) /\ Ag(h)' = Ag(h)
    BY <1>11, ReturnJob DEF Withdraw, At, Pc
  <2>2. QED
    BY <1>11, <2>1 DEF Withdraw, ClaimBacked, SlotBacked, EngagedPcs, OwningPcs
<1>12. QED
  BY <1>1, <1>2, <1>3, <1>4, <1>5, <1>6, <1>7, <1>8, <1>9, <1>10, <1>11 DEF Next, Step

LEMMA BalanceAlways == Spec => [](TypeOK /\ SlotInv /\ BalanceInv)
<1>1. Init => BalanceInv
  BY DEF Init, BalanceInv, ClaimBacked, SlotBacked
<1>2. TypeOK /\ SlotInv /\ BalanceInv /\ [Next]_vars => BalanceInv'
  BY TypeSplit, BalanceStep
<1>3. QED
  BY <1>1, <1>2, SlotInvAlways, PTL DEF Spec

LEMMA BackedHasSlot ==
  ASSUME RestType, SlotInv, BalanceInv
  PROVE  ClaimHasSlot
BY DEF RestType, SlotInv, BalanceInv, ClaimBacked, ActiveHasClaim, EngagedHasSlot,
   WithinLimit, ClaimHasSlot, OwnerOf, EngagedPcs, OwningPcs

\* Whoever owns a ticket holds one of the MaxSlots slots, at every step of
\* every interleaving.
THEOREM ClaimsWithinSlots == Spec => []ClaimHasSlot
<1>1. TypeOK /\ SlotInv /\ BalanceInv => ClaimHasSlot
  BY BackedHasSlot, TypeSplit
<1>2. QED
  BY <1>1, BalanceAlways, PTL

\* Nothing leaks: when no call is under way the slots and the owners of the
\* tickets are the active dispatches.
THEOREM NoLeak == Spec => []QuiescentBalance
<1>1. TypeOK /\ SlotInv /\ BalanceInv => QuiescentBalance
  <2> SUFFICES ASSUME TypeOK, SlotInv, BalanceInv, \A th \in Thread : At(th, "idle")
               PROVE  tokens = active /\ {OwnerOf(t) : t \in Ticket} \ {NoAgent} = active
    BY DEF QuiescentBalance
  <2>1. \A th \in Thread : Pc(th) = "idle"
    BY DEF At, Pc
  <2>2. tokens = active
    BY <2>1 DEF SlotInv, ActiveHasClaim, BalanceInv, SlotBacked, EngagedPcs
  <2>3. \A t \in Ticket : OwnerOf(t) # NoAgent => OwnerOf(t) \in active
    BY <2>1 DEF BalanceInv, ClaimBacked, OwningPcs, OwnerOf
  <2>4. \A a \in active : a # NoAgent /\ \E t \in Ticket : OwnerOf(t) = a
    BY <2>2, GateAssumption DEF TypeOK, SlotInv, ActiveHasClaim, SlotHasTarget, OwnerOf
  <2>5. QED
    BY <2>2, <2>3, <2>4
<1>2. QED
  BY <1>1, BalanceAlways, PTL

-----------------------------------------------------------------------------
(* Refinement *)

LEMMA ClaimAcquires ==
  ASSUME TypeOK, SlotInv, BalanceInv, NEW th \in Thread, Claim(th)
  PROVE  Ownership!Next \/ UNCHANGED owners
<1>1. CASE UNCHANGED claims
  BY <1>1 DEF Claim, owners, OwnerOf
<1>2. CASE /\ claims[target[Ag(th)]] = NoAgent
           /\ claims' = [claims EXCEPT ![target[Ag(th)]] = Ag(th)]
  <2> DEFINE t == target[Ag(th)]
  <2>1. Pc(th) = "claim" /\ Ag(th) \in Agent /\ Ag(th) \in tokens /\ t \in Ticket
    BY DEF Claim, At, Pc, Ag, TypeOK, SlotInv, EngagedHasSlot, EngagedPcs, SlotHasTarget
  <2>2. stuck' = stuck /\ t \notin stuck
    BY <1>2, <2>1 DEF Claim, SlotInv, StuckClaimed
  <2>3. owners[t] = NoAgent /\ owners' = [owners EXCEPT ![t] = Ag(th)]
    BY <1>2, <2>1, <2>2 DEF TypeOK, owners, OwnerOf
  <2>4. Ownership!Owners \subseteq tokens
    BY BackedHasSlot, TypeSplit DEF ClaimHasSlot, Ownership!Owners, owners
  <2>5. Ag(th) \notin Ownership!Owners
    <3>1. SUFFICES ASSUME NEW u \in Ticket, owners[u] = Ag(th), Ag(th) # NoAgent PROVE FALSE
      BY DEF Ownership!Owners
    <3>2. u \notin stuck /\ claims[u] = Ag(th)
      BY <3>1 DEF owners, OwnerOf
    <3>3. Ag(th) \notin active
      BY <2>1 DEF SlotInv, EngagedHasSlot, EngagedPcs
    <3>4. PICK h \in Thread : Pc(h) \in OwningPcs /\ Ag(h) = Ag(th)
      BY <3>1, <3>2, <3>3 DEF BalanceInv, ClaimBacked
    <3>5. QED
      BY <2>1, <3>4 DEF SlotInv, OneCallPerAgent, EngagedPcs, OwningPcs
  <2>6. Cardinality(Ownership!Owners) < MaxSlots
    <3>1. IsFiniteSet(tokens) /\ Cardinality(tokens) \in Nat /\ MaxSlots \in Nat
      BY FS_CardinalityType, GateAssumption DEF TypeOK
    <3>2. /\ Cardinality(tokens \ {Ag(th)}) = Cardinality(tokens) - 1
          /\ IsFiniteSet(tokens \ {Ag(th)})
      BY <2>1, <3>1, FS_RemoveElement
    <3>3. Ownership!Owners \subseteq tokens \ {Ag(th)}
      BY <2>4, <2>5
    <3>4. /\ Cardinality(Ownership!Owners) <= Cardinality(tokens \ {Ag(th)})
          /\ Cardinality(Ownership!Owners) \in Nat
      BY <3>2, <3>3, FS_Subset, FS_CardinalityType
    <3>5. Cardinality(tokens) <= MaxSlots
      BY DEF SlotInv, WithinLimit
    <3>6. QED
      BY <3>1, <3>2, <3>4, <3>5
  <2>7. Ownership!Cardinality(Ownership!Owners) = Cardinality(Ownership!Owners)
    BY Zenon DEF Ownership!Cardinality, Cardinality
  <2>8. Ownership!Acquire(t, Ag(th))
    BY <2>3, <2>5, <2>6, <2>7 DEF Ownership!Acquire
  <2>9. QED
    BY <2>1, <2>8 DEF Ownership!Next
<1>3. QED
  BY <1>1, <1>2 DEF Claim, TicketOf, Ag

LEMMA UnlinkReleases ==
  ASSUME TypeOK, SlotInv, NEW th \in Thread, Unlink(th)
  PROVE  Ownership!Next
<1> DEFINE t == target[Ag(th)]
<1>1. Ag(th) \in Agent /\ t \in Ticket /\ claims[t] = Ag(th) /\ t \notin stuck
  BY DEF Unlink, At, Pc, Ag, TypeOK, SlotInv, EngagedHasSlot, SlotHasTarget, OwningOwns,
     EngagedPcs, OwningPcs
<1>2. owners[t] # NoAgent
  BY <1>1, GateAssumption DEF owners, OwnerOf
<1>3. owners' = [owners EXCEPT ![t] = NoAgent]
  <2>1. CASE claims' = [claims EXCEPT ![t] = NoAgent] /\ stuck' = stuck
    BY <1>1, <2>1 DEF TypeOK, owners, OwnerOf
  <2>2. CASE claims' = claims /\ stuck' = stuck \cup {t}
    BY <1>1, <2>2 DEF TypeOK, owners, OwnerOf
  <2>3. QED
    BY <2>1, <2>2 DEF Unlink, TicketOf, Ag
<1>4. owners' = [u \in Ticket |-> IF u \in {t} THEN NoAgent ELSE owners[u]]
  BY <1>1, <1>3 DEF owners
<1>5. Ownership!Release({t})
  BY <1>2, <1>4 DEF Ownership!Release
<1>6. QED
  BY <1>1, <1>5 DEF Ownership!Next

\* The gate implements WorkOwnership: the owners change only by an acquisition of
\* a free ticket by an agent that owns none, within MaxSlots, and by a release.
THEOREM GateImplementsOwnership == Spec => ImplementsOwnership
<1>1. Init => Ownership!Init
  BY DEF Init, Ownership!Init, owners, OwnerOf
<1>2. TypeOK /\ SlotInv /\ BalanceInv /\ [Next]_vars => [Ownership!Next]_owners
  <2> SUFFICES ASSUME TypeOK, SlotInv, BalanceInv, [Next]_vars
               PROVE  Ownership!Next \/ UNCHANGED owners
    OBVIOUS
  <2>1. CASE \E th \in Thread : Claim(th)
    BY <2>1, ClaimAcquires
  <2>2. CASE \E th \in Thread : Unlink(th)
    BY <2>2, UnlinkReleases
  <2>3. CASE UNCHANGED <<claims, stuck>>
    BY <2>3 DEF owners, OwnerOf
  <2>4. QED
    BY <2>1, <2>2, <2>3 DEF Next, Step, vars, gateVars, Reserve, Unreserve, Enqueue, Record,
       CancelCalled, CompleteCalled, Pop, CheckOwner, ReleaseToken, Withdraw, DequeueReady,
       StaggerElapses
<1>3. QED
  BY <1>1, <1>2, BalanceAlways, PTL DEF Spec, ImplementsOwnership, Ownership!Spec
-----------------------------------------------------------------------------
(* The spawn queue *)

Queued(a) == \E i \in 1..Len(queue) : queue[i] = a
EarlyPcs == {"claim", "unreserve", "enqueue"}

\* QueueInv: an agent is queued at most once, after its slot and claim were taken and
\* before it is handed out; a queued agent has a slot, or the call that gave it back
\* is about to withdraw the request.
QueuedOnce == \A i, j \in 1..Len(queue) : queue[i] = queue[j] => i = j
QueuedIsNew == \A a \in Agent : Queued(a) => target[a] # NoTicket /\ a \notin handed
HandedHasTarget == \A a \in handed : target[a] # NoTicket
NotYetQueued ==
  \A th \in Thread : Pc(th) \in EarlyPcs => Ag(th) \notin handed /\ ~Queued(Ag(th))
QueuedHasSlot ==
  \A a \in Agent : Queued(a) =>
    a \in tokens \/ \E th \in Thread : Pc(th) = "withdraw" /\ Ag(th) = a

QueueInv ==
  QueuedOnce /\ QueuedIsNew /\ HandedHasTarget /\ NotYetQueued /\ QueuedHasSlot

\* What is left after one entry is deleted.
LEMMA TakenAt ==
  ASSUME NEW q \in Seq(Agent), NEW i \in 1..Len(q),
         NEW d, d = SubSeq(q, 1, i - 1) \o SubSeq(q, i + 1, Len(q))
  PROVE  /\ Len(d) = Len(q) - 1
         /\ \A j \in 1..Len(d) : d[j] = IF j < i THEN q[j] ELSE q[j + 1]
<1> DEFINE l == SubSeq(q, 1, i - 1)
           r == SubSeq(q, i + 1, Len(q))
<1>1. /\ Len(q) \in Nat /\ i \in Nat /\ 1 <= i /\ i <= Len(q)
      /\ \A j \in 1..Len(q) : q[j] \in Agent
  BY LenProperties, ElementOfSeq
<1>2. l \in Seq(Agent) /\ Len(l) = i - 1 /\ \A j \in 1..(i - 1) : l[j] = q[j]
  BY <1>1, SubSeqProperties
<1>3. r \in Seq(Agent) /\ Len(r) = Len(q) - i /\ \A j \in 1..(Len(q) - i) : r[j] = q[i + j]
  BY <1>1, SubSeqProperties
<1> HIDE DEF l, r
<1>4. /\ Len(l \o r) = Len(l) + Len(r)
      /\ \A j \in 1 .. Len(l) + Len(r) :
           (l \o r)[j] = IF j <= Len(l) THEN l[j] ELSE r[j - Len(l)]
  BY <1>2, <1>3, ConcatProperties
<1>5. d = l \o r
  BY DEF l, r
<1>6. Len(d) = Len(q) - 1
  <2>1. Len(d) = (i - 1) + (Len(q) - i)
    BY <1>2, <1>3, <1>4, <1>5
  <2>2. QED
    BY ONLY <1>1, <2>1
<1>7. ASSUME NEW j \in 1..Len(d) PROVE d[j] = IF j < i THEN q[j] ELSE q[j + 1]
  <2>1. CASE j < i
    BY <1>1, <1>2, <1>3, <1>4, <1>5, <1>6, <2>1
  <2>2. CASE ~(j < i)
    <3>1. j \in Nat /\ i <= j /\ j <= Len(q) - 1
      <4>1. j \in 1..Len(d)
        OBVIOUS
      <4>2. QED
        BY ONLY <1>1, <1>6, <2>2, <4>1
    <3>2. j - (i - 1) \in 1..(Len(q) - i) /\ i + (j - (i - 1)) = j + 1
      BY ONLY <1>1, <3>1
    <3>3. d[j] = r[j - (i - 1)]
      <4>1. j \in 1 .. Len(l) + Len(r) /\ ~(j <= Len(l))
        BY <1>1, <1>2, <1>3, <3>1
      <4>2. QED
        BY <1>2, <1>4, <1>5, <4>1
    <3>4. QED
      BY <1>3, <2>2, <3>2, <3>3
  <2>3. QED
    BY <2>1, <2>2
<1>8. QED
  BY <1>6, <1>7

\* Deleting an entry takes its agent out of the queue, and no other.
LEMMA TakenQueue ==
  ASSUME queue \in Seq(Agent), QueuedOnce, NEW i \in 1..Len(queue), queue' = Taken(i)
  PROVE  /\ QueuedOnce'
         /\ \A a : (Queued(a))' <=> Queued(a) /\ a # queue[i]
<1> DEFINE d == Taken(i)
<1>1. /\ Len(d) = Len(queue) - 1
      /\ \A j \in 1..Len(d) : d[j] = IF j < i THEN queue[j] ELSE queue[j + 1]
  BY TakenAt DEF Taken
<1>2. Len(queue) \in Nat /\ queue' = d
  BY LenProperties
<1> HIDE DEF d
<1>3. \A j \in 1..Len(queue) : queue[j] = queue[i] => j = i
  BY DEF QueuedOnce
<1>4. \A j \in 1..Len(d) : (IF j < i THEN j ELSE j + 1) \in 1..Len(queue)
  BY <1>1, <1>2
<1>5. QueuedOnce'
  <2> SUFFICES ASSUME NEW j \in 1..Len(d), NEW k \in 1..Len(d), d[j] = d[k] PROVE j = k
    BY <1>2 DEF QueuedOnce
  <2>1. (IF j < i THEN j ELSE j + 1) = (IF k < i THEN k ELSE k + 1)
    BY <1>1, <1>4 DEF QueuedOnce
  <2>2. QED
    BY <1>1, <1>2, <2>1
<1>6. ASSUME NEW a PROVE (Queued(a))' <=> Queued(a) /\ a # queue[i]
  <2>1. ASSUME NEW j \in 1..Len(d), d[j] = a PROVE Queued(a) /\ a # queue[i]
    <3>1. (IF j < i THEN j ELSE j + 1) # i
      BY <1>1, <1>2
    <3>2. QED
      BY <1>1, <1>3, <1>4, <2>1, <3>1 DEF Queued
  <2>2. ASSUME NEW k \in 1..Len(queue), queue[k] = a, a # queue[i]
        PROVE  \E j \in 1..Len(d) : d[j] = a
    <3>1. CASE k < i
      BY <1>1, <1>2, <2>2, <3>1
    <3>2. CASE i < k
      <4>1. k - 1 \in 1..Len(d) /\ ~(k - 1 < i) /\ (k - 1) + 1 = k
        BY <1>1, <1>2, <3>2
      <4>2. QED
        BY <1>1, <2>2, <4>1
    <3>3. QED
      BY <2>2, <3>1, <3>2
  <2>3. QED
    BY <1>2, <2>1, <2>2 DEF Queued
<1>7. QED
  BY <1>5, <1>6

\* A cancelled agent is not queued any more.
LEMMA CancelQueue ==
  ASSUME queue \in Seq(Agent), QueuedOnce, NEW a, CancelQueued(a)
  PROVE  /\ QueuedOnce'
         /\ \A b : (Queued(b))' <=> Queued(b) /\ b # a
<1>1. CASE Queued(a)
  <2>1. PICK i \in 1..Len(queue) : queue[i] = a /\ queue' = Taken(i)
    BY <1>1 DEF CancelQueued, Queued
  <2>2. QED
    BY <2>1, TakenQueue
<1>2. CASE ~Queued(a)
  <2>1. queue' = queue
    BY <1>2 DEF CancelQueued, Queued
  <2>2. QED
    BY <1>2, <2>1 DEF QueuedOnce, Queued
<1>3. QED
  BY <1>1, <1>2

LEMMA AppendQueue ==
  ASSUME queue \in Seq(Agent), QueuedOnce, NEW a \in Agent, ~Queued(a),
         queue' = Append(queue, a)
  PROVE  /\ QueuedOnce'
         /\ \A b : (Queued(b))' <=> Queued(b) \/ b = a
<1>1. /\ Len(queue) \in Nat /\ Len(queue') = Len(queue) + 1
      /\ \A j \in 1..Len(queue) : queue'[j] = queue[j]
      /\ queue'[Len(queue) + 1] = a
  BY LenProperties, AppendProperties
<1>2. \A j : j \in 1..Len(queue') <=> j \in 1..Len(queue) \/ j = Len(queue) + 1
  BY <1>1
<1>3. \A j \in 1..Len(queue) : queue[j] # a
  BY DEF Queued
<1>4. QueuedOnce'
  BY <1>1, <1>2, <1>3 DEF QueuedOnce
<1>5. QED
  BY <1>1, <1>2, <1>4 DEF Queued

\* An action that leaves the queue alone.
LEMMA SameQueue ==
  ASSUME queue' = queue
  PROVE  (QueuedOnce' <=> QueuedOnce) /\ \A a : (Queued(a))' <=> Queued(a)
BY DEF QueuedOnce, Queued

LEMMA QueueStep ==
  ASSUME RestType, JobType, SlotInv, QueueInv, [Next]_vars
  PROVE  QueueInv'
<1> USE GateAssumption DEF RestType, gateVars, queueVars
<1>1. ASSUME NEW th \in Thread, NEW a \in Agent, NEW t \in Ticket, Reserve(th, a, t)
      PROVE  QueueInv'
  <2>1. queue' = queue /\ handed' = handed /\ Pc(th) = "idle" /\ target[a] = NoTicket
    BY <1>1 DEF Reserve, At, Pc
  <2>2. ~Queued(a) /\ a \notin handed
    BY <2>1 DEF QueueInv, QueuedIsNew, HandedHasTarget
  <2>3. /\ \A h \in Thread : h # th => Pc(h)' = Pc(h) /\ Ag(h)' = Ag(h)
        /\ Pc(th)' \in EarlyPcs => Ag(th)' = a
    <3>1. CASE UNCHANGED job
      BY <2>1, <3>1 DEF Pc, Ag, EarlyPcs
    <3>2. CASE job' = [job EXCEPT ![th] = [pc |-> "claim", agent |-> a]]
      BY <3>2, StartJob DEF Pcs
    <3>3. QED
      BY <1>1, <3>1, <3>2 DEF Reserve
  <2>4. /\ \A b \in Agent : target'[b] = IF b = a THEN t ELSE target[b]
        /\ tokens \subseteq tokens'
    BY <1>1 DEF Reserve
  <2>5. t # NoTicket
    OBVIOUS
  <2>6. QueuedOnce' /\ QueuedIsNew' /\ HandedHasTarget'
    BY <2>1, <2>2, <2>4, <2>5, SameQueue DEF QueueInv, QueuedIsNew, HandedHasTarget
  <2>7. NotYetQueued'
    BY <2>1, <2>2, <2>3, SameQueue DEF QueueInv, NotYetQueued
  <2>8. QueuedHasSlot'
    BY <2>1, <2>3, <2>4, SameQueue DEF QueueInv, QueuedHasSlot
  <2>9. QED
    BY <2>6, <2>7, <2>8 DEF QueueInv
<1>2. ASSUME NEW th \in Thread, NEW a \in Agent, CancelCalled(th, a) \/ CompleteCalled(th, a)
      PROVE  QueueInv'
  <2>1. /\ Pc(th) = "idle" /\ Pc(th)' = "pop"
        /\ \A h \in Thread : h # th => Pc(h)' = Pc(h) /\ Ag(h)' = Ag(h)
    BY <1>2, StartJob DEF CancelCalled, CompleteCalled, At, Pc, Pcs
  <2>2. QueuedOnce' /\ \A b : (Queued(b))' => Queued(b)
    BY <1>2, CancelQueue, SameQueue DEF CancelCalled, CompleteCalled, QueueInv
  <2>3. target' = target /\ handed' = handed /\ tokens' = tokens
    BY <1>2 DEF CancelCalled, CompleteCalled
  <2>4. QED
    BY <2>1, <2>2, <2>3 DEF QueueInv, QueuedIsNew, HandedHasTarget, NotYetQueued, QueuedHasSlot,
       EarlyPcs
<1>3. ASSUME NEW th \in Thread, Claim(th) \/ Record(th) \/ Pop(th) \/ CheckOwner(th) \/ Unlink(th)
      PROVE  QueueInv'
  <2>1. /\ Pc(th) # "withdraw" /\ (Pc(th)' \in EarlyPcs => Pc(th) \in EarlyPcs /\ Ag(th)' = Ag(th))
        /\ \A h \in Thread : h # th => Pc(h)' = Pc(h) /\ Ag(h)' = Ag(h)
    BY <1>3, GotoJob, ReturnJob DEF Claim, Record, Pop, CheckOwner, Unlink, At, Pc, Pcs, EarlyPcs
  <2>2. target' = target /\ handed' = handed /\ tokens' = tokens /\ queue' = queue
    BY <1>3 DEF Claim, Record, Pop, CheckOwner, Unlink
  <2>3. QED
    BY <2>1, <2>2, SameQueue DEF QueueInv, QueuedIsNew, HandedHasTarget, NotYetQueued,
       QueuedHasSlot
<1>4. ASSUME NEW th \in Thread, Unreserve(th) PROVE QueueInv'
  <2>1. /\ Pc(th) = "unreserve" /\ Pc(th)' = "idle" /\ tokens' = tokens \ {Ag(th)}
        /\ \A h \in Thread : h # th => Pc(h)' = Pc(h) /\ Ag(h)' = Ag(h)
    BY <1>4, ReturnJob DEF Unreserve, At, Pc, Ag
  <2>2. target' = target /\ handed' = handed /\ queue' = queue
    BY <1>4 DEF Unreserve
  <2>3. ~Queued(Ag(th))
    BY <2>1 DEF QueueInv, NotYetQueued, EarlyPcs
  <2>4. QED
    BY <2>1, <2>2, <2>3, SameQueue DEF QueueInv, QueuedIsNew, HandedHasTarget, NotYetQueued,
       QueuedHasSlot, EarlyPcs
<1>5. ASSUME NEW th \in Thread, Enqueue(th) PROVE QueueInv'
  <2>1. /\ Pc(th) = "enqueue" /\ Pc(th)' = "record" /\ Ag(th)' = Ag(th) /\ Ag(th) \in Agent
        /\ \A h \in Thread : h # th => Pc(h)' = Pc(h) /\ Ag(h)' = Ag(h)
    BY <1>5, GotoJob DEF Enqueue, At, Pc, Pcs, JobType
  <2>2. target' = target /\ handed' = handed /\ tokens' = tokens /\ queue' = Append(queue, Ag(th))
    BY <1>5 DEF Enqueue, Ag
  <2>3. /\ ~Queued(Ag(th)) /\ Ag(th) \notin handed /\ Ag(th) \in tokens
        /\ target[Ag(th)] # NoTicket
    BY <2>1 DEF QueueInv, NotYetQueued, EarlyPcs, SlotInv, EngagedHasSlot, EngagedPcs, SlotHasTarget
  <2>4. QueuedOnce' /\ \A b : (Queued(b))' <=> Queued(b) \/ b = Ag(th)
    BY <2>1, <2>2, <2>3, AppendQueue DEF QueueInv
  <2>5. \A h \in Thread : h # th /\ Pc(h) \in EarlyPcs => Ag(h) # Ag(th)
    BY <2>1 DEF SlotInv, OneCallPerAgent, EngagedPcs, EarlyPcs
  <2>6. NotYetQueued'
    BY <2>1, <2>2, <2>4, <2>5 DEF QueueInv, NotYetQueued, EarlyPcs
  <2>7. QueuedIsNew' /\ HandedHasTarget'
    BY <2>2, <2>3, <2>4 DEF QueueInv, QueuedIsNew, HandedHasTarget
  <2>8. QueuedHasSlot'
    BY <2>1, <2>2, <2>3, <2>4 DEF QueueInv, QueuedHasSlot
  <2>9. QED
    BY <2>4, <2>6, <2>7, <2>8 DEF QueueInv
<1>6. ASSUME NEW th \in Thread, ReleaseToken(th) PROVE QueueInv'
  <2>1. /\ Pc(th)' = "withdraw" /\ Ag(th)' = Ag(th) /\ tokens' = tokens \ {Ag(th)}
        /\ Pc(th) = "release"
        /\ \A h \in Thread : h # th => Pc(h)' = Pc(h) /\ Ag(h)' = Ag(h)
    BY <1>6, GotoJob DEF ReleaseToken, At, Pc, Ag, Pcs
  <2>2. target' = target /\ handed' = handed /\ queue' = queue
    BY <1>6 DEF ReleaseToken
  <2>3. QED
    BY <2>1, <2>2, SameQueue DEF QueueInv, QueuedIsNew, HandedHasTarget, NotYetQueued,
       QueuedHasSlot, EarlyPcs
<1>7. ASSUME NEW th \in Thread, Withdraw(th) PROVE QueueInv'
  <2>1. /\ Pc(th)' = "idle"
        /\ \A h \in Thread : h # th => Pc(h)' = Pc(h) /\ Ag(h)' = Ag(h)
    BY <1>7, ReturnJob DEF Withdraw
  <2>2. QueuedOnce' /\ \A b : (Queued(b))' <=> Queued(b) /\ b # Ag(th)
    BY <1>7, CancelQueue DEF Withdraw, QueueInv, Ag
  <2>3. target' = target /\ handed' = handed /\ tokens' = tokens
    BY <1>7 DEF Withdraw
  <2>4. QED
    BY <2>1, <2>2, <2>3 DEF QueueInv, QueuedIsNew, HandedHasTarget, NotYetQueued,
       QueuedHasSlot, EarlyPcs
<1>8. ASSUME NEW r \in Role, DequeueReady(r) PROVE QueueInv'
  <2>1. PICK i \in 1..Len(queue) : queue' = Taken(i) /\ handed' = handed \cup {queue[i]}
    BY <1>8 DEF DequeueReady
  <2>2. QueuedOnce' /\ \A b : (Queued(b))' <=> Queued(b) /\ b # queue[i]
    BY <2>1, TakenQueue DEF QueueInv
  <2>3. Queued(queue[i]) /\ queue[i] \in Agent
    BY ElementOfSeq DEF Queued
  <2>4. UNCHANGED <<target, tokens, job>>
    BY <1>8 DEF DequeueReady
  <2>5. \A h \in Thread : Pc(h)' = Pc(h) /\ Ag(h)' = Ag(h)
    BY <2>4 DEF Pc, Ag
  <2>6. QED
    BY <2>1, <2>2, <2>3, <2>4, <2>5 DEF QueueInv, QueuedIsNew, HandedHasTarget, NotYetQueued,
       QueuedHasSlot
<1>9. CASE (\E r \in Role : StaggerElapses(r)) \/ UNCHANGED vars
  <2>1. UNCHANGED <<queue, handed, target, tokens, job>>
    BY <1>9 DEF StaggerElapses, vars
  <2>2. \A h \in Thread : Pc(h)' = Pc(h) /\ Ag(h)' = Ag(h)
    BY <2>1 DEF Pc, Ag
  <2>3. QED
    BY <2>1, <2>2, SameQueue DEF QueueInv, QueuedIsNew, HandedHasTarget, NotYetQueued,
       QueuedHasSlot
<1>10. QED
  BY <1>1, <1>2, <1>3, <1>4, <1>5, <1>6, <1>7, <1>8, <1>9 DEF Next, Step

LEMMA QueueInvAlways == Spec => [](TypeOK /\ SlotInv /\ QueueInv)
<1>1. Init => QueueInv
  BY DEF Init, QueueInv, QueuedOnce, QueuedIsNew, HandedHasTarget, NotYetQueued, QueuedHasSlot,
     Queued, Pc, Idle, EarlyPcs
<1>2. TypeOK /\ SlotInv /\ QueueInv /\ [Next]_vars => QueueInv'
  BY TypeSplit, QueueStep
<1>3. QED
  BY <1>1, <1>2, SlotInvAlways, PTL DEF Spec

\* Requests of one role are handed out in the order they were queued, whatever is
\* cancelled in between: two entries never stand for the same dispatch.
THEOREM RolesInOrder == Spec => RoleFifo
<1> DEFINE Fifo ==
      \A i, j \in 1..Len(queue) :
        /\ i < j
        /\ RoleOf[queue[i]] = RoleOf[queue[j]]
        /\ queue[j] \in handed' \ handed
        => queue[i] \in handed'
<1>1. TypeOK /\ QueueInv /\ [Next]_vars => Fifo
  <2> SUFFICES ASSUME TypeOK, QueueInv, [Next]_vars,
                      NEW i \in 1..Len(queue), NEW j \in 1..Len(queue), i < j,
                      RoleOf[queue[i]] = RoleOf[queue[j]], queue[j] \in handed' \ handed
               PROVE  queue[i] \in handed'
    OBVIOUS
  <2>1. PICK r \in Role : DequeueReady(r)
    BY DEF Next, Step, vars, gateVars, queueVars, Reserve, Claim, Unreserve, Enqueue, Record,
       CancelCalled, CompleteCalled, Pop, CheckOwner, Unlink, ReleaseToken, Withdraw, StaggerElapses
  <2>2. PICK k \in 1..Len(queue) :
          /\ RoleOf[queue[k]] = r
          /\ \A l \in 1..(k - 1) : RoleOf[queue[l]] # r
          /\ handed' = handed \cup {queue[k]}
    BY <2>1 DEF DequeueReady
  <2>3. j = k
    BY <2>2 DEF QueueInv, QueuedOnce
  <2>4. Len(queue) \in Nat
    BY LenProperties DEF TypeOK
  <2>5. QED
    BY <2>2, <2>3, <2>4
<1>2. QED
  BY <1>1, QueueInvAlways, PTL DEF Spec, RoleFifo

\* A dispatch is handed out to be started at most once, whichever calls run beside
\* the drain: what is in the queue was not handed out, and is in it once.
THEOREM HandedOutOnce ==
  Spec => [](\A i, j \in 1..Len(queue) :
               queue[i] \notin handed /\ (queue[i] = queue[j] => i = j))
<1>1. TypeOK /\ QueueInv =>
        \A i, j \in 1..Len(queue) : queue[i] \notin handed /\ (queue[i] = queue[j] => i = j)
  BY ElementOfSeq DEF TypeOK, QueueInv, QueuedOnce, QueuedIsNew, Queued
<1>2. QED
  BY <1>1, QueueInvAlways, PTL

\* The spawn queue, which the code does not bound, never holds more requests than
\* MaxSlots and one for each call that has given its slot back and not yet
\* withdrawn its request.
THEOREM QueueBounded ==
  ASSUME IsFiniteSet(Thread)
  PROVE  Spec => [](Len(queue) <= MaxSlots + Cardinality({th \in Thread : At(th, "withdraw")}))
<1>1. ASSUME TypeOK, SlotInv, QueueInv
      PROVE  Len(queue) <= MaxSlots + Cardinality({th \in Thread : At(th, "withdraw")})
  <2> DEFINE W == {th \in Thread : At(th, "withdraw")}
             Leaving == {Ag(th) : th \in W}
             D == tokens \cup Leaving
             ag == [th \in W |-> Ag(th)]
  <2>1. IsFiniteSet(W) /\ Cardinality(W) \in Nat
    BY FS_Subset, FS_CardinalityType
  <2>2. IsFiniteSet(Leaving) /\ Cardinality(Leaving) <= Cardinality(W)
    <3>1. ag \in Surjection(W, Leaving)
      BY DEF Surjection
    <3>2. QED
      BY <2>1, <3>1, FS_Surjection
  <2>3. IsFiniteSet(D) /\ Cardinality(D) <= MaxSlots + Cardinality(W)
    <3>1. IsFiniteSet(tokens) /\ Cardinality(tokens) \in Nat /\ Cardinality(tokens) <= MaxSlots
      BY <1>1, FS_CardinalityType DEF TypeOK, SlotInv, WithinLimit
    <3>2. Cardinality(Leaving) \in Nat
      BY <2>2, FS_CardinalityType
    <3>3. Cardinality(tokens \cap Leaving) \in Nat
      BY <3>1, FS_Subset, FS_CardinalityType
    <3>4. /\ IsFiniteSet(D)
          /\ Cardinality(D) = Cardinality(tokens) + Cardinality(Leaving)
                              - Cardinality(tokens \cap Leaving)
      BY <2>2, <3>1, FS_Union
    <3>5. Cardinality(D) <= MaxSlots + Cardinality(W)
      BY ONLY <2>1, <2>2, <3>1, <3>2, <3>3, <3>4, GateAssumption DEF GateAssumption
    <3>6. QED
      BY <3>4, <3>5
  <2>4. /\ Len(queue) \in Nat /\ DOMAIN queue = 1..Len(queue)
        /\ queue \in [1..Len(queue) -> Agent]
    BY <1>1, LenProperties DEF TypeOK
  <2>5. \A i \in 1..Len(queue) : queue[i] \in D
    <3>1. ASSUME NEW i \in 1..Len(queue) PROVE queue[i] \in D
      <4>1. Queued(queue[i]) /\ queue[i] \in Agent
        BY <2>4 DEF Queued
      <4>2. QED
        BY <1>1, <4>1 DEF QueueInv, QueuedHasSlot, At, Pc
    <3>2. QED
      BY <3>1
  <2>6. queue \in Injection(1..Len(queue), D)
    <3>1. queue \in [1..Len(queue) -> D]
      BY <2>4, <2>5
    <3>2. \A i, j \in DOMAIN queue : queue[i] = queue[j] => i = j
      BY <1>1, <2>4 DEF QueueInv, QueuedOnce
    <3>3. QED
      BY <3>1, <3>2 DEF Injection, IsInjective
  <2>7. Cardinality(1..Len(queue)) = Len(queue)
    BY <2>4, FS_Interval
  <2>8. Cardinality(1..Len(queue)) <= Cardinality(D)
    BY <2>3, <2>6, FS_Injection
  <2>9. Cardinality(D) \in Nat
    BY <2>3, FS_CardinalityType
  <2> HIDE DEF W, Leaving, D
  <2>10. Len(queue) <= MaxSlots + Cardinality(W)
    BY ONLY <2>1, <2>3, <2>4, <2>7, <2>8, <2>9, GateAssumption DEF GateAssumption
  <2>11. QED
    BY <2>10 DEF W
<1>2. QED
  BY <1>1, QueueInvAlways, PTL
=============================================================================
