----------------------- MODULE TicketLifecycle_proofs -----------------------
(***************************************************************************)
(* The lifecycle for any tickets, fields, calls and faults.  None of the   *)
(* properties is inductive alone: what a rollback or a restart brings back *)
(* is what the batch remembered and what the log holds, so the same facts  *)
(* are kept of the three, and each may only lag behind the next.           *)
(***************************************************************************)
EXTENDS TicketLifecycle, FiniteSetTheorems, TLAPS

Evidence == {"commit_sha", "reviewer_feedback", "origin_id"}

\* What the contracts have made of a ticket in some state.
Sound(k) ==
  /\ k.state = "COMPLETE" => k.has \cap {"commit_sha", "origin_id"} # {}
  /\ k.state = "REWORK" => {"reviewer_feedback", "rework_count"} \subseteq k.has
  /\ k.state = "IMPLEMENT" => "attempts" \in k.has
  /\ k.state = "VERIFY" => "reviewer_feedback" \in k.has

\* A later ticket: moves have led from one to the other, each of them counted, no
\* field of the evidence is lost, closed states are kept.
Follows(d, k) ==
  /\ LeadsTo(d.state, k.state)
  /\ d.version <= k.version
  /\ d.state # k.state => d.version < k.version
  /\ d.has \cap Evidence \subseteq k.has
  /\ d.state \in Closed =>
       k.state = d.state \/ (d.state # "COMPLETE" /\ k.state \in UNIVERSAL_EXITS)

\* The fields a repair may touch in a state are not those the state rests on.
Harmless(s, F) ==
  /\ s = "COMPLETE" => F \cap {"commit_sha", "origin_id"} = {}
  /\ s = "REWORK" => F \cap {"reviewer_feedback", "rework_count"} = {}
  /\ s = "IMPLEMENT" => "attempts" \notin F
  /\ s = "VERIFY" => "reviewer_feedback" \notin F

BatchShape ==
  /\ ~open => DOMAIN original = {} /\ moved = {}
  /\ \A m \in moved : m[1] \in DOMAIN original

Stages ==
  /\ \A t \in Ticket :
       Sound(tickets[t]) /\ Sound(durable[t]) /\ Follows(durable[t], tickets[t])
  /\ \A t \in DOMAIN original :
       /\ Sound(original[t])
       /\ Follows(durable[t], original[t])
       /\ original[t].version < tickets[t].version

\* The ticket as the call under way, if any, found it.
Settled0(t) == IF t \in DOMAIN original THEN original[t] ELSE tickets[t]
LogAgrees == \A t \in Ticket \ ahead : Logged(durable[t]) = Logged(Settled0(t))

Artifacts ==
  /\ DOMAIN gate_failures \subseteq Key
  /\ \A k \in DOMAIN gate_failures :
       gate_failures[k] \in Failure /\ Harmless(k[2], gate_failures[k].missing)

Repairs ==
  /\ Artifacts
  /\ claim # NoClaim => Harmless(claim.state, claim.allowed)

\* What a step does to the log: it moves tickets on, or patches one, and drops
\* artifacts only of tickets it moves.
Onward ==
  /\ \A t \in Ticket :
       \/ Follows(durable[t], durable'[t])
       \/ /\ t = claim.of
          /\ durable'[t].state = tickets[t].state
          /\ durable'[t].version = tickets[t].version + 1
          /\ \A f \in Evidence : f \in tickets[t].has \ durable'[t].has => f \in claim.expected
  /\ \A k \in DOMAIN gate_failures \ DOMAIN gate_failures' :
       durable'[k[1]].version > durable[k[1]].version

LifeInv == TypeOK /\ IndexMatchesTickets /\ BatchShape /\ Stages /\ LogAgrees /\ Repairs

-----------------------------------------------------------------------------
(* The contracts *)

LEMMA ContractType == ASSUME NEW s \in State, NEW d \in State PROVE Contract(s, d) \subseteq Field
  BY DEF Contract, State, Field

\* What the contract of a move guarantees of the state it leads to.
LEMMA ContractKeeps ==
  ASSUME NEW s \in State
  PROVE  /\ Contract(s, "REWORK") = {"reviewer_feedback"}
         /\ Contract(s, "VERIFY") = {"reviewer_feedback"}
         /\ Contract(s, "REVIEW") = {"attempts"}
         /\ Contract(s, "COMPLETE") \in {{"commit_sha"}, {"origin_id"}}
         /\ Contract("REWORK", "IMPLEMENT") = {"reviewer_feedback", "rework_count"}
  BY DEF Contract, State

\* What a state's own contracts may ask for, once the state's facts hold.
LEMMA MovesNeed ==
  ASSUME NEW k \in TicketRec, Sound(k), NEW d \in State, HasContract(k, d)
  PROVE  Harmless(k.state, Missing(k, d))
<1>1. CASE d \in UNIVERSAL_EXITS
  <2>1. Contract(k.state, d) \subseteq {"superseded_by"}
    BY <1>1 DEF Contract, UNIVERSAL_EXITS
  <2> QED BY <2>1 DEF Harmless, Missing
<1>2. CASE d \in TRANSITIONS[k.state]
  <2>0. k.state \in State BY DEF TicketRec
  <2>1. CASE k.state = "COMPLETE"
    BY <1>2, <2>1 DEF TRANSITIONS, State
  <2>2. CASE k.state = "REWORK"
    <3>1. d = "IMPLEMENT" BY <1>2, <2>2 DEF TRANSITIONS, State
    <3>2. Contract(k.state, d) = {"reviewer_feedback", "rework_count"}
      BY <2>2, <3>1, ContractKeeps DEF State
    <3> QED BY <2>2, <3>2 DEF Harmless, Missing, Present, Sound
  <2>3. CASE k.state = "IMPLEMENT"
    <3>1. d \in {"REVIEW", "REWORK"} BY <1>2, <2>3 DEF TRANSITIONS, State
    <3>2. Contract(k.state, d) \subseteq {"attempts", "reviewer_feedback"}
      BY <2>0, <3>1, ContractKeeps
    <3> QED BY <2>3, <3>2 DEF Harmless, Missing, Present, Sound
  <2>4. CASE k.state = "VERIFY"
    BY <2>4 DEF Harmless, Missing, Present, Sound
  <2> QED BY <2>1, <2>2, <2>3, <2>4 DEF Harmless
<1> QED BY <1>1, <1>2 DEF HasContract

\* What moves lead to.
LEMMA LeadsToItself == \A s \in State : LeadsTo(s, s)
  BY DEF LeadsTo

LEMMA LeadsOn ==
  ASSUME NEW a, NEW b, NEW c, LeadsTo(a, b), LeadsTo(b, c)
  PROVE  LeadsTo(a, c)
  BY DEF LeadsTo

LEMMA MoveLeads ==
  ASSUME NEW k \in TicketRec, NEW d \in State, Legal(k, d)
  PROVE  LeadsTo(k.state, d)
<1> SUFFICES ASSUME NEW S \in SUBSET State, k.state \in S, ClosedUnderMoves(S) PROVE d \in S
  BY DEF LeadsTo
<1> QED BY DEF ClosedUnderMoves, Legal

\* A move that the gates let pass.
LEMMA MoveKeeps ==
  ASSUME NEW k \in TicketRec, NEW d \in State, ContextOk(k, d), Legal(k, d), Sound(k)
  PROVE  /\ Moved(k, d) \in TicketRec
         /\ Moved(k, d).state = d
         /\ Moved(k, d).version = k.version + 1
         /\ Sound(Moved(k, d))
         /\ Follows(k, Moved(k, d))
<1> DEFINE m == Moved(k, d)
<1>0. k.state \in State /\ k.has \subseteq Field /\ k.version \in Nat /\ k.goal \in Disposition \cup {""}
  BY DEF TicketRec
<1>1. m.state = d /\ m.version = k.version + 1 /\ m.goal = k.goal /\ k.has \subseteq m.has
  BY DEF Moved, TicketRec
<1>2. m.has \subseteq Field
  BY <1>0 DEF Moved, TicketRec, Field
<1>9. k.version \in Nat /\ k.version + 1 \in Nat /\ k.version <= k.version + 1
  <2>1. k.version \in Nat
    BY DEF TicketRec
  <2> QED BY <2>1
<1>3. m \in TicketRec
  <2>1. k.goal \in Disposition \cup {""}
    BY DEF TicketRec
  <2> QED BY <1>2, <1>9, <2>1 DEF Moved, TicketRec
<1>4. Contract(k.state, d) \subseteq Present(k)
  BY DEF ContextOk, Missing
<1>5. \A f \in {"commit_sha", "origin_id", "reviewer_feedback"} : f \in Present(k) => f \in m.has
  BY <1>1 DEF Present
<1>6. Sound(m)
  <2>1. d = "COMPLETE" => m.has \cap {"commit_sha", "origin_id"} # {}
    BY <1>0, <1>4, <1>5, ContractKeeps
  <2>2. d = "REWORK" => {"reviewer_feedback", "rework_count"} \subseteq m.has
    <3>1. d = "REWORK" => "rework_count" \in m.has BY <1>0 DEF Moved, TicketRec
    <3> QED BY <1>0, <1>4, <1>5, <3>1, ContractKeeps
  <2>3. d = "IMPLEMENT" => "attempts" \in m.has BY <1>0 DEF Moved, TicketRec
  <2>4. d = "VERIFY" => "reviewer_feedback" \in m.has
    BY <1>0, <1>4, <1>5, ContractKeeps
  <2> HIDE DEF m
  <2> QED BY <1>1, <2>1, <2>2, <2>3, <2>4 DEF Sound
<1>7. k.state \in Closed => d = k.state \/ (k.state # "COMPLETE" /\ d \in UNIVERSAL_EXITS)
  <2>1. k.state \in Closed => TRANSITIONS[k.state] = {}
    BY <1>0 DEF TRANSITIONS, Closed, Swept, UNIVERSAL_EXITS, State
  <2> QED BY <2>1 DEF Legal
<1>8. Follows(k, m)
  <2>1. k.version <= m.version /\ k.version < m.version
    BY <1>9 DEF Moved
  <2>3. LeadsTo(k.state, m.state)
    BY <1>1, MoveLeads
  <2>2. k.has \cap Evidence \subseteq m.has
    BY <1>1
  <2> HIDE DEF m
  <2> QED BY <1>1, <1>7, <2>1, <2>2, <2>3 DEF Follows
<1> QED BY <1>1, <1>3, <1>6, <1>8

LEMMA FollowsTrans ==
  ASSUME NEW a \in TicketRec, NEW b \in TicketRec, NEW c \in TicketRec, Follows(a, b), Follows(b, c)
  PROVE  Follows(a, c)
<1>1. a.version \in Nat /\ b.version \in Nat /\ c.version \in Nat
  BY DEF TicketRec
<1>2. a.version <= c.version /\ (a.state # c.state => a.version < c.version)
  BY <1>1 DEF Follows
<1>6. LeadsTo(a.state, c.state)
  BY LeadsOn DEF Follows
<1>3. a.has \cap Evidence \subseteq c.has
  BY DEF Follows
<1>4. UNIVERSAL_EXITS \subseteq Closed
  BY DEF Closed, Swept
<1>5. "COMPLETE" \notin UNIVERSAL_EXITS
  BY DEF UNIVERSAL_EXITS
<1> QED BY <1>2, <1>3, <1>4, <1>5, <1>6 DEF Follows

LEMMA FollowsSelf == ASSUME NEW k \in TicketRec PROVE Follows(k, k)
<1>1. k.version \in Nat /\ k.state \in State
  BY DEF TicketRec
<1> QED BY <1>1, LeadsToItself DEF Follows

-----------------------------------------------------------------------------
(* What the calls do to the parts of the state *)

LEMMA VersionType == \A n \in Nat : n + 1 \in Nat
  OBVIOUS

LEMMA NoBatch == DOMAIN <<>> = {}
  OBVIOUS

\* A subset of the tickets has a natural number of elements.
LEMMA CountType == ASSUME NEW S \in SUBSET Ticket PROVE Cardinality(S) \in Nat
  BY LifecycleAssumption, FS_Subset, FS_CardinalityType

LEMMA InitialTickets ==
  ASSUME NEW t \in Ticket
  PROVE  Added(t) \in TicketRec /\ Sound(Added(t))
<1>1. /\ FirstState[t] \in State \ {"IMPLEMENT", "REWORK", "VERIFY", "COMPLETE"}
      /\ FirstFields[t] \subseteq Field
  BY LifecycleAssumption
<1>2. Added(t) \in TicketRec
  BY <1>1 DEF Added, TicketRec
<1>3. Added(t).state \in State \ {"IMPLEMENT", "REWORK", "VERIFY", "COMPLETE"}
  BY <1>1 DEF Added
<1> QED BY <1>2, <1>3 DEF Sound

\* An index and its counts built afresh.
LEMMA IndexBuilt ==
  ASSUME NEW f \in [Ticket -> TicketRec]
  PROVE  /\ IndexOf(f) \in [State -> SUBSET Ticket]
         /\ CountsOf(IndexOf(f)) \in [State -> Nat]
  BY CountType DEF IndexOf, CountsOf

\* One ticket moves to a state in the index, and the counts of two states are renewed.
LEMMA IndexMoved ==
  ASSUME TypeOK, IndexMatchesTickets, NEW t \in Ticket, NEW dst \in State, NEW src \in State,
         src = tickets[t].state, NEW k \in TicketRec, k.state = dst,
         tickets' = [tickets EXCEPT ![t] = k],
         state_index' = [[state_index EXCEPT ![src] = @ \ {t}] EXCEPT ![dst] = @ \cup {t}],
         state_counts' = [state_counts EXCEPT ![src] = Cardinality(state_index'[src]),
                                              ![dst] = Cardinality(state_index'[dst])]
  PROVE  /\ tickets' \in [Ticket -> TicketRec]
         /\ state_index' \in [State -> SUBSET Ticket] /\ state_counts' \in [State -> Nat]
         /\ IndexMatchesTickets'
<1>0. /\ tickets \in [Ticket -> TicketRec] /\ state_index \in [State -> SUBSET Ticket]
      /\ state_counts \in [State -> Nat]
  BY DEF TypeOK
<1>1. tickets' \in [Ticket -> TicketRec]
  BY <1>0
<1>2. state_index' \in [State -> SUBSET Ticket]
  BY <1>0
<1>3. \A s \in State : state_index'[s] = {u \in Ticket : tickets'[u].state = s}
  <2>1. \A s \in State : state_index[s] = {u \in Ticket : tickets[u].state = s}
    BY DEF IndexMatchesTickets
  <2> QED BY <1>0, <2>1
<1>4. \A s \in State : Cardinality(state_index'[s]) \in Nat
  BY <1>2, CountType
<1>5. state_counts' \in [State -> Nat]
  BY <1>0, <1>4
<1>6. \A s \in State : state_counts'[s] = Cardinality(state_index'[s])
  <2>1. \A s \in State : state_counts[s] = Cardinality(state_index[s])
    BY DEF IndexMatchesTickets
  <2>2. \A s \in State \ {src, dst} : state_index'[s] = state_index[s]
    BY <1>0
  <2> QED BY <1>0, <2>1, <2>2
<1> QED BY <1>1, <1>2, <1>3, <1>5, <1>6 DEF IndexMatchesTickets

LEMMA RollBackKeeps ==
  ASSUME TypeOK, IndexMatchesTickets, RollBack
  PROVE  /\ tickets' \in [Ticket -> TicketRec]
         /\ state_index' \in [State -> SUBSET Ticket] /\ state_counts' \in [State -> Nat]
         /\ IndexMatchesTickets'
<1>0. /\ tickets \in [Ticket -> TicketRec] /\ state_index \in [State -> SUBSET Ticket]
      /\ state_counts \in [State -> Nat]
      /\ DOMAIN original \subseteq Ticket /\ \A t \in DOMAIN original : original[t] \in TicketRec
  BY DEF TypeOK
<1>1. tickets' \in [Ticket -> TicketRec]
  BY <1>0 DEF RollBack
<1>2. state_index' \in [State -> SUBSET Ticket]
  BY <1>0 DEF RollBack
<1>3. \A s \in State : state_index'[s] = {u \in Ticket : tickets'[u].state = s}
  <2>1. \A s \in State : state_index[s] = {u \in Ticket : tickets[u].state = s}
    BY DEF IndexMatchesTickets
  <2> QED BY <1>0, <2>1 DEF RollBack
<1>4. \A s \in State : Cardinality(state_index'[s]) \in Nat
  BY <1>2, CountType
<1>5. state_counts' \in [State -> Nat]
  BY <1>0, <1>4 DEF RollBack
<1>6. \A s \in State : state_counts'[s] = Cardinality(state_index'[s])
  <2>1. \A s \in State : state_counts[s] = Cardinality(state_index[s])
    BY DEF IndexMatchesTickets
  <2> QED BY <1>0, <2>1 DEF RollBack
<1> QED BY <1>1, <1>2, <1>3, <1>5, <1>6 DEF IndexMatchesTickets

\* A move made in memory.
LEMMA ApplyKeeps ==
  ASSUME TypeOK, IndexMatchesTickets, Stages, NEW t \in Ticket, NEW dst \in Moves,
         CanMove(t, dst), Apply(t, dst)
  PROVE  /\ tickets' \in [Ticket -> TicketRec]
         /\ state_index' \in [State -> SUBSET Ticket] /\ state_counts' \in [State -> Nat]
         /\ IndexMatchesTickets'
         /\ tickets' = [tickets EXCEPT ![t] = Moved(tickets[t], dst)]
         /\ Moved(tickets[t], dst) \in TicketRec
         /\ Sound(Moved(tickets[t], dst))
         /\ Follows(tickets[t], Moved(tickets[t], dst))
         /\ Follows(durable[t], Moved(tickets[t], dst))
         /\ Moved(tickets[t], dst).version = tickets[t].version + 1
         /\ tickets[t].state \in State /\ dst \in State
<1>1. dst \in State
  BY LifecycleAssumption
<1>2. tickets[t] \in TicketRec /\ durable[t] \in TicketRec
  BY DEF TypeOK
<1>3. tickets[t].state \in State
  BY <1>2 DEF TicketRec
<1>4. Sound(tickets[t]) /\ Follows(durable[t], tickets[t])
  BY DEF Stages
<1>5. ContextOk(tickets[t], dst) /\ Legal(tickets[t], dst)
  BY DEF CanMove
<1>6. /\ Moved(tickets[t], dst) \in TicketRec
      /\ Moved(tickets[t], dst).state = dst
      /\ Moved(tickets[t], dst).version = tickets[t].version + 1
      /\ Sound(Moved(tickets[t], dst))
      /\ Follows(tickets[t], Moved(tickets[t], dst))
  BY <1>1, <1>2, <1>4, <1>5, MoveKeeps
<1>7. Follows(durable[t], Moved(tickets[t], dst))
  BY <1>2, <1>4, <1>6, FollowsTrans
<1>8. /\ tickets' \in [Ticket -> TicketRec]
      /\ state_index' \in [State -> SUBSET Ticket] /\ state_counts' \in [State -> Nat]
      /\ IndexMatchesTickets'
  BY <1>1, <1>3, <1>6, IndexMoved DEF Apply
<1> QED BY <1>1, <1>3, <1>6, <1>7, <1>8 DEF Apply

\* A move that a gate refuses leaves an artifact the repairs can be trusted with.
LEMMA WrittenKeeps ==
  ASSUME TypeOK, Stages, Artifacts, NEW t \in Ticket, NEW dst \in Moves,
         Refused(t, dst), WriteArtifact(t, dst)
  PROVE  Artifacts' /\ DOMAIN gate_failures \subseteq DOMAIN gate_failures'
<1> DEFINE k == tickets[t]
           key == <<t, k.state, dst>>
<1>1. dst \in State /\ k \in TicketRec /\ Sound(k) /\ HasContract(k, dst)
  BY LifecycleAssumption DEF TypeOK, Stages, Refused
<1>2. k.state \in State
  BY <1>1 DEF TicketRec
<1>3. Harmless(k.state, Missing(k, dst))
  BY <1>1, MovesNeed
<1>4. Missing(k, dst) \subseteq Field
  BY <1>1, <1>2, ContractType DEF Missing
<1>5. key \in Key
  BY <1>1, <1>2 DEF Key
<1>6. PICK n \in {1, 2} : gate_failures' =
        [x \in DOMAIN gate_failures \cup {key} |->
           IF x = key THEN [count |-> n, missing |-> Missing(k, dst)] ELSE gate_failures[x]]
  BY DEF WriteArtifact
<1>7. [count |-> n, missing |-> Missing(k, dst)] \in Failure
  BY <1>4 DEF Failure
<1>8. key[2] = k.state
  OBVIOUS
<1> HIDE DEF k, key
<1>9. DOMAIN gate_failures' = DOMAIN gate_failures \cup {key}
  BY <1>6
<1>10. ASSUME NEW x \in DOMAIN gate_failures'
       PROVE  gate_failures'[x] \in Failure /\ Harmless(x[2], gate_failures'[x].missing)
  <2>1. CASE x = key
    BY <1>3, <1>6, <1>7, <1>8, <1>9, <2>1
  <2>2. CASE x # key
    BY <1>6, <1>9, <2>2 DEF Artifacts
  <2> QED BY <2>1, <2>2
<1> QED BY <1>5, <1>9, <1>10 DEF Artifacts

LEMMA ForgottenKeeps ==
  ASSUME Artifacts, NEW S, gate_failures' = Without(gate_failures, S)
  PROVE  /\ Artifacts'
         /\ DOMAIN gate_failures \ DOMAIN gate_failures' \subseteq S
  BY DEF Artifacts, Without

\* A call outside batches that logs ticket t as l and leaves it in memory as k.
LEMMA WriteKeeps ==
  ASSUME TypeOK, BatchShape, Stages, LogAgrees, ~open, NEW t \in Ticket,
         NEW k \in TicketRec, NEW l \in TicketRec, Sound(k), Sound(l), Follows(l, k),
         Logged(l) = Logged(k),
         tickets' = [tickets EXCEPT ![t] = k], durable' = [durable EXCEPT ![t] = l],
         ahead' = ahead \ {t}, UNCHANGED batch
  PROVE  /\ durable' \in [Ticket -> TicketRec] /\ durable'[t] = l
         /\ \A u \in Ticket \ {t} : durable'[u] = durable[u]
         /\ BatchShape' /\ Stages' /\ LogAgrees' /\ ahead' \subseteq Ticket
<1>1. /\ tickets \in [Ticket -> TicketRec] /\ durable \in [Ticket -> TicketRec]
      /\ ahead \subseteq Ticket
  BY DEF TypeOK
<1>2. DOMAIN original = {} /\ DOMAIN original' = {} /\ BatchShape'
  BY DEF BatchShape, batch
<1>3. tickets'[t] = k /\ durable'[t] = l
  BY <1>1
<1>4. \A u \in Ticket \ {t} : tickets'[u] = tickets[u] /\ durable'[u] = durable[u]
  BY <1>1
<1>5. Stages'
  BY <1>2, <1>3, <1>4 DEF Stages
<1>6. LogAgrees'
  BY <1>2, <1>3, <1>4 DEF LogAgrees, Settled0
<1>7. durable' \in [Ticket -> TicketRec]
  BY <1>1
<1> QED BY <1>1, <1>2, <1>3, <1>4, <1>5, <1>6, <1>7

-----------------------------------------------------------------------------
(* The steps *)

LEMMA TransitionStep ==
  ASSUME LifeInv, NEW t \in Ticket, NEW dst \in Moves, Transition(t, dst)
  PROVE  LifeInv' /\ Onward
<1> DEFINE k == Moved(tickets[t], dst)
           M == {<<t, tickets[t].state, dst>>}
<1>0. TypeOK /\ IndexMatchesTickets /\ BatchShape /\ Stages /\ LogAgrees /\ Repairs
  BY DEF LifeInv
<1>1. /\ ~open /\ CanMove(t, dst) /\ Apply(t, dst)
      /\ durable' = [durable EXCEPT ![t] = k]
      /\ gate_failures' = Without(gate_failures, Settled(M))
      /\ ahead' = ahead \ {t}
      /\ UNCHANGED <<plans, claim, batch, crashes>>
  BY DEF Transition
<1>2. /\ tickets' \in [Ticket -> TicketRec]
      /\ state_index' \in [State -> SUBSET Ticket] /\ state_counts' \in [State -> Nat]
      /\ IndexMatchesTickets'
      /\ tickets' = [tickets EXCEPT ![t] = k]
      /\ k \in TicketRec /\ Sound(k)
      /\ Follows(durable[t], k)
      /\ k.version = tickets[t].version + 1
  BY <1>0, <1>1, ApplyKeeps
<1>3. Follows(k, k)
  BY <1>2, FollowsSelf
<1>4. \A x \in Settled(M) : x[1] = t
  BY DEF Settled
<1>5. durable[t].version < k.version
  <2>1. durable[t].version \in Nat /\ tickets[t].version \in Nat
    BY <1>0 DEF TypeOK, TicketRec
  <2>2. durable[t].version <= tickets[t].version
    BY <1>0 DEF Stages, Follows
  <2> HIDE DEF k
  <2> QED BY <1>2, <2>1, <2>2
<1> HIDE DEF k, M
<1>6. /\ durable' \in [Ticket -> TicketRec] /\ durable'[t] = k
      /\ \A u \in Ticket \ {t} : durable'[u] = durable[u]
      /\ BatchShape' /\ Stages' /\ LogAgrees' /\ ahead' \subseteq Ticket
  BY <1>0, <1>1, <1>2, <1>3, WriteKeeps
<1>7. Artifacts' /\ DOMAIN gate_failures \ DOMAIN gate_failures' \subseteq Settled(M)
  BY <1>0, <1>1, ForgottenKeeps DEF Repairs
<1>8. TypeOK'
  BY <1>0, <1>1, <1>2, <1>6, <1>7 DEF TypeOK, Artifacts, batch
<1>9. Repairs'
  BY <1>0, <1>1, <1>7 DEF Repairs
<1>10. Onward
  <2>1. ASSUME NEW u \in Ticket PROVE Follows(durable[u], durable'[u])
    <3>1. CASE u = t
      BY <1>2, <1>6, <3>1
    <3>2. CASE u # t
      BY <1>0, <1>6, <3>2, FollowsSelf DEF TypeOK
    <3> QED BY <3>1, <3>2
  <2>2. \A x \in DOMAIN gate_failures \ DOMAIN gate_failures' :
          durable'[x[1]].version > durable[x[1]].version
    <3>1. durable'[t].version > durable[t].version
      <4>1. durable[t].version \in Nat /\ durable'[t].version \in Nat
        BY <1>0, <1>6 DEF TypeOK, TicketRec
      <4> QED BY <1>5, <1>6, <4>1
    <3> QED BY <1>4, <1>7, <3>1
  <2> QED BY <2>1, <2>2 DEF Onward
<1> QED BY <1>2, <1>6, <1>8, <1>9, <1>10 DEF LifeInv

\* A step that logs nothing and drops no artifact.
LEMMA UnloggedOnward ==
  ASSUME TypeOK, durable' = durable, DOMAIN gate_failures \subseteq DOMAIN gate_failures'
  PROVE  Onward
  BY FollowsSelf DEF Onward, TypeOK

LEMMA TransitionUnloggedStep ==
  ASSUME LifeInv, NEW t \in Ticket, NEW dst \in Moves, TransitionUnlogged(t, dst)
  PROVE  LifeInv' /\ Onward
<1> DEFINE k == Moved(tickets[t], dst)
<1>0. TypeOK /\ IndexMatchesTickets /\ BatchShape /\ Stages /\ LogAgrees /\ Repairs
  BY DEF LifeInv
<1>1. /\ ~open /\ CanMove(t, dst) /\ Apply(t, dst)
      /\ ahead' = ahead \cup {t}
      /\ UNCHANGED <<files, plans, claim, batch, crashes>>
  BY DEF TransitionUnlogged
<1>2. /\ tickets' \in [Ticket -> TicketRec]
      /\ state_index' \in [State -> SUBSET Ticket] /\ state_counts' \in [State -> Nat]
      /\ IndexMatchesTickets'
      /\ tickets' = [tickets EXCEPT ![t] = k]
      /\ k \in TicketRec /\ Sound(k)
      /\ Follows(durable[t], k)
  BY <1>0, <1>1, ApplyKeeps
<1> HIDE DEF k
<1>3. DOMAIN original = {} /\ DOMAIN original' = {} /\ BatchShape'
  BY <1>0, <1>1 DEF BatchShape, batch
<1>4. tickets'[t] = k /\ \A u \in Ticket \ {t} : tickets'[u] = tickets[u]
  BY <1>0, <1>2 DEF TypeOK
<1>5. durable' = durable /\ gate_failures' = gate_failures
  BY <1>1 DEF files
<1>6. Stages'
  BY <1>0, <1>2, <1>3, <1>4, <1>5 DEF Stages
<1>7. LogAgrees'
  BY <1>0, <1>1, <1>3, <1>4, <1>5 DEF LogAgrees, Settled0
<1>8. TypeOK'
  BY <1>0, <1>1, <1>2, <1>5 DEF TypeOK, batch
<1>9. Repairs'
  BY <1>0, <1>1, <1>5 DEF Repairs, Artifacts
<1>10. Onward
  BY <1>0, <1>5, UnloggedOnward
<1> QED BY <1>2, <1>3, <1>6, <1>7, <1>8, <1>9, <1>10 DEF LifeInv

LEMMA TransitionRefusedStep ==
  ASSUME LifeInv, NEW t \in Ticket, NEW dst \in Moves, TransitionRefused(t, dst)
  PROVE  LifeInv' /\ Onward
<1>0. TypeOK /\ IndexMatchesTickets /\ BatchShape /\ Stages /\ LogAgrees /\ Repairs
  BY DEF LifeInv
<1>1. /\ Refused(t, dst) /\ WriteArtifact(t, dst)
      /\ UNCHANGED <<memory, durable, plans, claim, batch, ahead, crashes>>
  BY DEF TransitionRefused
<1>2. Artifacts' /\ DOMAIN gate_failures \subseteq DOMAIN gate_failures'
  BY <1>0, <1>1, WrittenKeeps DEF Repairs
<1>3. TypeOK'
  BY <1>0, <1>1, <1>2 DEF TypeOK, Artifacts, memory, batch
<1>4. IndexMatchesTickets' /\ BatchShape' /\ Stages' /\ LogAgrees'
  BY <1>0, <1>1 DEF IndexMatchesTickets, BatchShape, Stages, LogAgrees, Settled0, memory, batch
<1>5. Repairs'
  BY <1>0, <1>1, <1>2 DEF Repairs
<1>6. Onward
  BY <1>0, <1>1, <1>2, UnloggedOnward
<1> QED BY <1>3, <1>4, <1>5, <1>6 DEF LifeInv

LEMMA BatchItemStep ==
  ASSUME LifeInv, NEW t \in Ticket, NEW dst \in Moves, BatchItem(t, dst)
  PROVE  LifeInv' /\ Onward
<1> DEFINE k == Moved(tickets[t], dst)
<1>0. TypeOK /\ IndexMatchesTickets /\ BatchShape /\ Stages /\ LogAgrees /\ Repairs
  BY DEF LifeInv
<1>1. /\ CanMove(t, dst) /\ Remember(t) /\ Apply(t, dst)
      /\ moved' = moved \cup {<<t, tickets[t].state, dst>>} /\ open' = TRUE
      /\ UNCHANGED <<files, plans, claim, ahead, crashes>>
  BY DEF BatchItem
<1>2. /\ tickets' \in [Ticket -> TicketRec]
      /\ state_index' \in [State -> SUBSET Ticket] /\ state_counts' \in [State -> Nat]
      /\ IndexMatchesTickets'
      /\ tickets' = [tickets EXCEPT ![t] = k]
      /\ k \in TicketRec /\ Sound(k)
      /\ Follows(durable[t], k)
      /\ k.version = tickets[t].version + 1
      /\ tickets[t].state \in State /\ dst \in State
  BY <1>0, <1>1, ApplyKeeps
<1> HIDE DEF k
<1>3. tickets'[t] = k /\ \A u \in Ticket \ {t} : tickets'[u] = tickets[u]
  BY <1>0, <1>2 DEF TypeOK
<1>4. durable' = durable /\ gate_failures' = gate_failures
  BY <1>1 DEF files
<1>5. /\ DOMAIN original' = DOMAIN original \cup {t}
      /\ \A u \in DOMAIN original : original'[u] = original[u]
      /\ t \notin DOMAIN original => original'[t] = tickets[t]
  BY <1>1 DEF Remember
<1>6. BatchShape'
  <2>1. \A m \in moved' : m[1] \in DOMAIN original'
    BY <1>0, <1>1, <1>5 DEF BatchShape
  <2> QED BY <1>1, <2>1 DEF BatchShape
<1>7. TypeOK'
  <2>1. DOMAIN original' \subseteq Ticket /\ \A u \in DOMAIN original' : original'[u] \in TicketRec
    BY <1>0, <1>5 DEF TypeOK
  <2>2. moved' \subseteq Key /\ open' \in BOOLEAN
    BY <1>0, <1>1, <1>2 DEF TypeOK, Key
  <2> QED BY <1>0, <1>1, <1>2, <1>4, <2>1, <2>2 DEF TypeOK
<1>8. Stages'
  <2>1. \A u \in Ticket :
          Sound(tickets'[u]) /\ Sound(durable'[u]) /\ Follows(durable'[u], tickets'[u])
    BY <1>0, <1>2, <1>3, <1>4 DEF Stages
  <2>2. ASSUME NEW u \in DOMAIN original'
        PROVE  /\ Sound(original'[u]) /\ Follows(durable'[u], original'[u])
               /\ original'[u].version < tickets'[u].version
    <3>1. u \in Ticket
      BY <1>7 DEF TypeOK
    <3>2. tickets[t].version < k.version /\ tickets[t].version \in Nat
      <4>1. tickets[t].version \in Nat
        BY <1>0 DEF TypeOK, TicketRec
      <4> QED BY <1>2, <4>1
    <3>3. CASE u # t
      BY <1>0, <1>3, <1>4, <1>5, <3>1, <3>3 DEF Stages
    <3>4. CASE u = t /\ t \notin DOMAIN original
      BY <1>0, <1>3, <1>4, <1>5, <3>2, <3>4 DEF Stages
    <3>5. CASE u = t /\ t \in DOMAIN original
      <4>1. original[t].version \in Nat
        BY <1>0, <3>5 DEF TypeOK, TicketRec
      <4>2. original[t].version < tickets[t].version
        BY <1>0, <3>5 DEF Stages
      <4>3. original[t].version < k.version
        BY <1>2, <3>2, <4>1, <4>2
      <4> QED BY <1>0, <1>3, <1>4, <1>5, <3>5, <4>3 DEF Stages
    <3> QED BY <3>3, <3>4, <3>5
  <2> QED BY <2>1, <2>2 DEF Stages
<1>9. LogAgrees'
  <2>1. \A u \in Ticket : Settled0(u)' = Settled0(u)
    BY <1>3, <1>5 DEF Settled0
  <2> QED BY <1>0, <1>1, <1>4, <2>1 DEF LogAgrees
<1>10. Repairs'
  BY <1>0, <1>1, <1>4 DEF Repairs, Artifacts
<1>11. Onward
  BY <1>0, <1>4, UnloggedOnward
<1> QED BY <1>2, <1>6, <1>7, <1>8, <1>9, <1>10, <1>11 DEF LifeInv

LEMMA BatchFailsStep ==
  ASSUME LifeInv, NEW t \in Ticket, NEW dst \in Moves, BatchFails(t, dst)
  PROVE  LifeInv' /\ Onward
<1>0. TypeOK /\ IndexMatchesTickets /\ BatchShape /\ Stages /\ LogAgrees /\ Repairs
  BY DEF LifeInv
<1>1. /\ RollBack /\ original' = <<>> /\ moved' = {} /\ open' = FALSE
      /\ UNCHANGED <<durable, plans, claim, ahead, crashes>>
  BY DEF BatchFails, CloseBatch
<1>2. Artifacts' /\ DOMAIN gate_failures \subseteq DOMAIN gate_failures'
  <2>1. CASE Refused(t, dst) /\ WriteArtifact(t, dst)
    BY <1>0, <2>1, WrittenKeeps DEF Repairs
  <2>2. CASE UNCHANGED gate_failures
    BY <1>0, <2>2 DEF Repairs, Artifacts
  <2> QED BY <2>1, <2>2 DEF BatchFails
<1>3. /\ tickets' \in [Ticket -> TicketRec]
      /\ state_index' \in [State -> SUBSET Ticket] /\ state_counts' \in [State -> Nat]
      /\ IndexMatchesTickets'
  BY <1>0, <1>1, RollBackKeeps
<1>4. DOMAIN original' = {} /\ BatchShape'
  BY <1>1, NoBatch DEF BatchShape
<1>5. \A u \in Ticket : tickets'[u] = Settled0(u)
  BY <1>1 DEF RollBack, Settled0
<1>6. TypeOK'
  BY <1>0, <1>1, <1>2, <1>3, <1>4 DEF TypeOK, Artifacts
<1>7. Stages'
  BY <1>0, <1>1, <1>4, <1>5 DEF Stages, Settled0
<1>8. LogAgrees'
  BY <1>0, <1>1, <1>4, <1>5 DEF LogAgrees, Settled0
<1>9. Repairs'
  BY <1>0, <1>1, <1>2 DEF Repairs
<1>10. Onward
  BY <1>0, <1>1, <1>2, UnloggedOnward
<1> QED BY <1>3, <1>4, <1>6, <1>7, <1>8, <1>9, <1>10 DEF LifeInv

\* A batch that ends with its items in memory and its lines not, or not all, logged.
LEMMA BatchLeft ==
  ASSUME LifeInv, CloseBatch, ahead' = ahead \cup DOMAIN original,
         UNCHANGED <<memory, files, plans, claim, crashes>>
  PROVE  LifeInv' /\ Onward
<1>0. TypeOK /\ IndexMatchesTickets /\ BatchShape /\ Stages /\ LogAgrees /\ Repairs
  BY DEF LifeInv
<1>1. DOMAIN original' = {} /\ BatchShape'
  BY NoBatch DEF CloseBatch, BatchShape
<1>2. TypeOK'
  BY <1>0, <1>1 DEF TypeOK, memory, files, CloseBatch
<1>3. IndexMatchesTickets'
  BY <1>0 DEF IndexMatchesTickets, memory
<1>4. Stages'
  BY <1>0, <1>1 DEF Stages, memory, files
<1>5. LogAgrees'
  BY <1>0, <1>1 DEF LogAgrees, Settled0, memory, files
<1>6. Repairs'
  BY <1>0 DEF Repairs, Artifacts, files
<1>7. Onward
  BY <1>0, UnloggedOnward DEF files
<1> QED BY <1>1, <1>2, <1>3, <1>4, <1>5, <1>6, <1>7 DEF LifeInv

LEMMA BatchCommitsStep ==
  ASSUME LifeInv, BatchCommits
  PROVE  LifeInv' /\ Onward
<1>0. TypeOK /\ IndexMatchesTickets /\ BatchShape /\ Stages /\ LogAgrees /\ Repairs
  BY DEF LifeInv
<1>1. /\ durable' = [t \in Ticket |-> IF t \in DOMAIN original THEN tickets[t] ELSE durable[t]]
      /\ gate_failures' = Without(gate_failures, Settled(moved))
      /\ ahead' = ahead \ DOMAIN original
      /\ original' = <<>> /\ moved' = {} /\ open' = FALSE
      /\ UNCHANGED <<memory, plans, claim, crashes>>
  BY DEF BatchCommits, CloseBatch
<1>2. Artifacts' /\ DOMAIN gate_failures \ DOMAIN gate_failures' \subseteq Settled(moved)
  BY <1>0, <1>1, ForgottenKeeps DEF Repairs
<1>3. DOMAIN original' = {} /\ BatchShape'
  BY <1>1, NoBatch DEF BatchShape
<1>4. durable' \in [Ticket -> TicketRec]
  BY <1>0, <1>1 DEF TypeOK
<1>5. TypeOK'
  BY <1>0, <1>1, <1>2, <1>3, <1>4 DEF TypeOK, Artifacts, memory
<1>6. IndexMatchesTickets'
  BY <1>0, <1>1 DEF IndexMatchesTickets, memory
<1>7. ASSUME NEW t \in Ticket
      PROVE  Sound(tickets'[t]) /\ Sound(durable'[t]) /\ Follows(durable'[t], tickets'[t])
  BY <1>0, <1>1, FollowsSelf DEF Stages, TypeOK, memory
<1>8. Stages'
  BY <1>3, <1>7 DEF Stages
<1>9. LogAgrees'
  BY <1>0, <1>1, <1>3 DEF LogAgrees, Settled0, memory
<1>10. Repairs'
  BY <1>0, <1>1, <1>2 DEF Repairs
<1>11. Onward
  <2>1. ASSUME NEW t \in Ticket PROVE Follows(durable[t], durable'[t])
    BY <1>0, <1>1, FollowsSelf DEF Stages, TypeOK
  <2>2. ASSUME NEW k \in DOMAIN gate_failures \ DOMAIN gate_failures'
        PROVE  durable'[k[1]].version > durable[k[1]].version
    <3>1. PICK m \in moved : k[1] = m[1]
      BY <1>2, <2>2 DEF Settled
    <3> DEFINE t == k[1]
    <3>2. t \in DOMAIN original /\ t \in Ticket
      BY <1>0, <3>1 DEF BatchShape, TypeOK
    <3>3. durable'[t] = tickets[t]
      BY <1>1, <3>2
    <3>4. /\ durable[t].version \in Nat /\ original[t].version \in Nat
          /\ tickets[t].version \in Nat
      BY <1>0, <3>2 DEF TypeOK, TicketRec
    <3>5. durable[t].version <= original[t].version /\ original[t].version < tickets[t].version
      BY <1>0, <3>2 DEF Stages, Follows
    <3> HIDE DEF t
    <3>6. durable'[t].version > durable[t].version
      BY <3>3, <3>4, <3>5
    <3> QED BY <3>6 DEF t
  <2> QED BY <2>1, <2>2 DEF Onward
<1> QED BY <1>3, <1>5, <1>6, <1>8, <1>9, <1>10, <1>11 DEF LifeInv

\* A step that only changes claims or plans.
LEMMA AsideStep ==
  ASSUME LifeInv, UNCHANGED <<memory, files, batch, ahead, crashes>>,
         claim' \in ClaimRec \cup {NoClaim}, plans' \subseteq Ticket,
         claim' # NoClaim => Harmless(claim'.state, claim'.allowed)
  PROVE  LifeInv' /\ Onward
<1>0. TypeOK /\ IndexMatchesTickets /\ BatchShape /\ Stages /\ LogAgrees /\ Repairs
  BY DEF LifeInv
<1>1. TypeOK'
  BY <1>0 DEF TypeOK, memory, files, batch
<1>2. IndexMatchesTickets' /\ BatchShape' /\ Stages' /\ LogAgrees'
  BY <1>0 DEF IndexMatchesTickets, BatchShape, Stages, LogAgrees, Settled0, memory, files, batch
<1>3. Repairs'
  BY <1>0 DEF Repairs, Artifacts, files
<1>4. Onward
  BY <1>0, UnloggedOnward DEF files
<1> QED BY <1>1, <1>2, <1>3, <1>4 DEF LifeInv

LEMMA FreezeStep ==
  ASSUME LifeInv, NEW key \in DOMAIN gate_failures, Freeze(key)
  PROVE  LifeInv' /\ Onward
<1> DEFINE k == tickets[key[1]]
           F == gate_failures[key].missing
<1>0. TypeOK /\ Repairs
  BY DEF LifeInv
<1>1. /\ claim' = [of |-> key[1], state |-> key[2], version |-> k.version,
                   allowed |-> F, expected |-> Present(k) \cap F]
      /\ UNCHANGED <<memory, files, plans, batch, ahead, crashes>>
  BY DEF Freeze
<1>2. key[1] \in Ticket /\ key[2] \in State
  BY <1>0 DEF TypeOK, Key
<1>3. F \subseteq Field /\ Harmless(key[2], F)
  BY <1>0 DEF Repairs, Artifacts, Failure
<1>4. k.version \in Nat
  BY <1>0, <1>2 DEF TypeOK, TicketRec
<1>5. claim' \in ClaimRec
  BY <1>1, <1>2, <1>3, <1>4 DEF ClaimRec
<1>6. Harmless(claim'.state, claim'.allowed)
  BY <1>1, <1>3
<1>7. plans' \subseteq Ticket
  BY <1>0, <1>1 DEF TypeOK
<1> QED BY <1>1, <1>5, <1>6, <1>7, AsideStep

LEMMA UpdateRefusedStep ==
  ASSUME LifeInv, UpdateRefused
  PROVE  LifeInv' /\ Onward
  BY AsideStep DEF UpdateRefused, LifeInv, TypeOK

LEMMA WritePlanStep ==
  ASSUME LifeInv, NEW t \in Ticket, WritePlan(t)
  PROVE  LifeInv' /\ Onward
  BY AsideStep DEF WritePlan, LifeInv, TypeOK, Repairs

LEMMA UpdateContextFieldsStep ==
  ASSUME LifeInv, claim # NoClaim, NEW keys \in SUBSET claim.allowed,
         NEW filled \in SUBSET keys, NEW goal \in Disposition \cup {""},
         UpdateContextFields(keys, filled, goal)
  PROVE  LifeInv' /\ Onward
<1> DEFINE t == claim.of
           old == tickets[t]
           k == [state |-> old.state, version |-> old.version + 1,
                 has |-> (old.has \ keys) \cup (filled \ {"goal_disposition"}),
                 goal |-> IF "goal_disposition" \in keys THEN goal ELSE old.goal]
<1>0. TypeOK /\ IndexMatchesTickets /\ BatchShape /\ Stages /\ LogAgrees /\ Repairs
  BY DEF LifeInv
<1>1. /\ ~open /\ Current(claim)
      /\ tickets' = [tickets EXCEPT ![t] = k] /\ durable' = [durable EXCEPT ![t] = k]
      /\ ahead' = ahead \ {t} /\ claim' = NoClaim
      /\ UNCHANGED <<state_index, state_counts, gate_failures, plans, batch, crashes>>
  BY DEF UpdateContextFields
<1>2. claim \in ClaimRec /\ t \in Ticket /\ claim.allowed \subseteq Field
  BY <1>0 DEF TypeOK, ClaimRec
<1>3. old \in TicketRec /\ Sound(old) /\ Follows(durable[t], old)
  BY <1>0, <1>2 DEF TypeOK, Stages
<1>4. /\ old.state \in State /\ old.has \subseteq Field /\ old.version \in Nat
      /\ old.goal \in Disposition \cup {""}
  BY <1>3 DEF TicketRec
<1>5. k \in TicketRec
  <2>1. (old.has \ keys) \cup (filled \ {"goal_disposition"}) \subseteq Field
    BY <1>2, <1>4
  <2>2. \A n \in Nat : n + 1 \in Nat
    BY VersionType
  <2>3. (IF "goal_disposition" \in keys THEN goal ELSE old.goal) \in Disposition \cup {""}
    BY <1>4
  <2> HIDE DEF old
  <2> QED BY <1>4, <2>1, <2>2, <2>3 DEF TicketRec
<1>6. old.state = claim.state /\ Present(old) \cap claim.allowed = claim.expected
  BY <1>1 DEF Current
<1>7. Sound(k)
  <2>1. Harmless(old.state, keys)
    BY <1>0, <1>6 DEF Repairs, Harmless
  <2>2. k.state = old.state /\ old.has \ keys \subseteq k.has
    OBVIOUS
  <2> HIDE DEF k, old
  <2> QED BY <1>3, <2>1, <2>2 DEF Sound, Harmless
<1>8. Logged(k) = Logged(k) /\ Follows(k, k)
  BY <1>5, FollowsSelf
<1>9. \A f \in Evidence : f \in old.has \ k.has => f \in claim.expected
  <2>1. old.has \ k.has \subseteq keys
    OBVIOUS
  <2> QED BY <1>6, <2>1 DEF Present
<1>10. /\ k.state = old.state /\ tickets[t].state = old.state
       /\ k.version = tickets[t].version + 1
  OBVIOUS
<1> HIDE DEF k
<1>11. /\ durable' \in [Ticket -> TicketRec] /\ durable'[t] = k
       /\ \A u \in Ticket \ {t} : durable'[u] = durable[u]
       /\ BatchShape' /\ Stages' /\ LogAgrees' /\ ahead' \subseteq Ticket
  BY <1>0, <1>1, <1>2, <1>5, <1>7, <1>8, WriteKeeps
<1>12. tickets' \in [Ticket -> TicketRec]
  BY <1>0, <1>1, <1>5 DEF TypeOK
<1>13. TypeOK'
  BY <1>0, <1>1, <1>11, <1>12 DEF TypeOK, batch
<1>14. IndexMatchesTickets'
  <2>1. \A u \in Ticket : tickets'[u].state = tickets[u].state
    BY <1>0, <1>1, <1>2, <1>10 DEF TypeOK
  <2> QED BY <1>0, <1>1, <2>1 DEF IndexMatchesTickets
<1>15. Repairs'
  BY <1>0, <1>1 DEF Repairs, Artifacts
<1>16. Onward
  <2>1. ASSUME NEW u \in Ticket, u # t PROVE Follows(durable[u], durable'[u])
    BY <1>0, <1>11, <2>1, FollowsSelf DEF TypeOK
  <2> QED BY <1>1, <1>9, <1>10, <1>11, <2>1 DEF Onward
<1> QED BY <1>11, <1>13, <1>14, <1>15, <1>16 DEF LifeInv

LEMMA RecordCommitStep ==
  ASSUME LifeInv, NEW t \in Ticket, RecordCommit(t)
  PROVE  LifeInv' /\ Onward
<1> DEFINE old == tickets[t]
           k == [old EXCEPT !.has = old.has \cup {"commit_sha"}]
<1>0. TypeOK /\ IndexMatchesTickets /\ BatchShape /\ Stages /\ LogAgrees /\ Repairs
  BY DEF LifeInv
<1>1. old \in TicketRec /\ Sound(old) /\ Follows(durable[t], old)
  BY <1>0 DEF TypeOK, Stages
<1>2. tickets' = [tickets EXCEPT ![t] = k]
  BY <1>0 DEF RecordCommit, TypeOK
<1>3. /\ k.state = old.state /\ k.version = old.version /\ old.has \subseteq k.has
      /\ k \in TicketRec
  BY <1>1 DEF TicketRec, Field
<1>4. tickets'[t] = k
  BY <1>0, <1>2 DEF TypeOK
<1>5. /\ ~open /\ durable' = [durable EXCEPT ![t] = k] /\ ahead' = ahead \ {t}
      /\ UNCHANGED <<state_index, state_counts, gate_failures, plans, claim, batch, crashes>>
  BY <1>4 DEF RecordCommit
<1> HIDE DEF k, old
<1>6. Sound(k)
  BY <1>1, <1>3 DEF Sound
<1>7. Follows(old, k)
  <2>1. old.version \in Nat /\ old.state \in State
    BY <1>1 DEF TicketRec
  <2> QED BY <1>3, <2>1, LeadsToItself DEF Follows
<1>8. Follows(durable[t], k) /\ Follows(k, k)
  BY <1>0, <1>1, <1>3, <1>7, FollowsTrans, FollowsSelf DEF TypeOK
<1>9. Logged(k) = Logged(k)
  OBVIOUS
<1>10. /\ durable' \in [Ticket -> TicketRec] /\ durable'[t] = k
       /\ \A u \in Ticket \ {t} : durable'[u] = durable[u]
       /\ BatchShape' /\ Stages' /\ LogAgrees' /\ ahead' \subseteq Ticket
  BY <1>0, <1>2, <1>3, <1>5, <1>6, <1>8, <1>9, WriteKeeps
<1>11. TypeOK'
  <2>1. tickets' \in [Ticket -> TicketRec]
    BY <1>0, <1>2, <1>3 DEF TypeOK
  <2> QED BY <1>0, <1>5, <1>10, <2>1 DEF TypeOK, batch
<1>12. IndexMatchesTickets'
  <2>1. \A u \in Ticket : tickets'[u].state = tickets[u].state
    BY <1>0, <1>2, <1>3 DEF TypeOK, old
  <2> QED BY <1>0, <1>5, <2>1 DEF IndexMatchesTickets
<1>13. Repairs'
  BY <1>0, <1>5 DEF Repairs, Artifacts
<1>14. Onward
  <2>1. ASSUME NEW u \in Ticket PROVE Follows(durable[u], durable'[u])
    <3>1. CASE u = t
      BY <1>8, <1>10, <3>1
    <3>2. CASE u # t
      BY <1>0, <1>10, <3>2, FollowsSelf DEF TypeOK
    <3> QED BY <3>1, <3>2
  <2> QED BY <1>5, <2>1 DEF Onward
<1> QED BY <1>10, <1>11, <1>12, <1>13, <1>14 DEF LifeInv

LEMMA GoalDecisionStep ==
  ASSUME LifeInv, NEW t \in Ticket, NEW d \in Disposition, GoalDecision(t, d)
  PROVE  LifeInv' /\ Onward
<1> DEFINE dst == IF d = "NOW" THEN "DECOMP" ELSE d
           old == tickets[t]
           l == Moved(old, dst)
           M == {<<t, "TRIAGED", dst>>}
<1>0. TypeOK /\ IndexMatchesTickets /\ BatchShape /\ Stages /\ LogAgrees /\ Repairs
  BY DEF LifeInv
<1>1. /\ ~open /\ old.state = "TRIAGED" /\ CanMove(t, dst)
      /\ durable' = [durable EXCEPT ![t] = l]
      /\ gate_failures' = Without(gate_failures, Settled(M))
      /\ ahead' = ahead \ {t}
      /\ UNCHANGED <<plans, claim, batch, crashes>>
  BY DEF GoalDecision
<1>2. PICK reason \in {{}, {"goal_reason"}} :
        tickets' = [tickets EXCEPT ![t] = [state |-> dst, goal |-> d, version |-> l.version,
                                           has |-> (l.has \ {"goal_reason"}) \cup reason]]
  BY DEF GoalDecision
<1>3. /\ state_index' = [[state_index EXCEPT !["TRIAGED"] = @ \ {t}] EXCEPT ![dst] = @ \cup {t}]
      /\ state_counts' = [state_counts EXCEPT !["TRIAGED"] = Cardinality(state_index'["TRIAGED"]),
                                              ![dst] = Cardinality(state_index'[dst])]
  BY DEF GoalDecision
<1>4. old \in TicketRec /\ durable[t] \in TicketRec /\ Sound(old) /\ Follows(durable[t], old)
  BY <1>0 DEF TypeOK, Stages
<1>5. dst \in State /\ "TRIAGED" \in State
  BY DEF Disposition, State
<1> HIDE DEF dst
<1>6. ContextOk(old, dst) /\ Legal(old, dst)
  BY <1>1 DEF CanMove
<1>7. /\ l \in TicketRec /\ l.state = dst /\ l.version = old.version + 1
      /\ Sound(l) /\ Follows(old, l)
  BY <1>4, <1>5, <1>6, MoveKeeps
<1>8. Follows(durable[t], l)
  BY <1>4, <1>7, FollowsTrans
<1>9. durable[t].version < l.version
  <2>1. durable[t].version \in Nat /\ old.version \in Nat
    BY <1>4 DEF TicketRec
  <2>2. durable[t].version <= old.version
    BY <1>4 DEF Follows
  <2> HIDE DEF l, old
  <2> QED BY <1>7, <2>1, <2>2
<1> HIDE DEF l, M, old
<1> DEFINE k == [state |-> dst, goal |-> d, version |-> l.version,
                 has |-> (l.has \ {"goal_reason"}) \cup reason]
<1>10. k.state = l.state /\ k.version = l.version
  BY <1>7
<1>11. k \in TicketRec
  BY <1>5, <1>7 DEF TicketRec, Field
<1>12. l.has \ {"goal_reason"} \subseteq k.has /\ k.has \ {"goal_reason"} = l.has \ {"goal_reason"}
  OBVIOUS
<1> HIDE DEF k
<1>13. Sound(k)
  BY <1>7, <1>10, <1>12 DEF Sound
<1>14. Follows(l, k)
  <2>1. l.version \in Nat /\ l.state \in State
    BY <1>7 DEF TicketRec
  <2> QED BY <1>10, <1>12, <2>1, LeadsToItself DEF Follows, Evidence
<1>15. Logged(l) = Logged(k)
  BY <1>10, <1>12 DEF Logged
<1>16. tickets' = [tickets EXCEPT ![t] = k]
  BY <1>2 DEF k
<1>17. /\ durable' \in [Ticket -> TicketRec] /\ durable'[t] = l
       /\ \A u \in Ticket \ {t} : durable'[u] = durable[u]
       /\ BatchShape' /\ Stages' /\ LogAgrees' /\ ahead' \subseteq Ticket
  BY <1>0, <1>1, <1>7, <1>11, <1>13, <1>14, <1>15, <1>16, WriteKeeps
<1>18. /\ tickets' \in [Ticket -> TicketRec]
       /\ state_index' \in [State -> SUBSET Ticket] /\ state_counts' \in [State -> Nat]
       /\ IndexMatchesTickets'
  BY <1>0, <1>1, <1>3, <1>5, <1>7, <1>10, <1>11, <1>16, IndexMoved DEF old
<1>19. Artifacts' /\ DOMAIN gate_failures \ DOMAIN gate_failures' \subseteq Settled(M)
  BY <1>0, <1>1, ForgottenKeeps DEF Repairs
<1>20. TypeOK'
  BY <1>0, <1>1, <1>17, <1>18, <1>19 DEF TypeOK, Artifacts, batch
<1>21. Repairs'
  BY <1>0, <1>1, <1>19 DEF Repairs
<1>22. Onward
  <2>1. ASSUME NEW u \in Ticket PROVE Follows(durable[u], durable'[u])
    <3>1. CASE u = t
      BY <1>8, <1>17, <3>1
    <3>2. CASE u # t
      BY <1>0, <1>17, <3>2, FollowsSelf DEF TypeOK
    <3> QED BY <3>1, <3>2
  <2>2. durable'[t].version > durable[t].version
    <3>1. durable[t].version \in Nat /\ l.version \in Nat
      BY <1>4, <1>7 DEF TicketRec
    <3> QED BY <1>9, <1>17, <3>1
  <2>3. \A x \in Settled(M) : x[1] = t
    BY DEF Settled, M
  <2> QED BY <1>19, <2>1, <2>2, <2>3 DEF Onward
<1> QED BY <1>17, <1>18, <1>20, <1>21, <1>22 DEF LifeInv

\* What a crash leaves in the log is a later stage of each ticket.
LEMMA CutShortFollows ==
  ASSUME LifeInv, NEW d \in CutShort
  PROVE  /\ d \in [Ticket -> TicketRec]
         /\ \A t \in Ticket : Sound(d[t]) /\ Follows(durable[t], d[t])
<1>0. TypeOK /\ Stages
  BY DEF LifeInv
<1>1. CASE open
  <2>1. PICK W \in SUBSET DOMAIN original :
          d = [t \in Ticket |-> IF t \in W THEN tickets[t] ELSE durable[t]]
    BY <1>1 DEF CutShort
  <2> QED BY <1>0, <2>1, FollowsSelf DEF TypeOK, Stages
<1>2. CASE ~open /\ d = durable
  BY <1>0, <1>2, FollowsSelf DEF TypeOK, Stages
<1>3. CASE ~open /\ d # durable
  <2>1. PICK m \in Ticket \X Moves :
          CanMove(m[1], m[2]) /\ d = [durable EXCEPT ![m[1]] = Moved(tickets[m[1]], m[2])]
    BY <1>3 DEF CutShort
  <2> DEFINE t == m[1]
             k == Moved(tickets[t], m[2])
  <2>2. /\ t \in Ticket /\ m[2] \in State /\ tickets[t] \in TicketRec /\ durable[t] \in TicketRec
        /\ Sound(tickets[t]) /\ Follows(durable[t], tickets[t])
    BY <1>0, LifecycleAssumption DEF TypeOK, Stages
  <2>3. k \in TicketRec /\ Sound(k) /\ Follows(tickets[t], k)
    BY <2>1, <2>2, MoveKeeps DEF CanMove
  <2>4. Follows(durable[t], k)
    BY <2>2, <2>3, FollowsTrans
  <2>5. d = [durable EXCEPT ![t] = k]
    BY <2>1
  <2> HIDE DEF k, t
  <2> QED BY <1>0, <2>2, <2>3, <2>4, <2>5, FollowsSelf DEF TypeOK, Stages
<1> QED BY <1>1, <1>2, <1>3

LEMMA RestartStep ==
  ASSUME LifeInv, Restart
  PROVE  LifeInv' /\ Onward
<1>0. TypeOK /\ IndexMatchesTickets /\ BatchShape /\ Stages /\ LogAgrees /\ Repairs
  BY DEF LifeInv
<1>1. /\ durable' \in CutShort /\ tickets' = durable'
      /\ state_index' = IndexOf(durable') /\ state_counts' = CountsOf(state_index')
      /\ original' = <<>> /\ moved' = {} /\ open' = FALSE
      /\ ahead' = {} /\ crashes' = crashes + 1
      /\ UNCHANGED <<gate_failures, plans, claim>>
  BY DEF Restart, CloseBatch
<1>2. /\ durable' \in [Ticket -> TicketRec]
      /\ \A t \in Ticket : Sound(durable'[t]) /\ Follows(durable[t], durable'[t])
  BY <1>1, CutShortFollows
<1>3. state_index' \in [State -> SUBSET Ticket] /\ state_counts' \in [State -> Nat]
  BY <1>1, <1>2, IndexBuilt
<1>4. IndexMatchesTickets'
  BY <1>1, <1>2 DEF IndexMatchesTickets, IndexOf, CountsOf
<1>5. DOMAIN original' = {} /\ BatchShape'
  BY <1>1, NoBatch DEF BatchShape
<1>6. crashes' \in Nat
  BY <1>0, <1>1 DEF TypeOK
<1>7. TypeOK'
  BY <1>0, <1>1, <1>2, <1>3, <1>5, <1>6 DEF TypeOK
<1>8. Stages'
  BY <1>1, <1>2, <1>5, FollowsSelf DEF Stages
<1>9. LogAgrees'
  BY <1>1, <1>5 DEF LogAgrees, Settled0
<1>10. Repairs'
  BY <1>0, <1>1 DEF Repairs, Artifacts
<1>11. Onward
  BY <1>1, <1>2 DEF Onward
<1> QED BY <1>4, <1>5, <1>7, <1>8, <1>9, <1>10, <1>11 DEF LifeInv

LEMMA InitialState == Init => LifeInv
<1> SUFFICES ASSUME Init PROVE LifeInv
  OBVIOUS
<1>1. tickets = [t \in Ticket |-> Added(t)]
  BY DEF Init
<1>2. \A t \in Ticket : tickets[t] \in TicketRec /\ Sound(tickets[t]) /\ durable[t] = tickets[t]
  BY <1>1, InitialTickets DEF Init
<1>3. tickets \in [Ticket -> TicketRec] /\ durable \in [Ticket -> TicketRec]
  BY <1>1, InitialTickets DEF Init
<1>4. state_index \in [State -> SUBSET Ticket] /\ state_counts \in [State -> Nat]
  BY <1>3, IndexBuilt DEF Init
<1>5. IndexMatchesTickets
  BY <1>3 DEF Init, IndexMatchesTickets, IndexOf, CountsOf
<1>6. DOMAIN original = {} /\ DOMAIN gate_failures = {}
  BY NoBatch DEF Init
<1>7. TypeOK
  BY <1>3, <1>4, <1>6 DEF Init, TypeOK
<1>8. BatchShape
  BY <1>6 DEF Init, BatchShape
<1>9. Stages
  BY <1>2, <1>6, FollowsSelf DEF Stages
<1>10. LogAgrees
  BY <1>2, <1>6 DEF LogAgrees, Settled0
<1>11. Repairs
  BY <1>6 DEF Init, Repairs, Artifacts
<1> QED BY <1>5, <1>7, <1>8, <1>9, <1>10, <1>11 DEF LifeInv

LEMMA NextStep == LifeInv /\ Next => LifeInv' /\ Onward
<1> SUFFICES ASSUME LifeInv, Next PROVE LifeInv' /\ Onward
  OBVIOUS
<1>1. ASSUME NEW t \in Ticket, NEW dst \in Moves,
             \/ Transition(t, dst) \/ TransitionUnlogged(t, dst) \/ TransitionRefused(t, dst)
             \/ BatchItem(t, dst) \/ BatchFails(t, dst) \/ BatchEscapes(t, dst)
      PROVE  LifeInv' /\ Onward
  <2>1. CASE BatchEscapes(t, dst)
    BY <2>1, BatchLeft DEF BatchEscapes
  <2> QED BY <1>1, <2>1, TransitionStep, TransitionUnloggedStep, TransitionRefusedStep,
             BatchItemStep, BatchFailsStep
<1>2. CASE BatchCommits
  BY <1>2, BatchCommitsStep
<1>3. CASE BatchUnlogged
  BY <1>3, BatchLeft DEF BatchUnlogged
<1>4. CASE \E key \in DOMAIN gate_failures : Freeze(key)
  BY <1>4, FreezeStep
<1>5. ASSUME claim # NoClaim, NEW keys \in SUBSET claim.allowed, NEW filled \in SUBSET keys,
             NEW goal \in Disposition \cup {""}, UpdateContextFields(keys, filled, goal)
      PROVE  LifeInv' /\ Onward
  BY <1>5, UpdateContextFieldsStep
<1>6. CASE UpdateRefused
  BY <1>6, UpdateRefusedStep
<1>7. ASSUME NEW t \in Ticket,
             RecordCommit(t) \/ WritePlan(t) \/ \E d \in Disposition : GoalDecision(t, d)
      PROVE  LifeInv' /\ Onward
  BY <1>7, RecordCommitStep, WritePlanStep, GoalDecisionStep
<1>8. CASE Restart
  BY <1>8, RestartStep
<1> QED BY <1>1, <1>2, <1>3, <1>4, <1>5, <1>6, <1>7, <1>8 DEF Next

LEMMA StutterStep == LifeInv /\ UNCHANGED vars => LifeInv' /\ Onward
<1> SUFFICES ASSUME LifeInv, UNCHANGED vars PROVE LifeInv' /\ Onward
  OBVIOUS
<1>1. UNCHANGED <<memory, files, batch, ahead, crashes>> /\ UNCHANGED <<claim, plans>>
  BY DEF vars, memory, files, batch
<1>2. /\ claim' \in ClaimRec \cup {NoClaim} /\ plans' \subseteq Ticket
      /\ claim' # NoClaim => Harmless(claim'.state, claim'.allowed)
  BY <1>1 DEF LifeInv, TypeOK, Repairs
<1> QED BY <1>1, <1>2, AsideStep

-----------------------------------------------------------------------------
(* Theorems *)

\* Whatever is moved, batched, repaired or lost in a crash, the three views of a
\* ticket (log, batch, memory) are later and later stages of it.
THEOREM LifecycleInvariant == Spec => []LifeInv
<1>1. LifeInv /\ [Next]_vars => LifeInv'
  BY NextStep, StutterStep
<1> QED BY <1>1, InitialState, PTL DEF Spec

\* The store, the artifacts (counts at most 2) and the batch keep their shape.
THEOREM LifeTypeCorrect == Spec => []TypeOK
BY LifecycleInvariant, PTL DEF LifeInv

\* The state index and the cached counts are those of the tickets, through
\* rollbacks and restarts: list_by_state and summary answer what _tickets holds.
THEOREM IndexCorrect == Spec => []IndexMatchesTickets
BY LifecycleInvariant, PTL DEF LifeInv

\* Between calls memory and log agree; a failed batch changes no ticket.
THEOREM CallsDurable == Spec => []CallsAreDurable
<1>1. LifeInv => CallsAreDurable
  <2> SUFFICES ASSUME LifeInv, NEW t \in Ticket \ (ahead \cup Touched)
               PROVE  Logged(durable[t]) = Logged(tickets[t])
    BY DEF CallsAreDurable
  <2>1. t \notin DOMAIN original
    BY DEF LifeInv, BatchShape, Touched
  <2> QED BY <2>1 DEF LifeInv, LogAgrees, Settled0
<1> QED BY <1>1, LifecycleInvariant, PTL

\* The rework loop has no dead end at its gates.
THEOREM Resumable == Spec => []WorkIsResumable
<1>1. LifeInv => WorkIsResumable
  <2> SUFFICES ASSUME LifeInv, NEW t \in Ticket
               PROVE  /\ tickets[t].state = "REWORK" => ContextOk(tickets[t], "IMPLEMENT")
                      /\ tickets[t].state = "IMPLEMENT" => ContextOk(tickets[t], "REVIEW")
                      /\ tickets[t].state = "VERIFY" => ContextOk(tickets[t], "REWORK")
    BY DEF WorkIsResumable
  <2> DEFINE k == tickets[t]
  <2>1. Sound(k) /\ k.state \in State
    BY DEF LifeInv, Stages, TypeOK, TicketRec
  <2>2. \A d \in {"IMPLEMENT", "REVIEW", "REWORK"} :
          k.state \in {"REWORK", "IMPLEMENT", "VERIFY"} => Admits(k.state, d, k.goal)
    BY DEF Admits
  <2> HIDE DEF k
  <2>3. k.state = "REWORK" => Missing(k, "IMPLEMENT") = {}
    BY <2>1, ContractKeeps DEF Sound, Missing, Present
  <2>4. k.state = "IMPLEMENT" => Missing(k, "REVIEW") = {}
    BY <2>1, ContractKeeps DEF Sound, Missing, Present
  <2>5. k.state = "VERIFY" => Missing(k, "REWORK") = {}
    BY <2>1, ContractKeeps DEF Sound, Missing, Present
  <2> QED BY <2>2, <2>3, <2>4, <2>5 DEF ContextOk, k
<1> QED BY <1>1, LifecycleInvariant, PTL

\* No ticket is COMPLETE without a commit or an outside origin.
THEOREM Earned == Spec => []CompleteIsEarned
<1>1. LifeInv => CompleteIsEarned
  BY DEF LifeInv, Stages, Sound, CompleteIsEarned
<1> QED BY <1>1, LifecycleInvariant, PTL

\* A ticket logged as closed is never reopened.
THEOREM ClosedForGood == Spec => ClosedStaysClosed
<1> DEFINE Keep == \A t \in Ticket : durable[t].state \in Closed =>
                     \/ durable'[t].state = durable[t].state
                     \/ durable[t].state # "COMPLETE" /\ durable'[t].state \in UNIVERSAL_EXITS
<1>1. LifeInv /\ [Next]_vars => Keep
  <2> SUFFICES ASSUME LifeInv, [Next]_vars, NEW t \in Ticket, durable[t].state \in Closed
               PROVE  \/ durable'[t].state = durable[t].state
                      \/ durable[t].state # "COMPLETE" /\ durable'[t].state \in UNIVERSAL_EXITS
    OBVIOUS
  <2>1. Onward
    BY NextStep, StutterStep
  <2>2. Follows(durable[t], tickets[t])
    BY DEF LifeInv, Stages
  <2> QED BY <2>1, <2>2 DEF Onward, Follows
<1>2. LifeInv /\ [Next]_vars => [Keep]_vars
  BY <1>1
<1> QED BY <1>2, LifecycleInvariant, PTL DEF Spec, ClosedStaysClosed

\* A gate failure is forgotten only when a move of its ticket has been logged.
THEOREM Remembered == Spec => RefusalsAreRemembered
<1> DEFINE Keep == \A k \in DOMAIN gate_failures \ DOMAIN gate_failures' :
                     durable'[k[1]].version > durable[k[1]].version
<1>1. LifeInv /\ [Next]_vars => [Keep]_vars
  BY NextStep, StutterStep DEF Onward
<1> QED BY <1>1, LifecycleInvariant, PTL DEF Spec, RefusalsAreRemembered

\* A repair never empties evidence recorded after its claim.
THEOREM Informed == Spec => PatchesAreInformed
<1> DEFINE Keep == \A t \in Ticket, f \in {"commit_sha", "reviewer_feedback", "origin_id"} :
                     f \in durable[t].has \ durable'[t].has =>
                       claim.of = t /\ f \in claim.expected
<1>1. LifeInv /\ [Next]_vars => [Keep]_vars
  <2> SUFFICES ASSUME LifeInv, [Next]_vars, NEW t \in Ticket, NEW f \in Evidence,
                      f \in durable[t].has \ durable'[t].has
               PROVE  claim.of = t /\ f \in claim.expected
    BY DEF Evidence
  <2>1. Onward
    BY NextStep, StutterStep
  <2>2. Follows(durable[t], tickets[t])
    BY DEF LifeInv, Stages
  <2> QED BY <2>1, <2>2 DEF Onward, Follows
<1> QED BY <1>1, LifecycleInvariant, PTL DEF Spec, PatchesAreInformed

\* The log takes a ticket only where legal moves lead, each change of state with a
\* higher version, also over a crash in the middle of a batch.
THEOREM LogKeepsToTheTable == Spec => LogFollowsTheTable
<1> DEFINE Keep == \A t \in Ticket :
                     /\ LeadsTo(durable[t].state, durable'[t].state)
                     /\ durable[t].version <= durable'[t].version
                     /\ durable[t].state # durable'[t].state => durable[t].version < durable'[t].version
<1>1. LifeInv /\ [Next]_vars => [Keep]_vars
  <2> SUFFICES ASSUME LifeInv, [Next]_vars, NEW t \in Ticket
               PROVE  /\ LeadsTo(durable[t].state, durable'[t].state)
                      /\ durable[t].version <= durable'[t].version
                      /\ durable[t].state # durable'[t].state => durable[t].version < durable'[t].version
    OBVIOUS
  <2>1. Onward
    BY NextStep, StutterStep
  <2>2. Follows(durable[t], tickets[t])
    BY DEF LifeInv, Stages
  <2>3. CASE Follows(durable[t], durable'[t])
    BY <2>3 DEF Follows
  <2>4. CASE durable'[t].state = tickets[t].state /\ durable'[t].version = tickets[t].version + 1
    <3>1. durable[t].version \in Nat /\ tickets[t].version \in Nat
      BY DEF LifeInv, TypeOK, TicketRec
    <3>2. durable[t].version <= tickets[t].version /\ LeadsTo(durable[t].state, tickets[t].state)
      BY <2>2 DEF Follows
    <3> QED BY <2>4, <3>1, <3>2
  <2> QED BY <2>1, <2>3, <2>4 DEF Onward
<1> QED BY <1>1, LifecycleInvariant, PTL DEF Spec, LogFollowsTheTable
=============================================================================
