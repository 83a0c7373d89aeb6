------------------------ MODULE Orchestrator_proofs ------------------------
(***************************************************************************)
(* Who owns what from tick to tick, for any tickets, agents, names, slots, *)
(* faults and crashes.  WorkIsOwned is not inductive: that a finalised      *)
(* agent has no bot, and that a sweep frees no live claim, needs to know    *)
(* where each agent's record stands while it waits, starts and runs.        *)
(***************************************************************************)
EXTENDS Orchestrator, FiniteSetTheorems, FunctionTheorems, TLAPS

\* A running bot's agent has started, under its own name and on its own ticket.
BotsStarted ==
  \A n \in Name : Running(n) =>
    LET a == bot[n].agent IN
    /\ a \in active /\ rec[a] = "starting"
    /\ NameOf(a) = n /\ WorkTicket[a] = bot[n].tid

\* An active agent owns the claim of its ticket and is not dead.
ActiveClaims == \A a \in active : claim[WorkTicket[a]] = a /\ rec[a] # "dead"

\* A request that waits is active and has not started, and waits in one place.
RequestsWait ==
  /\ \A a \in queued \cup ready : a \in active /\ rec[a] \in {"none", "created"}
  /\ queued \cap ready = {}

\* Requests and the bot under survival check are in hand only while the queue is
\* drained, and active agents lack a record only while the scheduler dispatches.
Phases ==
  /\ ready # {} => pc = "drain"
  /\ checking # NoAgent => pc = "drain" /\ rec[checking] = "starting"
  /\ \A a \in Agent : rec[a] = "none" => pc = "dispatch" /\ a \in active

TickInv == TypeOK /\ BotsStarted /\ ActiveClaims /\ RequestsWait /\ Phases

\* What the gate's release leaves: the other active agents keep their claims.
LEMMA ReleaseKeeps ==
  ASSUME NEW A \in SUBSET Agent, TypeOK, ActiveClaims, Release(A)
  PROVE  /\ active' = active \ A /\ queued' = queued \ A
         /\ claim' \in [Ticket -> Agent \cup {NoAgent}]
         /\ \A b \in active \ A : claim'[WorkTicket[b]] = b
  BY OrchestratorAssumption DEF Release, TypeOK, ActiveClaims

LEMMA StoppedType ==
  ASSUME TypeOK, NEW n \in Name
  PROVE  /\ Stopped(n) \in BotRec
         /\ Stopped(n).proc = "none"
  BY DEF Stopped, TypeOK, BotRec

LEMMA EnabledType ==
  ASSUME NEW r \in BotRec, NEW e \in BOOLEAN
  PROVE  /\ [r EXCEPT !.enabled = e] \in BotRec
         /\ [r EXCEPT !.enabled = e].proc = r.proc
         /\ [r EXCEPT !.enabled = e].agent = r.agent
         /\ [r EXCEPT !.enabled = e].tid = r.tid
  BY DEF BotRec

LEMMA BotUpdate ==
  ASSUME TypeOK, NEW n \in Name, NEW r \in BotRec, bot' = [bot EXCEPT ![n] = r]
  PROVE  bot' \in [Name -> BotRec] /\ bot'[n] = r /\ \A m \in Name \ {n} : bot'[m] = bot[m]
  BY DEF TypeOK

LEMMA AbsentType ==
  /\ Absent \in BotRec
  /\ Absent.proc = "absent"
  BY DEF Absent, BotRec

LEMMA TickInvInit == Init => TickInv
  <1> SUFFICES ASSUME Init PROVE TickInv
    OBVIOUS
  <1>1. TypeOK
    BY OrchestratorAssumption, AbsentType DEF Init, TypeOK, Name
  <1>2. BotsStarted
    BY AbsentType DEF Init, BotsStarted, Running
  <1>3. ActiveClaims /\ RequestsWait /\ Phases
    BY DEF Init, ActiveClaims, RequestsWait, Phases
  <1> QED
    BY <1>1, <1>2, <1>3 DEF TickInv

\* Steps that change no bot's work, no record and nothing of the gate.
LEMMA QuietStep ==
  ASSUME TickInv, TypeOK',
         UNCHANGED <<rec, active, claim, queued>>,
         \A n \in Name : bot'[n].proc = "running" =>
           Running(n) /\ bot'[n].agent = bot[n].agent /\ bot'[n].tid = bot[n].tid,
         ready' \subseteq ready,
         checking' \in {checking, NoAgent},
         pc' = pc \/ pc \notin {"drain", "dispatch"} \/ (pc = "drain" /\ ready = {} /\ checking = NoAgent)
  PROVE  TickInv'
  <1>1. BotsStarted'
    BY DEF TickInv, BotsStarted, Running, NameOf
  <1>2. ActiveClaims' /\ RequestsWait'
    BY DEF TickInv, ActiveClaims, RequestsWait
  <1>3. Phases'
    BY DEF TickInv, Phases
  <1> QED
    BY <1>1, <1>2, <1>3 DEF TickInv

\* Each step of the program keeps the invariant; first the steps of the bots and
\* of the phases that touch neither the gate nor the records.
LEMMA BotSteps ==
  ASSUME TickInv, NEW n \in Name,
         BotExits(n) \/ VerdictWritten(n) \/ PromptChanged(n) \/ RestartStuck(n) \/ HandleExited(n)
  PROVE  TickInv'
  <1> USE DEF TickInv
  <1>0. bot[n] \in BotRec
    BY DEF TypeOK
  <1>1. CASE BotExits(n)
    <2>1. PICK c \in {"ok", "error", "limit"} : bot' = [bot EXCEPT ![n].proc = "exited", ![n].code = c]
      BY <1>1 DEF BotExits
    <2> DEFINE r == [bot[n] EXCEPT !.proc = "exited", !.code = c]
    <2>2. r \in BotRec /\ r.proc = "exited"
      BY <1>0 DEF BotRec
    <2>3. bot' = [bot EXCEPT ![n] = r]
      BY <2>1 DEF TypeOK
    <2> HIDE DEF r
    <2>4. bot' \in [Name -> BotRec] /\ bot'[n] = r /\ \A m \in Name \ {n} : bot'[m] = bot[m]
      BY <2>2, <2>3, BotUpdate
    <2>5. TypeOK'
      BY <1>1, <2>4 DEF BotExits, TypeOK, gate, tickVars, crashVars, ticketVars
    <2> QED
      BY <1>1, <2>2, <2>4, <2>5, QuietStep DEF BotExits, Running, gate, tickVars
  <1>2. CASE VerdictWritten(n)
    <2>1. bot[n].tid \in Ticket
      BY <1>2, OrchestratorAssumption DEF VerdictWritten, BotsStarted, TypeOK, Running
    <2>2. TypeOK'
      BY <2>1, <1>2 DEF VerdictWritten, TypeOK, gate, tickVars, crashVars
    <2> QED
      BY <2>2, <1>2, QuietStep DEF VerdictWritten, TypeOK, Running, gate, tickVars
  <1>3. CASE PromptChanged(n)
    <2>1. TypeOK'
      BY <1>3, StoppedType DEF PromptChanged, TypeOK, gate, tickVars, crashVars, ticketVars
    <2> QED
      BY <2>1, <1>3, StoppedType, QuietStep DEF PromptChanged, TypeOK, Running, gate, tickVars
  <1>4. CASE RestartStuck(n)
    <2>1. \E r \in BotRec : /\ bot' = [bot EXCEPT ![n] = r]
                            /\ r.proc = "running" => r.agent = bot[n].agent /\ r.tid = bot[n].tid
      <3>1. CASE bot' = [bot EXCEPT ![n].enabled = FALSE]
        <4>1. bot' = [bot EXCEPT ![n] = [bot[n] EXCEPT !.enabled = FALSE]]
          BY <3>1 DEF TypeOK
        <4> QED
          BY <4>1, <1>0, EnabledType
      <3>2. CASE bot' = [bot EXCEPT ![n] = Stopped(n)]
        BY <3>2, StoppedType
      <3> QED
        BY <1>4, <3>1, <3>2 DEF RestartStuck
    <2>2. /\ bot' \in [Name -> BotRec]
          /\ bot'[n].proc = "running" => bot'[n].agent = bot[n].agent /\ bot'[n].tid = bot[n].tid
          /\ \A m \in Name \ {n} : bot'[m] = bot[m]
      <3>1. PICK r \in BotRec : /\ bot' = [bot EXCEPT ![n] = r]
                                /\ r.proc = "running" => r.agent = bot[n].agent /\ r.tid = bot[n].tid
        BY <2>1
      <3>2. bot' \in [Name -> BotRec] /\ bot'[n] = r /\ \A m \in Name \ {n} : bot'[m] = bot[m]
        BY <3>1, BotUpdate
      <3> QED
        BY <3>1, <3>2
    <2>3. TypeOK'
      BY <1>4, <2>2 DEF RestartStuck, TypeOK, gate, tickVars, crashVars, ticketVars
    <2> QED
      BY <1>4, <2>2, <2>3, QuietStep DEF RestartStuck, Running, gate, tickVars
  <1>5. CASE HandleExited(n)
    <2>1. \E r \in BotRec : bot' = [bot EXCEPT ![n] = r] /\ r.proc = "none"
      <3>1. ASSUME NEW e \in BOOLEAN
            PROVE  [Stopped(n) EXCEPT !.enabled = e] \in BotRec
                     /\ [Stopped(n) EXCEPT !.enabled = e].proc = "none"
        BY StoppedType, EnabledType
      <3>2. CASE OnSuccess(n) \/ OnError(n)
        BY <3>2, StoppedType DEF OnSuccess, OnError
      <3>3. CASE OnRateLimit(n)
        <4>1. CASE bot' = [bot EXCEPT ![n] = Stopped(n)]
          BY <4>1, StoppedType
        <4>2. CASE \E e \in BOOLEAN : bot' = [bot EXCEPT ![n] = [Stopped(n) EXCEPT !.enabled = e]]
          BY <4>2, <3>1
        <4> QED
          BY <3>3, <4>1, <4>2 DEF OnRateLimit
      <3> QED
        BY <1>5, <3>2, <3>3 DEF HandleExited
    <2>2. st' \in [Ticket -> State]
      <3>1. ASSUME NEW t \in Ticket, NEW T \in SUBSET State, Moves(t, T)
            PROVE  st' \in [Ticket -> State]
        BY <3>1 DEF Moves, TypeOK
      <3>2. Assigned(n) \subseteq Ticket
        BY <1>0 DEF Assigned, Adoptable, BotRec
      <3>3. "REWORK" \in State
        BY DEF State
      <3>4. CASE OnSuccess(n)
        BY <3>4, <3>1, <3>2 DEF OnSuccess, TypeOK
      <3>5. CASE st' = st
        BY <3>5 DEF TypeOK
      <3>6. CASE st' # st /\ (OnError(n) \/ OnRateLimit(n))
        <4> DEFINE t == bot[n].tid
        <4>1. t \in Ticket
          BY <3>6, <1>0 DEF OnError, OnRateLimit, ticketVars, BotRec
        <4>2. \E s \in {"REWORK"} : st' = [st EXCEPT ![t] = s]
          BY <3>6 DEF OnError, OnRateLimit, Moves, ticketVars
        <4> QED
          BY <4>1, <4>2, <3>3 DEF TypeOK
      <3> QED
        BY <1>5, <3>4, <3>5, <3>6 DEF HandleExited
    <2>3. verdicts' \subseteq Ticket
      <3>1. CASE OnSuccess(n) \/ OnRateLimit(n)
        BY <3>1 DEF OnSuccess, OnRateLimit, TypeOK
      <3>2. CASE OnError(n)
        <4>1. bot[n].tid \in Ticket \cup {NoTicket}
          BY DEF TypeOK, BotRec
        <4> QED
          BY <4>1, <3>2 DEF OnError, ticketVars, TypeOK
      <3> QED
        BY <1>5, <3>1, <3>2 DEF HandleExited
    <2>4. bot' \in [Name -> BotRec]
      BY <2>1, BotUpdate
    <2>5. bot'[n].proc = "none" /\ \A m \in Name \ {n} : bot'[m] = bot[m]
      BY <2>1, BotUpdate
    <2>6. TypeOK'
      BY <2>2, <2>3, <2>4, <1>5 DEF HandleExited, TypeOK, gate, crashVars
    <2> QED
      BY <2>5, <2>6, <1>5, QuietStep DEF HandleExited, Running, gate
  <1> QED
    BY <1>1, <1>2, <1>3, <1>4, <1>5

\* The phases of a tick that supervise bots and route tickets.
LEMMA SupervisionSteps ==
  ASSUME TickInv, OrphanExits \/ TickBegins \/ ExitsHandled \/ ApplyAvailability \/ RunGates
  PROVE  TickInv'
  <1> USE DEF TickInv
  <1>0. \A n \in Name : bot[n] \in BotRec
    BY DEF TypeOK
  <1>1. CASE OrphanExits
    <2>1. TypeOK'
      BY <1>1 DEF OrphanExits, TypeOK, gate, tickVars, ticketVars
    <2> QED
      BY <1>1, <2>1, QuietStep DEF OrphanExits, Running, gate, tickVars
  <1>2. CASE TickBegins
    <2>1. \A n \in Name : \/ bot'[n] = bot[n]
                          \/ bot'[n] = [bot[n] EXCEPT !.enabled = TRUE]
      BY <1>2 DEF TickBegins
    <2>2. \A n \in Name : /\ bot'[n] \in BotRec /\ bot'[n].proc = bot[n].proc
                          /\ bot'[n].agent = bot[n].agent /\ bot'[n].tid = bot[n].tid
      BY <2>1, <1>0, EnabledType
    <2>3. bot' \in [Name -> BotRec]
      BY <1>2, <2>2 DEF TickBegins
    <2>4. TypeOK'
      BY <1>2, <2>3 DEF TickBegins, Goto, TypeOK, gate, crashVars, ticketVars
    <2> QED
      BY <1>2, <2>2, <2>4, QuietStep DEF TickBegins, Goto, Running, gate
  <1>3. CASE ExitsHandled
    <2>1. \A n \in Name : bot'[n] = bot[n] \/ bot'[n] = Absent
      BY <1>3 DEF ExitsHandled
    <2>2. bot' \in [Name -> BotRec]
      BY <1>3, <2>1, <1>0, AbsentType DEF ExitsHandled
    <2>3. TypeOK'
      BY <1>3, <2>2 DEF ExitsHandled, Goto, TypeOK, gate, tickVars, crashVars, ticketVars
    <2> QED
      <3>1. \A n \in Name : bot'[n].proc = "running" => bot'[n] = bot[n]
        BY <2>1, AbsentType
      <3> QED
        BY <1>3, <2>3, <3>1, QuietStep DEF ExitsHandled, Goto, Running, gate, tickVars
  <1>4. CASE ApplyAvailability
    <2>1. \A n \in Name : \/ bot'[n] = bot[n]
                          \/ \E e \in BOOLEAN : bot'[n] = [bot[n] EXCEPT !.enabled = e]
                          \/ bot'[n] = [Stopped(n) EXCEPT !.enabled = FALSE]
      BY <1>4 DEF ApplyAvailability
    <2>2. ASSUME NEW n \in Name
          PROVE  /\ bot'[n] \in BotRec
                 /\ bot'[n].proc = "running" => bot'[n].proc = bot[n].proc
                 /\ bot'[n].proc = "running" => bot'[n].agent = bot[n].agent
                 /\ bot'[n].proc = "running" => bot'[n].tid = bot[n].tid
      <3>1. CASE bot'[n] = bot[n]
        BY <3>1, <1>0
      <3>2. CASE \E e \in BOOLEAN : bot'[n] = [bot[n] EXCEPT !.enabled = e]
        BY <3>2, <1>0, EnabledType
      <3>3. CASE bot'[n] = [Stopped(n) EXCEPT !.enabled = FALSE]
        BY <3>3, StoppedType, EnabledType
      <3> QED
        BY <2>1, <3>1, <3>2, <3>3
    <2>3. bot' \in [Name -> BotRec]
      BY <1>4, <2>2 DEF ApplyAvailability
    <2>4. TypeOK'
      BY <1>4, <2>3 DEF ApplyAvailability, Goto, TypeOK, gate, tickVars, crashVars, ticketVars
    <2> QED
      BY <1>4, <2>2, <2>4, QuietStep DEF ApplyAvailability, Goto, Running, gate, tickVars
  <1>5. CASE RunGates
    <2>1. TypeOK'
      BY <1>5 DEF RunGates, Goto, TypeOK, gate, tickVars, crashVars
    <2> QED
      BY <1>5, <2>1, QuietStep DEF RunGates, Goto, Running, gate, tickVars, Phases
  <1> QED
    BY <1>1, <1>2, <1>3, <1>4, <1>5

\* Every agent without a running bot is finalised, those in the queue included.
LEMMA FinalizeStep ==
  ASSUME TickInv, FinalizeAbsent
  PROVE  TickInv' /\ active' \subseteq LiveIds
  <1> USE DEF TickInv
  <1> DEFINE gone == {a \in Agent : Live(a)} \ LiveIds
  <1>1. gone \in SUBSET Agent /\ Release(gone) /\ pc = "absent" /\ pc' = "reconcile"
    BY DEF FinalizeAbsent, Goto
  <1>2. rec' = [a \in Agent |-> IF a \in gone THEN "dead" ELSE rec[a]]
    BY DEF FinalizeAbsent
  <1>3. UNCHANGED <<st, verdicts, bot, ready, checking, todo, orphans, crashes>>
    BY DEF FinalizeAbsent, ticketVars, tickVars, crashVars
  <1>4. \A n \in Name : Running(n) => bot[n].agent \in active /\ bot[n].agent \notin gone
    <2>1. \A n \in Name : Running(n) => bot[n].agent \in active /\ bot[n].agent # NoAgent
      BY OrchestratorAssumption DEF BotsStarted, TypeOK
    <2> QED
      BY <2>1 DEF LiveIds
  <1>5. ASSUME NEW a \in active
        PROVE  a \in gone \/ a \in LiveIds
    BY <1>1 DEF ActiveClaims, Phases, TypeOK, Live
  <1> HIDE DEF gone
  <1>6. /\ active' = active \ gone /\ queued' = queued \ gone
        /\ claim' \in [Ticket -> Agent \cup {NoAgent}]
        /\ \A b \in active \ gone : claim'[WorkTicket[b]] = b
    BY <1>1, ReleaseKeeps
  <1>7. TypeOK'
    BY <1>1, <1>2, <1>3, <1>6 DEF TypeOK
  <1>8. BotsStarted'
    BY <1>2, <1>3, <1>4, <1>6 DEF BotsStarted, Running, NameOf, TypeOK
  <1>9. ActiveClaims'
    BY <1>2, <1>6 DEF ActiveClaims, TypeOK
  <1>10. ready = {} /\ checking = NoAgent
    BY <1>1 DEF Phases
  <1>11. RequestsWait'
    BY <1>2, <1>3, <1>6, <1>10 DEF RequestsWait, TypeOK
  <1>12. Phases'
    BY <1>1, <1>2, <1>3, <1>10 DEF Phases, TypeOK
  <1> QED
    BY <1>5, <1>6, <1>7, <1>8, <1>9, <1>11, <1>12

\* The sweeps of reconcile find nothing of a live agent to release.
LEMMA ReconcileStep ==
  ASSUME TickInv, NEW kept \in SUBSET Ticket, Reconcile(kept)
  PROVE  TickInv'
  <1> USE DEF TickInv
  <1>1. pc = "reconcile" /\ pc' = "dispatch"
    BY DEF Reconcile, Goto
  <1>2. \A a \in active : Live(a)
    BY <1>1 DEF ActiveClaims, Phases, TypeOK, Live
  <1>3. active' = active /\ queued' = queued
    BY <1>2 DEF Reconcile
  <1>4. UNCHANGED <<verdicts, bot, rec, ready, checking, todo, orphans, crashes>>
    BY DEF Reconcile, tickVars, crashVars
  <1>5. claim' \in [Ticket -> Agent \cup {NoAgent}]
    BY DEF Reconcile, TypeOK
  <1>6. st' \in [Ticket -> State]
    <2>1. "COMPLETE" \in State
      BY DEF State
    <2> QED
      BY <2>1 DEF Reconcile, TypeOK
  <1>7. TypeOK'
    BY <1>1, <1>3, <1>4, <1>5, <1>6 DEF TypeOK
  <1>8. ASSUME NEW a \in active
        PROVE  claim'[WorkTicket[a]] = a
    <2>1. a \in Agent /\ WorkTicket[a] \in Ticket /\ claim[WorkTicket[a]] = a /\ Live(a)
      BY <1>2, OrchestratorAssumption DEF TypeOK, ActiveClaims
    <2>2. WorkTicket[a] \notin OrphanClaims
      BY <2>1 DEF OrphanClaims
    <2> QED
      BY <2>1, <2>2 DEF Reconcile
  <1>9. BotsStarted'
    BY <1>3, <1>4 DEF BotsStarted, Running, NameOf
  <1>10. ActiveClaims'
    BY <1>3, <1>4, <1>8 DEF ActiveClaims
  <1>11. RequestsWait' /\ Phases'
    BY <1>1, <1>3, <1>4 DEF RequestsWait, Phases
  <1> QED
    BY <1>7, <1>9, <1>10, <1>11

\* A dispatch takes a ticket nobody holds, for an agent nobody has heard of.
LEMMA DispatchStep ==
  ASSUME TickInv, NEW a \in Agent, Dispatch(a)
  PROVE  TickInv'
  <1> USE DEF TickInv
  <1> DEFINE t == WorkTicket[a]
  <1>1. t \in Ticket /\ claim[t] = NoAgent /\ rec[a] = "dead" /\ a \notin active /\ pc = "dispatch"
    BY OrchestratorAssumption DEF Dispatch, Fresh
  <1>2. /\ rec' = [rec EXCEPT ![a] = "none"] /\ active' = active \cup {a}
        /\ claim' = [claim EXCEPT ![t] = a] /\ queued' = queued \cup {a}
        /\ UNCHANGED <<st, verdicts, bot, ready, checking, todo, orphans, crashes, pc>>
    BY DEF Dispatch, ticketVars, tickVars, crashVars
  <1> HIDE DEF t
  <1>3. TypeOK'
    BY <1>1, <1>2 DEF TypeOK
  <1>4. ASSUME NEW b \in active
        PROVE  WorkTicket[b] \in Ticket \ {t} /\ b # a
    BY <1>1, OrchestratorAssumption DEF ActiveClaims, TypeOK
  <1>5. BotsStarted'
    BY <1>1, <1>2 DEF BotsStarted, Running, NameOf, TypeOK
  <1>6. ActiveClaims'
    BY <1>1, <1>2, <1>4 DEF ActiveClaims, TypeOK, t
  <1>7. RequestsWait'
    BY <1>1, <1>2 DEF RequestsWait, TypeOK
  <1>8. Phases'
    BY <1>1, <1>2 DEF Phases, TypeOK
  <1> QED
    BY <1>3, <1>5, <1>6, <1>7, <1>8

\* The dispatched agents are registered and the queue is drained.
LEMMA DrainSteps ==
  ASSUME TickInv, DispatchEnds \/ DequeueReady
  PROVE  TickInv'
  <1> USE DEF TickInv
  <1>1. CASE DispatchEnds
    <2>1. /\ rec' = [a \in Agent |-> IF a \in active /\ rec[a] = "none" THEN "created" ELSE rec[a]]
          /\ pc = "dispatch" /\ pc' = "drain"
          /\ UNCHANGED <<st, verdicts, bot, active, claim, queued, ready, checking, todo, orphans, crashes>>
      BY <1>1 DEF DispatchEnds, Register, Goto, ticketVars, gate, tickVars, crashVars
    <2>2. TypeOK'
      BY <2>1 DEF TypeOK
    <2>3. BotsStarted'
      BY <2>1 DEF BotsStarted, Running, NameOf, TypeOK
    <2>4. ActiveClaims'
      BY <2>1 DEF ActiveClaims, TypeOK
    <2>5. RequestsWait'
      BY <2>1 DEF RequestsWait, TypeOK
    <2>6. Phases'
      BY <2>1 DEF Phases, TypeOK
    <2> QED
      BY <2>2, <2>3, <2>4, <2>5, <2>6
  <1>2. CASE DequeueReady
    <2>1. PICK R \in SUBSET queued : ready' = R /\ queued' = queued \ R
      BY <1>2 DEF DequeueReady
    <2>2. /\ pc = "drain" /\ ready = {}
          /\ UNCHANGED <<st, verdicts, bot, rec, active, claim, checking, todo, orphans, crashes, pc>>
      BY <1>2 DEF DequeueReady, ticketVars, crashVars
    <2>3. TypeOK'
      BY <2>1, <2>2 DEF TypeOK
    <2>4. BotsStarted' /\ ActiveClaims'
      BY <2>2 DEF BotsStarted, ActiveClaims, Running, NameOf
    <2>5. RequestsWait' /\ Phases'
      BY <2>1, <2>2 DEF RequestsWait, Phases
    <2> QED
      BY <2>3, <2>4, <2>5
  <1> QED
    BY <1>1, <1>2

\* A request is cancelled because its bot runs, or its bot starts or fails to.
LEMMA SpawnStep ==
  ASSUME TickInv, NEW a \in Agent, Spawn(a)
  PROVE  TickInv'
  <1> USE DEF TickInv
  <1> DEFINE n == NameOf(a)
  <1>1. /\ pc = "drain" /\ checking = NoAgent /\ a \in ready /\ ready' = ready \ {a}
        /\ UNCHANGED <<st, verdicts, todo, orphans, crashes, pc>>
    BY DEF Spawn, ticketVars, crashVars
  <1>2. /\ a \in active /\ a \notin queued /\ rec[a] = "created"
        /\ n \in Name /\ WorkTicket[a] \in Ticket
    BY <1>1, OrchestratorAssumption DEF RequestsWait, Phases, TypeOK, NameOf, Name
  <1>3. \A m \in Name : Running(m) => bot[m].agent # a
    BY <1>2 DEF BotsStarted
  <1>4. bot[n] \in BotRec
    BY <1>2 DEF TypeOK
  <1>5. CASE Release({a}) /\ UNCHANGED <<rec, checking>>
             /\ \E r \in BotRec : bot' = [bot EXCEPT ![n] = r] /\ (r = bot[n] \/ (~Running(n) /\ r.proc # "running"))
    <2>1. /\ active' = active \ {a} /\ queued' = queued \ {a}
          /\ claim' \in [Ticket -> Agent \cup {NoAgent}]
          /\ \A b \in active \ {a} : claim'[WorkTicket[b]] = b
      BY <1>5, ReleaseKeeps
    <2>2. /\ bot' \in [Name -> BotRec]
          /\ \A m \in Name : bot'[m].proc = "running" => bot'[m] = bot[m]
      <3>1. PICK r \in BotRec : /\ bot' = [bot EXCEPT ![n] = r]
                                /\ r = bot[n] \/ (~Running(n) /\ r.proc # "running")
        BY <1>5
      <3>2. bot' \in [Name -> BotRec] /\ bot'[n] = r /\ \A m \in Name \ {n} : bot'[m] = bot[m]
        BY <1>2, <3>1, BotUpdate
      <3> QED
        BY <3>1, <3>2
    <2>3. TypeOK'
      BY <1>1, <1>5, <2>1, <2>2 DEF TypeOK
    <2>4. BotsStarted'
      BY <1>3, <1>5, <2>1, <2>2 DEF BotsStarted, Running, NameOf
    <2>5. ActiveClaims'
      BY <1>5, <2>1 DEF ActiveClaims
    <2>6. RequestsWait' /\ Phases'
      BY <1>1, <1>2, <1>5, <2>1 DEF RequestsWait, Phases
    <2> QED
      BY <2>3, <2>4, <2>5, <2>6
  <1>6. CASE /\ ~Running(n) /\ UNCHANGED gate
             /\ bot' = [bot EXCEPT ![n] = [proc |-> "running", code |-> "ok", agent |-> a,
                                           tid |-> WorkTicket[a], enabled |-> bot[n].enabled]]
             /\ rec' = [rec EXCEPT ![a] = "starting"] /\ checking' = a
    <2> DEFINE r == [proc |-> "running", code |-> "ok", agent |-> a,
                     tid |-> WorkTicket[a], enabled |-> bot[n].enabled]
    <2>1. r \in BotRec /\ r.agent = a /\ r.tid = WorkTicket[a]
      BY <1>2, <1>4 DEF BotRec
    <2>2. bot' = [bot EXCEPT ![n] = r]
      BY <1>6
    <2> HIDE DEF r
    <2>3. bot' \in [Name -> BotRec] /\ bot'[n] = r /\ \A m \in Name \ {n} : bot'[m] = bot[m]
      BY <1>2, <2>1, <2>2, BotUpdate
    <2>4. UNCHANGED <<active, claim, queued>>
      BY <1>6 DEF gate
    <2>5. TypeOK'
      BY <1>1, <1>6, <2>3, <2>4 DEF TypeOK
    <2>6. rec'[a] = "starting" /\ \A b \in Agent \ {a} : rec'[b] = rec[b]
      BY <1>6 DEF TypeOK
    <2>7. ASSUME NEW m \in Name, Running(m)'
          PROVE  LET b == bot'[m].agent IN
                 /\ b \in active' /\ rec'[b] = "starting"
                 /\ NameOf(b) = m /\ WorkTicket[b] = bot'[m].tid
      <3>1. CASE m = n
        BY <3>1, <1>2, <2>1, <2>3, <2>4, <2>6
      <3>2. CASE m # n
        BY <3>2, <2>7, <1>3, <2>3, <2>4, <2>6 DEF BotsStarted, Running, TypeOK
      <3> QED
        BY <3>1, <3>2
    <2>8. BotsStarted'
      BY <2>7 DEF BotsStarted, NameOf
    <2>9. ActiveClaims'
      BY <2>4, <2>6 DEF ActiveClaims, TypeOK
    <2>10. RequestsWait'
      BY <1>1, <1>2, <2>4, <2>6 DEF RequestsWait, TypeOK
    <2>11. Phases'
      BY <1>1, <1>6, <2>4, <2>6 DEF Phases, TypeOK
    <2> QED
      BY <2>5, <2>8, <2>9, <2>10, <2>11
  <1>7. CASE Running(n) /\ Release({a}) /\ UNCHANGED <<bot, rec, checking>>
    BY <1>7, <1>4, <1>5 DEF TypeOK
  <1>8. CASE /\ ~Running(n) /\ Release({a}) /\ UNCHANGED <<rec, checking>>
             /\ bot' = [bot EXCEPT ![n].proc = IdleProc(n), ![n].tid = NoTicket]
    <2> DEFINE r == [bot[n] EXCEPT !.proc = IdleProc(n), !.tid = NoTicket]
    <2>1. r \in BotRec /\ r.proc # "running"
      BY <1>8, <1>4 DEF BotRec, Running, IdleProc
    <2>2. bot' = [bot EXCEPT ![n] = r]
      BY <1>8, <1>2 DEF TypeOK
    <2> QED
      BY <1>8, <2>1, <2>2, <1>5
  <1> QED
    BY <1>6, <1>7, <1>8 DEF Spawn

\* A bot that did not survive loses its assignment and its agent the slot.
LEMMA SurvivalStep ==
  ASSUME TickInv, CheckSurvival
  PROVE  TickInv'
  <1> USE DEF TickInv
  <1> DEFINE n == NameOf(checking)
  <1>1. /\ checking \in Agent /\ checking' = NoAgent
        /\ UNCHANGED <<st, verdicts, rec, ready, todo, orphans, crashes, pc>>
    BY DEF CheckSurvival, TypeOK, ticketVars, crashVars
  <1>2. n \in Name /\ bot[n] \in BotRec
    BY <1>1, OrchestratorAssumption DEF NameOf, Name, TypeOK
  <1>3. CASE Running(n)
    <2>1. UNCHANGED <<bot, active, claim, queued>>
      BY <1>3 DEF CheckSurvival, gate
    <2>2. TypeOK'
      BY <1>1, <2>1 DEF TypeOK
    <2> QED
      BY <1>1, <2>1, <2>2, QuietStep DEF Running
  <1>4. CASE ~Running(n)
    <2> DEFINE r == [bot[n] EXCEPT !.agent = NoAgent, !.tid = NoTicket]
    <2>1. Release({checking}) /\ bot' = [bot EXCEPT ![n].agent = NoAgent, ![n].tid = NoTicket]
      BY <1>4 DEF CheckSurvival
    <2>2. r \in BotRec /\ r.proc # "running"
      BY <1>2, <1>4 DEF BotRec, Running
    <2>3. bot' = [bot EXCEPT ![n] = r]
      BY <1>2, <2>1 DEF TypeOK
    <2> HIDE DEF r
    <2>4. bot' \in [Name -> BotRec] /\ bot'[n] = r /\ \A m \in Name \ {n} : bot'[m] = bot[m]
      BY <1>2, <2>2, <2>3, BotUpdate
    <2>5. /\ active' = active \ {checking} /\ queued' = queued \ {checking}
          /\ claim' \in [Ticket -> Agent \cup {NoAgent}]
          /\ \A b \in active \ {checking} : claim'[WorkTicket[b]] = b
      BY <1>1, <2>1, ReleaseKeeps
    <2>6. TypeOK'
      BY <1>1, <2>4, <2>5 DEF TypeOK
    <2>7. ASSUME NEW m \in Name, Running(m)'
          PROVE  Running(m) /\ bot'[m] = bot[m] /\ bot[m].agent # checking
      BY <1>2, <1>4, <2>2, <2>4, <2>7 DEF BotsStarted, Running
    <2>8. BotsStarted'
      BY <1>1, <2>5, <2>7 DEF BotsStarted, NameOf
    <2>9. ActiveClaims'
      BY <1>1, <2>5 DEF ActiveClaims
    <2>10. checking \notin ready
      BY <1>1 DEF CheckSurvival, Phases, RequestsWait
    <2>11. RequestsWait' /\ Phases'
      BY <1>1, <2>5, <2>10 DEF RequestsWait, Phases, CheckSurvival
    <2> QED
      BY <2>6, <2>8, <2>9, <2>11
  <1> QED
    BY <1>3, <1>4

\* A crash leaves claim files and processes, and nobody who owns them.
LEMMA CrashStep ==
  ASSUME TickInv, Crash
  PROVE  TickInv'
  <1> USE DEF TickInv
  <1>1. \A n \in Name : Running(n) => <<n[1], bot[n].tid>> \in Role \X Ticket
    <2>1. \A n \in Name : n[1] \in Role
      BY DEF Name
    <2>2. \A n \in Name : Running(n) => bot[n].tid \in Ticket
      BY OrchestratorAssumption DEF BotsStarted, TypeOK
    <2> QED
      BY <2>1, <2>2
  <1>2. bot' \in [Name -> BotRec] /\ \A n \in Name : bot'[n].proc = "absent"
    BY AbsentType DEF Crash
  <1>3. crashes' \in 0..MaxCrashes
    BY OrchestratorAssumption DEF Crash, TypeOK
  <1>4. TypeOK'
    BY <1>1, <1>2, <1>3 DEF Crash, Goto, TypeOK, ticketVars
  <1>5. BotsStarted'
    BY <1>2 DEF BotsStarted, Running
  <1>6. ActiveClaims' /\ RequestsWait' /\ Phases'
    BY DEF Crash, ActiveClaims, RequestsWait, Phases
  <1> QED
    BY <1>4, <1>5, <1>6

LEMMA TickInvStep ==
  ASSUME TickInv, [Next]_vars
  PROVE  TickInv'
  <1>1. CASE Next
    BY <1>1, BotSteps, SupervisionSteps, FinalizeStep, ReconcileStep, DispatchStep, DrainSteps, SpawnStep,
       SurvivalStep, CrashStep DEF Next, Tick
  <1>2. CASE UNCHANGED vars
    <2>1. TypeOK'
      BY <1>2 DEF TickInv, TypeOK, vars
    <2> QED
      BY <1>2, <2>1, QuietStep DEF vars, Running
  <1> QED
    BY <1>1, <1>2

LEMMA TickInvHolds == Spec => []TickInv
  BY TickInvInit, TickInvStep, PTL DEF Spec

\* The tick's state keeps its types.
THEOREM OrchestratorTypeCorrect == Spec => []TypeOK
  BY TickInvHolds, PTL DEF TickInv

\* No bot and no waiting request is ever at a ticket without the slot and the
\* claim of its agent (run_dispatchers, finalize_absent_agents, the sweeps).
THEOREM EveryBotOwnsItsWork == Spec => []WorkIsOwned
  <1>1. TickInv => WorkIsOwned
    BY OrchestratorAssumption DEF TickInv, BotsStarted, ActiveClaims, RequestsWait, WorkIsOwned, TypeOK
  <1> QED
    BY <1>1, TickInvHolds, PTL

\* docs/scheduler.md: DEAD owns nothing and consumes no slot.
THEOREM TheDeadOwnNothing == Spec => []DeadOwnsNothing
  <1>1. TickInv => DeadOwnsNothing
    BY DEF TickInv, BotsStarted, ActiveClaims, RequestsWait, DeadOwnsNothing
  <1> QED
    BY <1>1, TickInvHolds, PTL

\* After the absent agents are finalised no slot is held without a live bot.
THEOREM NoSlotLeaksPastATick == Spec => SlotsFollowBots
  <1>1. ASSUME TickInv, [Next]_vars, pc = "absent", pc' = "reconcile"
        PROVE  active' \subseteq LiveIds
    <2>1. FinalizeAbsent
      BY <1>1 DEF Next, Tick, vars, Goto, TickBegins, ExitsHandled, FinalizeAbsent, DispatchEnds, CheckSurvival,
         ApplyAvailability, RunGates, HandleExited, Spawn, Reconcile, PromptChanged, RestartStuck, BotExits,
         VerdictWritten, Dispatch, DequeueReady, OrphanExits, Crash
    <2> QED
      BY <1>1, <2>1, FinalizeStep
  <1> QED
    BY <1>1, TickInvHolds, PTL DEF Spec, SlotsFollowBots

-----------------------------------------------------------------------------
(* How many are at work                                                    *)

\* No slot is taken but by Dispatch, which counts them.
SlotsBounded == IsFiniteSet(active) /\ Cardinality(active) <= MaxSlots

\* Every other step leaves the active agents alone or releases some.
LEMMA OnlyDispatchActivates ==
  ASSUME Next, ~\E a \in Agent : Dispatch(a)
  PROVE  active' \subseteq active
  BY DEF Next, Tick, gate, Release, TickBegins, ExitsHandled, FinalizeAbsent, DispatchEnds, CheckSurvival,
     ApplyAvailability, RunGates, HandleExited, Spawn, Reconcile, PromptChanged, RestartStuck, BotExits,
     VerdictWritten, DequeueReady, OrphanExits, Crash

LEMMA SlotsBoundedStep ==
  ASSUME SlotsBounded, [Next]_vars
  PROVE  SlotsBounded'
  <1>0. Cardinality(active) \in Nat /\ MaxSlots \in Nat
    BY FS_CardinalityType, OrchestratorAssumption DEF SlotsBounded
  <1>1. CASE active' \subseteq active
    <2>1. IsFiniteSet(active') /\ Cardinality(active') <= Cardinality(active)
      BY <1>1, FS_Subset DEF SlotsBounded
    <2>2. Cardinality(active') \in Nat
      BY <2>1, FS_CardinalityType
    <2> QED
      BY <1>0, <2>1, <2>2 DEF SlotsBounded
  <1>2. ASSUME NEW a \in Agent, Dispatch(a) PROVE SlotsBounded'
    <2>1. active' = active \cup {a} /\ a \notin active /\ Cardinality(active) < MaxSlots
      BY <1>2 DEF Dispatch, Fresh
    <2>2. IsFiniteSet(active') /\ Cardinality(active') = Cardinality(active) + 1
      BY <2>1, FS_AddElement DEF SlotsBounded
    <2> QED
      BY <1>0, <2>1, <2>2 DEF SlotsBounded
  <1> QED
    BY <1>1, <1>2, OnlyDispatchActivates DEF vars

LEMMA SlotsBoundedAlways == Spec => []SlotsBounded
  <1>1. Init => SlotsBounded
    BY FS_EmptySet, OrchestratorAssumption DEF Init, SlotsBounded
  <1> QED
    BY <1>1, SlotsBoundedStep, PTL DEF Spec

RunningBots == {n \in Name : Running(n)}
BotsWithinSlots == IsFiniteSet(RunningBots) /\ Cardinality(RunningBots) <= MaxSlots

\* The bots this program started and has not lost to a crash never are more than
\* MAX_CONCURRENCY, whatever fails, hangs or shares a name: two bots never run for one
\* agent, and no agent's slot is given away while its bot runs.
THEOREM BotsBounded == Spec => []BotsWithinSlots
  <1>1. ASSUME TickInv, SlotsBounded PROVE BotsWithinSlots
    <2> DEFINE f == [n \in RunningBots |-> bot[n].agent]
    <2>1. f \in Injection(RunningBots, active)
      <3>1. \A n \in RunningBots : bot[n].agent \in active /\ NameOf(bot[n].agent) = n
        BY <1>1 DEF TickInv, BotsStarted, RunningBots
      <3>2. f \in [RunningBots -> active]
        BY <3>1
      <3>3. \A m, n \in RunningBots : f[m] = f[n] => m = n
        BY <3>1
      <3> QED
        BY <3>2, <3>3, Fun_IsInj
    <2> HIDE DEF f
    <2>2. IsFiniteSet(RunningBots) /\ Cardinality(RunningBots) <= Cardinality(active)
      BY <1>1, <2>1, FS_Injection DEF SlotsBounded
    <2>3. Cardinality(RunningBots) \in Nat /\ Cardinality(active) \in Nat /\ MaxSlots \in Nat
      BY <1>1, <2>2, FS_CardinalityType, OrchestratorAssumption DEF SlotsBounded
    <2> QED
      BY <1>1, <2>2, <2>3 DEF SlotsBounded, BotsWithinSlots
  <1> QED
    BY <1>1, TickInvHolds, SlotsBoundedAlways, PTL

-----------------------------------------------------------------------------
(* Refinement *)

\* The owners are the active agents.
LEMMA OwnersAreActive ==
  ASSUME TickInv
  PROVE  Ownership!Owners = active
  <1>1. NoAgent \notin active
    BY OrchestratorAssumption DEF TickInv, TypeOK
  <1>2. ASSUME NEW a \in active PROVE WorkTicket[a] \in Ticket /\ owners[WorkTicket[a]] = a
    BY OrchestratorAssumption DEF TickInv, TypeOK, ActiveClaims, owners
  <1>3. \A t \in Ticket : owners[t] \in active \cup {NoAgent}
    BY DEF owners
  <1> QED
    BY <1>1, <1>2, <1>3 DEF Ownership!Owners

\* What is released has no owner afterwards, whether or not its file could be unlinked.
LEMMA ReleaseFrees ==
  ASSUME TickInv, NEW A \in SUBSET Agent, Release(A)
  PROVE  Ownership!Next \/ UNCHANGED owners
  <1> DEFINE S == {t \in Ticket : claim[t] \in A \cap active}
  <1>0. NoAgent \notin active
    BY OrchestratorAssumption DEF TickInv, TypeOK
  <1>1. active' = active \ A
    BY DEF Release
  <1>2. ASSUME NEW t \in S PROVE owners[t] # NoAgent /\ owners'[t] = NoAgent
    <2>1. claim'[t] \in {claim[t], NoAgent}
      BY DEF Release
    <2> QED
      BY <1>0, <1>1, <2>1 DEF owners
  <1>3. ASSUME NEW t \in Ticket \ S PROVE owners'[t] = owners[t]
    <2>1. claim'[t] = claim[t]
      BY DEF Release
    <2> QED
      BY <1>1, <2>1 DEF owners
  <1>4. owners' = [t \in Ticket |-> IF t \in S THEN NoAgent ELSE owners[t]]
    BY <1>2, <1>3 DEF owners
  <1>5. CASE S = {}
    BY <1>4, <1>5 DEF owners
  <1>6. CASE S # {}
    <2>1. Ownership!Release(S)
      BY <1>2, <1>4, <1>6 DEF Ownership!Release
    <2> QED
      BY <2>1 DEF Ownership!Next
  <1> QED
    BY <1>5, <1>6

LEMMA DispatchAcquires ==
  ASSUME TickInv, NEW a \in Agent, Dispatch(a)
  PROVE  Ownership!Next
  <1> DEFINE t == WorkTicket[a]
  <1>0. NoAgent \notin active /\ a # NoAgent /\ t \in Ticket
    BY OrchestratorAssumption DEF TickInv, TypeOK
  <1>1. /\ claim[t] = NoAgent /\ Cardinality(active) < MaxSlots /\ a \notin active
        /\ active' = active \cup {a} /\ claim' = [claim EXCEPT ![t] = a]
        /\ \A u \in Ticket : claim[u] # a
    BY DEF Dispatch, Fresh
  <1> HIDE DEF t
  <1>2. owners' = [owners EXCEPT ![t] = a]
    <2>1. ASSUME NEW u \in Ticket PROVE owners'[u] = IF u = t THEN a ELSE owners[u]
      BY <1>0, <1>1 DEF owners, TickInv, TypeOK
    <2> QED
      BY <2>1 DEF owners
  <1>3. owners[t] = NoAgent
    BY <1>0, <1>1 DEF owners
  <1>4. Ownership!Cardinality(Ownership!Owners) = Cardinality(active)
    <2>1. Ownership!Cardinality(active) = Cardinality(active)
      BY Zenon DEF Ownership!Cardinality, Cardinality
    <2> QED
      BY <2>1, OwnersAreActive
  <1>5. Ownership!Acquire(t, a)
    BY <1>1, <1>2, <1>3, <1>4, OwnersAreActive DEF Ownership!Acquire
  <1> QED
    BY <1>0, <1>5 DEF Ownership!Next

\* The sweeps unlink what no active agent owns.
LEMMA ReconcileKeepsOwners ==
  ASSUME TickInv, NEW kept \in SUBSET Ticket, Reconcile(kept)
  PROVE  UNCHANGED owners
  <1>0. NoAgent \notin active
    BY OrchestratorAssumption DEF TickInv, TypeOK
  <1>1. \A a \in active : Live(a)
    BY DEF TickInv, ActiveClaims, Phases, TypeOK, Live, Reconcile
  <1>2. active' = active
    BY <1>1 DEF Reconcile
  <1>3. ASSUME NEW t \in Ticket
        PROVE  claim'[t] = claim[t] \/ (claim[t] \notin active /\ claim'[t] = NoAgent)
    BY <1>1 DEF Reconcile, OrphanClaims
  <1>4. ASSUME NEW t \in Ticket PROVE owners'[t] = owners[t]
    BY <1>0, <1>2, <1>3 DEF owners
  <1> QED
    BY <1>4 DEF owners

\* With the process all its agents are gone, and no ticket has an owner.
LEMMA CrashFrees ==
  ASSUME TickInv, Crash
  PROVE  Ownership!Next \/ UNCHANGED owners
  <1> DEFINE S == {t \in Ticket : claim[t] \in active}
  <1>0. NoAgent \notin active
    BY OrchestratorAssumption DEF TickInv, TypeOK
  <1>1. \A t \in S : owners[t] # NoAgent
    BY <1>0 DEF owners
  <1>2. owners' = [t \in Ticket |-> NoAgent]
    BY DEF Crash, owners
  <1>3. owners' = [t \in Ticket |-> IF t \in S THEN NoAgent ELSE owners[t]]
    BY <1>2 DEF owners
  <1>4. CASE S = {}
    BY <1>3, <1>4 DEF owners
  <1>5. CASE S # {}
    <2>1. Ownership!Release(S)
      BY <1>1, <1>3, <1>5 DEF Ownership!Release
    <2> QED
      BY <2>1 DEF Ownership!Next
  <1> QED
    BY <1>4, <1>5

\* The tick implements WorkOwnership, as the gate does: the two agree on who owns a
\* ticket, though the tick takes the gate's calls as atomic and may die in any of them.
THEOREM TickImplementsOwnership == Spec => ImplementsOwnership
  <1>1. Init => Ownership!Init
    BY DEF Init, Ownership!Init, owners
  <1>2. ASSUME TickInv, [Next]_vars
        PROVE  Ownership!Next \/ UNCHANGED owners
    <2>1. CASE UNCHANGED <<active, claim>>
      BY <2>1 DEF owners
    <2>2. CASE \E A \in SUBSET Agent : Release(A)
      BY <1>2, <2>2, ReleaseFrees
    <2>3. CASE FinalizeAbsent
      <3>1. {a \in Agent : Live(a)} \ LiveIds \in SUBSET Agent
        OBVIOUS
      <3> QED
        BY <2>2, <2>3, <3>1 DEF FinalizeAbsent
    <2>4. CASE CheckSurvival
      <3>1. checking # NoAgent => {checking} \in SUBSET Agent
        BY <1>2 DEF TickInv, TypeOK
      <3> QED
        BY <2>1, <2>2, <2>4, <3>1 DEF CheckSurvival, gate
    <2>5. ASSUME NEW a \in Agent, Spawn(a) PROVE Ownership!Next \/ UNCHANGED owners
      BY <2>1, <2>2, <2>5 DEF Spawn, gate
    <2>6. CASE \E a \in Agent : Dispatch(a)
      BY <1>2, <2>6, DispatchAcquires
    <2>7. CASE \E kept \in SUBSET Ticket : Reconcile(kept)
      BY <1>2, <2>7, ReconcileKeepsOwners
    <2>8. CASE Crash
      BY <1>2, <2>8, CrashFrees
    <2> QED
      BY <1>2, <2>1, <2>3, <2>4, <2>5, <2>6, <2>7, <2>8 DEF Next, Tick, vars, gate, TickBegins, ExitsHandled,
         DispatchEnds, ApplyAvailability, RunGates, HandleExited, PromptChanged, RestartStuck, BotExits,
         VerdictWritten, DequeueReady, OrphanExits
  <1> QED
    BY <1>1, <1>2, TickInvHolds, PTL DEF Spec, ImplementsOwnership, Ownership!Spec
=============================================================================
