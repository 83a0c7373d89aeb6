---------------------------- MODULE Orchestrator ----------------------------
(***************************************************************************)
(* One tick after another of codebot/orchestrator.py, check_all_bots: the  *)
(* exits of bots are turned into ticket transitions, agents whose bot is   *)
(* gone are finalised, the scheduler dispatches tickets, the spawn queue is *)
(* drained into bot processes, and bots nobody needs are stopped.  One     *)
(* thread runs the tick; the bot processes run, write files and exit while *)
(* it does, and outlive it when it crashes.                                *)
(*                                                                         *)
(* The calls of the dispatch gate are atomic here (DispatchGate has their  *)
(* steps): an agent in "active" holds a slot.                              *)
(***************************************************************************)
EXTENDS Naturals, FiniteSets

CONSTANTS
  Ticket, Agent, NoTicket, NoAgent,
  WorkRole, WorkTicket, \* what each agent id is dispatched for (a fresh uuid4 every time)
  Prefix, PrefixOf,  \* the first eight characters of each ticket's id
  Numeric,           \* the prefixes that end in digits only
  FirstState,        \* the states a ticket may be in when the program starts
  MaxSlots,          \* MAX_CONCURRENCY
  Reports,           \* what poll() may report: {"code"}, or with SIGCHLD ignored {"zero"}
  Faults,            \* a subset of {"start", "unlink"}
  MaxCrashes         \* bound: crashes of the orchestrator

State == {"REQUESTED", "DISCOVERED", "TRIAGED", "GOAL", "DECOMP", "PLANNING", "IMPLEMENT",
          "REVIEW", "REWORK", "VERIFY", "DEFERRED", "LATER", "NEVER", "BLOCKED", "REJECTED",
          "DUPLICATE", "COMPLETE"}

PLANNING_ROLE_NAMES == {"goal_aligner", "decomposer", "planner"}
Role == PLANNING_ROLE_NAMES
          \cup {"user_agent", "ticket_triager", "implementer", "reviewer", "verifier"}

ASSUME OrchestratorAssumption ==
  /\ NoAgent \notin Agent
  /\ NoTicket \notin Ticket
  /\ WorkRole \in [Agent -> Role] /\ WorkTicket \in [Agent -> Ticket]
  /\ PrefixOf \in [Ticket -> Prefix] /\ FirstState \subseteq State
  /\ MaxSlots \in Nat \ {0} /\ MaxCrashes \in Nat

\* The states of a role's buckets, whose tickets are dispatched to it.
BucketStates == [r \in Role |->
  CASE r = "user_agent" -> {"REQUESTED"}
    [] r = "ticket_triager" -> {"DISCOVERED"}
    [] r = "goal_aligner" -> {"TRIAGED"}
    [] r = "decomposer" -> {"DECOMP"}
    [] r = "planner" -> {"PLANNING"}
    [] r = "implementer" -> {"IMPLEMENT", "REWORK"}
    [] r = "reviewer" -> {"REVIEW"}
    [] r = "verifier" -> {"VERIFY"}]

\* The transitions a clean exit of a role makes: role, from, to.  The decomposer
\* is a planning role in role_registry.py and moves no ticket out of DECOMP.
Success ==
  {<<r, "PLANNING", "IMPLEMENT">> : r \in PLANNING_ROLE_NAMES} \cup
  {<<"user_agent", "REQUESTED", "COMPLETE">>, <<"user_agent", "REQUESTED", "REJECTED">>,
   <<"user_agent", "REQUESTED", "DEFERRED">>, <<"user_agent", "BLOCKED", "DEFERRED">>,
   <<"user_agent", "DISCOVERED", "REJECTED">>, <<"user_agent", "VERIFY", "COMPLETE">>,
   <<"ticket_triager", "DISCOVERED", "TRIAGED">>, <<"ticket_triager", "DISCOVERED", "REJECTED">>,
   <<"ticket_triager", "DISCOVERED", "DUPLICATE">>,
   <<"implementer", "IMPLEMENT", "REVIEW">>,
   <<"reviewer", "REVIEW", "VERIFY">>,
   <<"verifier", "VERIFY", "COMPLETE">>, <<"verifier", "VERIFY", "REWORK">>}

\* The states that keep a role's bots enabled; roles not named are left alone.
NeededIn == [r \in Role |->
  CASE r = "decomposer" -> {"DECOMP", "GOAL"}
    [] r \in {"planner", "goal_aligner"} -> {"PLANNING"}
    [] r = "implementer" -> {"IMPLEMENT"}
    [] r = "reviewer" -> {"REVIEW"}
    [] OTHER -> State]

VARIABLES
  st,        \* each ticket's state in the store
  verdicts,  \* the tickets with a REWORK verdict file
  bot,       \* the bots by name: process, exit code, _agent_id, _assigned_ticket_id
             \* (neither is read of a bot without a process), enabled
  rec,       \* Scheduler._agents: "created", "starting" or "dead" (an id not in use yet
             \* counts as dead), "none" from its dispatch until it is registered
  active,    \* DispatchGate._active
  claim,     \* the owner in each ticket's claim file
  queued,    \* the agents in the spawn queue
  ready,     \* the requests taken from the queue in this tick
  checking,  \* the agent whose bot is given 0.5 s to survive, or NoAgent
  todo,      \* the exited bots this tick has yet to handle
  orphans,   \* role and ticket of the processes that outlived a crash
  crashes,
  pc         \* where the tick is

vars == <<st, verdicts, bot, rec, active, claim, queued, ready, checking, todo, orphans,
          crashes, pc>>
gate == <<active, claim, queued>>
ticketVars == <<st, verdicts>>
crashVars == <<orphans, crashes>>
tickVars == <<ready, checking, todo>>

Name == Role \X Prefix
NameOf(a) == <<WorkRole[a], PrefixOf[WorkTicket[a]]>>
Running(n) == bot[n].proc = "running"
Live(a) == rec[a] \in {"created", "starting"}

Absent == [proc |-> "absent", code |-> "ok", agent |-> NoAgent, tid |-> NoTicket, enabled |-> TRUE]

Init ==
  /\ st \in [Ticket -> FirstState]
  /\ verdicts = {}
  /\ bot = [n \in Name |-> Absent]
  /\ rec = [a \in Agent |-> "dead"]
  /\ active = {} /\ queued = {} /\ ready = {} /\ todo = {} /\ orphans = {}
  /\ claim = [t \in Ticket |-> NoAgent]
  /\ checking = NoAgent
  /\ crashes = 0
  /\ pc = "idle"

Goto(p) == pc' = p

\* A bot without a process.
Stopped(n) == [bot[n] EXCEPT !.proc = "none", !.code = "ok", !.agent = NoAgent, !.tid = NoTicket]

\* complete_dispatch and cancel_dispatch for the agents of A: what each holds is
\* released; a claim file that cannot be unlinked stays.
Release(A) ==
  /\ active' = active \ A
  /\ queued' = queued \ A
  /\ \E kept \in SUBSET {t \in Ticket : claim[t] \in A \cap active} :
       /\ kept # {} => "unlink" \in Faults
       /\ claim' = [t \in Ticket |->
                      IF claim[t] \in A \cap active /\ t \notin kept THEN NoAgent ELSE claim[t]]

-----------------------------------------------------------------------------
(* The bot processes *)

BotExits(n) ==
  /\ Running(n)
  /\ \E c \in {"ok", "error", "limit"} : bot' = [bot EXCEPT ![n].proc = "exited", ![n].code = c]
  /\ UNCHANGED <<ticketVars, rec, gate, tickVars, crashVars, pc>>

\* A reviewer writes its verdict; a REWORK verdict is read by the deferred gates.
VerdictWritten(n) ==
  /\ Running(n) /\ n[1] = "reviewer"
  /\ verdicts' = verdicts \cup {bot[n].tid}
  /\ UNCHANGED <<st, bot, rec, gate, tickVars, crashVars, pc>>

OrphanExits ==
  /\ \E o \in orphans : orphans' = orphans \ {o}
  /\ UNCHANGED <<ticketVars, bot, rec, gate, tickVars, crashes, pc>>

-----------------------------------------------------------------------------
(* handle_exited_bots *)

\* check_prompt_changes stops a bot whose prompt file changed.
PromptChanged(n) ==
  /\ pc = "idle" /\ Running(n) /\ bot[n].enabled
  /\ bot' = [bot EXCEPT ![n] = Stopped(n)]
  /\ UNCHANGED <<ticketVars, rec, gate, tickVars, crashVars, pc>>

\* The tick begins: disabled bots without a process may be enabled again
\* (retry_disabled_and_stuck), and the exits seen from now on are handled.
TickBegins ==
  /\ pc = "idle" /\ Goto("exits")
  /\ \E S \in SUBSET {n \in Name : bot[n].proc = "none" /\ ~bot[n].enabled} :
       bot' = [n \in Name |-> IF n \in S THEN [bot[n] EXCEPT !.enabled = TRUE] ELSE bot[n]]
  /\ todo' = {n \in Name : bot[n].proc = "exited" /\ bot[n].enabled}
  /\ UNCHANGED <<ticketVars, rec, gate, ready, checking, crashVars>>

\* The tickets a bot without an assignment takes over: any whose claim is of its role.
Adoptable(n) == {t \in Ticket : claim[t] # NoAgent /\ WorkRole[claim[t]] = n[1]}

Assigned(n) == IF bot[n].tid # NoTicket THEN {bot[n].tid} ELSE Adoptable(n)

\* A transition along the table, or none: the work is empty, the contract of
\* the transition is not met, or the ticket has moved on.
Moves(t, targets) ==
  \/ UNCHANGED st
  \/ \E s \in targets : st' = [st EXCEPT ![t] = s]

\* transition_ticket_on_success
OnSuccess(n) ==
  /\ bot' = [bot EXCEPT ![n] = Stopped(n)]
  /\ \/ Assigned(n) = {} /\ UNCHANGED st
     \/ \E t \in Assigned(n) : Moves(t, {s \in State : <<n[1], st[t], s>> \in Success})
  /\ UNCHANGED verdicts

\* transition_ticket_on_error: the third failure of a reviewer writes a REWORK
\* verdict; PLANNING -> DECOMP and DECOMP -> GOAL are refused by the lifecycle.
OnError(n) ==
  LET t == bot[n].tid IN
  /\ bot' = [bot EXCEPT ![n] = Stopped(n)]
  /\ IF t = NoTicket THEN UNCHANGED ticketVars
     ELSE IF n[1] = "reviewer" /\ st[t] = "REVIEW"
       THEN /\ verdicts' \in {verdicts, verdicts \cup {t}}
            /\ UNCHANGED st
       ELSE /\ Moves(t, IF st[t] \in {"IMPLEMENT", "REVIEW"} THEN {"REWORK"} ELSE {})
            /\ UNCHANGED verdicts

\* Exit code 3, a rate limit: the bot waits, and a role other than the implementer
\* may be disabled; but the implementer's last strike is an error exit, which
\* leaves a ticket in IMPLEMENT.
OnRateLimit(n) ==
  LET t == bot[n].tid IN
  /\ UNCHANGED verdicts
  /\ \/ /\ n[1] = "implementer" /\ t # NoTicket
        /\ bot' = [bot EXCEPT ![n] = Stopped(n)]
        /\ Moves(t, IF st[t] = "REVIEW" THEN {"REWORK"} ELSE {})
     \/ /\ \E e \in (IF n[1] = "implementer" THEN {TRUE} ELSE BOOLEAN) :
             bot' = [bot EXCEPT ![n] = [Stopped(n) EXCEPT !.enabled = e]]
        /\ UNCHANGED st

\* The code poll() reports; with SIGCHLD ignored the kernel reaps the child and
\* Popen reports 0.
Reported(n) ==
  (IF "code" \in Reports THEN {bot[n].code} ELSE {}) \cup (IF "zero" \in Reports THEN {"ok"} ELSE {})

HandleExited(n) ==
  /\ pc = "exits"
  /\ bot[n].proc = "exited" /\ bot[n].enabled
  /\ \/ "ok" \in Reported(n) /\ OnSuccess(n)
     \/ "error" \in Reported(n) /\ OnError(n)
     \/ "limit" \in Reported(n) /\ OnRateLimit(n)
  /\ todo' = todo \ {n}
  /\ UNCHANGED <<rec, gate, ready, checking, crashVars, pc>>

\* Enabled bots without a process are forgotten if their name ends in digits.
ExitsHandled ==
  /\ pc = "exits" /\ todo = {} /\ Goto("absent")
  /\ bot' = [n \in Name |->
               IF bot[n].proc = "none" /\ bot[n].enabled /\ n[2] \in Numeric THEN Absent ELSE bot[n]]
  /\ UNCHANGED <<ticketVars, rec, gate, tickVars, crashVars>>

-----------------------------------------------------------------------------
(* handle_stuck_bots, and the dispatchers: run_dispatchers *)

\* A running bot whose heartbeat is too old: its restarts are used up and it is
\* disabled but left running; or it is stopped and cannot be started again.
\* (Stopped and started again, it is a bot at the same work.)
RestartStuck(n) ==
  /\ pc = "absent" /\ Running(n) /\ bot[n].enabled
  /\ \/ bot' = [bot EXCEPT ![n].enabled = FALSE]
     \/ "start" \in Faults /\ bot' = [bot EXCEPT ![n] = Stopped(n)]
  /\ UNCHANGED <<ticketVars, rec, gate, tickVars, crashVars, pc>>

\* Mutant: a disabled bot does not count as live.
LiveIdsEnabled == {bot[n].agent : n \in {m \in Name : Running(m) /\ bot[m].enabled}} \ {NoAgent}

LiveIds == {bot[n].agent : n \in {m \in Name : Running(m)}} \ {NoAgent}

\* Mutant: the record dies and the gate is not told.
FinalizeRecordOnly ==
  LET gone == {a \in Agent : Live(a)} \ LiveIds IN
  /\ pc = "absent" /\ Goto("reconcile")
  /\ rec' = [a \in Agent |-> IF a \in gone THEN "dead" ELSE rec[a]]
  /\ UNCHANGED <<ticketVars, bot, gate, tickVars, crashVars>>

\* Mutant: requests that wait in the queue are spared.
FinalizeStarted ==
  LET gone == {a \in Agent : rec[a] = "starting"} \ LiveIds IN
  /\ pc = "absent" /\ Goto("reconcile")
  /\ rec' = [a \in Agent |-> IF a \in gone THEN "dead" ELSE rec[a]]
  /\ Release(gone)
  /\ UNCHANGED <<ticketVars, bot, tickVars, crashVars>>

\* finalize_absent_agents, for the agents without a live bot, those that still
\* wait in the spawn queue included.
FinalizeAbsent ==
  LET gone == {a \in Agent : Live(a)} \ LiveIds IN
  /\ pc = "absent" /\ Goto("reconcile")
  /\ rec' = [a \in Agent |-> IF a \in gone THEN "dead" ELSE rec[a]]
  /\ Release(gone)
  /\ UNCHANGED <<ticketVars, bot, tickVars, crashVars>>

VerifierRuns ==
  \/ \E n \in Name : n[1] = "verifier" /\ Running(n)
  \/ \E t \in Ticket : <<"verifier", t>> \in orphans

\* Mutant: the claim files are not looked at.
NoOrphanClaims == {}

\* A claim file whose owner and ticket no live record knows.
OrphanClaims ==
  {t \in Ticket : /\ claim[t] # NoAgent /\ ~Live(claim[t])
                  /\ \A a \in Agent : Live(a) => WorkTicket[a] # t}

\* _reconcile: active agents without a live record are completed, orphan claim
\* files unlinked (a process found by pgrep is asked about only if the ticket is
\* in the active table), and old VERIFY tickets completed if no verifier runs.
\* The claim files of "kept" cannot be unlinked.
Reconcile(kept) ==
  /\ pc = "reconcile" /\ Goto("dispatch")
  /\ kept # {} => "unlink" \in Faults
  /\ active' = {a \in active : Live(a)}
  /\ claim' = [t \in Ticket |->
                 IF t \notin kept /\ (t \in OrphanClaims \/ (claim[t] \in active /\ ~Live(claim[t])))
                   THEN NoAgent ELSE claim[t]]
  /\ queued' = queued \ {a \in active : ~Live(a)}
  /\ \E old \in SUBSET {t \in Ticket : st[t] = "VERIFY" /\ ~VerifierRuns} :
       st' = [t \in Ticket |-> IF t \in old THEN "COMPLETE" ELSE st[t]]
  /\ UNCHANGED <<verdicts, bot, rec, tickVars, crashVars>>

\* An agent id nothing refers to any more stands for a fresh uuid4.
Fresh(a) ==
  /\ rec[a] = "dead" /\ a \notin active
  /\ \A n \in Name : bot[n].agent # a
  /\ \A t \in Ticket : claim[t] # a

\* BucketDispatcher.tick, one try_dispatch: a slot, the claim, the queue.
Dispatch(a) ==
  LET t == WorkTicket[a] IN
  /\ pc = "dispatch"
  /\ st[t] \in BucketStates[WorkRole[a]] /\ claim[t] = NoAgent
  /\ Cardinality(active) < MaxSlots
  /\ Fresh(a)
  /\ rec' = [rec EXCEPT ![a] = "none"]
  /\ active' = active \cup {a}
  /\ claim' = [claim EXCEPT ![t] = a]
  /\ queued' = queued \cup {a}
  /\ UNCHANGED <<ticketVars, bot, tickVars, crashVars, pc>>

\* _register_dispatched_agents
Register == rec' = [a \in Agent |-> IF a \in active /\ rec[a] = "none" THEN "created" ELSE rec[a]]

\* The scheduler's tick ends and the drain of its queue begins.
DispatchEnds ==
  /\ pc = "dispatch" /\ Goto("drain")
  /\ Register
  /\ UNCHANGED <<ticketVars, bot, gate, tickVars, crashVars>>

\* One dequeue_ready of the drain, which goes on until the queue gives nothing or
\* its 5 s are over: at most one request of a role, its staggering allowing it.
DequeueReady ==
  /\ pc = "drain" /\ ready = {} /\ checking = NoAgent
  /\ \E R \in SUBSET queued \ {{}} :
       /\ \A a, b \in R : WorkRole[a] = WorkRole[b] => a = b
       /\ ready' = R
       /\ queued' = queued \ R
  /\ UNCHANGED <<ticketVars, bot, rec, active, claim, checking, todo, crashVars, pc>>

\* A bot that was not known becomes one without a process.
IdleProc(n) == IF bot[n].proc = "absent" THEN "none" ELSE bot[n].proc

\* A request whose bot already runs is cancelled; otherwise the bot is started
\* for it, or cannot be and the request is cancelled.
Spawn(a) ==
  LET n == NameOf(a) IN
  /\ pc = "drain" /\ checking = NoAgent /\ a \in ready
  /\ ready' = ready \ {a}
  /\ \/ /\ Running(n)
        /\ Release({a})
        /\ UNCHANGED <<bot, rec, checking>>
     \/ /\ ~Running(n)
        /\ bot' = [bot EXCEPT ![n] = [proc |-> "running", code |-> "ok", agent |-> a,
                                      tid |-> WorkTicket[a], enabled |-> bot[n].enabled]]
        /\ rec' = [rec EXCEPT ![a] = "starting"]
        /\ checking' = a
        /\ UNCHANGED gate
     \/ /\ ~Running(n) /\ "start" \in Faults
        /\ bot' = [bot EXCEPT ![n].proc = IdleProc(n), ![n].tid = NoTicket]
        /\ Release({a})
        /\ UNCHANGED <<rec, checking>>
  /\ UNCHANGED <<ticketVars, todo, crashVars, pc>>

\* The check 0.5 s after the start; a bot that died is left to be handled as
\* exited, without an assignment.
CheckSurvival ==
  LET n == NameOf(checking) IN
  /\ pc = "drain" /\ checking # NoAgent
  /\ checking' = NoAgent
  /\ IF Running(n) THEN UNCHANGED <<bot, gate>>
     ELSE /\ bot' = [bot EXCEPT ![n].agent = NoAgent, ![n].tid = NoTicket]
          /\ Release({checking})
  /\ UNCHANGED <<ticketVars, rec, ready, todo, crashVars, pc>>

\* apply_agent_availability
Needed(r) == \E t \in Ticket : st[t] \in NeededIn[r]
Supervised(n) == bot[n].proc # "absent" /\ NeededIn[n[1]] # State

ApplyAvailability ==
  /\ pc = "drain" /\ ready = {} /\ checking = NoAgent /\ Goto("gates")
  /\ bot' = [n \in Name |->
       IF ~Supervised(n) THEN bot[n]
       ELSE IF Needed(n[1]) THEN [bot[n] EXCEPT !.enabled = TRUE]
       ELSE IF bot[n].enabled /\ Running(n) THEN [Stopped(n) EXCEPT !.enabled = FALSE]
       ELSE [bot[n] EXCEPT !.enabled = FALSE]]
  /\ UNCHANGED <<ticketVars, rec, gate, tickVars, crashVars>>

\* consume_goal_decisions, process_deferred_gates, process_deferred_tickets: a
\* ticket they look at moves, or its contract refuses it.
Routes(t) ==
  CASE st[t] = "TRIAGED" -> {"DECOMP", "LATER", "NEVER"}
    [] st[t] = "REVIEW" /\ t \in verdicts -> {"REWORK"}
    [] st[t] = "DEFERRED" -> {"DECOMP", "BLOCKED"}
    [] OTHER -> {}

RunGates ==
  /\ pc = "gates" /\ Goto("idle")
  /\ \E f \in [Ticket -> State] :
       /\ \A t \in Ticket : f[t] \in {st[t]} \cup Routes(t)
       /\ st' = f
  /\ UNCHANGED <<verdicts, bot, rec, gate, tickVars, crashVars>>

-----------------------------------------------------------------------------
\* The process dies: its memory is gone, the claim files and the bots stay.
Crash ==
  /\ crashes < MaxCrashes
  /\ crashes' = crashes + 1
  /\ orphans' = orphans \cup {<<n[1], bot[n].tid>> : n \in {m \in Name : Running(m)}}
  /\ bot' = [n \in Name |-> Absent]
  /\ rec' = [a \in Agent |-> "dead"]
  /\ active' = {} /\ queued' = {} /\ ready' = {} /\ todo' = {}
  /\ checking' = NoAgent
  /\ Goto("idle")
  /\ UNCHANGED <<ticketVars, claim>>

Tick ==
  \/ TickBegins \/ ExitsHandled \/ FinalizeAbsent
  \/ DispatchEnds \/ CheckSurvival \/ ApplyAvailability \/ RunGates
  \/ \E n \in Name : HandleExited(n)
  \/ \E a \in Agent : Spawn(a)
  \/ \E kept \in SUBSET Ticket : Reconcile(kept)

Next ==
  \/ Tick
  \/ \E n \in Name : PromptChanged(n) \/ RestartStuck(n) \/ BotExits(n) \/ VerdictWritten(n)
  \/ \E a \in Agent : Dispatch(a)
  \/ DequeueReady \/ OrphanExits
  \/ Crash

Spec == Init /\ [][Next]_vars

\* The main loop keeps ticking, a bot's process ends (its turns are bounded), and
\* the files that could not be unlinked are in the end.
FairSpec ==
  /\ Spec /\ WF_vars(Tick) /\ SF_vars(Reconcile({}))
  /\ \A n \in Name : WF_vars(BotExits(n))

-----------------------------------------------------------------------------
(* Properties *)

BotRec == [proc : {"absent", "none", "running", "exited"}, code : {"ok", "error", "limit"},
           agent : Agent \cup {NoAgent}, tid : Ticket \cup {NoTicket}, enabled : BOOLEAN]

\* The types of the tick's state.
TypeOK ==
  /\ st \in [Ticket -> State] /\ verdicts \subseteq Ticket
  /\ bot \in [Name -> BotRec]
  /\ rec \in [Agent -> {"dead", "none", "created", "starting"}]
  /\ active \subseteq Agent /\ queued \subseteq Agent /\ ready \subseteq Agent
  /\ claim \in [Ticket -> Agent \cup {NoAgent}]
  /\ checking \in Agent \cup {NoAgent}
  /\ todo \subseteq Name /\ orphans \subseteq Role \X Ticket
  /\ crashes \in 0..MaxCrashes
  /\ pc \in {"idle", "exits", "absent", "reconcile", "dispatch", "drain", "gates"}

\* A running bot is at work for an active agent that owns the bot's ticket, and
\* so is every request that waits to be started: no two bots are at the same
\* ticket, and no bot works without a slot, wherever the tick is.
WorkIsOwned ==
  /\ \A n \in Name : Running(n) =>
       LET a == bot[n].agent IN
       /\ a \in active /\ NameOf(a) = n /\ WorkTicket[a] = bot[n].tid
       /\ claim[bot[n].tid] = a
  /\ \A a \in queued \cup ready : a \in active /\ claim[WorkTicket[a]] = a

\* docs/scheduler.md: DEAD owns nothing and consumes no slot.
DeadOwnsNothing ==
  \A a \in Agent : rec[a] = "dead" =>
    /\ a \notin active \cup queued \cup ready
    /\ \A n \in Name : Running(n) => bot[n].agent # a

\* Once a tick has finalised the absent agents, every slot is held by an agent
\* whose bot this tick saw alive: nothing leaks into the next dispatch.
SlotsFollowBots == [][pc = "absent" /\ pc' = "reconcile" => active' \subseteq LiveIds]_vars

\* Who is at work on each ticket: the owner of its claim file, if a dispatch of it
\* is active.  A file left by a crash or by a failed unlink makes no owner.
owners == [t \in Ticket |-> IF claim[t] \in active THEN claim[t] ELSE NoAgent]
Ownership == INSTANCE WorkOwnership WITH owner <- owners

\* The tick implements WorkOwnership: from dispatch to the last sweep, through spawns
\* that fail, bots that die and crashes, tickets get owners only by Acquire.
ImplementsOwnership == Ownership!Spec

\* Every claim on a ticket ends, also when the claim file could not be unlinked
\* or the orchestrator died.
ClaimsEnd == \A t \in Ticket : []<>(claim[t] = NoAgent)

\* dispatch_service.py: "Transition assigned ticket when bot exits cleanly": the
\* exit of a bot moves the ticket the bot was assigned, and no other.
ExitMovesOwnTicket ==
  [][\A n \in Name, t \in Ticket :
       bot[n].proc = "exited" /\ bot'[n].proc = "none" /\ st'[t] # st[t] => bot[n].tid = t]_vars

\* dispatch_service.py: "REVIEW state is only reached on clean exits".
ReviewAfterCleanExit ==
  [][\A n \in Name, t \in Ticket :
       /\ bot[n].proc = "exited" /\ bot'[n].proc = "none"
       /\ st[t] # "REVIEW" /\ st'[t] = "REVIEW"
       => bot[n].code = "ok"]_vars

\* docs/scheduler.md: the sweep "purges claim files with no live PID".
SweepSparesLiveBots ==
  [][\A t \in Ticket, r \in Role :
       pc = "reconcile" /\ <<r, t>> \in orphans => claim'[t] = claim[t]]_vars

\* A bot is stopped for an empty queue only if no ticket waits for its role.
StoppedOnlyIfUnneeded ==
  [][\A n \in Name : pc = "drain" /\ pc' = "gates" /\ Running(n) /\ bot'[n].proc = "none" =>
       \A t \in Ticket : st[t] \notin BucketStates[n[1]]]_vars
=============================================================================
