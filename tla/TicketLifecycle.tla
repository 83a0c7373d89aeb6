--------------------------- MODULE TicketLifecycle ---------------------------
(***************************************************************************)
(* The moves of tickets through their lifecycle: TicketStore.transition,   *)
(* batch_transition and update_context_fields of codebot/ticket_engine.py, *)
(* the context gate of codebot/context_contracts.py with the failure       *)
(* artifacts it keeps on disk, and the goal decisions health_check_loop.py *)
(* writes into the store.                                                  *)
(*                                                                         *)
(* Every call holds the store's RLock throughout, so calls do not overlap; *)
(* a batch is taken item by item, because it can fail, and the process can *)
(* die, at any of them.  A call that raises before it changes anything is  *)
(* a stuttering step.  What is durable is the ticket of the last line the  *)
(* call logged (TicketStore has the log and its compaction).               *)
(***************************************************************************)
EXTENDS LifecycleTable, Naturals, FiniteSets

CONSTANTS
  Ticket,
  FirstState, FirstFields, \* each ticket as it was added, or as an earlier program left it
  Risky,        \* the tickets whose risk is MIN_RISK_FOR_PLANNING or above
  Faults,       \* a subset of {"log", "artifact"}: the writes that may raise OSError
  Moves,        \* bound: the destinations asked for
  MaxVersion,   \* bound: transition_version of each ticket
  MaxBatch,     \* bound: the items of a batch
  MaxArtifacts, \* bound: the artifacts in gate_failures/
  MaxCrashes    \* bound: crashes

ASSUME LifecycleAssumption ==
  /\ IsFiniteSet(Ticket)
  /\ FirstState \in [Ticket -> State \ {"IMPLEMENT", "REWORK", "VERIFY", "COMPLETE"}]
  /\ FirstFields \in [Ticket -> SUBSET (Field \ {"attempts", "rework_count", "goal_disposition"})]
  /\ Risky \subseteq Ticket /\ Moves \subseteq State
  /\ MaxVersion \in [Ticket -> Nat] /\ {MaxBatch, MaxArtifacts, MaxCrashes} \subseteq Nat

VARIABLES
  tickets,       \* TicketStore._tickets
  state_index,   \* TicketStore._state_index
  state_counts,  \* TicketStore._state_counts
  durable,       \* each ticket in its last logged line
  gate_failures, \* the artifacts in gate_failures/, by ticket, source and destination
  plans,         \* the tickets with an implementation plan
  claim,         \* a repair's view of a ticket, frozen when it was claimed
  original,      \* the tickets a batch under way has touched, as it found them
  moved,         \* what that batch has moved: ticket, source, destination
  open,          \* a batch is under way
  ahead,         \* history: the tickets a call that raised OSError left changed in memory
  crashes

vars == <<tickets, state_index, state_counts, durable, gate_failures, plans, claim,
          original, moved, open, ahead, crashes>>
memory == <<tickets, state_index, state_counts>>
batch == <<original, moved, open>>
files == <<durable, gate_failures>>

NoClaim == [of |-> "nobody"]

TicketRec == [state : State, has : SUBSET Field, goal : Disposition \cup {""}, version : Nat]

Key == Ticket \X State \X State
Failure == [count : {1, 2}, missing : SUBSET Field]

ClaimRec == [of : Ticket, state : State, version : Nat,
             allowed : SUBSET Field, expected : SUBSET Field]

Added(t) == [state |-> FirstState[t], has |-> FirstFields[t], goal |-> "", version |-> 0]

IndexOf(f) == [s \in State |-> {t \in Ticket : f[t].state = s}]
CountsOf(ix) == [s \in State |-> Cardinality(ix[s])]

Init ==
  /\ tickets = [t \in Ticket |-> Added(t)]
  /\ state_index = IndexOf(tickets)
  /\ state_counts = CountsOf(state_index)
  /\ durable = tickets
  /\ gate_failures = <<>>
  /\ plans = {}
  /\ claim = NoClaim
  /\ original = <<>> /\ moved = {} /\ open = FALSE
  /\ ahead = {}
  /\ crashes = 0

-----------------------------------------------------------------------------
(* What a move needs *)

Present(k) == k.has \cup IF k.goal = "" THEN {} ELSE {"goal_disposition"}

\* check_transition_contract, on the ticket as it is before the move.
Missing(k, dst) == Contract(k.state, dst) \ Present(k)
\* Mutant: moves that close a ticket are not gated.
ContextOkForWork(k, dst) ==
  dst \in Swept \/ (Missing(k, dst) = {} /\ Admits(k.state, dst, k.goal))
ContextOk(k, dst) == Missing(k, dst) = {} /\ Admits(k.state, dst, k.goal)

\* The planning gate, checked before the context gate.
PlanGate(t, dst) ==
  tickets[t].state = "PLANNING" /\ dst = "IMPLEMENT" /\ t \in Risky => t \in plans

\* Mutant: work filed under a universal exit may be taken up again.
LegalReopening(k, dst) ==
  \/ dst \in UNIVERSAL_EXITS /\ k.state # "COMPLETE"
  \/ dst \in TRANSITIONS[k.state]
  \/ k.state \in UNIVERSAL_EXITS /\ dst = "IMPLEMENT"

Legal(k, dst) ==
  \/ dst \in UNIVERSAL_EXITS /\ k.state # "COMPLETE"
  \/ dst \in TRANSITIONS[k.state]

\* A move without a contract raises before any artifact is written.
HasContract(k, dst) == dst \in UNIVERSAL_EXITS \cup TRANSITIONS[k.state]

CanMove(t, dst) ==
  /\ PlanGate(t, dst) /\ ContextOk(tickets[t], dst) /\ Legal(tickets[t], dst)
  /\ tickets[t].version < MaxVersion[t]
Refused(t, dst) ==
  PlanGate(t, dst) /\ HasContract(tickets[t], dst) /\ ~ContextOk(tickets[t], dst)
Invalid(t, dst) ==
  \/ ~PlanGate(t, dst)
  \/ ~HasContract(tickets[t], dst)
  \/ ContextOk(tickets[t], dst) /\ ~Legal(tickets[t], dst)

\* Mutant: reworks are not counted.
MovedUncounted(k, dst) ==
  [state |-> dst, goal |-> k.goal, version |-> k.version + 1,
   has |-> k.has \cup IF dst = "IMPLEMENT" THEN {"attempts"} ELSE {}]

\* Ticket.transition.  Feedback given with a move to REWORK joins the feedback
\* the contract has already asked for.
Moved(k, dst) ==
  [state |-> dst, goal |-> k.goal, version |-> k.version + 1,
   has |-> k.has \cup (IF dst = "REWORK" THEN {"rework_count"} ELSE {})
                 \cup (IF dst = "IMPLEMENT" THEN {"attempts"} ELSE {})]

\* The ticket, the state index and the counts after a move.
Apply(t, dst) ==
  LET src == tickets[t].state IN
  /\ tickets' = [tickets EXCEPT ![t] = Moved(tickets[t], dst)]
  /\ state_index' = [[state_index EXCEPT ![src] = @ \ {t}] EXCEPT ![dst] = @ \cup {t}]
  /\ state_counts' = [state_counts EXCEPT ![src] = Cardinality(state_index'[src]),
                                          ![dst] = Cardinality(state_index'[dst])]

Without(f, S) == [x \in DOMAIN f \ S |-> f[x]]

\* handle_gate_failure: the count saturates at 2, where the repair is exhausted.
WriteArtifact(t, dst) ==
  LET key == <<t, tickets[t].state, dst>>
      n == IF key \in DOMAIN gate_failures THEN 2 ELSE 1
  IN
  /\ Cardinality(DOMAIN gate_failures \cup {key}) <= MaxArtifacts
  /\ gate_failures' =
       [k \in DOMAIN gate_failures \cup {key} |->
          IF k = key THEN [count |-> n, missing |-> Missing(tickets[t], dst)]
                     ELSE gate_failures[k]]

\* The artifacts deleted once the moves of M are logged: those of a ticket that
\* is done with, else that of the move itself.
Settled(M) == {k \in DOMAIN gate_failures :
                 \E m \in M : k = m \/ (k[1] = m[1] /\ m[3] \in Swept)}

-----------------------------------------------------------------------------
(* TicketStore.transition *)

Transition(t, dst) ==
  /\ ~open /\ CanMove(t, dst)
  /\ Apply(t, dst)
  /\ durable' = [durable EXCEPT ![t] = Moved(tickets[t], dst)]
  /\ gate_failures' = Without(gate_failures, Settled({<<t, tickets[t].state, dst>>}))
  /\ ahead' = ahead \ {t}
  /\ UNCHANGED <<plans, claim, batch, crashes>>

\* The line cannot be logged: the call raises and memory keeps the move.
TransitionUnlogged(t, dst) ==
  /\ "log" \in Faults
  /\ ~open /\ CanMove(t, dst)
  /\ Apply(t, dst)
  /\ ahead' = ahead \cup {t}
  /\ UNCHANGED <<files, plans, claim, batch, crashes>>

TransitionRefused(t, dst) ==
  /\ ~open /\ Refused(t, dst)
  /\ WriteArtifact(t, dst)
  /\ UNCHANGED <<memory, durable, plans, claim, batch, ahead, crashes>>

-----------------------------------------------------------------------------
(* TicketStore.batch_transition *)

\* Mutant: the ticket is remembered at every item.
RememberLast(t) ==
  original' = [u \in DOMAIN original \cup {t} |-> IF u = t THEN tickets[u] ELSE original[u]]

\* The next item is applied in memory; the ticket is remembered when first met.
Remember(t) ==
  original' = [u \in DOMAIN original \cup {t} |->
                 IF u \in DOMAIN original THEN original[u] ELSE tickets[u]]

\* Mutant: artifacts are cleaned up as the items are applied.
BatchItemCleans(t, dst) ==
  /\ Cardinality(moved) < MaxBatch /\ CanMove(t, dst)
  /\ Remember(t)
  /\ Apply(t, dst)
  /\ moved' = moved \cup {<<t, tickets[t].state, dst>>}
  /\ open' = TRUE
  /\ gate_failures' = Without(gate_failures, Settled({<<t, tickets[t].state, dst>>}))
  /\ UNCHANGED <<durable, plans, claim, ahead, crashes>>

BatchItem(t, dst) ==
  /\ Cardinality(moved) < MaxBatch /\ CanMove(t, dst)
  /\ Remember(t)
  /\ Apply(t, dst)
  /\ moved' = moved \cup {<<t, tickets[t].state, dst>>}
  /\ open' = TRUE
  /\ UNCHANGED <<files, plans, claim, ahead, crashes>>

CloseBatch == original' = <<>> /\ moved' = {} /\ open' = FALSE

\* Mutant: the counts are not rolled back.
RollBackUncounted ==
  /\ tickets' = [t \in Ticket |-> IF t \in DOMAIN original THEN original[t] ELSE tickets[t]]
  /\ state_index' = [s \in State |-> (state_index[s] \ DOMAIN original)
                       \cup {t \in DOMAIN original : original[t].state = s}]
  /\ UNCHANGED state_counts

\* The tickets, the index and the counts as the batch found them.
RollBack ==
  /\ tickets' = [t \in Ticket |-> IF t \in DOMAIN original THEN original[t] ELSE tickets[t]]
  /\ state_index' = [s \in State |-> (state_index[s] \ DOMAIN original)
                       \cup {t \in DOMAIN original : original[t].state = s}]
  /\ state_counts' = [s \in State |-> IF state_index'[s] # state_index[s]
                                        THEN Cardinality(state_index'[s]) ELSE state_counts[s]]

\* An item raises ValueError or KeyError; a refused one leaves its artifact.
BatchFails(t, dst) ==
  /\ open
  /\ \/ Refused(t, dst) /\ WriteArtifact(t, dst)
     \/ Invalid(t, dst) /\ UNCHANGED gate_failures
  /\ RollBack
  /\ CloseBatch
  /\ UNCHANGED <<durable, plans, claim, ahead, crashes>>

\* The artifact of a refused item cannot be written: OSError is not among the
\* exceptions that roll the batch back.
BatchEscapes(t, dst) ==
  /\ "artifact" \in Faults
  /\ open /\ Refused(t, dst)
  /\ ahead' = ahead \cup DOMAIN original
  /\ CloseBatch
  /\ UNCHANGED <<memory, files, plans, claim, crashes>>

BatchCommits ==
  /\ open
  /\ durable' = [t \in Ticket |-> IF t \in DOMAIN original THEN tickets[t] ELSE durable[t]]
  /\ gate_failures' = Without(gate_failures, Settled(moved))
  /\ ahead' = ahead \ DOMAIN original
  /\ CloseBatch
  /\ UNCHANGED <<memory, plans, claim, crashes>>

BatchUnlogged ==
  /\ "log" \in Faults
  /\ open
  /\ ahead' = ahead \cup DOMAIN original
  /\ CloseBatch
  /\ UNCHANGED <<memory, files, plans, claim, crashes>>

-----------------------------------------------------------------------------
(* The writers of context fields *)

\* A repair of a refused move freezes the ticket it is to repair.
Freeze(key) ==
  /\ ~open
  /\ claim = NoClaim /\ key \in DOMAIN gate_failures
  /\ LET k == tickets[key[1]]
         allowed == gate_failures[key].missing
     IN /\ allowed # {}
        /\ claim' = [of |-> key[1], state |-> key[2], version |-> k.version,
                     allowed |-> allowed, expected |-> Present(k) \cap allowed]
  /\ UNCHANGED <<memory, files, plans, batch, ahead, crashes>>

\* Mutant: the values of the fields are not compared.
CurrentByVersion(c) == tickets[c.of].state = c.state /\ tickets[c.of].version = c.version

\* The compare-and-set of update_context_fields: state, version and the values
\* of the fields must still be those of the claim.
Current(c) ==
  /\ tickets[c.of].state = c.state
  /\ tickets[c.of].version = c.version
  /\ Present(tickets[c.of]) \cap c.allowed = c.expected

\* The patch of a repair, or of one whose first answer came too late, sets the
\* fields of "keys" and leaves those outside "filled" empty.
UpdateContextFields(keys, filled, goal) ==
  /\ ~open
  /\ keys # {}
  /\ IF "goal_disposition" \in filled THEN goal # "" ELSE goal = ""
  /\ Current(claim)
  /\ tickets[claim.of].version < MaxVersion[claim.of]
  /\ LET t == claim.of
         k == tickets[t]
         patched == [state |-> k.state, version |-> k.version + 1,
                     has |-> (k.has \ keys) \cup (filled \ {"goal_disposition"}),
                     goal |-> IF "goal_disposition" \in keys THEN goal ELSE k.goal]
     IN /\ tickets' = [tickets EXCEPT ![t] = patched]
        /\ durable' = [durable EXCEPT ![t] = patched]
  /\ ahead' = ahead \ {claim.of}
  /\ claim' = NoClaim
  /\ UNCHANGED <<state_index, state_counts, gate_failures, plans, batch, crashes>>

\* The ticket has changed: the repair fails with STALE_CONTEXT.
UpdateRefused ==
  /\ ~open /\ claim # NoClaim
  /\ ~Current(claim)
  /\ claim' = NoClaim
  /\ UNCHANGED <<memory, files, plans, batch, ahead, crashes>>

\* record_commit looks at no state and leaves transition_version alone.
RecordCommit(t) ==
  /\ ~open
  /\ "commit_sha" \notin tickets[t].has
  /\ tickets' = [tickets EXCEPT ![t].has = @ \cup {"commit_sha"}]
  /\ durable' = [durable EXCEPT ![t] = tickets'[t]]
  /\ ahead' = ahead \ {t}
  /\ UNCHANGED <<state_index, state_counts, gate_failures, plans, claim, batch, crashes>>

WritePlan(t) ==
  /\ ~open /\ t \in Risky \ plans
  /\ plans' = plans \cup {t}
  /\ UNCHANGED <<memory, files, claim, batch, ahead, crashes>>

\* The goal aligner's decision on a TRIAGED ticket is consumed: the ticket moves
\* and is logged, then the decision is put into memory without a line.
GoalDecision(t, d) ==
  LET dst == IF d = "NOW" THEN "DECOMP" ELSE d IN
  /\ ~open
  /\ tickets[t].state = "TRIAGED" /\ CanMove(t, dst)
  /\ LET k == Moved(tickets[t], dst) IN
     /\ durable' = [durable EXCEPT ![t] = k]
     /\ \E reason \in {{}, {"goal_reason"}} :
          tickets' = [tickets EXCEPT ![t] =
                        [state |-> dst, goal |-> d, version |-> k.version,
                         has |-> (k.has \ {"goal_reason"}) \cup reason]]
     /\ state_index' = [[state_index EXCEPT !["TRIAGED"] = @ \ {t}] EXCEPT ![dst] = @ \cup {t}]
     /\ state_counts' = [state_counts EXCEPT !["TRIAGED"] = Cardinality(state_index'["TRIAGED"]),
                                             ![dst] = Cardinality(state_index'[dst])]
  /\ gate_failures' = Without(gate_failures, Settled({<<t, "TRIAGED", dst>>}))
  /\ ahead' = ahead \ {t}
  /\ UNCHANGED <<plans, claim, batch, crashes>>

\* What a call that has logged nothing, all or, for a batch, some of its lines
\* leaves when it dies before it has cleaned up the artifacts.
CutShort ==
  IF open THEN {[t \in Ticket |-> IF t \in W THEN tickets[t] ELSE durable[t]] :
                  W \in SUBSET DOMAIN original}
  ELSE {durable} \cup {[durable EXCEPT ![m[1]] = Moved(tickets[m[1]], m[2])] :
                         m \in {m \in Ticket \X Moves : CanMove(m[1], m[2])}}

\* The process dies and the next one loads what was logged.
Restart ==
  /\ crashes < MaxCrashes
  /\ crashes' = crashes + 1
  /\ durable' \in CutShort
  /\ tickets' = durable'
  /\ state_index' = IndexOf(durable')
  /\ state_counts' = CountsOf(state_index')
  /\ CloseBatch
  /\ ahead' = {}
  /\ UNCHANGED <<gate_failures, plans, claim>>

Next ==
  \/ \E t \in Ticket, dst \in Moves :
       \/ Transition(t, dst) \/ TransitionUnlogged(t, dst) \/ TransitionRefused(t, dst)
       \/ BatchItem(t, dst) \/ BatchFails(t, dst) \/ BatchEscapes(t, dst)
  \/ BatchCommits \/ BatchUnlogged
  \/ \E key \in DOMAIN gate_failures : Freeze(key)
  \/ /\ claim # NoClaim
     /\ \E keys \in SUBSET claim.allowed :
          \E filled \in SUBSET keys, goal \in Disposition \cup {""} :
            UpdateContextFields(keys, filled, goal)
  \/ UpdateRefused
  \/ \E t \in Ticket :
       RecordCommit(t) \/ WritePlan(t) \/ \E d \in Disposition : GoalDecision(t, d)
  \/ Restart

Spec == Init /\ [][Next]_vars

-----------------------------------------------------------------------------
(* Properties *)

\* Type invariant: the shape of the store, of the artifacts (whose counts stay
\* at most 2) and of the batch under way.
TypeOK ==
  /\ tickets \in [Ticket -> TicketRec] /\ durable \in [Ticket -> TicketRec]
  /\ state_index \in [State -> SUBSET Ticket] /\ state_counts \in [State -> Nat]
  /\ DOMAIN gate_failures \subseteq Key /\ \A k \in DOMAIN gate_failures : gate_failures[k] \in Failure
  /\ claim \in ClaimRec \cup {NoClaim}
  /\ plans \subseteq Ticket /\ ahead \subseteq Ticket
  /\ DOMAIN original \subseteq Ticket /\ \A t \in DOMAIN original : original[t] \in TicketRec
  /\ moved \subseteq Key /\ open \in BOOLEAN /\ crashes \in Nat

\* The state index and the cached counts are those of the tickets, whatever is
\* moved, batched, rolled back or reloaded: list_by_state and summary never lie.
IndexMatchesTickets ==
  /\ \A s \in State : state_index[s] = {t \in Ticket : tickets[t].state = s}
  /\ \A s \in State : state_counts[s] = Cardinality(state_index[s])

\* A goal decision is in memory only until the ticket's next line.
Logged(k) == <<k.state, k.version, k.has \ {"goal_reason"}>>
Touched == IF open THEN DOMAIN original ELSE {}

\* Between calls memory and log agree, goal decisions apart: a batch that fails
\* leaves no ticket changed, also one it moves twice; only a call that raised
\* OSError may leave memory ahead of the log.
CallsAreDurable ==
  \A t \in Ticket \ (ahead \cup Touched) : Logged(durable[t]) = Logged(tickets[t])

\* The context gate leaves no dead end in the rework loop: a ticket sent to
\* REWORK can be implemented again, one in IMPLEMENT can be reviewed, and one
\* being verified can be sent back.
WorkIsResumable ==
  \A t \in Ticket :
    /\ tickets[t].state = "REWORK" => ContextOk(tickets[t], "IMPLEMENT")
    /\ tickets[t].state = "IMPLEMENT" => ContextOk(tickets[t], "REVIEW")
    /\ tickets[t].state = "VERIFY" => ContextOk(tickets[t], "REWORK")

\* A completed ticket has its commit, or came from outside: no route, repair or
\* rollback brings one to COMPLETE without.
CompleteIsEarned ==
  \A t \in Ticket : tickets[t].state = "COMPLETE" =>
    tickets[t].has \cap {"commit_sha", "origin_id"} # {}

\* A ticket once logged as closed is never reopened: it can only be filed under
\* another universal exit, and not that once it is COMPLETE.
ClosedStaysClosed ==
  [][\A t \in Ticket : durable[t].state \in Closed =>
       \/ durable'[t].state = durable[t].state
       \/ durable[t].state # "COMPLETE" /\ durable'[t].state \in UNIVERSAL_EXITS]_vars

\* A gate failure is forgotten only when its ticket's move has been logged: a
\* batch rolled back gives no move its repair attempts back.
RefusalsAreRemembered ==
  [][\A k \in DOMAIN gate_failures \ DOMAIN gate_failures' :
       durable'[k[1]].version > durable[k[1]].version]_vars

\* A repair never empties a field it has not seen: what is recorded between its
\* claim and its patch survives, although record_commit changes no version.
PatchesAreInformed ==
  [][\A t \in Ticket, f \in {"commit_sha", "reviewer_feedback", "origin_id"} :
       f \in durable[t].has \ durable'[t].has => claim.of = t /\ f \in claim.expected]_vars

\* The states that legal moves lead to are in every set closed under them.
ClosedUnderMoves(S) ==
  \A s \in S : TRANSITIONS[s] \subseteq S /\ (s # "COMPLETE" => UNIVERSAL_EXITS \subseteq S)
LeadsTo(s, d) == \A S \in SUBSET State : s \in S /\ ClosedUnderMoves(S) => d \in S

\* Whatever part of a batch a crash leaves in the log, the log takes a ticket only
\* where legal moves lead, never back, and to another state only with a higher
\* version: readers that compare versions see every move.
LogFollowsTheTable ==
  [][\A t \in Ticket :
       /\ LeadsTo(durable[t].state, durable'[t].state)
       /\ durable[t].version <= durable'[t].version
       /\ durable[t].state # durable'[t].state => durable[t].version < durable'[t].version]_vars

\* gatekeeper.py:511: a ticket whose verification fails is moved to REWORK "so
\* the ticket is not orphaned".
RejectionsAreHeard == \A t \in Ticket : <<t, "REVIEW", "REWORK">> \notin DOMAIN gate_failures
=============================================================================
