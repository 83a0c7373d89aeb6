---------------------------- MODULE ContextRepair ----------------------------
(***************************************************************************)
(* The repair of a ticket the context gate has refused: the claims of      *)
(* codebot/repair_claims.py, the handling of a worker's patch and the      *)
(* reconciliation of repair_handler.py, the applier of repair_applier.py,  *)
(* the failures of repair_context.py and the escalations of recovery.py,   *)
(* for one ticket in one state, which several moves may be refused.        *)
(*                                                                         *)
(* A claim file is read and written under its own lock; the ticket is the  *)
(* store's, whose calls are atomic; the escalation file has no lock.       *)
(***************************************************************************)
EXTENDS Naturals, FiniteSets

CONSTANTS
  Dest,         \* the moves out of the ticket's state, by destination
  Field,        \* the fields the moves ask for
  Needs,        \* what each of them asks for
  Thread,       \* the threads that handle results and reconcile claims
  MAX_REPAIR_EXECUTIONS,
  MaxVersion,   \* bound: the ticket's transition_version
  MaxCrashes    \* bound: crashes

ASSUME RepairAssumption ==
  /\ Needs \in [Dest -> SUBSET Field]
  /\ MAX_REPAIR_EXECUTIONS \in Nat \ {0}
  /\ {"source", "elsewhere", "none"} \cap Dest = {}

VARIABLES
  ticket,       \* its state, transition_version, and the fields a move accepts as they are
  failure,      \* gate_failures/: the artifact of each refused move
  claims,       \* repair_attempts/: the claim of each move
  proposals,    \* repair_proposals/
  escalation,   \* recovery_escalations/: the ticket's one file
  job,          \* what each thread is doing, and for which move
  reached,      \* history: the moves made since they were claimed
  crashes

vars == <<ticket, failure, claims, proposals, escalation, job, reached, crashes>>

State == Dest \cup {"source", "elsewhere"}
Ticket == [state : State, version : Nat, has : SUBSET Field]
Failure == [count : 0..2, missing : SUBSET Field]
NoFailure == [count |-> 0, missing |-> {}]

RepairAttemptStatus == {"CLAIMED", "RUNNING", "PATCH_APPLIED", "COMPLETED", "FAILED"}
ACTIVE_REPAIR_STATUSES == {"CLAIMED", "RUNNING", "PATCH_APPLIED"}

\* "attempt" is repair_execution_attempt, and names the execution of a claim.
RepairAttempt == [status : RepairAttemptStatus \cup {"none"}, attempt : Nat, version : Nat,
                  allowed : SUBSET Field, expected : SUBSET Field]
NoClaim == [status |-> "none", attempt |-> 0, version |-> 0, allowed |-> {}, expected |-> {}]

\* A patch: the fields it sets and those of them it sets to what the move accepts.
Proposal == [of : Dest, attempt : Nat, keys : SUBSET Field, filled : SUBSET Field]

Escalation == [of : Dest \cup {"none"}, attempt : Nat]
NoEscalation == [of |-> "none", attempt |-> 0]

Step == {"scanned", "complete", "refused", "applied", "retry", "moved", "failed", "retire",
         "lift", "escalate", "withdraw"}
Idle == [at |-> "idle", of |-> "none", owns |-> FALSE]
Job == {Idle} \cup [at : Step, of : Dest, owns : BOOLEAN]
At(s, d) == [at |-> s, of |-> d, owns |-> FALSE]

Init ==
  /\ ticket \in [state : {"source"}, version : {0}, has : SUBSET Field]
  /\ failure = [d \in Dest |-> NoFailure]
  /\ claims = [d \in Dest |-> NoClaim]
  /\ proposals = {}
  /\ escalation = NoEscalation
  /\ job = [h \in Thread |-> Idle]
  /\ reached = {}
  /\ crashes = 0

-----------------------------------------------------------------------------
(* The ticket, as the other services move and edit it *)

Accepts(d) == ticket.state = "source" /\ Needs[d] \subseteq ticket.has

MoveTo(d) ==
  /\ ticket.version < MaxVersion
  /\ ticket' = [state |-> d, version |-> ticket.version + 1, has |-> ticket.has]
  /\ failure' = [failure EXCEPT ![d] = NoFailure]
  /\ reached' = reached \cup {d}

\* The gate refuses a move and counts the refusal, up to two.
Refuse(d) ==
  /\ ticket.state = "source" /\ ~Accepts(d)
  /\ failure' = [failure EXCEPT ![d] =
                   [count |-> IF @.count = 0 THEN 1 ELSE 2, missing |-> Needs[d] \ ticket.has]]

Move(d) ==
  /\ Accepts(d) /\ MoveTo(d)
  /\ UNCHANGED <<claims, proposals, escalation, job, crashes>>

MoveRefused(d) ==
  /\ Refuse(d)
  /\ UNCHANGED <<ticket, claims, proposals, escalation, job, reached, crashes>>

\* The lifecycle takes the ticket elsewhere and back to the state.
MoveOn ==
  /\ ticket.version < MaxVersion
  /\ ticket' = [state |-> IF ticket.state = "source" THEN "elsewhere" ELSE "source",
                version |-> ticket.version + 1, has |-> ticket.has]
  /\ UNCHANGED <<failure, claims, proposals, escalation, job, reached, crashes>>

\* record_commit and the goal decisions change a field and no version.
Edit(f) ==
  /\ ticket' = [state |-> ticket.state, version |-> ticket.version,
                has |-> IF f \in ticket.has THEN ticket.has \ {f} ELSE ticket.has \cup {f}]
  /\ UNCHANGED <<failure, claims, proposals, escalation, job, reached, crashes>>

-----------------------------------------------------------------------------
(* Claiming a repair *)

Active(d) == claims[d].status \in ACTIVE_REPAIR_STATUSES

\* Mutant: a repair handed out and not yet started does not count.
NoActiveClaimStarted == \A d \in Dest : claims[d].status \notin {"RUNNING", "PATCH_APPLIED"}

\* has_active_claim_for_ticket, under the ticket's lock.
NoActiveClaim == \A d \in Dest : ~Active(d)

\* get_actionable_failures; arbitrate_ticket_repairs picks one of a ticket's.
Repairable(d) == failure[d].count = 1

\* derive_allowed_fields: what the move found missing.
AllowedFields(d) == failure[d].missing

\* claim_repair for a repairable failure.  The file of an earlier claim for the
\* same move and gate attempt is never removed and refuses the claim.
Claim(d) ==
  /\ Repairable(d) /\ escalation = NoEscalation
  /\ NoActiveClaim
  /\ claims[d] = NoClaim
  /\ claims' = [claims EXCEPT ![d] =
       [status |-> "CLAIMED", attempt |-> 1, version |-> ticket.version,
        allowed |-> AllowedFields(d), expected |-> ticket.has \cap AllowedFields(d)]]
  /\ reached' = reached \ {d}
  /\ UNCHANGED <<ticket, failure, proposals, escalation, job, crashes>>

\* The file's lock is held from the first look at the claim to the last write.
Locked(d) == \E h \in Thread : job[h].of = d /\ job[h].at \notin {"scanned", "complete"}

With(c, status, attempt) ==
  [status |-> status, attempt |-> attempt, version |-> c.version,
   allowed |-> c.allowed, expected |-> c.expected]

\* _update_claim_status_locked: compare-and-set of the status.
SetStatus(d, old, new) ==
  /\ claims[d].status = old
  /\ claims' = [claims EXCEPT ![d] = With(@, new, @.attempt)]

Start(d) ==
  /\ ~Locked(d) /\ SetStatus(d, "CLAIMED", "RUNNING")
  /\ UNCHANGED <<ticket, failure, proposals, escalation, job, reached, crashes>>

\* The worker puts its patch on record before it returns it.
Propose(d, keys, filled) ==
  /\ claims[d].status = "RUNNING"
  /\ keys \subseteq claims[d].allowed /\ keys # {} /\ filled \subseteq keys
  /\ ~\E p \in proposals : p.of = d /\ p.attempt = claims[d].attempt
  /\ proposals' = proposals \cup
       {[of |-> d, attempt |-> claims[d].attempt, keys |-> keys, filled |-> filled]}
  /\ UNCHANGED <<ticket, failure, claims, escalation, job, reached, crashes>>

\* handle_exhausted_ticket: two refusals of one move.
Exhausted(d) ==
  /\ failure[d].count = 2 /\ escalation = NoEscalation
  /\ escalation' = [of |-> d, attempt |-> 0]
  /\ UNCHANGED <<ticket, failure, claims, proposals, job, reached, crashes>>

-----------------------------------------------------------------------------
(* RepairResultHandler.handle_result *)

Goto(h, j) == job' = [job EXCEPT ![h] = j]

\* A thread gets the result of the execution the claim is running.
Handling(h, d) == job[h] = Idle /\ ~Locked(d) /\ claims[d].status = "RUNNING"

\* _handle_rejection and _try_redispatch_or_fail: a new execution, or the end.
Reexecute(h, d, end) ==
  IF claims[d].attempt + 1 < MAX_REPAIR_EXECUTIONS
    THEN /\ claims' = [claims EXCEPT ![d] = With(@, "CLAIMED", @.attempt + 1)]
         /\ Goto(h, Idle)
    ELSE /\ claims' = [claims EXCEPT ![d] = With(@, "FAILED", @.attempt)]
         /\ Goto(h, At(end, d))

\* The move was made, or refused once more, since the claim.
ResultOutdated(h, d) ==
  /\ Handling(h, d) /\ failure[d].count # 1
  /\ SetStatus(d, "RUNNING", "FAILED")
  /\ Goto(h, At("escalate", d))
  /\ UNCHANGED <<ticket, failure, proposals, escalation, reached, crashes>>

\* The patch is malformed, empty, changes nothing or oversteps the envelope.
ResultRejected(h, d) ==
  /\ Handling(h, d) /\ failure[d].count = 1
  /\ Reexecute(h, d, "withdraw")
  /\ UNCHANGED <<ticket, failure, proposals, escalation, reached, crashes>>

\* The compare-and-set of update_context_fields.
Current(c) ==
  /\ ticket.state = "source" /\ ticket.version = c.version
  /\ ticket.has \cap c.allowed = c.expected

ResultApplied(h, d, keys, filled) ==
  /\ Handling(h, d) /\ failure[d].count = 1
  /\ keys \subseteq claims[d].allowed /\ keys # {} /\ filled \subseteq keys
  /\ Current(claims[d]) /\ ticket.version < MaxVersion
  /\ ticket' = [state |-> "source", version |-> ticket.version + 1,
                has |-> (ticket.has \ keys) \cup filled]
  /\ Goto(h, At("applied", d))
  /\ UNCHANGED <<failure, claims, proposals, escalation, reached, crashes>>

ResultRefused(h, d) ==
  /\ Handling(h, d) /\ failure[d].count = 1
  /\ ~Current(claims[d])
  /\ Goto(h, At("refused", d))
  /\ UNCHANGED <<ticket, failure, claims, proposals, escalation, reached, crashes>>

\* The ticket is read again to tell a stale context from a bad patch.
JudgeRefusal(h) ==
  LET d == job[h].of IN
  /\ job[h].at = "refused"
  /\ IF ticket.version # claims[d].version \/ ticket.has \cap claims[d].allowed # claims[d].expected
       THEN SetStatus(d, "RUNNING", "FAILED") /\ Goto(h, At("withdraw", d))
       ELSE Reexecute(h, d, "withdraw")
  /\ UNCHANGED <<ticket, failure, proposals, escalation, reached, crashes>>

\* The claim's lock is released before the completion handler takes it again.
MarkApplied(h) ==
  LET d == job[h].of IN
  /\ job[h].at = "applied"
  /\ SetStatus(d, "RUNNING", "PATCH_APPLIED")
  /\ Goto(h, At("complete", d))
  /\ UNCHANGED <<ticket, failure, proposals, escalation, reached, crashes>>

-----------------------------------------------------------------------------
(* RepairCompletionHandler and _handle_completion_locked *)

\* Mutant: a ticket that has left its state counts as moved.
AfterPatchAnywhere(d) == IF ticket.state = "source" THEN At("retry", d) ELSE At("moved", d)

\* Where the ticket is now decides what is left to do for a patched claim.
AfterPatch(d) ==
  IF ticket.state = "source" THEN At("retry", d)
  ELSE IF ticket.state = d THEN At("moved", d)
  ELSE At("escalate", d)

Complete(h) ==
  LET d == job[h].of IN
  /\ job[h].at = "complete" /\ ~Locked(d)
  /\ Goto(h, IF claims[d].status = "PATCH_APPLIED" THEN AfterPatch(d) ELSE Idle)
  /\ UNCHANGED <<ticket, failure, claims, proposals, escalation, reached, crashes>>

\* The refused move is tried again.
Retry(h) ==
  LET d == job[h].of IN
  /\ job[h].at = "retry" /\ Accepts(d)
  /\ MoveTo(d)
  /\ Goto(h, At("moved", d))
  /\ UNCHANGED <<claims, proposals, escalation, crashes>>

\* It raises: refused by the gate, or the ticket has left its state.
RetryRaises(h) ==
  LET d == job[h].of IN
  /\ job[h].at = "retry"
  /\ \/ Refuse(d)
     \/ ticket.state # "source" /\ UNCHANGED failure
  /\ Goto(h, At("failed", d))
  /\ UNCHANGED <<ticket, claims, proposals, escalation, reached, crashes>>

ProposalsBut(d) == {p \in proposals : p.of # d \/ p.attempt # claims[d].attempt}

MarkFailed(h) ==
  LET d == job[h].of IN
  /\ job[h].at = "failed"
  /\ SetStatus(d, "PATCH_APPLIED", "FAILED")
  /\ proposals' = ProposalsBut(d)
  /\ Goto(h, Idle)
  /\ UNCHANGED <<ticket, failure, escalation, reached, crashes>>

MarkCompleted(h) ==
  LET d == job[h].of IN
  /\ job[h].at = "moved"
  /\ SetStatus(d, "PATCH_APPLIED", "COMPLETED")
  /\ Goto(h, At("retire", d))
  /\ UNCHANGED <<ticket, failure, proposals, escalation, reached, crashes>>

Mine(d) == escalation = [of |-> d, attempt |-> claims[d].attempt]

\* retire_repair_state deletes the failure, then looks whose the escalation is ...
Retire(h) ==
  LET d == job[h].of IN
  /\ job[h].at = "retire"
  /\ failure' = [failure EXCEPT ![d] = NoFailure]
  /\ job' = [job EXCEPT ![h] = [at |-> "lift", of |-> d, owns |-> Mine(d)]]
  /\ UNCHANGED <<ticket, claims, proposals, escalation, reached, crashes>>

\* ... and deletes the file if it was this execution's.
Lift(h) ==
  LET d == job[h].of IN
  /\ job[h].at = "lift"
  /\ escalation' = IF job[h].owns THEN NoEscalation ELSE escalation
  /\ proposals' = ProposalsBut(d)
  /\ Goto(h, Idle)
  /\ UNCHANGED <<ticket, failure, claims, reached, crashes>>

\* persist_escalation replaces whatever escalation the ticket had; after a bad
\* or stale patch the proposal goes as well.
Escalate(h) ==
  LET d == job[h].of IN
  /\ job[h].at \in {"escalate", "withdraw"}
  /\ escalation' = [of |-> d, attempt |-> claims[d].attempt]
  /\ proposals' = IF job[h].at = "withdraw" THEN ProposalsBut(d) ELSE proposals
  /\ Goto(h, Idle)
  /\ UNCHANGED <<ticket, failure, claims, reached, crashes>>

-----------------------------------------------------------------------------
(* reconcile_stale_claims *)

\* A claim that has been running for too long, a crashed worker's or a slow one's.
Scan(h, d) ==
  /\ job[h] = Idle /\ ~Locked(d) /\ claims[d].status = "RUNNING"
  /\ Goto(h, At("scanned", d))
  /\ UNCHANGED <<ticket, failure, claims, proposals, escalation, reached, crashes>>

\* The ticket holds what the proposal set, one version on.
Landed(p, c) == ticket.has \cap p.keys = p.filled /\ ticket.version = c.version + 1

Proposed(d) == {p \in proposals : p.of = d /\ p.attempt = claims[d].attempt}

ReconcileRunning(h, d) ==
  IF Proposed(d) # {}
    THEN IF \E p \in Proposed(d) : Landed(p, claims[d])
           THEN SetStatus(d, "RUNNING", "PATCH_APPLIED") /\ Goto(h, Idle)
           ELSE Reexecute(h, d, "escalate")
    ELSE IF ticket.has \cap claims[d].allowed = claims[d].expected
           THEN Reexecute(h, d, "escalate")
           ELSE UNCHANGED claims /\ Goto(h, At("escalate", d))

\* The claim is read again under its lock, and may have moved on.
Reconcile(h) ==
  LET d == job[h].of IN
  /\ job[h].at = "scanned" /\ ~Locked(d)
  /\ \/ claims[d].status = "RUNNING" /\ ReconcileRunning(h, d)
     \/ /\ claims[d].status = "PATCH_APPLIED"
        /\ Goto(h, AfterPatch(d)) /\ UNCHANGED claims
     \/ /\ claims[d].status \notin {"RUNNING", "PATCH_APPLIED"}
        /\ Goto(h, Idle) /\ UNCHANGED claims
  /\ UNCHANGED <<ticket, failure, proposals, escalation, reached, crashes>>

\* The process dies: its threads and their locks are gone, the files stay.
Crash ==
  /\ crashes < MaxCrashes
  /\ crashes' = crashes + 1
  /\ job' = [h \in Thread |-> Idle]
  /\ UNCHANGED <<ticket, failure, claims, proposals, escalation, reached>>

Services ==
  \/ \E d \in Dest : Move(d) \/ MoveRefused(d)
  \/ MoveOn
  \/ \E f \in Field : Edit(f)

Claiming ==
  \E d \in Dest :
    \/ Claim(d) \/ Start(d) \/ Exhausted(d)
    \/ \E keys \in SUBSET Field : \E filled \in SUBSET keys : Propose(d, keys, filled)

Work(h) ==
  \/ \E d \in Dest :
       \/ ResultOutdated(h, d) \/ ResultRejected(h, d) \/ ResultRefused(h, d) \/ Scan(h, d)
       \/ \E keys \in SUBSET Field : \E filled \in SUBSET keys : ResultApplied(h, d, keys, filled)
  \/ JudgeRefusal(h) \/ MarkApplied(h) \/ Complete(h) \/ Retry(h) \/ RetryRaises(h)
  \/ MarkFailed(h) \/ MarkCompleted(h) \/ Retire(h) \/ Lift(h) \/ Escalate(h) \/ Reconcile(h)

Next == Services \/ Claiming \/ (\E h \in Thread : Work(h)) \/ Crash

Spec == Init /\ [][Next]_vars

-----------------------------------------------------------------------------
(* Properties *)

TypeOK ==
  /\ ticket \in Ticket
  /\ failure \in [Dest -> Failure]
  /\ claims \in [Dest -> RepairAttempt]
  /\ proposals \subseteq Proposal
  /\ escalation \in Escalation
  /\ job \in [Thread -> Job]
  /\ reached \subseteq Dest /\ crashes \in Nat

\* One repair of a ticket at a time, whatever results, reconcilers and crashes
\* do to the claims: two could each be built on a ticket the other changes.
OneActiveClaim == \A d, e \in Dest : Active(d) /\ Active(e) => d = e

\* A claim is closed as COMPLETED only if the ticket has made the move it was
\* claimed for, by the handler or by another service, and not gone elsewhere.
CompletedIsReached == \A d \in Dest : claims[d].status = "COMPLETED" => d \in reached

\* The claims as the abstract record has them: whatever results, reconcilers and
\* crashes do, a claim is made once, executed within its limit, patched while it
\* runs, and never reopened.
Record == INSTANCE RepairRecord WITH
  status <- [d \in Dest |-> claims[d].status], attempt <- [d \in Dest |-> claims[d].attempt]
KeepsTheRecord == Record!Spec
=============================================================================
