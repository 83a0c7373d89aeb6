------------------------- MODULE ContextRepair_proofs -------------------------
(* Proofs about ContextRepair: types, one active claim, earned completions. *)
EXTENDS ContextRepair, TLAPS

-----------------------------------------------------------------------------
(* The inductive invariant *)

Holds(h) == job[h].at \notin {"idle", "scanned", "complete"}

\* A claim's lock has one holder, which knows the claim's status.
LockInv ==
  /\ \A h \in Thread :
       /\ job[h].at # "idle" => job[h].of \in Dest
       /\ job[h].at \in {"refused", "applied"} => claims[job[h].of].status = "RUNNING"
       /\ job[h].at \in {"retry", "moved", "failed"} => claims[job[h].of].status = "PATCH_APPLIED"
       /\ job[h].at \in {"retire", "lift"} => claims[job[h].of].status = "COMPLETED"
  /\ \A h, k \in Thread : Holds(h) /\ Holds(k) /\ job[h].of = job[k].of => h = k

\* A ticket that has made a move, after the claim for it, has no failure of it.
MovedInv ==
  /\ \A d \in Dest : ticket.state = d => failure[d].count = 0 /\ d \in reached
  /\ \A h \in Thread : job[h].at = "moved" => job[h].of \in reached

-----------------------------------------------------------------------------
(* Types *)

\* Every action but the crash leaves the types of the state as they are.
LEMMA InitType == Init => TypeOK
BY RepairAssumption DEF Init, TypeOK, Ticket, State, Failure, NoFailure, RepairAttempt, NoClaim,
   RepairAttemptStatus, Escalation, NoEscalation, Job, Step, Idle

\* A claim keeps its type when its status and execution change.
LEMMA WithType ==
  ASSUME NEW c \in RepairAttempt, NEW s \in RepairAttemptStatus, NEW n \in Nat
  PROVE  With(c, s, n) \in RepairAttempt
BY DEF With, RepairAttempt

\* The threads' jobs are typed.
LEMMA AtType ==
  ASSUME NEW s \in Step, NEW d \in Dest
  PROVE  At(s, d) \in Job
BY DEF At, Job

LEMMA GotoType ==
  ASSUME TypeOK, NEW h \in Thread, NEW j \in Job, Goto(h, j)
  PROVE  job' \in [Thread -> Job]
BY DEF TypeOK, Goto

LEMMA SetStatusType ==
  ASSUME TypeOK, NEW d \in Dest, NEW old, NEW new \in RepairAttemptStatus, SetStatus(d, old, new)
  PROVE  claims' \in [Dest -> RepairAttempt]
<1>1. claims[d] \in RepairAttempt /\ claims[d].attempt \in Nat
  BY DEF TypeOK, RepairAttempt
<1>2. With(claims[d], new, claims[d].attempt) \in RepairAttempt
  BY <1>1, WithType
<1> QED BY <1>2 DEF SetStatus, TypeOK

LEMMA ReexecuteType ==
  ASSUME TypeOK, NEW h \in Thread, NEW d \in Dest, NEW end \in Step, Reexecute(h, d, end)
  PROVE  claims' \in [Dest -> RepairAttempt] /\ job' \in [Thread -> Job]
<1>1. claims[d] \in RepairAttempt /\ claims[d].attempt \in Nat /\ claims[d].attempt + 1 \in Nat
  BY DEF TypeOK, RepairAttempt
<1>2. /\ With(claims[d], "CLAIMED", claims[d].attempt + 1) \in RepairAttempt
      /\ With(claims[d], "FAILED", claims[d].attempt) \in RepairAttempt
  BY <1>1, WithType DEF RepairAttemptStatus
<1>3. Idle \in Job /\ At(end, d) \in Job
  BY AtType DEF Idle, Job, Step
<1> QED BY <1>2, <1>3 DEF Reexecute, Goto, TypeOK

LEMMA JobFacts ==
  ASSUME TypeOK, NEW h \in Thread
  PROVE  /\ job[h] \in Job /\ Idle \in Job
         /\ job[h].at \in Step \cup {"idle"}
         /\ job[h].at # "idle" => job[h].of \in Dest
BY DEF TypeOK, Job, Idle, Step

LEMMA RefuseType ==
  ASSUME TypeOK, NEW d \in Dest, Refuse(d)
  PROVE  failure' \in [Dest -> Failure]
<1>1. Needs[d] \ ticket.has \subseteq Field
  BY RepairAssumption
<1> DEFINE r == [count |-> IF failure[d].count = 0 THEN 1 ELSE 2, missing |-> Needs[d] \ ticket.has]
<1>2. r \in Failure
  BY <1>1 DEF Failure
<1>3. failure' = [failure EXCEPT ![d] = r]
  BY DEF Refuse
<1>4. failure \in [Dest -> Failure]
  BY DEF TypeOK
<1> HIDE DEF r
<1> QED BY <1>2, <1>3, <1>4

LEMMA ServicesType == TypeOK /\ Services => TypeOK'
<1> SUFFICES ASSUME TypeOK, Services PROVE TypeOK'
  OBVIOUS
<1> USE DEF TypeOK
<1>t. ticket.has \in SUBSET Field /\ ticket.version \in Nat /\ ticket.version + 1 \in Nat
  BY DEF Ticket
<1>f. \A d \in Dest : [failure EXCEPT ![d] = NoFailure] \in [Dest -> Failure]
  BY DEF NoFailure, Failure
<1>r. \A d \in Dest : Refuse(d) => failure' \in [Dest -> Failure]
  BY RefuseType
<1>m. ASSUME NEW d \in Dest, MoveTo(d)
      PROVE  ticket' \in Ticket /\ failure' \in [Dest -> Failure] /\ reached' \subseteq Dest
  BY <1>m, <1>t, <1>f DEF MoveTo, Ticket, State
<1>1. ASSUME NEW d \in Dest, Move(d) PROVE TypeOK'
  BY <1>1, <1>m DEF Move
<1>2. ASSUME NEW d \in Dest, MoveRefused(d) PROVE TypeOK'
  BY <1>2, <1>r DEF MoveRefused
<1>3. CASE MoveOn
  BY <1>3, <1>t DEF MoveOn, Ticket, State
<1>4. ASSUME NEW f \in Field, Edit(f) PROVE TypeOK'
  BY <1>4, <1>t DEF Edit, Ticket
<1> QED BY <1>1, <1>2, <1>3, <1>4 DEF Services

LEMMA ClaimingType == TypeOK /\ Claiming => TypeOK'
<1> SUFFICES ASSUME TypeOK, NEW d \in Dest,
                    \/ Claim(d) \/ Start(d) \/ Exhausted(d)
                    \/ \E keys \in SUBSET Field : \E filled \in SUBSET keys : Propose(d, keys, filled)
             PROVE  TypeOK'
  BY DEF Claiming
<1> USE DEF TypeOK
<1>1. CASE Claim(d)
  <2>1. AllowedFields(d) \subseteq Field /\ ticket.has \cap AllowedFields(d) \subseteq Field
        /\ ticket.version \in Nat
    BY DEF AllowedFields, Failure, Ticket
  <2>2. [status |-> "CLAIMED", attempt |-> 1, version |-> ticket.version,
         allowed |-> AllowedFields(d), expected |-> ticket.has \cap AllowedFields(d)] \in RepairAttempt
    BY <2>1 DEF RepairAttempt, RepairAttemptStatus
  <2> QED BY <1>1, <2>2 DEF Claim
<1>2. CASE Start(d)
  BY <1>2, SetStatusType DEF Start, RepairAttemptStatus
<1>3. CASE Exhausted(d)
  BY <1>3 DEF Exhausted, Escalation
<1>4. ASSUME NEW keys \in SUBSET Field, NEW filled \in SUBSET keys, Propose(d, keys, filled)
      PROVE  TypeOK'
  <2>1. [of |-> d, attempt |-> claims[d].attempt, keys |-> keys, filled |-> filled] \in Proposal
    BY DEF Proposal, RepairAttempt
  <2> QED BY <1>4, <2>1 DEF Propose
<1> QED BY <1>1, <1>2, <1>3, <1>4

LEMMA WorkType == ASSUME TypeOK, NEW h \in Thread, Work(h) PROVE TypeOK'
<1> USE DEF TypeOK
<1> DEFINE e == job[h].of
<1>j. /\ job[h].at \in Step \cup {"idle"} /\ Idle \in Job
      /\ job[h].at # "idle" => e \in Dest
  BY JobFacts
<1>a. ASSUME NEW d \in Dest, NEW s \in Step PROVE At(s, d) \in Job
  BY AtType
<1>p. \A d \in Dest : ProposalsBut(d) \subseteq Proposal
  BY DEF ProposalsBut
<1> HIDE DEF e
<1>1. ASSUME NEW d \in Dest, ResultOutdated(h, d) PROVE TypeOK'
  <2>1. claims' \in [Dest -> RepairAttempt]
    BY <1>1, SetStatusType DEF ResultOutdated, RepairAttemptStatus
  <2>2. job' \in [Thread -> Job]
    BY <1>1, <1>a, GotoType DEF ResultOutdated, Step
  <2> QED BY <1>1, <2>1, <2>2 DEF ResultOutdated
<1>2. ASSUME NEW d \in Dest, ResultRejected(h, d) PROVE TypeOK'
  BY <1>2, ReexecuteType DEF ResultRejected, Step
<1>3. ASSUME NEW d \in Dest, ResultRefused(h, d) PROVE TypeOK'
  BY <1>3, <1>a, GotoType DEF ResultRefused, Step
<1>4. ASSUME NEW d \in Dest, Scan(h, d) PROVE TypeOK'
  BY <1>4, <1>a, GotoType DEF Scan, Step
<1>5. ASSUME NEW d \in Dest, NEW keys \in SUBSET Field, NEW filled \in SUBSET keys,
             ResultApplied(h, d, keys, filled)
      PROVE  TypeOK'
  <2>1. ticket' \in Ticket
    BY <1>5 DEF ResultApplied, Ticket, State
  <2> QED BY <1>5, <2>1, <1>a, GotoType DEF ResultApplied, Step
<1>6. CASE JudgeRefusal(h)
  <2>1. e \in Dest
    BY <1>6, <1>j DEF JudgeRefusal, e
  <2>2. CASE SetStatus(e, "RUNNING", "FAILED") /\ Goto(h, At("withdraw", e))
    <3>1. claims' \in [Dest -> RepairAttempt]
      BY <2>1, <2>2, SetStatusType DEF RepairAttemptStatus
    <3>2. job' \in [Thread -> Job]
      BY <2>1, <2>2, <1>a, GotoType DEF Step
    <3> QED BY <1>6, <3>1, <3>2 DEF JudgeRefusal
  <2>3. CASE Reexecute(h, e, "withdraw")
    BY <1>6, <2>1, <2>3, ReexecuteType DEF JudgeRefusal, Step
  <2> QED BY <1>6, <2>2, <2>3 DEF JudgeRefusal, e
<1>7. CASE MarkApplied(h)
  <2>1. e \in Dest
    BY <1>7, <1>j DEF MarkApplied, e
  <2>2. claims' \in [Dest -> RepairAttempt]
    BY <1>7, <2>1, SetStatusType DEF MarkApplied, RepairAttemptStatus, e
  <2>3. job' \in [Thread -> Job]
    BY <1>7, <2>1, <1>a, GotoType DEF MarkApplied, Step, e
  <2> QED BY <1>7, <2>2, <2>3 DEF MarkApplied
<1>8. CASE Complete(h)
  <2>1. e \in Dest
    BY <1>8, <1>j DEF Complete, e
  <2>2. AfterPatch(e) \in Job
    BY <2>1, <1>a DEF AfterPatch, Step
  <2>3. job' \in [Thread -> Job]
    BY <1>8, <1>j, <2>2, GotoType DEF Complete, e
  <2> QED BY <1>8, <2>3 DEF Complete
<1>9. CASE Retry(h)
  <2>1. e \in Dest
    BY <1>9, <1>j DEF Retry, e
  <2>2. job' \in [Thread -> Job]
    BY <1>9, <2>1, <1>a, GotoType DEF Retry, Step, e
  <2>3. ticket' \in Ticket /\ failure' \in [Dest -> Failure] /\ reached' \subseteq Dest
    BY <1>9, <2>1 DEF Retry, MoveTo, Ticket, State, NoFailure, Failure, e
  <2> QED BY <1>9, <2>2, <2>3 DEF Retry
<1>10. CASE RetryRaises(h)
  <2>1. e \in Dest
    BY <1>10, <1>j DEF RetryRaises, e
  <2>2. job' \in [Thread -> Job]
    BY <1>10, <2>1, <1>a, GotoType DEF RetryRaises, Step, e
  <2>4. failure' \in [Dest -> Failure]
    BY <1>10, <2>1, RefuseType DEF RetryRaises, e
  <2> QED BY <1>10, <2>2, <2>4 DEF RetryRaises
<1>11. CASE MarkFailed(h)
  <2>1. e \in Dest
    BY <1>11, <1>j DEF MarkFailed, e
  <2>2. claims' \in [Dest -> RepairAttempt]
    BY <1>11, <2>1, SetStatusType DEF MarkFailed, RepairAttemptStatus, e
  <2>3. job' \in [Thread -> Job]
    BY <1>11, <1>j, GotoType DEF MarkFailed
  <2> QED BY <1>11, <1>p, <2>1, <2>2, <2>3 DEF MarkFailed, e
<1>12. CASE MarkCompleted(h)
  <2>1. e \in Dest
    BY <1>12, <1>j DEF MarkCompleted, e
  <2>2. claims' \in [Dest -> RepairAttempt]
    BY <1>12, <2>1, SetStatusType DEF MarkCompleted, RepairAttemptStatus, e
  <2>3. job' \in [Thread -> Job]
    BY <1>12, <2>1, <1>a, GotoType DEF MarkCompleted, Step, e
  <2> QED BY <1>12, <2>2, <2>3 DEF MarkCompleted
<1>13. CASE Retire(h)
  <2>1. e \in Dest
    BY <1>13, <1>j DEF Retire, e
  <2>2. [at |-> "lift", of |-> e, owns |-> Mine(e)] \in Job
    BY <2>1 DEF Job, Step, Mine
  <2>3. failure' \in [Dest -> Failure]
    <3>1. NoFailure \in Failure
      BY DEF NoFailure, Failure
    <3>2. failure' = [failure EXCEPT ![e] = NoFailure]
      BY <1>13 DEF Retire, e
    <3> QED BY <3>1, <3>2
  <2> QED BY <1>13, <2>2, <2>3 DEF Retire, e
<1>14. CASE Lift(h)
  <2>1. e \in Dest
    BY <1>14, <1>j DEF Lift, e
  <2>2. job' \in [Thread -> Job]
    BY <1>14, <1>j, GotoType DEF Lift
  <2>3. escalation' \in Escalation
    BY <1>14 DEF Lift, Escalation, NoEscalation
  <2> QED BY <1>14, <1>p, <2>1, <2>2, <2>3 DEF Lift, e
<1>15. CASE Escalate(h)
  <2>1. e \in Dest
    BY <1>15, <1>j DEF Escalate, e
  <2>2. job' \in [Thread -> Job]
    BY <1>15, <1>j, GotoType DEF Escalate
  <2>3. escalation' \in Escalation
    BY <1>15, <2>1 DEF Escalate, Escalation, RepairAttempt, e
  <2> QED BY <1>15, <1>p, <2>1, <2>2, <2>3 DEF Escalate, e
<1>16. CASE Reconcile(h)
  <2>1. e \in Dest
    BY <1>16, <1>j DEF Reconcile, e
  <2>2. CASE claims[e].status = "RUNNING" /\ ReconcileRunning(h, e)
    <3>1. CASE SetStatus(e, "RUNNING", "PATCH_APPLIED") /\ Goto(h, Idle)
      <4>1. claims' \in [Dest -> RepairAttempt]
        BY <2>1, <3>1, SetStatusType DEF RepairAttemptStatus
      <4>2. job' \in [Thread -> Job]
        BY <3>1, <1>j, GotoType
      <4> QED BY <1>16, <4>1, <4>2 DEF Reconcile
    <3>2. CASE Reexecute(h, e, "escalate")
      BY <1>16, <2>1, <3>2, ReexecuteType DEF Reconcile, Step
    <3>3. CASE UNCHANGED claims /\ Goto(h, At("escalate", e))
      BY <1>16, <2>1, <3>3, <1>a, GotoType DEF Reconcile, Step
    <3> QED BY <2>2, <3>1, <3>2, <3>3 DEF ReconcileRunning
  <2>3. CASE claims[e].status = "PATCH_APPLIED" /\ Goto(h, AfterPatch(e)) /\ UNCHANGED claims
    <3>1. AfterPatch(e) \in Job
      BY <2>1, <1>a DEF AfterPatch, Step
    <3> QED BY <1>16, <2>3, <3>1, GotoType DEF Reconcile
  <2>4. CASE Goto(h, Idle) /\ UNCHANGED claims
    BY <1>16, <2>4, <1>j, GotoType DEF Reconcile
  <2> QED BY <1>16, <2>2, <2>3, <2>4 DEF Reconcile, e
<1> QED
  BY <1>1, <1>2, <1>3, <1>4, <1>5, <1>6, <1>7, <1>8, <1>9, <1>10, <1>11, <1>12, <1>13, <1>14,
     <1>15, <1>16 DEF Work

LEMMA TypeStep == TypeOK /\ [Next]_vars => TypeOK'
<1>1. TypeOK /\ Crash => TypeOK'
  BY DEF TypeOK, Crash, Job
<1>2. TypeOK /\ UNCHANGED vars => TypeOK'
  BY DEF TypeOK, vars
<1> QED BY <1>1, <1>2, ServicesType, ClaimingType, WorkType DEF Next

\* The types of all the files and threads, whatever is repaired (TypeOK).
THEOREM RepairTypeCorrect == Spec => []TypeOK
BY InitType, TypeStep, PTL DEF Spec

-----------------------------------------------------------------------------
(* One claim at a time *)

IInv == TypeOK /\ LockInv /\ MovedInv /\ OneActiveClaim /\ CompletedIsReached

LEMMA InitIInv == Init => IInv
<1> SUFFICES ASSUME Init PROVE IInv
  OBVIOUS
<1>1. TypeOK
  BY InitType
<1>2. \A h \in Thread : job[h].at = "idle"
  BY DEF Init, Idle
<1>3. LockInv
  BY <1>2 DEF LockInv, Holds
<1>4. MovedInv
  BY <1>2, RepairAssumption DEF MovedInv, Init
<1>5. OneActiveClaim /\ CompletedIsReached
  BY DEF Init, OneActiveClaim, CompletedIsReached, Active, NoClaim, ACTIVE_REPAIR_STATUSES
<1> QED BY <1>1, <1>3, <1>4, <1>5 DEF IInv

\* A step that takes one claim from one active status to another, or closes it
\* with its move made, keeps the claims exclusive and earned.
LEMMA ClaimStep ==
  ASSUME TypeOK, OneActiveClaim, CompletedIsReached,
         NEW d \in Dest, NEW s \in RepairAttemptStatus, NEW n,
         Active(d), s = "COMPLETED" => d \in reached,
         claims' = [claims EXCEPT ![d] = With(@, s, n)], reached \subseteq reached'
  PROVE  OneActiveClaim' /\ CompletedIsReached'
<1>1. \A x \in Dest : claims'[x].status = IF x = d THEN s ELSE claims[x].status
  BY DEF TypeOK, With
<1>2. \A x \in Dest : Active(x)' => Active(x)
  BY <1>1 DEF Active
<1>3. OneActiveClaim'
  BY <1>2 DEF OneActiveClaim
<1>4. CompletedIsReached'
  BY <1>1 DEF CompletedIsReached
<1> QED BY <1>3, <1>4

\* So does a compare-and-set from an active status.
LEMMA SetStatusStep ==
  ASSUME TypeOK, OneActiveClaim, CompletedIsReached, NEW d \in Dest,
         NEW old \in {"CLAIMED", "RUNNING", "PATCH_APPLIED"}, NEW s \in RepairAttemptStatus,
         SetStatus(d, old, s), s = "COMPLETED" => d \in reached, UNCHANGED reached
  PROVE  /\ OneActiveClaim' /\ CompletedIsReached'
         /\ claims[d].status = old /\ claims'[d].status = s
         /\ \A x \in Dest : x # d => claims'[x].status = claims[x].status
<1> DEFINE n == claims[d].attempt
<1>1. claims' = [claims EXCEPT ![d] = With(@, s, n)] /\ claims[d].status = old
  BY DEF SetStatus
<1> HIDE DEF n
<1>2. Active(d)
  BY <1>1 DEF Active, ACTIVE_REPAIR_STATUSES
<1>3. OneActiveClaim' /\ CompletedIsReached'
  BY <1>1, <1>2, ClaimStep
<1> QED BY <1>1, <1>3 DEF TypeOK, With

\* And a refusal: a new execution of the same claim, or its end.
LEMMA ReexecuteStep ==
  ASSUME TypeOK, OneActiveClaim, CompletedIsReached, NEW h \in Thread, NEW d \in Dest, NEW end,
         Reexecute(h, d, end), claims[d].status = "RUNNING", UNCHANGED reached
  PROVE  /\ OneActiveClaim' /\ CompletedIsReached'
         /\ Goto(h, Idle) \/ Goto(h, At(end, d))
         /\ \A x \in Dest : x # d => claims'[x].status = claims[x].status
<1>0. PICK s \in {"CLAIMED", "FAILED"} :
        \E n : /\ claims' = [claims EXCEPT ![d] = With(@, s, n)]
               /\ Goto(h, Idle) \/ Goto(h, At(end, d))
  <2>1. CASE claims[d].attempt + 1 < MAX_REPAIR_EXECUTIONS
    BY <2>1 DEF Reexecute
  <2>2. CASE ~(claims[d].attempt + 1 < MAX_REPAIR_EXECUTIONS)
    BY <2>2 DEF Reexecute
  <2> QED BY <2>1, <2>2
<1>1. PICK n : claims' = [claims EXCEPT ![d] = With(@, s, n)] /\ (Goto(h, Idle) \/ Goto(h, At(end, d)))
  BY <1>0
<1>2. Active(d)
  BY DEF Active, ACTIVE_REPAIR_STATUSES
<1>3. OneActiveClaim' /\ CompletedIsReached'
  BY <1>1, <1>2, ClaimStep DEF RepairAttemptStatus
<1> QED BY <1>1, <1>3 DEF TypeOK, With

\* A step of one thread that concerns one claim keeps the locks exclusive, if it
\* changes the claim or enters its lock only when it holds it or nobody does.
LEMMA LockStep ==
  ASSUME TypeOK, LockInv, NEW h \in Thread, NEW d \in Dest, NEW j \in Job, Goto(h, j),
         j.at # "idle" => j.of = d,
         \A x \in Dest : x # d => claims'[x].status = claims[x].status,
         \/ Holds(h) /\ job[h].of = d
         \/ ~Locked(d)
         \/ j.at \in {"idle", "scanned", "complete"} /\ claims'[d].status = claims[d].status,
         j.at \in {"refused", "applied"} => claims'[d].status = "RUNNING",
         j.at \in {"retry", "moved", "failed"} => claims'[d].status = "PATCH_APPLIED",
         j.at \in {"retire", "lift"} => claims'[d].status = "COMPLETED"
  PROVE  LockInv'
<1>1. \A k \in Thread : job'[k] = IF k = h THEN j ELSE job[k]
  BY DEF TypeOK, Goto
<1>2. \A k \in Thread : job[k].at # "idle" => job[k].of \in Dest
  BY DEF LockInv
<1>3. ASSUME NEW k \in Thread, k # h, Holds(k), job[k].of = d
      PROVE  /\ j.at \in {"idle", "scanned", "complete"}
             /\ claims'[d].status = claims[d].status
  <2>1. Locked(d)
    BY <1>3 DEF Holds, Locked
  <2>2. ~(Holds(h) /\ job[h].of = d)
    BY <1>3 DEF LockInv
  <2> QED BY <2>1, <2>2
<1>4. ASSUME NEW k \in Thread
      PROVE  /\ job'[k].at # "idle" => job'[k].of \in Dest
             /\ job'[k].at \in {"refused", "applied"} => claims'[job'[k].of].status = "RUNNING"
             /\ job'[k].at \in {"retry", "moved", "failed"} => claims'[job'[k].of].status = "PATCH_APPLIED"
             /\ job'[k].at \in {"retire", "lift"} => claims'[job'[k].of].status = "COMPLETED"
  <2>1. CASE k = h
    BY <1>1, <2>1
  <2>2. CASE k # h
    <3>1. job'[k] = job[k]
      BY <1>1, <2>2
    <3>2. Holds(k) => claims'[job[k].of].status = claims[job[k].of].status
      BY <1>2, <1>3, <2>2 DEF Holds
    <3> QED BY <1>2, <3>1, <3>2 DEF LockInv, Holds
  <2> QED BY <2>1, <2>2
<1>5. ASSUME NEW k \in Thread, NEW l \in Thread, Holds(k)', Holds(l)', job'[k].of = job'[l].of
      PROVE  k = l
  <2>1. CASE k # h /\ l # h
    BY <1>1, <1>5, <2>1 DEF LockInv, Holds
  <2>2. CASE k = h /\ l # h
    BY <1>1, <1>3, <1>5, <2>2 DEF Holds
  <2>3. CASE k # h /\ l = h
    BY <1>1, <1>3, <1>5, <2>3 DEF Holds
  <2> QED BY <2>1, <2>2, <2>3
<1> QED BY <1>4, <1>5 DEF LockInv

\* Steps outside the threads do not touch a claim whose lock is held.
LEMMA LockStays ==
  ASSUME TypeOK, LockInv, UNCHANGED job,
         \A h \in Thread : job[h].at \in {"refused", "applied", "retry", "moved", "failed", "retire", "lift"}
           => claims'[job[h].of].status = claims[job[h].of].status
  PROVE  LockInv'
BY DEF LockInv, Holds

\* A move clears its failure and is remembered; a refusal is of another state.
LEMMA MovedStep ==
  ASSUME MovedInv, TypeOK, TypeOK',
         \/ UNCHANGED <<ticket, failure, reached>>
         \/ \E d \in Dest : MoveTo(d)
         \/ UNCHANGED <<ticket, reached>> /\ \E d \in Dest : Refuse(d)
         \/ UNCHANGED <<failure, reached>> /\ ticket'.state \in {ticket.state, "source", "elsewhere"}
         \/ UNCHANGED <<ticket, reached>> /\ \E d \in Dest : failure' = [failure EXCEPT ![d] = NoFailure]
         \/ /\ UNCHANGED <<ticket, failure>>
            /\ \E d \in Dest : reached' = reached \ {d} /\ failure[d].count = 1,
         \A h \in Thread : job'[h].at = "moved" => job'[h].of \in reached'
  PROVE  MovedInv'
<1> SUFFICES \A d \in Dest : ticket'.state = d => failure'[d].count = 0 /\ d \in reached'
  BY DEF MovedInv
<1>1. \A d \in Dest : failure[d].count \in 0..2
  BY DEF TypeOK, Failure
<1>2. ASSUME NEW d \in Dest, MoveTo(d)
      PROVE  \A x \in Dest : ticket'.state = x => failure'[x].count = 0 /\ x \in reached'
  BY <1>2 DEF MoveTo, NoFailure, TypeOK
<1>3. ASSUME NEW d \in Dest, Refuse(d), UNCHANGED <<ticket, reached>>
      PROVE  \A x \in Dest : ticket'.state = x => failure'[x].count = 0 /\ x \in reached'
  BY <1>3, RepairAssumption DEF Refuse
<1>4. CASE UNCHANGED <<failure, reached>> /\ ticket'.state \in {ticket.state, "source", "elsewhere"}
  BY <1>4, RepairAssumption DEF MovedInv
<1>5. ASSUME NEW d \in Dest, failure' = [failure EXCEPT ![d] = NoFailure], UNCHANGED <<ticket, reached>>
      PROVE  \A x \in Dest : ticket'.state = x => failure'[x].count = 0 /\ x \in reached'
  BY <1>5 DEF NoFailure, MovedInv, TypeOK
<1>6. ASSUME NEW d \in Dest, UNCHANGED <<ticket, failure>>, reached' = reached \ {d}, failure[d].count = 1
      PROVE  \A x \in Dest : ticket'.state = x => failure'[x].count = 0 /\ x \in reached'
  BY <1>6 DEF MovedInv
<1>7. CASE UNCHANGED <<ticket, failure, reached>>
  BY <1>7 DEF MovedInv
<1> QED BY <1>2, <1>3, <1>4, <1>5, <1>6, <1>7

\* Steps outside the threads.
LEMMA OutsideStep == IInv /\ TypeOK' /\ (Services \/ Claiming) => IInv'
<1> SUFFICES ASSUME IInv, TypeOK', Services \/ Claiming PROVE IInv'
  OBVIOUS
<1>i. TypeOK /\ LockInv /\ MovedInv /\ OneActiveClaim /\ CompletedIsReached
  BY DEF IInv
<1>s. ASSUME UNCHANGED <<claims, job>>, reached \subseteq reached', MovedInv' PROVE IInv'
  <2>1. LockInv'
    BY <1>i, <1>s, LockStays
  <2>2. OneActiveClaim' /\ CompletedIsReached'
    BY <1>i, <1>s DEF OneActiveClaim, CompletedIsReached, Active
  <2> QED BY <1>s, <2>1, <2>2 DEF IInv
<1>1. ASSUME NEW d \in Dest, Move(d) PROVE IInv'
  <2>1. reached \subseteq reached' /\ UNCHANGED <<claims, job>>
    BY <1>1 DEF Move, MoveTo
  <2>2. MovedInv'
    BY <1>i, <1>1, <2>1, MovedStep DEF Move, MovedInv
  <2> QED BY <1>s, <2>1, <2>2
<1>2. ASSUME NEW d \in Dest, MoveRefused(d) PROVE IInv'
  BY <1>i, <1>2, <1>s, MovedStep DEF MoveRefused, MovedInv
<1>3. CASE MoveOn
  <2>1. UNCHANGED <<failure, reached, claims, job>> /\ ticket'.state \in {ticket.state, "source", "elsewhere"}
    BY <1>3 DEF MoveOn
  <2> QED BY <1>i, <1>s, <2>1, MovedStep DEF MovedInv
<1>4. ASSUME NEW f \in Field, Edit(f) PROVE IInv'
  <2>1. UNCHANGED <<failure, reached, claims, job>> /\ ticket'.state = ticket.state
    BY <1>4 DEF Edit
  <2> QED BY <1>i, <1>s, <2>1, MovedStep DEF MovedInv
<1>5. ASSUME NEW d \in Dest, Claim(d) PROVE IInv'
  <2>1. \A x \in Dest : claims'[x].status = IF x = d THEN "CLAIMED" ELSE claims[x].status
    BY <1>i, <1>5 DEF TypeOK, Claim
  <2>2. OneActiveClaim'
    BY <1>5, <2>1 DEF OneActiveClaim, Active, Claim, NoActiveClaim
  <2>3. CompletedIsReached'
    BY <1>i, <1>5, <2>1 DEF CompletedIsReached, Claim
  <2>4. \A h \in Thread : job[h].at \in {"refused", "applied", "retry", "moved", "failed", "retire", "lift"}
          => job[h].of # d
    BY <1>i, <1>5 DEF LockInv, Claim, NoClaim
  <2>5. LockInv'
    BY <1>i, <1>5, <2>1, <2>4, LockStays DEF Claim, LockInv
  <2>6. failure[d].count = 1 /\ reached' = reached \ {d} /\ UNCHANGED <<ticket, failure, job>>
    BY <1>5 DEF Claim, Repairable
  <2>7. \A h \in Thread : job'[h].at = "moved" => job'[h].of \in reached'
    BY <1>i, <2>4, <2>6 DEF MovedInv
  <2>8. MovedInv'
    BY <1>i, <2>6, <2>7, MovedStep
  <2> QED BY <2>2, <2>3, <2>5, <2>8 DEF IInv
<1>6. ASSUME NEW d \in Dest, Start(d) PROVE IInv'
  <2>0. SetStatus(d, "CLAIMED", "RUNNING") /\ UNCHANGED reached
    BY <1>6 DEF Start
  <2>1. OneActiveClaim' /\ CompletedIsReached'
    BY <1>i, <2>0, SetStatusStep DEF RepairAttemptStatus
  <2>2. \A x \in Dest : x # d => claims'[x] = claims[x]
    BY <1>i, <1>6 DEF TypeOK, Start, SetStatus
  <2>3. \A h \in Thread : job[h].at \in {"refused", "applied", "retry", "moved", "failed", "retire", "lift"}
          => job[h].of # d
    BY <1>i, <1>6 DEF LockInv, Start, SetStatus
  <2>4. LockInv'
    BY <1>i, <1>6, <2>2, <2>3, LockStays DEF LockInv, Start
  <2>5. MovedInv'
    BY <1>i, <1>6, MovedStep DEF Start, MovedInv
  <2> QED BY <2>1, <2>4, <2>5 DEF IInv
<1>7. ASSUME NEW d \in Dest, Exhausted(d) PROVE IInv'
  BY <1>i, <1>7, <1>s, MovedStep DEF Exhausted, MovedInv
<1>8. ASSUME NEW d \in Dest, NEW keys, NEW filled, Propose(d, keys, filled) PROVE IInv'
  BY <1>i, <1>8, <1>s, MovedStep DEF Propose, MovedInv
<1> QED BY <1>1, <1>2, <1>3, <1>4, <1>5, <1>6, <1>7, <1>8 DEF Services, Claiming

\* What a thread knows of its own job.
LEMMA Own ==
  ASSUME TypeOK, LockInv, NEW h \in Thread, job[h].at # "idle"
  PROVE  job[h].of \in Dest
BY DEF LockInv

\* The steps of a thread that leave the ticket and its failures to the others.
LEMMA QuietStep ==
  ASSUME IInv, TypeOK', NEW h \in Thread, NEW d \in Dest, NEW j \in Job, Goto(h, j),
         LockInv', OneActiveClaim', CompletedIsReached', UNCHANGED <<ticket, failure, reached>>,
         j.at = "moved" => j.of \in reached
  PROVE  IInv'
<1>1. \A k \in Thread : job'[k] = IF k = h THEN j ELSE job[k]
  BY DEF IInv, TypeOK, Goto
<1>2. \A k \in Thread : job'[k].at = "moved" => job'[k].of \in reached'
  BY <1>1 DEF IInv, MovedInv
<1>3. MovedInv'
  BY <1>2, MovedStep DEF IInv
<1> QED BY <1>3 DEF IInv

\* A thread that changes no claim.
LEMMA ClaimsStay ==
  ASSUME OneActiveClaim, CompletedIsReached, UNCHANGED claims, reached \subseteq reached'
  PROVE  OneActiveClaim' /\ CompletedIsReached'
BY DEF OneActiveClaim, CompletedIsReached, Active

\* The results' first steps, each in a claim nobody has locked.
LEMMA HandleStep ==
  ASSUME IInv, TypeOK', NEW h \in Thread, NEW d \in Dest,
         ResultOutdated(h, d) \/ ResultRejected(h, d) \/ ResultRefused(h, d) \/ Scan(h, d)
  PROVE  IInv'
<1>i. TypeOK /\ LockInv /\ MovedInv /\ OneActiveClaim /\ CompletedIsReached
  BY DEF IInv
<1>a. \A s \in Step : At(s, d) \in Job /\ At(s, d).at = s /\ At(s, d).of = d
  BY AtType DEF At
<1>b. Idle \in Job /\ Idle.at = "idle"
  BY DEF Idle, Job
<1>l. ~Locked(d) /\ claims[d].status = "RUNNING" /\ UNCHANGED <<ticket, failure, reached>>
  BY DEF ResultOutdated, ResultRejected, ResultRefused, Scan, Handling
<1>1. CASE ResultOutdated(h, d)
  <2>1. SetStatus(d, "RUNNING", "FAILED") /\ Goto(h, At("escalate", d))
    BY <1>1 DEF ResultOutdated
  <2>2. /\ OneActiveClaim' /\ CompletedIsReached'
        /\ \A x \in Dest : x # d => claims'[x].status = claims[x].status
    BY <1>i, <1>l, <2>1, SetStatusStep DEF RepairAttemptStatus
  <2>3. LockInv'
    BY <1>i, <1>a, <1>l, <2>1, <2>2, LockStep DEF Step
  <2> QED BY <1>a, <1>l, <2>1, <2>2, <2>3, QuietStep DEF Step
<1>2. CASE ResultRejected(h, d)
  <2>1. /\ OneActiveClaim' /\ CompletedIsReached'
        /\ Goto(h, Idle) \/ Goto(h, At("withdraw", d))
        /\ \A x \in Dest : x # d => claims'[x].status = claims[x].status
    BY <1>i, <1>l, <1>2, ReexecuteStep DEF ResultRejected
  <2>2. CASE Goto(h, Idle)
    <3>1. LockInv'
      BY <1>i, <1>b, <1>l, <2>1, <2>2, LockStep
    <3> QED BY <1>b, <1>l, <2>1, <2>2, <3>1, QuietStep
  <2>3. CASE Goto(h, At("withdraw", d))
    <3>1. LockInv'
      BY <1>i, <1>a, <1>l, <2>1, <2>3, LockStep DEF Step
    <3> QED BY <1>a, <1>l, <2>1, <2>3, <3>1, QuietStep DEF Step
  <2> QED BY <2>1, <2>2, <2>3
<1>3. CASE ResultRefused(h, d) \/ Scan(h, d)
  <2>1. PICK s \in {"refused", "scanned"} : Goto(h, At(s, d)) /\ UNCHANGED claims
    BY <1>3 DEF ResultRefused, Scan
  <2>2. OneActiveClaim' /\ CompletedIsReached'
    BY <1>i, <1>l, <2>1, ClaimsStay
  <2>3. LockInv'
    BY <1>i, <1>a, <1>l, <2>1, LockStep DEF Step
  <2> QED BY <1>a, <1>l, <2>1, <2>2, <2>3, QuietStep DEF Step
<1> QED BY <1>1, <1>2, <1>3

\* The steps of a thread that holds the claim's lock, up to the retried move.
LEMMA HeldStep ==
  ASSUME IInv, TypeOK', NEW h \in Thread,
         JudgeRefusal(h) \/ MarkApplied(h) \/ MarkFailed(h) \/ MarkCompleted(h) \/ Lift(h) \/ Escalate(h)
  PROVE  IInv'
<1>i. TypeOK /\ LockInv /\ MovedInv /\ OneActiveClaim /\ CompletedIsReached
  BY DEF IInv
<1> DEFINE d == job[h].of
<1>h. Holds(h) /\ d \in Dest /\ UNCHANGED <<ticket, failure, reached>>
  BY <1>i DEF Holds, LockInv, JudgeRefusal, MarkApplied, MarkFailed, MarkCompleted, Lift, Escalate
<1>a. \A s \in Step : At(s, d) \in Job /\ At(s, d).at = s /\ At(s, d).of = d
  BY <1>h, AtType DEF At
<1>b. Idle \in Job /\ Idle.at = "idle"
  BY DEF Idle, Job
<1> DEFINE Set(j) == /\ OneActiveClaim' /\ CompletedIsReached' /\ Goto(h, j)
                     /\ \A x \in Dest : x # d => claims'[x].status = claims[x].status
<1>e. job[h].of = d
  OBVIOUS
<1> HIDE DEF d
<1>q. ASSUME Set(Idle) \/ Set(At("withdraw", d)) PROVE IInv'
  <2>1. CASE Set(Idle)
    <3>1. LockInv'
      BY <1>i, <1>b, <1>e, <1>h, <2>1, LockStep
    <3> QED BY <1>b, <1>h, <2>1, <3>1, QuietStep
  <2>2. CASE Set(At("withdraw", d))
    <3>1. LockInv'
      BY <1>i, <1>a, <1>e, <1>h, <2>2, LockStep DEF Step
    <3> QED BY <1>a, <1>h, <2>2, <3>1, QuietStep DEF Step
  <2> QED BY <1>q, <2>1, <2>2
<1>1. CASE JudgeRefusal(h)
  <2>1. CASE SetStatus(d, "RUNNING", "FAILED") /\ Goto(h, At("withdraw", d))
    BY <1>i, <1>h, <1>q, <2>1, SetStatusStep DEF RepairAttemptStatus
  <2>2. CASE Reexecute(h, d, "withdraw")
    <3>1. claims[d].status = "RUNNING"
      BY <1>i, <1>1, <1>e DEF LockInv, JudgeRefusal
    <3> QED BY <1>i, <1>h, <1>q, <2>2, <3>1, ReexecuteStep
  <2> QED BY <1>1, <1>e, <2>1, <2>2 DEF JudgeRefusal
<1>2. CASE MarkApplied(h)
  <2>1. SetStatus(d, "RUNNING", "PATCH_APPLIED") /\ Goto(h, At("complete", d))
    BY <1>2, <1>e DEF MarkApplied
  <2>2. /\ OneActiveClaim' /\ CompletedIsReached'
        /\ \A x \in Dest : x # d => claims'[x].status = claims[x].status
    BY <1>i, <1>h, <2>1, SetStatusStep DEF RepairAttemptStatus
  <2>3. LockInv'
    BY <1>i, <1>a, <1>e, <1>h, <2>1, <2>2, LockStep DEF Step
  <2> QED BY <1>a, <1>h, <2>1, <2>2, <2>3, QuietStep DEF Step
<1>3. CASE MarkFailed(h)
  <2>1. SetStatus(d, "PATCH_APPLIED", "FAILED") /\ Goto(h, Idle)
    BY <1>3, <1>e DEF MarkFailed
  <2> QED BY <1>i, <1>h, <1>q, <2>1, SetStatusStep DEF RepairAttemptStatus
<1>4. CASE MarkCompleted(h)
  <2>1. SetStatus(d, "PATCH_APPLIED", "COMPLETED") /\ Goto(h, At("retire", d))
    BY <1>4, <1>e DEF MarkCompleted
  <2>2. d \in reached
    BY <1>i, <1>4, <1>e DEF MovedInv, MarkCompleted
  <2>3. /\ OneActiveClaim' /\ CompletedIsReached' /\ claims'[d].status = "COMPLETED"
        /\ \A x \in Dest : x # d => claims'[x].status = claims[x].status
    BY <1>i, <1>h, <2>1, <2>2, SetStatusStep DEF RepairAttemptStatus
  <2>4. LockInv'
    BY <1>i, <1>a, <1>e, <1>h, <2>1, <2>3, LockStep DEF Step
  <2> QED BY <1>a, <1>h, <2>1, <2>3, <2>4, QuietStep DEF Step
<1>5. CASE Lift(h) \/ Escalate(h)
  <2>1. UNCHANGED claims /\ Goto(h, Idle)
    BY <1>5 DEF Lift, Escalate
  <2>2. OneActiveClaim' /\ CompletedIsReached'
    BY <1>i, <1>h, <2>1, ClaimsStay
  <2> QED BY <1>q, <2>1, <2>2
<1> QED BY <1>1, <1>2, <1>3, <1>4, <1>5

\* The retried move, and what is retired with it.
LEMMA RetryStep ==
  ASSUME IInv, TypeOK', NEW h \in Thread, Retry(h) \/ RetryRaises(h) \/ Retire(h)
  PROVE  IInv'
<1>i. TypeOK /\ LockInv /\ MovedInv /\ OneActiveClaim /\ CompletedIsReached
  BY DEF IInv
<1> DEFINE d == job[h].of
<1>h. Holds(h) /\ d \in Dest /\ UNCHANGED claims
  BY <1>i DEF Holds, LockInv, Retry, RetryRaises, Retire
<1>e. job[h].of = d
  OBVIOUS
<1> HIDE DEF d
<1>a. \A s \in Step : At(s, d) \in Job /\ At(s, d).at = s /\ At(s, d).of = d
  BY <1>h, AtType DEF At
<1>g. ASSUME NEW j \in Job, Goto(h, j)
      PROVE  \A k \in Thread : job'[k] = IF k = h THEN j ELSE job[k]
  BY <1>i, <1>g DEF TypeOK, Goto
<1>1. CASE Retry(h)
  <2>1. MoveTo(d) /\ Goto(h, At("moved", d)) /\ reached' = reached \cup {d}
    BY <1>1, <1>e DEF Retry, MoveTo
  <2>2. OneActiveClaim' /\ CompletedIsReached'
    BY <1>h, <1>i, <2>1, ClaimsStay
  <2>3. claims[d].status = "PATCH_APPLIED"
    BY <1>i, <1>1, <1>e DEF LockInv, Retry
  <2>4. LockInv'
    BY <1>i, <1>a, <1>e, <1>h, <2>1, <2>3, LockStep DEF Step
  <2>5. \A k \in Thread : job'[k] = IF k = h THEN At("moved", d) ELSE job[k]
    BY <1>a, <1>g, <2>1 DEF Step
  <2>6. \A k \in Thread : job'[k].at = "moved" => job'[k].of \in reached'
    BY <1>a, <1>i, <2>1, <2>5 DEF MovedInv, Step
  <2>7. MovedInv'
    BY <1>h, <1>i, <2>1, <2>6, MovedStep
  <2> QED BY <2>2, <2>4, <2>7 DEF IInv
<1>2. CASE RetryRaises(h)
  <2>1. Goto(h, At("failed", d)) /\ UNCHANGED <<ticket, reached>> /\ (Refuse(d) \/ UNCHANGED failure)
    BY <1>2, <1>e DEF RetryRaises
  <2>2. OneActiveClaim' /\ CompletedIsReached'
    BY <1>h, <1>i, <2>1, ClaimsStay
  <2>3. claims[d].status = "PATCH_APPLIED"
    BY <1>i, <1>2, <1>e DEF LockInv, RetryRaises
  <2>4. LockInv'
    BY <1>i, <1>a, <1>e, <1>h, <2>1, <2>3, LockStep DEF Step
  <2>5. \A k \in Thread : job'[k] = IF k = h THEN At("failed", d) ELSE job[k]
    BY <1>a, <1>g, <2>1 DEF Step
  <2>6. \A k \in Thread : job'[k].at = "moved" => job'[k].of \in reached'
    BY <1>a, <1>i, <2>1, <2>5 DEF MovedInv, Step
  <2>7. MovedInv'
    BY <1>h, <1>i, <2>1, <2>6, MovedStep
  <2> QED BY <2>2, <2>4, <2>7 DEF IInv
<1>3. CASE Retire(h)
  <2> DEFINE j == [at |-> "lift", of |-> d, owns |-> Mine(d)]
  <2>1. /\ Goto(h, j) /\ UNCHANGED <<ticket, reached>>
        /\ failure' = [failure EXCEPT ![d] = NoFailure]
    BY <1>3, <1>e DEF Retire, Goto
  <2>2. j \in Job /\ j.at = "lift" /\ j.of = d
    BY <1>h DEF Job, Step, Mine
  <2> HIDE DEF j
  <2>3. OneActiveClaim' /\ CompletedIsReached'
    BY <1>h, <1>i, <2>1, ClaimsStay
  <2>4. claims[d].status = "COMPLETED"
    BY <1>i, <1>3, <1>e DEF LockInv, Retire
  <2>5. LockInv'
    BY <1>i, <1>e, <1>h, <2>1, <2>2, <2>4, LockStep
  <2>6. \A k \in Thread : job'[k] = IF k = h THEN j ELSE job[k]
    BY <1>g, <2>1, <2>2
  <2>7. \A k \in Thread : job'[k].at = "moved" => job'[k].of \in reached'
    BY <1>i, <2>1, <2>2, <2>6 DEF MovedInv
  <2>8. MovedInv'
    BY <1>h, <1>i, <2>1, <2>7, MovedStep
  <2> QED BY <2>3, <2>5, <2>8 DEF IInv
<1> QED BY <1>1, <1>2, <1>3

\* The patch reaches the ticket: its state stays, so the moves made stay made.
LEMMA AppliedStep ==
  ASSUME IInv, TypeOK', NEW h \in Thread, NEW d \in Dest, NEW keys, NEW filled,
         ResultApplied(h, d, keys, filled)
  PROVE  IInv'
<1>i. TypeOK /\ LockInv /\ MovedInv /\ OneActiveClaim /\ CompletedIsReached
  BY DEF IInv
<1>1. /\ ~Locked(d) /\ claims[d].status = "RUNNING" /\ Goto(h, At("applied", d))
      /\ UNCHANGED <<failure, claims, reached>> /\ ticket'.state = "source"
  BY DEF ResultApplied, Handling
<1>2. At("applied", d) \in Job /\ At("applied", d).at = "applied" /\ At("applied", d).of = d
  BY AtType DEF At, Step
<1>3. OneActiveClaim' /\ CompletedIsReached'
  BY <1>i, <1>1, ClaimsStay
<1>4. LockInv'
  BY <1>i, <1>1, <1>2, LockStep
<1>5. \A k \in Thread : job'[k] = IF k = h THEN At("applied", d) ELSE job[k]
  BY <1>i, <1>1 DEF TypeOK, Goto
<1>6. \A k \in Thread : job'[k].at = "moved" => job'[k].of \in reached'
  BY <1>i, <1>1, <1>2, <1>5 DEF MovedInv
<1>7. MovedInv'
  BY <1>i, <1>1, <1>6, MovedStep
<1> QED BY <1>3, <1>4, <1>7 DEF IInv

\* The completion and the reconciler enter the lock where they know the status.
LEMMA EnterStep ==
  ASSUME IInv, TypeOK', NEW h \in Thread, Complete(h) \/ Reconcile(h)
  PROVE  IInv'
<1>i. TypeOK /\ LockInv /\ MovedInv /\ OneActiveClaim /\ CompletedIsReached
  BY DEF IInv
<1> DEFINE d == job[h].of
<1>h. d \in Dest /\ ~Locked(d) /\ UNCHANGED <<ticket, failure, reached>>
  BY <1>i DEF LockInv, Complete, Reconcile
<1>e. job[h].of = d
  OBVIOUS
<1> HIDE DEF d
<1>a. \A s \in Step : At(s, d) \in Job /\ At(s, d).at = s /\ At(s, d).of = d
  BY <1>h, AtType DEF At
<1>b. Idle \in Job /\ Idle.at = "idle"
  BY DEF Idle, Job
<1> DEFINE Set(j) == /\ OneActiveClaim' /\ CompletedIsReached' /\ Goto(h, j)
                     /\ \A x \in Dest : x # d => claims'[x].status = claims[x].status
<1>1. ASSUME Set(Idle) PROVE IInv'
  <2>1. LockInv'
    BY <1>i, <1>b, <1>h, <1>1, LockStep
  <2> QED BY <1>b, <1>h, <1>1, <2>1, QuietStep
<1>2. ASSUME Set(At("escalate", d)) PROVE IInv'
  <2>1. LockInv'
    BY <1>i, <1>a, <1>h, <1>2, LockStep DEF Step
  <2> QED BY <1>a, <1>h, <1>2, <2>1, QuietStep DEF Step
<1>3. ASSUME Goto(h, AfterPatch(d)), UNCHANGED claims, claims[d].status = "PATCH_APPLIED" PROVE IInv'
  <2>1. PICK s \in {"retry", "moved", "escalate"} :
          AfterPatch(d) = At(s, d) /\ (s = "moved" => ticket.state = d)
    BY DEF AfterPatch
  <2>2. OneActiveClaim' /\ CompletedIsReached'
    BY <1>h, <1>i, <1>3, ClaimsStay
  <2>3. LockInv'
    BY <1>i, <1>a, <1>h, <1>3, <2>1, LockStep DEF Step
  <2>4. s = "moved" => d \in reached
    BY <1>h, <1>i, <2>1 DEF MovedInv
  <2> QED BY <1>a, <1>h, <1>3, <2>1, <2>2, <2>3, <2>4, QuietStep DEF Step
<1>4. CASE Goto(h, Idle) /\ UNCHANGED claims
  BY <1>h, <1>i, <1>1, <1>4, ClaimsStay
<1>5. CASE Complete(h)
  BY <1>3, <1>4, <1>5, <1>e DEF Complete
<1>6. ASSUME claims[d].status = "RUNNING", ReconcileRunning(h, d) PROVE IInv'
  <2>1. CASE SetStatus(d, "RUNNING", "PATCH_APPLIED") /\ Goto(h, Idle)
    BY <1>h, <1>i, <1>1, <2>1, SetStatusStep DEF RepairAttemptStatus
  <2>2. CASE Reexecute(h, d, "escalate")
    BY <1>h, <1>i, <1>1, <1>2, <1>6, <2>2, ReexecuteStep
  <2>3. CASE UNCHANGED claims /\ Goto(h, At("escalate", d))
    BY <1>h, <1>i, <1>2, <2>3, ClaimsStay
  <2> QED BY <1>6, <2>1, <2>2, <2>3 DEF ReconcileRunning
<1>7. CASE Reconcile(h)
  BY <1>3, <1>4, <1>6, <1>7, <1>e DEF Reconcile
<1> QED BY <1>5, <1>7

LEMMA IInvStep == IInv /\ [Next]_vars => IInv'
<1> SUFFICES ASSUME IInv, [Next]_vars PROVE IInv'
  OBVIOUS
<1>t. TypeOK'
  BY TypeStep DEF IInv
<1>1. CASE Services \/ Claiming
  BY <1>t, <1>1, OutsideStep
<1>2. ASSUME NEW h \in Thread, Work(h) PROVE IInv'
  BY <1>t, <1>2, HandleStep, HeldStep, RetryStep, AppliedStep, EnterStep DEF Work
<1>3. CASE Crash
  <2>1. /\ \A h \in Thread : job'[h] = Idle
        /\ UNCHANGED <<ticket, failure, claims, reached>>
    BY <1>3 DEF Crash
  <2>2. \A h \in Thread : job'[h].at = "idle"
    BY <2>1 DEF Idle
  <2>3. LockInv'
    BY <2>2 DEF LockInv, Holds
  <2>4. MovedInv'
    BY <2>1, <2>2, <1>t, MovedStep DEF IInv
  <2>5. OneActiveClaim' /\ CompletedIsReached'
    BY <2>1, ClaimsStay DEF IInv
  <2> QED BY <1>t, <2>3, <2>4, <2>5 DEF IInv
<1>4. CASE UNCHANGED vars
  BY <1>4 DEF vars, IInv, TypeOK, LockInv, MovedInv, OneActiveClaim, CompletedIsReached, Active, Holds
<1> QED BY <1>1, <1>2, <1>3, <1>4 DEF Next

\* No two repairs of one ticket are active at a time, whatever the results, the
\* reconcilers and the crashes do to the claims (OneActiveClaim).
THEOREM OneRepairAtATime == Spec => []OneActiveClaim
<1>1. IInv => OneActiveClaim
  BY DEF IInv
<1> QED BY <1>1, InitIInv, IInvStep, PTL DEF Spec

\* A claim closed as COMPLETED has had its move made since it was claimed, by
\* the handler or by another service (CompletedIsReached).
THEOREM CompletionIsEarned == Spec => []CompletedIsReached
<1>1. IInv => CompletedIsReached
  BY DEF IInv
<1> QED BY <1>1, InitIInv, IInvStep, PTL DEF Spec

-----------------------------------------------------------------------------
(* The claims implement the abstract record *)

\* A step that changes one claim changes one entry of the record.
LEMMA RecordOf ==
  ASSUME TypeOK, NEW d \in Dest, NEW s, NEW n, NEW c \in RepairAttempt, c.status = s, c.attempt = n,
         claims' = [claims EXCEPT ![d] = c]
  PROVE  /\ [x \in Dest |-> claims'[x].status] = [[x \in Dest |-> claims[x].status] EXCEPT ![d] = s]
         /\ [x \in Dest |-> claims'[x].attempt] = [[x \in Dest |-> claims[x].attempt] EXCEPT ![d] = n]
BY DEF TypeOK

\* The four ways in which a claim's status is set.
LEMMA SetStatusKeeps ==
  ASSUME TypeOK, NEW d \in Dest, NEW old, NEW s, SetStatus(d, old, s),
         \/ old = "CLAIMED" /\ s = "RUNNING"
         \/ old = "RUNNING" /\ s \in {"PATCH_APPLIED", "FAILED"}
         \/ old = "PATCH_APPLIED" /\ s \in {"COMPLETED", "FAILED"}
  PROVE  Record!Start(d) \/ Record!Patch(d) \/ Record!Close(d)
<1>1. claims[d] \in RepairAttempt /\ claims[d].attempt \in Nat
  BY DEF TypeOK, RepairAttempt
<1>2. With(claims[d], s, claims[d].attempt) \in RepairAttempt
  BY <1>1, WithType DEF RepairAttemptStatus
<1>3. /\ With(claims[d], s, claims[d].attempt).status = s
      /\ With(claims[d], s, claims[d].attempt).attempt = claims[d].attempt
  BY DEF With
<1>4. claims' = [claims EXCEPT ![d] = With(claims[d], s, claims[d].attempt)] /\ claims[d].status = old
  BY DEF SetStatus
<1>5. /\ [x \in Dest |-> claims'[x].status] = [[x \in Dest |-> claims[x].status] EXCEPT ![d] = s]
      /\ [x \in Dest |-> claims'[x].attempt]
           = [[x \in Dest |-> claims[x].attempt] EXCEPT ![d] = claims[d].attempt]
  BY <1>2, <1>3, <1>4, RecordOf
<1>6. [x \in Dest |-> claims'[x].attempt] = [x \in Dest |-> claims[x].attempt]
  BY <1>5
<1> QED BY <1>4, <1>5, <1>6 DEF Record!Start, Record!Patch, Record!Close, Record!Become

\* A running claim that is tried again is handed out once more, or closed.
LEMMA ReexecuteKeeps ==
  ASSUME TypeOK, NEW h \in Thread, NEW d \in Dest, NEW end, Reexecute(h, d, end),
         claims[d].status = "RUNNING"
  PROVE  Record!Again(d) \/ Record!Close(d)
<1>1. claims[d] \in RepairAttempt /\ claims[d].attempt \in Nat /\ claims[d].attempt + 1 \in Nat
  BY DEF TypeOK, RepairAttempt
<1>2. CASE claims[d].attempt + 1 < MAX_REPAIR_EXECUTIONS
  <2> DEFINE c == With(claims[d], "CLAIMED", claims[d].attempt + 1)
  <2>1. c \in RepairAttempt /\ c.status = "CLAIMED" /\ c.attempt = claims[d].attempt + 1
    BY <1>1, WithType DEF With, RepairAttemptStatus
  <2>2. claims' = [claims EXCEPT ![d] = c]
    BY <1>2 DEF Reexecute
  <2>3. /\ [x \in Dest |-> claims'[x].status] = [[x \in Dest |-> claims[x].status] EXCEPT ![d] = "CLAIMED"]
        /\ [x \in Dest |-> claims'[x].attempt]
             = [[x \in Dest |-> claims[x].attempt] EXCEPT ![d] = claims[d].attempt + 1]
    BY <2>1, <2>2, RecordOf
  <2> QED BY <1>2, <2>3 DEF Record!Again, Record!Become
<1>3. CASE ~(claims[d].attempt + 1 < MAX_REPAIR_EXECUTIONS)
  <2>1. SetStatus(d, "RUNNING", "FAILED")
    BY <1>3 DEF Reexecute, SetStatus
  <2>2. Record!Start(d) \/ Record!Patch(d) \/ Record!Close(d)
    BY <2>1, SetStatusKeeps
  <2>3. [x \in Dest |-> claims'[x].status][d] = "FAILED"
    BY <1>1, <2>1 DEF SetStatus, With, TypeOK
  <2>4. ~Record!Start(d) /\ ~Record!Patch(d)
    BY <2>3 DEF Record!Start, Record!Patch, Record!Become
  <2> QED BY <2>2, <2>4
<1> QED BY <1>2, <1>3

\* A claim starts an entry when no other claim of the ticket is active.
LEMMA ClaimKeeps ==
  ASSUME TypeOK, NEW d \in Dest, Claim(d)
  PROVE  Record!Claim(d)
<1> DEFINE c == [status |-> "CLAIMED", attempt |-> 1, version |-> ticket.version,
                 allowed |-> AllowedFields(d), expected |-> ticket.has \cap AllowedFields(d)]
<1>1. AllowedFields(d) \subseteq Field /\ ticket.version \in Nat
  BY DEF AllowedFields, TypeOK, Failure, Ticket
<1>2. c \in RepairAttempt /\ c.status = "CLAIMED" /\ c.attempt = 1
  BY <1>1 DEF RepairAttempt, RepairAttemptStatus
<1>3. claims' = [claims EXCEPT ![d] = c] /\ claims[d].status = "none" /\ NoActiveClaim
  BY DEF Claim, NoClaim
<1> HIDE DEF c
<1>4. /\ [x \in Dest |-> claims'[x].status] = [[x \in Dest |-> claims[x].status] EXCEPT ![d] = "CLAIMED"]
      /\ [x \in Dest |-> claims'[x].attempt] = [[x \in Dest |-> claims[x].attempt] EXCEPT ![d] = 1]
  BY <1>2, <1>3, RecordOf
<1>5. \A x \in Dest : ~Record!Active(x)
  BY <1>3 DEF NoActiveClaim, Active, ACTIVE_REPAIR_STATUSES, Record!Active
<1> QED BY <1>3, <1>4, <1>5 DEF Record!Claim, Record!Become

LEMMA RecordInit == Init => Record!Init
BY DEF Init, NoClaim, Record!Init

LEMMA RecordStep ==
  IInv /\ [Next]_vars
    => [Record!Next]_<<[d \in Dest |-> claims[d].status], [d \in Dest |-> claims[d].attempt]>>
<1> SUFFICES ASSUME IInv, [Next]_vars, claims' # claims PROVE Record!Next
  OBVIOUS
<1>t. TypeOK /\ LockInv
  BY DEF IInv
<1>s. ASSUME NEW d \in Dest, Record!Start(d) \/ Record!Patch(d) \/ Record!Close(d) \/ Record!Again(d)
      PROVE  Record!Next
  BY <1>s DEF Record!Next
<1>1. ASSUME NEW d \in Dest, Claim(d) PROVE Record!Next
  BY <1>t, <1>1, ClaimKeeps DEF Record!Next
<1>2. ASSUME NEW d \in Dest, Start(d) PROVE Record!Next
  <2>1. SetStatus(d, "CLAIMED", "RUNNING")
    BY <1>2 DEF Start
  <2> QED BY <1>s, <1>t, <2>1, SetStatusKeeps
<1>3. ASSUME NEW h \in Thread, NEW d \in Dest, ResultOutdated(h, d) PROVE Record!Next
  <2>1. SetStatus(d, "RUNNING", "FAILED")
    BY <1>3 DEF ResultOutdated
  <2> QED BY <1>s, <1>t, <2>1, SetStatusKeeps
<1>4. ASSUME NEW h \in Thread, NEW d \in Dest, ResultRejected(h, d) PROVE Record!Next
  BY <1>s, <1>t, <1>4, ReexecuteKeeps DEF ResultRejected, Handling
<1>5. ASSUME NEW h \in Thread, JudgeRefusal(h) PROVE Record!Next
  <2>1. job[h].of \in Dest /\ claims[job[h].of].status = "RUNNING"
    BY <1>t, <1>5 DEF LockInv, JudgeRefusal
  <2>2. SetStatus(job[h].of, "RUNNING", "FAILED") \/ Reexecute(h, job[h].of, "withdraw")
    BY <1>5 DEF JudgeRefusal
  <2> QED BY <1>s, <1>t, <2>1, <2>2, SetStatusKeeps, ReexecuteKeeps
<1>6. ASSUME NEW h \in Thread, MarkApplied(h) PROVE Record!Next
  <2>1. job[h].of \in Dest /\ SetStatus(job[h].of, "RUNNING", "PATCH_APPLIED")
    BY <1>t, <1>6 DEF LockInv, MarkApplied
  <2> QED BY <1>s, <1>t, <2>1, SetStatusKeeps
<1>7. ASSUME NEW h \in Thread, MarkFailed(h) PROVE Record!Next
  <2>1. job[h].of \in Dest /\ SetStatus(job[h].of, "PATCH_APPLIED", "FAILED")
    BY <1>t, <1>7 DEF LockInv, MarkFailed
  <2> QED BY <1>s, <1>t, <2>1, SetStatusKeeps
<1>8. ASSUME NEW h \in Thread, MarkCompleted(h) PROVE Record!Next
  <2>1. job[h].of \in Dest /\ SetStatus(job[h].of, "PATCH_APPLIED", "COMPLETED")
    BY <1>t, <1>8 DEF LockInv, MarkCompleted
  <2> QED BY <1>s, <1>t, <2>1, SetStatusKeeps
<1>9. ASSUME NEW h \in Thread, Reconcile(h) PROVE Record!Next
  <2>1. job[h].of \in Dest /\ claims[job[h].of].status = "RUNNING" /\ ReconcileRunning(h, job[h].of)
    BY <1>t, <1>9 DEF LockInv, Reconcile
  <2>2. \/ SetStatus(job[h].of, "RUNNING", "PATCH_APPLIED")
        \/ Reexecute(h, job[h].of, "escalate")
    BY <2>1 DEF ReconcileRunning
  <2> QED BY <1>s, <1>t, <2>1, <2>2, SetStatusKeeps, ReexecuteKeeps
<1>a. CASE Services \/ Crash \/ UNCHANGED vars
  BY <1>a DEF Services, Move, MoveRefused, MoveOn, Edit, Crash, vars
<1>b. CASE Claiming
  BY <1>1, <1>2, <1>b DEF Claiming, Exhausted, Propose
<1>c. ASSUME NEW h \in Thread, Work(h) PROVE Record!Next
  BY <1>3, <1>4, <1>5, <1>6, <1>7, <1>8, <1>9, <1>c
     DEF Work, ResultApplied, ResultRefused, Scan, Complete, Retry, RetryRaises, Retire, Lift, Escalate
<1> QED BY <1>a, <1>b, <1>c DEF Next

\* Whatever results, reconcilers and crashes do to its file, a claim is made once,
\* while no other is active, is executed within MAX_REPAIR_EXECUTIONS, is patched
\* only while it runs, and is never reopened once COMPLETED or FAILED.
THEOREM ClaimsKeepTheRecord == Spec => KeepsTheRecord
BY RecordInit, InitIInv, IInvStep, RecordStep, PTL DEF Spec, KeepsTheRecord, Record!Spec
=============================================================================
