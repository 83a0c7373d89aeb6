--------------------------- MODULE LifecycleTable ---------------------------
(***************************************************************************)
(* The lifecycle of a ticket as data: the legal moves (ticket_engine.py,   *)
(* TRANSITIONS) and what a ticket must carry to make each of them          *)
(* (context_contracts.py, CONTRACTS and TRANSITION_VALIDATORS).            *)
(***************************************************************************)

State == {"DISCOVERED", "REQUESTED", "TRIAGED", "GOAL", "DECOMP", "PLANNING", "IMPLEMENT",
          "REVIEW", "VERIFY", "COMPLETE", "REWORK", "DEFERRED", "LATER", "NEVER", "DUPLICATE",
          "REJECTED", "NOT_ACTIONABLE", "RESOLVED", "SUPERSEDED", "CANCELLED", "BLOCKED"}

UNIVERSAL_EXITS == {"RESOLVED", "SUPERSEDED", "CANCELLED"}

\* The states entering which deletes all of a ticket's gate failures.
Swept == UNIVERSAL_EXITS \cup {"COMPLETE", "REJECTED"}

\* The legal moves out of a state, the universal exits apart.
TRANSITIONS == [s \in State |->
  CASE s = "DISCOVERED" -> {"TRIAGED", "REJECTED", "DUPLICATE"}
    [] s = "REQUESTED" -> {"COMPLETE", "REJECTED", "DEFERRED"}
    [] s \in {"TRIAGED", "GOAL"} -> {"DECOMP", "LATER", "NEVER"}
    [] s = "DECOMP" -> {"PLANNING", "BLOCKED"}
    [] s = "PLANNING" -> {"IMPLEMENT", "BLOCKED"}
    [] s = "IMPLEMENT" -> {"REVIEW", "REWORK"}
    [] s = "REVIEW" -> {"VERIFY", "REWORK", "BLOCKED"}
    [] s = "REWORK" -> {"IMPLEMENT"}
    [] s = "LATER" -> {"GOAL"}
    [] s = "DEFERRED" -> {"DECOMP", "IMPLEMENT", "BLOCKED", "REQUESTED"}
    [] s = "VERIFY" -> {"COMPLETE", "REWORK", "BLOCKED"}
    [] s = "BLOCKED" -> {"DECOMP", "PLANNING", "DEFERRED"}
    [] OTHER -> {}]

\* The terminal sinks named at the head of CONTRACTS: no move of the table leaves them.
Closed == Swept \cup {"DUPLICATE", "NOT_ACTIONABLE", "NEVER"}

\* The fields contracts ask for; "attempts" and "rework_count" are present when
\* positive, "goal_disposition" has a value of its own.
Field == {"evidence", "fingerprint", "problem_statement", "ticket_class", "severity",
          "goal_reason", "goal_disposition", "affected_modules", "acceptance_criteria",
          "desired_state", "attempts", "reviewer_feedback", "commit_sha", "rework_count",
          "origin_id", "superseded_by"}

Disposition == {"NOW", "LATER", "NEVER"}

\* resolve_contract: what the move from one state to another asks for.  Every
\* move of TRANSITIONS has a contract, and so has every universal exit.
Contract(src, dst) ==
  CASE dst \in {"RESOLVED", "CANCELLED"} -> {}
    [] dst = "SUPERSEDED" -> {"superseded_by"}
    [] dst = "TRIAGED" -> {"evidence", "problem_statement"}
    [] dst = "DUPLICATE" -> {"evidence", "fingerprint"}
    [] dst = "REJECTED" -> IF src = "DISCOVERED" THEN {"evidence"} ELSE {"origin_id"}
    [] dst = "COMPLETE" -> IF src = "VERIFY" THEN {"commit_sha"} ELSE {"origin_id"}
    [] dst \in {"DEFERRED", "REQUESTED"} -> {"origin_id"}
    [] dst = "GOAL" -> {"goal_disposition"}
    [] dst \in {"LATER", "NEVER"} ->
         IF src = "GOAL" THEN {"goal_disposition", "goal_reason"}
                         ELSE {"problem_statement", "goal_reason"}
    [] dst = "DECOMP" ->
         CASE src = "TRIAGED" -> {"problem_statement", "ticket_class", "severity"}
           [] src = "GOAL" -> {"goal_disposition", "problem_statement"}
           [] OTHER -> {"problem_statement"}
    [] dst = "PLANNING" ->
         IF src = "DECOMP" THEN {"affected_modules", "problem_statement", "acceptance_criteria"}
                           ELSE {"desired_state", "acceptance_criteria"}
    [] dst = "IMPLEMENT" ->
         CASE src = "PLANNING" -> {"desired_state", "acceptance_criteria", "affected_modules"}
           [] src = "REWORK" -> {"reviewer_feedback", "rework_count"}
           [] OTHER -> {"desired_state", "acceptance_criteria"}
    [] dst = "REVIEW" -> {"attempts"}
    [] dst \in {"VERIFY", "REWORK"} -> {"reviewer_feedback"}
    [] dst = "BLOCKED" -> IF src = "REVIEW" THEN {"reviewer_feedback"} ELSE {"problem_statement"}
    [] OTHER -> {}

\* TRANSITION_VALIDATORS: the values of goal_disposition ("" is none) a move admits.
Admits(src, dst, goal) ==
  CASE src = "GOAL" /\ dst = "DECOMP" -> goal = "NOW"
    [] src = "GOAL" /\ dst \in {"LATER", "NEVER"} -> goal = dst
    [] src = "TRIAGED" /\ dst \in {"LATER", "NEVER"} -> goal \in {dst, ""}
    [] OTHER -> TRUE
=============================================================================
