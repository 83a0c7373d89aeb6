------------------------------ MODULE AgentLoop ------------------------------
(***************************************************************************)
(* The two loops of a bot in codebot/api_runner.py: run_agent_loop asks the *)
(* model and executes the tools it calls for until the model answers with  *)
(* text or a bound is reached; run_bot's _model_responder retries a call   *)
(* that fails and changes the model.  The messages and what the tools do   *)
(* are left out.                                                           *)
(***************************************************************************)
EXTENDS Integers

CONSTANTS
  Chain,        \* the length of the fallback chain
  HasFallback,  \* whether there is a fallback_model (it is in the chain, too)
  MaxQuarters,  \* 4 * MAX_TOOL_ITERATIONS: tools that only read cost a quarter
  MaxNudges,    \* 2
  MaxRetries, MaxTimeouts, Max429

ASSUME AgentLoopAssumption ==
  /\ Chain \in Nat /\ HasFallback \in BOOLEAN
  /\ MaxQuarters \in Nat /\ MaxNudges \in Nat
  /\ MaxRetries \in Nat /\ MaxTimeouts \in Nat /\ Max429 \in Nat
  /\ MaxRetries <= Max429

VARIABLES
  retries, timeouts,  \* total_retries, timeout_retries: of all failures, of these
  hops, used,         \* _fallback_idx, used_fallback: two ways to change the model
  failed,             \* the calls that failed so far
  quarters, nudges,   \* run_agent_loop: iterations, continue_nudges
  made,               \* whether create_ticket succeeded
  reason,             \* exit_reason, "unknown" until then
  code                \* that of sys.exit

loopVars == <<retries, timeouts, hops, used, failed, quarters, nudges, made, reason, code>>
model == <<hops, used>>
counters == <<retries, timeouts, model, failed>>
turns == <<quarters, nudges, made>>
exit == <<reason, code>>

\* The reasons of a loop that returned its result, and those of sys.exit in the responder.
Returned == {"completed", "iteration_limit", "no_content", "error"}
Exited == {"rate_limited_yield", "http_error", "connection_error", "timeout",
           "unexpected_error"}

LoopInit ==
  /\ retries = 0 /\ timeouts = 0 /\ hops = 0 /\ used = FALSE /\ failed = 0
  /\ quarters = 0 /\ nudges = 0 /\ made = FALSE
  /\ reason = "unknown" /\ code = 1

Running == reason = "unknown"
Turn == Running /\ quarters < MaxQuarters

End(why, c) == reason' = why /\ code' = c

----------------------------------------------------------------------------
(* A call of the model that fails.                                          *)

Retry ==
  /\ retries' = retries + 1
  /\ UNCHANGED <<model, exit>>

\* Another model: the retries start again.
Switch ==
  /\ retries' = 0 /\ timeouts' = 0
  /\ UNCHANGED exit

GiveUp(why, c) ==
  /\ End(why, c)
  /\ UNCHANGED <<retries, timeouts, model>>

\* Mutant: used_fallback is not set.
FallBackAgainOr(why) ==
  \/ HasFallback /\ ~used /\ Switch /\ UNCHANGED <<hops, used>>
  \/ ~(HasFallback /\ ~used) /\ GiveUp(why, 1)

\* What all failures but an HTTP error end with: the fallback model, once.
FallBackOr(why) ==
  \/ HasFallback /\ ~used /\ used' = TRUE /\ Switch /\ UNCHANGED hops
  \/ ~(HasFallback /\ ~used) /\ GiveUp(why, 1)

\* Mutant: no more patience than with other failures.
LimitedLikeOthers ==
  \/ retries < MaxRetries /\ Retry /\ UNCHANGED timeouts
  \/ retries >= MaxRetries /\ GiveUp("rate_limited_yield", 3)

\* Mutant: the slot is not given back but the run failed.
LimitedFails ==
  \/ retries < Max429 /\ Retry /\ UNCHANGED timeouts
  \/ retries >= Max429 /\ GiveUp("rate_limited_yield", 1)

\* HTTP 429: retried with more patience than other failures, on the same counter.
Limited ==
  \/ retries < Max429 /\ Retry /\ UNCHANGED timeouts
  \/ retries >= Max429 /\ GiveUp("rate_limited_yield", 3)

\* Another HTTP error: the next model of the chain.
HttpError ==
  \/ hops < Chain /\ hops' = hops + 1 /\ Switch /\ UNCHANGED used
  \/ hops >= Chain /\ GiveUp("http_error", 1)

NoAnswer(why) ==
  LET again == retries < MaxRetries /\ timeouts < MaxTimeouts
  IN \/ again /\ Retry /\ timeouts' = timeouts + 1
     \/ ~again /\ FallBackOr(why)

Unexpected ==
  \/ retries < MaxRetries /\ Retry /\ UNCHANGED timeouts
  \/ retries >= MaxRetries /\ FallBackOr("unexpected_error")

CallFails ==
  /\ Turn
  /\ failed' = failed + 1
  /\ Limited \/ HttpError \/ NoAnswer("connection_error") \/ NoAnswer("timeout") \/ Unexpected
  /\ UNCHANGED turns

----------------------------------------------------------------------------
(* A turn of the agent loop.  A call that succeeds resets no counter.       *)

\* Mutant: tools that only read cost nothing.
ToolsForFree ==
  /\ Turn
  /\ \/ UNCHANGED <<quarters, made>>
     \/ quarters' = quarters + 4 /\ made' \in {made, TRUE}
  /\ nudges' = 0
  /\ UNCHANGED <<counters, exit>>

\* Tools that only read run in parallel; a batch with another tool costs a whole iteration.
Tools ==
  /\ Turn
  /\ \/ quarters' = quarters + 1 /\ UNCHANGED made
     \/ quarters' = quarters + 4 /\ made' \in {made, TRUE}
  /\ nudges' = 0
  /\ UNCHANGED <<counters, exit>>

\* An empty answer, or an exception out of the responder (record_rate_limit may raise
\* where it handles a 429): "continue" is asked for, a few times in a row.
Nudge ==
  /\ Turn
  /\ \/ nudges < MaxNudges /\ nudges' = nudges + 1 /\ UNCHANGED exit
     \/ /\ nudges >= MaxNudges /\ UNCHANGED nudges
        /\ End("no_content", 1) \/ End("error", 1)
  /\ UNCHANGED <<counters, quarters, made>>

Answer ==
  /\ Turn
  /\ End("completed", 0)
  /\ UNCHANGED <<counters, turns>>

OutOfTurns ==
  /\ Running /\ quarters >= MaxQuarters
  /\ End("iteration_limit", 1)
  /\ UNCHANGED <<counters, turns>>

LoopNext == CallFails \/ Tools \/ Nudge \/ Answer \/ OutOfTurns

LoopSpec == LoopInit /\ [][LoopNext]_loopVars

----------------------------------------------------------------------------
LoopTypeOK ==
  /\ retries \in 0..Max429 /\ timeouts \in 0..MaxTimeouts
  /\ hops \in 0..Chain /\ used \in BOOLEAN /\ failed \in Nat
  /\ quarters \in 0..(MaxQuarters + 3) /\ nudges \in 0..MaxNudges /\ made \in BOOLEAN
  /\ reason \in Returned \cup Exited \cup {"unknown"} /\ code \in {0, 1, 3}

\* The calls a run makes in vain are bounded, although two mechanisms change the model and
\* each gives the retries back: one count serves all failures and no success resets it.
FailuresAreBounded == failed <= (Chain + 2) * (Max429 + 1)

\* A bot gives its slot back for a rate limit only when its patience for one is used up,
\* and reports another failure only when no model is left to change to.
GivesUpLate ==
  /\ reason = "rate_limited_yield" => retries = Max429
  /\ reason = "http_error" => hops = Chain
  /\ reason \in {"timeout", "connection_error", "unexpected_error"} /\ HasFallback => used
=============================================================================
