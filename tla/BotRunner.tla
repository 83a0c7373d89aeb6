------------------------------ MODULE BotRunner ------------------------------
(***************************************************************************)
(* run_bot of codebot/api_runner.py with its loop: BotRun, where the work  *)
(* of one bot, Followed, is AgentLoop turn by turn.  The loop's variables  *)
(* are locals of that process.                                             *)
(***************************************************************************)
EXTENDS AgentLoop, BotRun

CONSTANT Followed

ASSUME FollowedAssumption == Followed \in Hunter

runnerVars == <<vars, loopVars>>

RunnerInit == Init /\ LoopInit

\* What run_bot and its finally block see of the loop's end: tickets_created is known where
\* the loop returned.
Result ==
  [kind |-> IF reason \in {"completed", "iteration_limit", "rate_limited_yield"} THEN reason
            ELSE IF reason \in {"timeout", "connection_error"} THEN "interrupted"
            ELSE "failed",
   code |-> code, made |-> made, known |-> reason \in Returned /\ made]

\* LoopInit, of the next process.
Forget ==
  /\ retries' = 0 /\ timeouts' = 0 /\ hops' = 0 /\ used' = FALSE /\ failed' = 0
  /\ quarters' = 0 /\ nudges' = 0 /\ made' = FALSE
  /\ reason' = "unknown" /\ code' = 1

LoopStep == pc[Followed] = "work" /\ LoopNext /\ UNCHANGED vars

LoopEnded == ~Running /\ Ended(Followed, Result) /\ Forget

\* Every other step leaves the loop alone, or ends it together with its process or by SIGTERM.
LoopIsLeft ==
  IF pc[Followed] = "work" /\ pc'[Followed] # "work"
  THEN Forget /\ (pc'[Followed] = "leave" => end'[Followed].made = made)
  ELSE UNCHANGED loopVars

Process(b) ==
  \/ b = Followed /\ (LoopStep \/ LoopEnded)
  \/ b # Followed /\ Work(b) /\ UNCHANGED loopVars
  \/ Around(b) /\ UNCHANGED loopVars

RunnerNext ==
  \/ \E b \in Bot : Process(b) \/ (Outside(b) /\ LoopIsLeft)
  \/ OrchestratorCrash /\ UNCHANGED loopVars

RunnerSpec == RunnerInit /\ [][RunnerNext]_runnerVars

\* A process runs on: a call of the API ends, by its deadline if not before, and so does
\* a tool.
Fairness == \A b \in Bot : WF_runnerVars(Process(b))

\* The loop ends in none but the ways the rest of the process takes it to end in.
ImplementsBotRun == Spec
=============================================================================
