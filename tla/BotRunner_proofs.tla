--------------------------- MODULE BotRunner_proofs ---------------------------
(* Proofs about AgentLoop, BotRun and BotRunner. *)
EXTENDS BotRunner, TLAPS

------------------------------------------------------------------------------
(* The loop.                                                                  *)

Switched == hops + (IF used THEN 1 ELSE 0)

\* Between two changes of the model at most Max429 + 1 calls fail: each of them but the
\* last counts as a retry.
FailuresCounted ==
  failed <= Switched * (Max429 + 1) + retries + (IF Running THEN 0 ELSE 1)

CodesMatch ==
  /\ reason = "completed" => code = 0
  /\ reason = "rate_limited_yield" => code = 3
  /\ reason \notin {"unknown", "completed", "rate_limited_yield"} => code = 1

LoopInv == LoopTypeOK /\ FailuresCounted /\ GivesUpLate /\ CodesMatch

\* A change of the model gives room for another Max429 + 1 failures.
LEMMA OneMoreModel ==
  ASSUME NEW n \in Nat, NEW k \in Nat
  PROVE  (n + 1) * (k + 1) = n * (k + 1) + k + 1
OBVIOUS

LEMMA MoreModelsMoreRoom ==
  ASSUME NEW n \in Nat, NEW m \in Nat, NEW k \in Nat, n <= m
  PROVE  n * k <= m * k
OBVIOUS

LEMMA LoopStarts == LoopInit => LoopInv
<1> SUFFICES ASSUME LoopInit PROVE LoopInv
  OBVIOUS
<1>1. LoopTypeOK
  <2>1. used \in BOOLEAN /\ made \in BOOLEAN
    BY DEF LoopInit
  <2>2. retries \in 0..Max429 /\ timeouts \in 0..MaxTimeouts /\ hops \in 0..Chain /\ failed \in Nat
    BY AgentLoopAssumption DEF LoopInit
  <2>3. quarters \in 0..(MaxQuarters + 3) /\ nudges \in 0..MaxNudges
    BY AgentLoopAssumption DEF LoopInit
  <2>4. QED
    BY <2>1, <2>2, <2>3 DEF LoopInit, LoopTypeOK
<1>2. Switched = 0 /\ 0 * (Max429 + 1) = 0
  BY AgentLoopAssumption DEF LoopInit, Switched
<1>3. FailuresCounted
  BY <1>2 DEF LoopInit, FailuresCounted, Running
<1>4. GivesUpLate /\ CodesMatch
  BY DEF LoopInit, GivesUpLate, CodesMatch
<1>5. QED
  BY <1>1, <1>3, <1>4 DEF LoopInv

LEMMA FallBackKeepsTypes ==
  ASSUME LoopTypeOK, NEW why \in Exited, FallBackOr(why)
  PROVE  /\ retries' \in 0..Max429 /\ timeouts' \in 0..MaxTimeouts
         /\ hops' = hops /\ used' \in BOOLEAN
         /\ reason' \in {reason, why} /\ code' \in {code, 1}
<1>1. CASE HasFallback /\ ~used /\ used' = TRUE /\ Switch /\ UNCHANGED hops
  BY <1>1, AgentLoopAssumption DEF LoopTypeOK, Switch, exit
<1>2. CASE ~(HasFallback /\ ~used) /\ GiveUp(why, 1)
  BY <1>2, AgentLoopAssumption DEF LoopTypeOK, GiveUp, End, model
<1>3. QED
  BY <1>1, <1>2 DEF FallBackOr

LEMMA NoAnswerKeepsTypes ==
  ASSUME LoopTypeOK, NEW why \in Exited, NoAnswer(why)
  PROVE  /\ retries' \in 0..Max429 /\ timeouts' \in 0..MaxTimeouts
         /\ hops' = hops /\ used' \in BOOLEAN
         /\ reason' \in {reason, why} /\ code' \in {code, 1}
<1>1. CASE retries < MaxRetries /\ timeouts < MaxTimeouts /\ Retry /\ timeouts' = timeouts + 1
  BY <1>1, AgentLoopAssumption DEF LoopTypeOK, Retry, model, exit
<1>2. CASE FallBackOr(why)
  BY <1>2, FallBackKeepsTypes
<1>3. QED
  BY <1>1, <1>2 DEF NoAnswer

LEMMA CallFailsKeepsTypes ==
  ASSUME LoopTypeOK, CallFails
  PROVE  LoopTypeOK'
<1> USE AgentLoopAssumption DEF LoopTypeOK, CallFails, turns, exit, model,
      Retry, Switch, GiveUp, End, Returned, Exited
<1>1. CASE Limited
  BY <1>1 DEF Limited
<1>2. CASE HttpError
  BY <1>2 DEF HttpError
<1>3. CASE NoAnswer("connection_error")
  BY <1>3, NoAnswerKeepsTypes
<1>4. CASE NoAnswer("timeout")
  BY <1>4, NoAnswerKeepsTypes
<1>5. CASE Unexpected
  <2>1. CASE retries < MaxRetries /\ Retry /\ UNCHANGED timeouts
    BY <2>1
  <2>2. CASE FallBackOr("unexpected_error")
    BY <2>2, FallBackKeepsTypes
  <2>3. QED
    BY <1>5, <2>1, <2>2 DEF Unexpected
<1>6. QED
  BY <1>1, <1>2, <1>3, <1>4, <1>5

LEMMA TurnKeepsTypes ==
  ASSUME LoopTypeOK, Tools \/ Nudge \/ Answer \/ OutOfTurns
  PROVE  LoopTypeOK'
<1> USE AgentLoopAssumption DEF LoopTypeOK, counters, turns, exit, model, Turn, Running,
      End, Returned, Exited
<1>1. CASE Tools
  <2>1. made' \in BOOLEAN
    BY <1>1 DEF Tools
  <2>2. quarters < MaxQuarters /\ quarters' \in {quarters + 1, quarters + 4}
    BY <1>1, Zenon DEF Tools
  <2>3. QED
    BY <1>1, <2>1, <2>2 DEF Tools
<1>2. CASE Nudge
  BY <1>2 DEF Nudge
<1>3. CASE Answer
  BY <1>3 DEF Answer
<1>4. CASE OutOfTurns
  BY <1>4 DEF OutOfTurns
<1>5. QED
  BY <1>1, <1>2, <1>3, <1>4

LEMMA CallFailsIsCounted ==
  ASSUME LoopTypeOK, FailuresCounted, CallFails, LoopTypeOK'
  PROVE  FailuresCounted'
<1> DEFINE K == Max429 + 1
<1>0. /\ failed' = failed + 1 /\ Running /\ failed <= Switched * K + retries
      /\ Switched \in Nat /\ retries \in 0..Max429 /\ retries' \in 0..Max429 /\ failed \in Nat
      /\ K \in Nat /\ Switched * K \in Nat
  BY AgentLoopAssumption DEF CallFails, Turn, LoopTypeOK, FailuresCounted, Switched
\* A retry, the end, or a change of the model.
<1>1. \/ Switched' = Switched /\ retries' = retries + 1
      \/ Switched' = Switched /\ retries' = retries /\ ~Running'
      \/ Switched' = Switched + 1
  <2> USE AgentLoopAssumption DEF LoopTypeOK, CallFails, Switched, Running, model,
        Retry, Switch, GiveUp, End
  <2>1. ASSUME NEW why \in Exited, FallBackOr(why)
        PROVE  \/ Switched' = Switched /\ retries' = retries /\ ~Running'
               \/ Switched' = Switched + 1
    <3>1. CASE HasFallback /\ ~used /\ used' = TRUE /\ Switch /\ UNCHANGED hops
      BY <3>1
    <3>2. CASE ~(HasFallback /\ ~used) /\ GiveUp(why, 1)
      BY <3>2 DEF Exited
    <3>3. QED
      BY <2>1, <3>1, <3>2 DEF FallBackOr
  <2>2. CASE Limited
    <3>1. CASE Retry
      BY <3>1
    <3>2. CASE GiveUp("rate_limited_yield", 3)
      BY <3>2
    <3>3. QED
      BY <2>2, <3>1, <3>2 DEF Limited
  <2>3. CASE HttpError
    <3>1. CASE hops' = hops + 1 /\ Switch /\ UNCHANGED used
      BY <3>1
    <3>2. CASE GiveUp("http_error", 1)
      BY <3>2
    <3>3. QED
      BY <2>3, <3>1, <3>2 DEF HttpError
  <2>4. ASSUME NEW why \in Exited, NoAnswer(why)
        PROVE  \/ Switched' = Switched /\ retries' = retries + 1
               \/ FallBackOr(why)
    BY <2>4 DEF NoAnswer
  <2>5. CASE Unexpected
    <3>1. CASE Retry
      BY <3>1
    <3>2. CASE FallBackOr("unexpected_error")
      BY <3>2, <2>1 DEF Exited
    <3>3. QED
      BY <2>5, <3>1, <3>2 DEF Unexpected
  <2>6. QED
    BY <2>1, <2>2, <2>3, <2>4, <2>5 DEF Exited
<1>2. CASE Switched' = Switched /\ retries' = retries + 1
  BY <1>0, <1>2 DEF FailuresCounted
<1>3. CASE Switched' = Switched /\ retries' = retries /\ ~Running'
  BY <1>0, <1>3 DEF FailuresCounted
<1>4. CASE Switched' = Switched + 1
  <2>1. (Switched + 1) * K = Switched * K + Max429 + 1
    BY <1>0, OneMoreModel, AgentLoopAssumption
  <2>2. QED
    <3>1. Switched' * K = Switched * K + Max429 + 1
      BY <1>4, <2>1
    <3>2. failed' <= Switched' * K
      BY <1>0, <3>1, AgentLoopAssumption
    <3>3. Switched' * K \in Nat
      BY <1>0, <3>1, AgentLoopAssumption
    <3>4. QED
      BY <1>0, <3>2, <3>3 DEF FailuresCounted
<1>5. QED
  BY <1>1, <1>2, <1>3, <1>4

LEMMA LoopStepKeepsInv ==
  ASSUME LoopInv, LoopNext
  PROVE  LoopInv'
<1> USE DEF LoopInv
<1>1. LoopTypeOK'
  BY CallFailsKeepsTypes, TurnKeepsTypes DEF LoopNext
<1>2. FailuresCounted'
  <2>1. CASE CallFails
    BY <1>1, <2>1, CallFailsIsCounted
  <2>2. CASE Tools \/ Nudge \/ Answer \/ OutOfTurns
    <3>1. Running /\ UNCHANGED <<retries, hops, used, failed>>
      BY <2>2 DEF Tools, Nudge, Answer, OutOfTurns, Turn, counters, model
    <3>2. Switched' = Switched /\ (Max429 + 1)' = Max429 + 1
      BY <3>1 DEF Switched
    <3>3. Switched * (Max429 + 1) \in Nat /\ retries \in Nat /\ failed \in Nat
      BY AgentLoopAssumption DEF LoopTypeOK, Switched
    <3>4. QED
      BY <3>1, <3>2, <3>3 DEF FailuresCounted
  <2>3. QED
    BY <2>1, <2>2 DEF LoopNext
<1>3. GivesUpLate' /\ CodesMatch'
  <2> USE AgentLoopAssumption DEF LoopTypeOK, GivesUpLate, CodesMatch, Running, model, exit,
        Retry, Switch, GiveUp, End
  <2>1. CASE CallFails
    <3> USE <2>1 DEF CallFails, Turn
    <3>1. ASSUME NEW why \in {"connection_error", "timeout", "unexpected_error"}, FallBackOr(why)
          PROVE  GivesUpLate' /\ CodesMatch'
      BY <3>1 DEF FallBackOr
    <3>2. CASE Limited
      BY <3>2 DEF Limited
    <3>3. CASE HttpError
      BY <3>3 DEF HttpError
    <3>4. ASSUME NEW why \in {"connection_error", "timeout", "unexpected_error"}, NoAnswer(why)
          PROVE  GivesUpLate' /\ CodesMatch'
      <4>1. CASE Retry
        BY <4>1
      <4>2. QED
        BY <3>1, <3>4, <4>1 DEF NoAnswer
    <3>5. CASE Unexpected
      <4>1. CASE Retry
        BY <4>1
      <4>2. QED
        BY <3>1, <3>5, <4>1 DEF Unexpected
    <3>6. QED
      BY <3>2, <3>3, <3>4, <3>5
  <2>2. CASE Tools
    BY <2>2 DEF Tools, Turn
  <2>3. CASE Nudge
    BY <2>3 DEF Nudge, Turn
  <2>4. CASE Answer
    BY <2>4 DEF Answer, Turn
  <2>5. CASE OutOfTurns
    BY <2>5 DEF OutOfTurns
  <2>6. QED
    BY <2>1, <2>2, <2>3, <2>4, <2>5 DEF LoopNext
<1>4. QED
  BY <1>1, <1>2, <1>3

LEMMA LoopStutterKeepsInv ==
  ASSUME LoopInv, UNCHANGED loopVars
  PROVE  LoopInv'
BY DEF loopVars, counters, LoopInv, LoopTypeOK, FailuresCounted, Switched, GivesUpLate, CodesMatch,
  Running

LEMMA CountedIsBounded == LoopInv => FailuresAreBounded
<1> SUFFICES ASSUME LoopInv PROVE FailuresAreBounded
  OBVIOUS
<1> DEFINE K == Max429 + 1
<1>1. /\ Switched \in Nat /\ Switched <= Chain + 1 /\ K \in Nat /\ Chain + 1 \in Nat
      /\ retries \in Nat /\ retries <= Max429 /\ failed \in Nat
  BY AgentLoopAssumption DEF LoopInv, LoopTypeOK, Switched
<1>2. Switched * K <= (Chain + 1) * K
  BY <1>1, MoreModelsMoreRoom
<1>3. (Chain + 2) * K = (Chain + 1) * K + Max429 + 1
  BY <1>1, OneMoreModel, AgentLoopAssumption
<1>4. Switched * K \in Nat /\ (Chain + 1) * K \in Nat
  BY <1>1
<1>5. failed <= Switched * K + retries + 1
  BY <1>1, <1>4 DEF LoopInv, FailuresCounted
<1>6. QED
  BY <1>1, <1>2, <1>3, <1>4, <1>5, AgentLoopAssumption DEF FailuresAreBounded

\* Every counter of the loop stays within its bound.
THEOREM LoopTypeCorrect == LoopSpec => []LoopTypeOK
<1>1. LoopInv /\ [LoopNext]_loopVars => LoopInv'
  BY LoopStepKeepsInv, LoopStutterKeepsInv
<1>2. LoopInv => LoopTypeOK
  BY DEF LoopInv
<1>3. QED
  BY LoopStarts, <1>1, <1>2, PTL DEF LoopSpec

\* Whatever the model answers, a run makes at most (Chain + 2) * (Max429 + 1) calls in vain.
THEOREM FailuresBounded == LoopSpec => []FailuresAreBounded
<1>1. LoopInv /\ [LoopNext]_loopVars => LoopInv'
  BY LoopStepKeepsInv, LoopStutterKeepsInv
<1>2. QED
  BY LoopStarts, CountedIsBounded, <1>1, PTL DEF LoopSpec

\* No run gives up while a retry or another model is left to it.
THEOREM GivesUpOnlyLate == LoopSpec => []GivesUpLate
<1>1. LoopInv /\ [LoopNext]_loopVars => LoopInv'
  BY LoopStepKeepsInv, LoopStutterKeepsInv
<1>2. LoopInv => GivesUpLate
  BY DEF LoopInv
<1>3. QED
  BY LoopStarts, <1>1, <1>2, PTL DEF LoopSpec

------------------------------------------------------------------------------
(* How far a run is from its end.                                             *)

\* The turns a run may still take: a call in vain, a quarter of an iteration and a nudge
\* each cost one, and tools that ran give all nudges back.
CallsLeft == (Chain + 2) * (Max429 + 1) - failed
QuartersLeft == MaxQuarters + 4 - quarters
NudgesLeft == MaxNudges - nudges
ToolsLeft == QuartersLeft * (MaxNudges + 1)
EndLeft == IF Running THEN 1 ELSE 0
TurnsLeft == CallsLeft + ToolsLeft + NudgesLeft + EndLeft

TurnsAreCounted == TurnsLeft \in Nat
EveryTurnCounts == [][TurnsLeft' < TurnsLeft]_loopVars

LEMMA FewerQuarters ==
  ASSUME NEW n \in Nat, NEW m \in Nat, NEW k \in Nat, n < m
  PROVE  n * (k + 1) + k + 1 <= m * (k + 1)
<1>1. (n + 1) * (k + 1) <= m * (k + 1)
  BY MoreModelsMoreRoom
<1>2. QED
  BY <1>1, OneMoreModel

\* The parts of the sum.
Parts ==
  /\ CallsLeft \in Nat /\ QuartersLeft \in Nat /\ ToolsLeft \in Nat
  /\ NudgesLeft \in Nat /\ NudgesLeft <= MaxNudges
  /\ EndLeft \in Nat /\ EndLeft <= 1

LEMMA PartsOfTheRun == LoopInv => Parts
<1> SUFFICES ASSUME LoopInv PROVE Parts
  OBVIOUS
<1>1. CallsLeft \in Nat
  <2>1. Chain + 2 \in Nat /\ Max429 + 1 \in Nat
    BY AgentLoopAssumption
  <2>2. \A m, n \in Nat : m * n \in Nat
    OBVIOUS
  <2>3. (Chain + 2) * (Max429 + 1) \in Nat
    BY <2>1, <2>2
  <2>4. failed \in Nat /\ failed <= (Chain + 2) * (Max429 + 1)
    BY CountedIsBounded DEF LoopInv, LoopTypeOK, FailuresAreBounded
  <2>5. QED
    BY <2>3, <2>4 DEF CallsLeft
<1>2. QuartersLeft \in Nat
  BY AgentLoopAssumption DEF LoopInv, LoopTypeOK, QuartersLeft
<1>3. ToolsLeft \in Nat
  <2>1. \A m, n \in Nat : m * n \in Nat
    OBVIOUS
  <2>2. QED
    BY <1>2, <2>1, AgentLoopAssumption DEF ToolsLeft
<1>4. NudgesLeft \in Nat /\ NudgesLeft <= MaxNudges
  BY AgentLoopAssumption DEF LoopInv, LoopTypeOK, NudgesLeft
<1>5. QED
  BY <1>1, <1>2, <1>3, <1>4 DEF Parts, EndLeft

LEMMA OneLess ==
  ASSUME NEW c \in Nat, NEW t \in Nat, NEW n \in Nat, NEW e \in Nat, NEW k \in Nat,
         NEW d \in Int, NEW u \in Nat, NEW m \in Nat, NEW f \in Nat, m <= k,
         \/ d = c - 1 /\ u = t /\ m = n /\ f <= e
         \/ d = c /\ u + k + 1 <= t /\ f = e
         \/ d = c /\ u = t /\ m = n - 1 /\ f = e
         \/ d = c /\ u = t /\ m = n /\ f = e - 1
  PROVE  d + u + m + f < c + t + n + e
OBVIOUS

LEMMA TurnIsCounted ==
  ASSUME LoopInv, LoopNext
  PROVE  TurnsLeft' < TurnsLeft
<1>1. Parts /\ Parts' /\ MaxNudges \in Nat
  <2>1. LoopInv'
    BY LoopStepKeepsInv
  <2>2. Parts'
    BY <2>1, PartsOfTheRun, PTL
  <2>3. QED
    BY <2>2, PartsOfTheRun, AgentLoopAssumption
<1>2. /\ CallsLeft \in Nat /\ ToolsLeft \in Nat /\ NudgesLeft \in Nat /\ EndLeft \in Nat
      /\ CallsLeft' \in Int /\ ToolsLeft' \in Nat /\ NudgesLeft' \in Nat /\ EndLeft' \in Nat
      /\ NudgesLeft' <= MaxNudges /\ MaxNudges \in Nat
      /\ QuartersLeft \in Nat /\ QuartersLeft' \in Nat /\ EndLeft' <= 1
  BY <1>1 DEF Parts
<1>3. /\ TurnsLeft = CallsLeft + ToolsLeft + NudgesLeft + EndLeft
      /\ TurnsLeft' = CallsLeft' + ToolsLeft' + NudgesLeft' + EndLeft'
  BY DEF TurnsLeft
<1>4. \/ CallsLeft' = CallsLeft - 1 /\ ToolsLeft' = ToolsLeft /\ NudgesLeft' = NudgesLeft /\ EndLeft' <= EndLeft
      \/ CallsLeft' = CallsLeft /\ ToolsLeft' + MaxNudges + 1 <= ToolsLeft /\ EndLeft' = EndLeft
      \/ CallsLeft' = CallsLeft /\ ToolsLeft' = ToolsLeft /\ NudgesLeft' = NudgesLeft - 1 /\ EndLeft' = EndLeft
      \/ CallsLeft' = CallsLeft /\ ToolsLeft' = ToolsLeft /\ NudgesLeft' = NudgesLeft /\ EndLeft' = EndLeft - 1
  <2>1. CASE CallFails
    <3>1. failed' = failed + 1 /\ quarters' = quarters /\ nudges' = nudges /\ Running
      BY <2>1 DEF CallFails, turns, Turn
    <3>2. CallsLeft' = CallsLeft - 1
      BY <1>1, <3>1, AgentLoopAssumption DEF CallsLeft, LoopInv, LoopTypeOK
    <3>3. QuartersLeft' = QuartersLeft /\ NudgesLeft' = NudgesLeft /\ EndLeft = 1
      BY <3>1 DEF QuartersLeft, NudgesLeft, EndLeft
    <3>4. QED
      BY <1>2, <3>2, <3>3 DEF ToolsLeft
  <2>2. CASE Tools
    <3>1. failed' = failed /\ reason' = reason /\ (quarters' = quarters + 1 \/ quarters' = quarters + 4)
      BY <2>2, Zenon DEF Tools, counters, exit
    <3>2. quarters \in Int /\ MaxQuarters \in Int
      BY AgentLoopAssumption DEF LoopInv, LoopTypeOK
    <3>3. QuartersLeft' < QuartersLeft
      BY <3>1, <3>2 DEF QuartersLeft
    <3>4. ToolsLeft' + MaxNudges + 1 <= ToolsLeft
      BY <1>1, <1>2, <3>3, FewerQuarters DEF ToolsLeft
    <3>5. CallsLeft' = CallsLeft /\ EndLeft' = EndLeft
      BY <3>1 DEF CallsLeft, EndLeft, Running
    <3>6. QED
      BY <3>4, <3>5
  <2>3. CASE Nudge \/ Answer \/ OutOfTurns
    <3>1. /\ failed' = failed /\ quarters' = quarters /\ Running
          /\ \/ nudges' = nudges + 1 /\ reason' = reason
             \/ nudges' = nudges /\ ~Running'
      BY <2>3 DEF Nudge, Answer, OutOfTurns, Turn, Running, End, counters, turns, exit
    <3>2. CallsLeft' = CallsLeft /\ ToolsLeft' = ToolsLeft
      BY <3>1 DEF CallsLeft, ToolsLeft, QuartersLeft
    <3>3. CASE nudges' = nudges + 1 /\ reason' = reason
      <4>1. nudges \in Int /\ MaxNudges \in Int
        BY AgentLoopAssumption DEF LoopInv, LoopTypeOK
      <4>2. NudgesLeft' = NudgesLeft - 1
        BY <3>3, <4>1 DEF NudgesLeft
      <4>3. EndLeft' = EndLeft
        BY <3>3 DEF EndLeft, Running
      <4>4. QED
        BY <3>2, <4>2, <4>3
    <3>4. CASE nudges' = nudges /\ ~Running'
      <4>1. NudgesLeft' = NudgesLeft /\ EndLeft = 1 /\ EndLeft' = 0
        BY <3>1, <3>4 DEF NudgesLeft, EndLeft
      <4>2. QED
        BY <3>2, <4>1
    <3>5. QED
      BY <3>1, <3>3, <3>4
  <2>4. QED
    BY <2>1, <2>2, <2>3 DEF LoopNext
<1>5. CallsLeft' + ToolsLeft' + NudgesLeft' + EndLeft' < CallsLeft + ToolsLeft + NudgesLeft + EndLeft
  BY ONLY <1>2, <1>4, OneLess
<1>6. QED
  BY <1>3, <1>5

\* Whatever the model answers and however its calls fail, every turn of run_agent_loop uses
\* up one of finitely many: the loop cannot go on for ever, although tools that ran give
\* the nudges back and another model the retries.
THEOREM TurnsRunOut == LoopSpec => []TurnsAreCounted /\ EveryTurnCounts
<1>1. LoopInv /\ [LoopNext]_loopVars => LoopInv'
  BY LoopStepKeepsInv, LoopStutterKeepsInv
<1>2. LoopInv => TurnsAreCounted
  BY PartsOfTheRun DEF TurnsAreCounted, TurnsLeft, Parts
<1>3. LoopInv /\ [LoopNext]_loopVars => [TurnsLeft' < TurnsLeft]_loopVars
  BY TurnIsCounted
<1>4. QED
  BY LoopStarts, <1>1, <1>2, <1>3, PTL DEF LoopSpec, EveryTurnCounts

------------------------------------------------------------------------------
(* The loop within the process.                                               *)

LEMMA ResultIsOutcome ==
  ASSUME LoopInv, ~Running
  PROVE  Result \in Outcome
<1> USE DEF LoopInv, LoopTypeOK, CodesMatch, Running, Returned, Exited
<1>1. /\ Result.kind \in LoopKind /\ Result.code = code /\ Result.made = made
      /\ Result.known = (reason \in Returned /\ made)
  BY DEF Result, LoopKind
<1>2. code = CodeOf(Result.kind) /\ code \in {0, 1, 3}
  BY DEF Result, CodeOf
<1>3. Result \in [kind : LoopKind, code : {0, 1, 3}, made : BOOLEAN, known : BOOLEAN]
  BY <1>1, <1>2 DEF Result
<1>4. Result.kind \in {"completed", "iteration_limit"} => reason \in Returned
  BY DEF Result
<1>5. Result.kind \in {"interrupted", "rate_limited_yield"} => reason \notin Returned
  BY DEF Result
<1>6. QED
  BY <1>1, <1>2, <1>3, <1>4, <1>5, Zenon DEF Outcome

LEMMA RunnerKeepsLoopInv ==
  ASSUME LoopInv, [RunnerNext]_runnerVars
  PROVE  LoopInv'
<1>1. CASE LoopNext
  BY <1>1, LoopStepKeepsInv
<1>2. CASE UNCHANGED loopVars
  BY <1>2, LoopStutterKeepsInv
<1>3. CASE Forget
  <2>1. LoopInit'
    BY <1>3 DEF Forget, LoopInit
  <2>2. QED
    BY <2>1, LoopStarts, PTL
<1>4. QED
  BY <1>1, <1>2, <1>3 DEF RunnerNext, Process, LoopStep, LoopEnded, LoopIsLeft, runnerVars

LEMMA RunnerStepIsBotStep ==
  ASSUME LoopInv, [RunnerNext]_runnerVars
  PROVE  [Next]_vars
<1>1. ASSUME NEW b \in Bot, Process(b)
      PROVE  [Next]_vars
  <2>1. CASE LoopStep
    BY <2>1 DEF LoopStep
  <2>2. CASE b = Followed /\ LoopEnded
    <3>1. Result \in Outcome /\ Ended(Followed, Result) /\ Followed \in Hunter
      BY <2>2, ResultIsOutcome, FollowedAssumption DEF LoopEnded
    <3>2. Work(b)
      BY <2>2, <3>1, Zenon DEF Work
    <3>3. QED
      BY <3>2 DEF Next
  <2>3. CASE Work(b) \/ Around(b)
    BY <2>3 DEF Next
  <2>4. QED
    BY <1>1, <2>1, <2>2, <2>3 DEF Process
<1>2. QED
  BY <1>1 DEF RunnerNext, runnerVars, Next

\* The turn loop ends only in ways BotRun allows its Work step: kind, code and what is known
\* of the tickets agree, whatever the model and the tools do.
THEOREM RunnerImplementsBotRun == RunnerSpec => ImplementsBotRun
<1>1. RunnerInit => Init /\ LoopInv
  BY LoopStarts DEF RunnerInit
<1>2. QED
  BY <1>1, RunnerKeepsLoopInv, RunnerStepIsBotStep, PTL DEF RunnerSpec, ImplementsBotRun, Spec

------------------------------------------------------------------------------
(* The process.                                                               *)

Tried == {"limit", "limiting", "leave", "record", "recording"}

\* What is known of a run's end at each point of it.
Agree(p, e) ==
  /\ p \in Starting \cup {"off", "work"} => e.kind = "none"
  /\ p \in Tried =>
       /\ e.code = 0 <=> e.kind = "completed"
       /\ e.kind \in {"completed", "iteration_limit"} => e.known = e.made

EndsAgree == \A b \in Bot : Agree(pc[b], end[b])

Writing == {"entering", "limiting", "recording"}

\* As long as no bot outlives its orchestrator, a scratchpad has one process at a time.
OneAtATime ==
  crashes = 0 =>
    /\ orphans = {}
    /\ \A b, c \in Bot : PadOf[b] = PadOf[c] /\ b # c => pc[b] = "off" \/ pc[c] = "off"
    /\ \A b \in Bot : pc[b] \in Writing => tmp[PadOf[b]] = mem[b]

\* The record on its way to the file.
Keeps(b, p, m, e) ==
  /\ p \in {"enter", "entering", "work", "limit", "limiting", "leave"} => m.agent = b
  /\ p \in {"record", "recording"} /\ e.kind = "completed" => b \in m.history

RecordKept == \A b \in Bot : Keeps(b, pc[b], mem[b], end[b])

BotInv == TypeOK /\ EndsAgree /\ OneAtATime /\ RecordKept /\ CompletionIsHandedOn

LEMMA StartKeepsType ==
  ASSUME NEW pad \in PadState, NEW b \in Bot
  PROVE  StartAgent(pad, b) \in PadState
BY DEF PadState, StartAgent

LEMMA FinishKeepsType ==
  ASSUME NEW pad \in PadState, NEW done \in BOOLEAN
  PROVE  FinishAgent(pad, done) \in PadState
BY DEF PadState, FinishAgent

LEMMA RecordedKeepsType ==
  ASSUME NEW pad \in PadState, NEW kind
  PROVE  Recorded(pad, kind) \in PadState
BY FinishKeepsType DEF Recorded

LEMMA FreshIsPad == Fresh \in PadState
BY DEF Fresh, PadState

Ends == [kind : Kind, code : Code, made : BOOLEAN, known : BOOLEAN]

LEMMA DieKeepsTypes ==
  ASSUME TypeOK, NEW b \in Bot, NEW kind \in Kind, NEW c \in Code, Die(b, kind, c)
  PROVE  pc' \in [Bot -> PC] /\ end' \in [Bot -> Ends] /\ mem' \in [Bot -> PadState]
BY FreshIsPad DEF TypeOK, Ends, Die, Goto, PC

LEMMA RenamedKeepsTypes ==
  ASSUME TypeOK, NEW b \in Bot, Renamed(PadOf[b]) \/ RenameFailed(PadOf[b])
  PROVE  pads' \in [Pad -> PadState] /\ tmp' \in [Pad -> PadState \cup {NoPad}]
BY BotRunAssumption DEF TypeOK, Renamed, RenameFailed, files

LEMMA BotTypeInit == Init => TypeOK
BY FreshIsPad, BotRunAssumption DEF Init, TypeOK, PC, NewEnd, Kind, Code

LEMMA BotTypeStep ==
  ASSUME TypeOK, [Next]_vars
  PROVE  TypeOK'
<1> USE BotRunAssumption
<1>1. ASSUME NEW b \in Bot, WriteTmp(b)
      PROVE  TypeOK'
  BY <1>1 DEF WriteTmp, TypeOK, Goto, PC, Alive, Saving, fate
<1>2. ASSUME NEW b \in Bot, Saved(b)
      PROVE  TypeOK'
  <2>1. pads' \in [Pad -> PadState] /\ tmp' \in [Pad -> PadState \cup {NoPad}]
    BY <1>2, RenamedKeepsTypes DEF Saved
  <2>2. end[b].kind \in Kind /\ end[b].code \in Code
    BY DEF TypeOK
  <2>3. pc' \in [Bot -> PC] /\ end' \in [Bot -> Ends] /\ mem' \in [Bot -> PadState]
    <3>1. CASE Goto(b, "work") /\ UNCHANGED <<end, mem>>
      BY <3>1 DEF TypeOK, Goto, PC, Alive, Ends
    <3>2. CASE Goto(b, "leave") /\ UNCHANGED <<end, mem>>
      BY <3>2 DEF TypeOK, Goto, PC, Alive, Ends
    <3>3. CASE Die(b, end[b].kind, end[b].code)
      BY <2>2, <3>3, DieKeepsTypes
    <3>4. QED
      BY <1>2, <3>1, <3>2, <3>3 DEF Saved
  <2>4. QED
    BY <1>2, <2>1, <2>3 DEF Saved, TypeOK, Ends, fate
<1>3. ASSUME NEW b \in Bot, NotSaved(b)
      PROVE  TypeOK'
  <2>1. pads' \in [Pad -> PadState] /\ tmp' \in [Pad -> PadState \cup {NoPad}]
    BY <1>3, RenamedKeepsTypes DEF NotSaved
  <2>2. end[b].kind \in Kind /\ 1 \in Code
    BY DEF TypeOK, Code
  <2>3. pc' \in [Bot -> PC] /\ end' \in [Bot -> Ends] /\ mem' \in [Bot -> PadState]
    <3>1. CASE Goto(b, "leave") /\ UNCHANGED <<end, mem>>
      BY <3>1 DEF TypeOK, Goto, PC, Alive, Ends
    <3>2. CASE Crash(b)
      BY <2>2, <3>2, DieKeepsTypes DEF Crash
    <3>3. QED
      BY <1>3, <3>1, <3>2 DEF NotSaved
  <2>4. QED
    BY <1>3, <2>1, <2>3 DEF NotSaved, TypeOK, Ends, fate
<1>4. ASSUME NEW b \in Bot, Boot(b)
      PROVE  TypeOK'
  <2>1. end[b].kind \in Kind /\ "none" \in Kind /\ 0 \in Code /\ 1 \in Code
    BY DEF TypeOK, Code, Kind
  <2>2. pc' \in [Bot -> PC] /\ end' \in [Bot -> Ends] /\ mem' \in [Bot -> PadState]
    <3>1. CASE Die(b, "none", 0)
      BY <2>1, <3>1, DieKeepsTypes
    <3>2. CASE Crash(b)
      BY <2>1, <3>2, DieKeepsTypes DEF Crash
    <3>3. CASE mem' = [mem EXCEPT ![b] = StartAgent(pads[PadOf[b]], b)] /\ Goto(b, "enter") /\ UNCHANGED end
      BY <3>3, StartKeepsType DEF TypeOK, Goto, PC, Alive, Saving, Ends
    <3>4. QED
      BY <1>4, <3>1, <3>2, <3>3 DEF Boot
  <2>3. QED
    BY <1>4, <2>2 DEF Boot, TypeOK, Ends, files, fate
<1>5. ASSUME NEW b \in Bot, Leave(b)
      PROVE  TypeOK'
  <2>1. mem' \in [Bot -> PadState]
    BY <1>5, RecordedKeepsType DEF Leave, TypeOK
  <2>2. marker' \subseteq Bot
    BY <1>5 DEF Leave, TypeOK
  <2>3. QED
    BY <1>5, <2>1, <2>2 DEF Leave, TypeOK, Goto, PC, Alive, Saving, files, fate
<1>6. ASSUME NEW b \in Bot, Work(b)
      PROVE  TypeOK'
  <2>1. PICK o \in Outcome : Ended(b, o)
    BY <1>6 DEF Work
  <2>2. o \in Ends
    BY DEF Outcome, Ends, Kind, Code
  <2>3. end' \in [Bot -> Ends]
    BY <2>1, <2>2 DEF Ended, TypeOK, Ends
  <2>4. QED
    BY <2>1, <2>3 DEF Ended, TypeOK, Ends, Goto, PC, Alive, Saving, files, fate
<1>7. ASSUME NEW b \in Bot, Spawn(b)
      PROVE  TypeOK'
  BY <1>7 DEF Spawn, TypeOK, Goto, PC, Alive, files, fate
<1>8. ASSUME NEW b \in Bot, Terminate(b)
      PROVE  TypeOK'
  <2>1. "none" \in Kind /\ "terminated" \in Kind /\ 2 \in Code /\ 143 \in Code
    BY DEF Code, Kind
  <2>2. pc' \in [Bot -> PC] /\ end' \in [Bot -> Ends] /\ mem' \in [Bot -> PadState]
    <3>1. CASE Die(b, "none", 2)
      BY <2>1, <3>1, DieKeepsTypes
    <3>2. CASE Die(b, "terminated", 143)
      BY <2>1, <3>2, DieKeepsTypes
    <3>3. CASE pc[b] \in Trying
      <4>1. CASE Goto(b, "leave") /\ UNCHANGED mem
        <5>1. PICK m \in BOOLEAN :
                end' = [end EXCEPT ![b] = [kind |-> "terminated", code |-> 143, made |-> m,
                                           known |-> end[b].known]]
          BY <1>8, <3>3 DEF Terminate, TypeOK, Trying, Starting, Finally
        <5>2. QED
          BY <2>1, <4>1, <5>1 DEF TypeOK, Ends, Goto, PC, Alive
      <4>2. QED
        BY <1>8, <3>3, <4>1 DEF Terminate, Trying, Starting, Finally
    <3>4. QED
      BY <1>8, <3>1, <3>2, <3>3 DEF Terminate
  <2>3. QED
    BY <1>8, <2>2 DEF Terminate, TypeOK, Ends, files
<1>9. ASSUME NEW b \in Bot, Kill(b)
      PROVE  TypeOK'
  <2>1. end[b].kind \in Kind /\ 2 \in Code
    BY DEF TypeOK, Code
  <2>2. QED
    BY <1>9, <2>1, DieKeepsTypes DEF Kill, TypeOK, Ends, files, fate
<1>10. ASSUME NEW b \in Bot, NoteExit(b)
       PROVE  TypeOK'
  BY <1>10, FinishKeepsType DEF NoteExit, TypeOK, Goto, PC, fate
<1>11. ASSUME NEW b \in Bot, ExitNoted(b)
       PROVE  TypeOK'
  BY <1>11, RenamedKeepsTypes DEF ExitNoted, Gone, NewEnd, Kind, Code, TypeOK, Goto, PC, fate
<1>12. ASSUME NEW b \in Bot, ExitPassed(b)
       PROVE  TypeOK'
  BY <1>12 DEF ExitPassed, Gone, NewEnd, Kind, Code, TypeOK, Goto, PC, files
<1>13. CASE OrchestratorCrash
  BY <1>13 DEF OrchestratorCrash, NewEnd, Kind, Code, TypeOK, PC, files
<1>14. CASE UNCHANGED vars
  BY <1>14 DEF vars, files, fate, TypeOK
<1>15. QED
  BY <1>1, <1>2, <1>3, <1>4, <1>5, <1>6, <1>7, <1>8, <1>9, <1>10, <1>11, <1>12, <1>13, <1>14
     DEF Next, Around, Outside

\* A step of a bot, or one that is done to it, concerns that bot and its scratchpad.
LEMMA Locality ==
  ASSUME TypeOK, NEW b \in Bot, Around(b) \/ Work(b) \/ Outside(b)
  PROVE  /\ \A c \in Bot \ {b} : pc'[c] = pc[c] /\ end'[c] = end[c] /\ mem'[c] = mem[c]
         /\ \A p \in Pad \ {PadOf[b]} : pads'[p] = pads[p] /\ tmp'[p] = tmp[p]
         /\ crashes' = crashes /\ orphans' \subseteq orphans
         /\ Spawn(b) \/ pc[b] # "off"
<1> USE DEF TypeOK, Goto, files, fate, Alive, Saving
<1>1. CASE WriteTmp(b)
  BY <1>1 DEF WriteTmp
<1>2. CASE Saved(b)
  BY <1>2 DEF Saved, Renamed, Die
<1>3. CASE NotSaved(b)
  BY <1>3 DEF NotSaved, RenameFailed, Crash, Die
<1>4. CASE Boot(b)
  BY <1>4 DEF Boot, Crash, Die
<1>5. CASE Leave(b)
  BY <1>5 DEF Leave
<1>6. CASE Work(b)
  BY <1>6 DEF Work, Ended
<1>7. CASE Spawn(b)
  BY <1>7 DEF Spawn
<1>8. CASE Terminate(b)
  BY <1>8 DEF Terminate, Die
<1>9. CASE Kill(b)
  BY <1>9 DEF Kill, Die
<1>10. CASE NoteExit(b)
  BY <1>10 DEF NoteExit
<1>11. CASE ExitNoted(b)
  BY <1>11 DEF ExitNoted, Renamed, RenameFailed, Gone
<1>12. CASE ExitPassed(b)
  BY <1>12 DEF ExitPassed, Gone
<1>13. QED
  BY <1>1, <1>2, <1>3, <1>4, <1>5, <1>6, <1>7, <1>8, <1>9, <1>10, <1>11, <1>12
     DEF Around, Outside

LEMMA AgreeStep ==
  ASSUME TypeOK, EndsAgree, [Next]_vars
  PROVE  EndsAgree'
<1>1. ASSUME NEW b \in Bot, Around(b) \/ Work(b) \/ Outside(b)
      PROVE  Agree(pc'[b], end'[b])
  <2> USE DEF TypeOK, Goto, Agree, Starting, Tried
  <2>0. Agree(pc[b], end[b])
    BY DEF EndsAgree
  <2>1. CASE WriteTmp(b)
    BY <2>0, <2>1 DEF WriteTmp
  <2>2. CASE Saved(b)
    BY <2>0, <2>2 DEF Saved, Die
  <2>3. CASE NotSaved(b)
    BY <2>0, <2>3 DEF NotSaved, Crash, Die
  <2>4. CASE Boot(b)
    BY <2>0, <2>4 DEF Boot, Crash, Die
  <2>5. CASE Leave(b)
    BY <2>0, <2>5 DEF Leave
  <2>6. CASE Work(b)
    <3>1. PICK o \in Outcome : Ended(b, o)
      BY <2>6 DEF Work
    <3>2. end'[b] = o /\ pc'[b] \in {"limit", "leave"}
      BY <3>1 DEF Ended
    <3>3. /\ o.code = 0 <=> o.kind = "completed"
          /\ o.kind \in {"completed", "iteration_limit"} => o.known = o.made
      BY DEF Outcome, CodeOf
    <3>4. QED
      BY <3>2, <3>3
  <2>7. CASE Spawn(b)
    BY <2>0, <2>7 DEF Spawn
  <2>8. CASE Terminate(b)
    <3>1. CASE pc'[b] = "dead"
      BY <3>1
    <3>2. CASE pc'[b] = "leave" /\ end'[b].kind = "terminated" /\ end'[b].code = 143
      BY <3>2
    <3>3. QED
      BY <2>8, <3>1, <3>2 DEF Terminate, Die
  <2>9. CASE Kill(b)
    BY <2>9 DEF Kill, Die
  <2>10. CASE NoteExit(b)
    BY <2>10 DEF NoteExit
  <2>11. CASE ExitNoted(b)
    BY <2>11 DEF ExitNoted, Gone, NewEnd
  <2>12. CASE ExitPassed(b)
    BY <2>12 DEF ExitPassed, Gone, NewEnd
  <2>13. QED
    BY <1>1, <2>1, <2>2, <2>3, <2>4, <2>5, <2>6, <2>7, <2>8, <2>9, <2>10, <2>11, <2>12
       DEF Around, Outside
<1>2. ASSUME NEW b \in Bot, Around(b) \/ Work(b) \/ Outside(b)
      PROVE  EndsAgree'
  BY <1>1, <1>2, Locality DEF EndsAgree
<1>3. CASE OrchestratorCrash
  <2>1. ASSUME NEW b \in Bot
        PROVE  Agree(pc'[b], end'[b])
    <3>1. CASE pc[b] \in Alive
      BY <1>3, <3>1 DEF OrchestratorCrash, TypeOK, EndsAgree
    <3>2. CASE pc[b] \notin Alive
      BY <1>3, <3>2 DEF OrchestratorCrash, TypeOK, Agree, NewEnd, Tried
    <3>3. QED
      BY <3>1, <3>2
  <2>2. QED
    BY <2>1 DEF EndsAgree
<1>4. CASE UNCHANGED vars
  BY <1>4 DEF vars, EndsAgree
<1>5. QED
  BY <1>2, <1>3, <1>4 DEF Next

\* One process at a time has a scratchpad in hand while no bot outlives its orchestrator.
LEMMA AloneStep ==
  ASSUME TypeOK, OneAtATime, [Next]_vars
  PROVE  OneAtATime'
<1> USE BotRunAssumption
<1>1. ASSUME NEW b \in Bot, Around(b) \/ Work(b) \/ Outside(b), crashes = 0
      PROVE  OneAtATime'
  <2>0. /\ orphans = {}
        /\ \A c \in Bot : PadOf[b] = PadOf[c] /\ b # c => pc[b] = "off" \/ pc[c] = "off"
        /\ pc[b] \in Writing => tmp[PadOf[b]] = mem[b]
    BY <1>1 DEF OneAtATime
  <2>1. \A c \in Bot : PadOf[b] = PadOf[c] /\ b # c => pc'[c] = "off"
    <3>1. CASE Spawn(b)
      BY <2>0, <3>1, Locality DEF Spawn, Outside
    <3>2. CASE pc[b] # "off"
      BY <1>1, <2>0, <3>2, Locality
    <3>3. QED
      BY <1>1, <3>1, <3>2, Locality
  <2>2. pc'[b] \in Writing => tmp'[PadOf[b]] = mem'[b]
    <3> USE DEF TypeOK, Goto, Writing
    <3>1. CASE WriteTmp(b)
      BY <3>1 DEF WriteTmp
    <3>2. CASE Saved(b) \/ NotSaved(b)
      BY <3>2 DEF Saved, NotSaved, Crash, Die
    <3>3. CASE Boot(b) \/ Leave(b) \/ Work(b)
      BY <3>3 DEF Boot, Crash, Die, Leave, Work, Ended
    <3>4. CASE Spawn(b) \/ Terminate(b) \/ Kill(b)
      BY <3>4 DEF Spawn, Terminate, Kill, Die
    <3>5. CASE NoteExit(b) \/ ExitNoted(b) \/ ExitPassed(b)
      BY <3>5 DEF NoteExit, ExitNoted, ExitPassed, Gone
    <3>6. QED
      BY <1>1, <3>1, <3>2, <3>3, <3>4, <3>5 DEF Around, Outside
  <2>3. orphans' = {}
    BY <1>1, <2>0, Locality
  <2>4. ASSUME NEW c \in Bot, NEW d \in Bot, PadOf[c] = PadOf[d], c # d
        PROVE  pc'[c] = "off" \/ pc'[d] = "off"
    BY <1>1, <2>1, <2>4, Locality DEF OneAtATime
  <2>5. ASSUME NEW c \in Bot, pc'[c] \in Writing
        PROVE  tmp'[PadOf[c]] = mem'[c]
    <3>1. CASE c = b
      BY <2>2, <2>5, <3>1
    <3>2. CASE c # b
      <4>1. PadOf[c] # PadOf[b]
        BY <2>1, <2>5, <3>2 DEF Writing
      <4>2. pc'[c] = pc[c] /\ mem'[c] = mem[c] /\ tmp'[PadOf[c]] = tmp[PadOf[c]]
        BY <1>1, <3>2, <4>1, Locality
      <4>3. QED
        BY <1>1, <2>5, <4>2 DEF OneAtATime
    <3>3. QED
      BY <3>1, <3>2
  <2>6. QED
    BY <2>3, <2>4, <2>5 DEF OneAtATime
<1>2. ASSUME NEW b \in Bot, Around(b) \/ Work(b) \/ Outside(b), crashes # 0
      PROVE  OneAtATime'
  BY <1>2, Locality DEF OneAtATime
<1>3. CASE OrchestratorCrash
  BY <1>3 DEF OrchestratorCrash, TypeOK, OneAtATime
<1>4. CASE UNCHANGED vars
  BY <1>4 DEF vars, files, fate, OneAtATime
<1>5. QED
  BY <1>1, <1>2, <1>3, <1>4 DEF Next

LEMMA RecordStep ==
  ASSUME TypeOK, RecordKept, [Next]_vars
  PROVE  RecordKept'
<1> USE BotRunAssumption
<1>1. ASSUME NEW b \in Bot, Around(b) \/ Work(b) \/ Outside(b)
      PROVE  Keeps(b, pc'[b], mem'[b], end'[b])
  <2> USE DEF TypeOK, Goto, Keeps
  <2>0. Keeps(b, pc[b], mem[b], end[b])
    BY DEF RecordKept
  <2>1. CASE WriteTmp(b) \/ Saved(b) \/ NotSaved(b)
    BY <2>0, <2>1 DEF WriteTmp, Saved, NotSaved, Crash, Die
  <2>2. CASE Boot(b)
    BY <2>2 DEF Boot, Crash, Die, StartAgent
  <2>3. CASE Leave(b)
    <3>1. mem'[b] = Recorded(mem[b], end[b].kind) /\ end'[b] = end[b] /\ pc'[b] = "record"
      BY <2>3 DEF Leave
    <3>2. mem[b].agent = b
      BY <2>0, <2>3 DEF Leave
    <3>3. end[b].kind = "completed" => mem'[b] = FinishAgent(mem[b], TRUE)
      BY <3>1 DEF Recorded
    <3>4. b \in FinishAgent(mem[b], TRUE).history
      BY <3>2 DEF FinishAgent
    <3>5. QED
      BY <3>1, <3>3, <3>4
  <2>4. CASE Work(b)
    BY <2>0, <2>4 DEF Work, Ended
  <2>5. CASE Terminate(b)
    BY <2>0, <2>5 DEF Terminate, Die, Trying
  <2>6. CASE Spawn(b) \/ Kill(b)
    BY <2>6 DEF Spawn, Kill, Die
  <2>7. CASE NoteExit(b) \/ ExitNoted(b) \/ ExitPassed(b)
    BY <2>7 DEF NoteExit, ExitNoted, ExitPassed, Gone
  <2>8. QED
    BY <1>1, <2>1, <2>2, <2>3, <2>4, <2>5, <2>6, <2>7 DEF Around, Outside
<1>2. ASSUME NEW b \in Bot, Around(b) \/ Work(b) \/ Outside(b)
      PROVE  RecordKept'
  BY <1>1, <1>2, Locality DEF RecordKept
<1>3. CASE OrchestratorCrash
  <2>1. ASSUME NEW b \in Bot
        PROVE  Keeps(b, pc'[b], mem'[b], end'[b])
    BY <1>3 DEF OrchestratorCrash, TypeOK, RecordKept, Keeps, Alive, Saving
  <2>2. QED
    BY <2>1 DEF RecordKept
<1>4. CASE UNCHANGED vars
  BY <1>4 DEF vars, RecordKept
<1>5. QED
  BY <1>2, <1>3, <1>4 DEF Next

Handed(b) ==
  pc[b] = "dead" /\ end[b].kind = "completed" /\ end[b].code = 0 => b \in pads[PadOf[b]].history

LEMMA HandedOnStep ==
  ASSUME BotInv, [Next]_vars
  PROVE  CompletionIsHandedOn'
<1> USE BotRunAssumption DEF BotInv
<1>1. ASSUME NEW b \in Bot, Around(b) \/ Work(b) \/ Outside(b), crashes = 0
      PROVE  Handed(b)'
  <2> USE DEF TypeOK, Goto, Handed
  <2>1. CASE Saved(b)
    <3>1. CASE pc[b] = "recording" /\ pc'[b] = "dead"
      <4>1. pads'[PadOf[b]] = mem[b] /\ end'[b].kind = end[b].kind
        BY <1>1, <2>1, <3>1 DEF Saved, Renamed, Die, OneAtATime, Writing
      <4>2. QED
        BY <3>1, <4>1 DEF RecordKept, Keeps
    <3>2. CASE pc'[b] \in {"work", "leave"}
      BY <3>2
    <3>3. QED
      BY <2>1, <3>1, <3>2 DEF Saved, Die
  <2>2. CASE WriteTmp(b) \/ Leave(b) \/ Work(b)
    BY <2>2 DEF WriteTmp, Leave, Work, Ended
  <2>3. CASE NotSaved(b) \/ Boot(b)
    BY <2>3 DEF NotSaved, Boot, Crash, Die
  <2>4. CASE Spawn(b) \/ Terminate(b) \/ Kill(b)
    BY <2>4 DEF Spawn, Terminate, Kill, Die
  <2>5. CASE NoteExit(b) \/ ExitNoted(b) \/ ExitPassed(b)
    BY <2>5 DEF NoteExit, ExitNoted, ExitPassed, Gone
  <2>6. QED
    BY <1>1, <2>1, <2>2, <2>3, <2>4, <2>5 DEF Around, Outside
<1>2. ASSUME NEW b \in Bot, Around(b) \/ Work(b) \/ Outside(b)
      PROVE  CompletionIsHandedOn'
  <2>1. SUFFICES ASSUME crashes = 0, NEW c \in Bot
                 PROVE  Handed(c)'
    BY <1>2, Locality DEF CompletionIsHandedOn, Handed
  <2>2. CASE c = b
    BY <1>1, <1>2, <2>1, <2>2
  <2>3. CASE c # b /\ PadOf[c] = PadOf[b]
    <3>1. CASE Spawn(b)
      BY <1>2, <2>1, <2>3, <3>1, Locality DEF Spawn, OneAtATime, Handed
    <3>2. CASE pc[b] # "off"
      BY <1>2, <2>1, <2>3, <3>2, Locality DEF OneAtATime, Handed
    <3>3. QED
      BY <1>2, <3>1, <3>2, Locality
  <2>4. CASE c # b /\ PadOf[c] # PadOf[b]
    BY <1>2, <2>1, <2>4, Locality DEF CompletionIsHandedOn, Handed
  <2>5. QED
    BY <2>2, <2>3, <2>4
<1>3. CASE OrchestratorCrash
  BY <1>3 DEF OrchestratorCrash, TypeOK, CompletionIsHandedOn
<1>4. CASE UNCHANGED vars
  BY <1>4 DEF vars, files, fate, CompletionIsHandedOn
<1>5. QED
  BY <1>2, <1>3, <1>4 DEF Next

LEMMA BotInvInit == Init => BotInv
<1> SUFFICES ASSUME Init PROVE BotInv
  OBVIOUS
<1>1. EndsAgree /\ RecordKept
  BY DEF Init, NewEnd, EndsAgree, Agree, Tried, RecordKept, Keeps
<1>2. OneAtATime /\ CompletionIsHandedOn
  BY DEF Init, OneAtATime, Writing, CompletionIsHandedOn
<1>3. QED
  BY <1>1, <1>2, BotTypeInit DEF BotInv

LEMMA BotInvStep == BotInv /\ [Next]_vars => BotInv'
BY BotTypeStep, AgreeStep, AloneStep, RecordStep, HandedOnStep DEF BotInv

\* Every variable of the bots keeps its type: no step installs a scratchpad that is not one,
\* whoever renames whose temporary file.
THEOREM BotTypeCorrect == Spec => []TypeOK
<1>1. BotInv => TypeOK
  BY DEF BotInv
<1>2. QED
  BY BotInvInit, BotInvStep, <1>1, PTL DEF Spec

\* For any bots and scratchpads: while no orchestrator has died under its bots, a bot that
\* reports success has its record in the scratchpad of its ticket.
THEOREM CompletionHandedOn == Spec => []CompletionIsHandedOn
<1>1. BotInv => CompletionIsHandedOn
  BY DEF BotInv
<1>2. QED
  BY BotInvInit, BotInvStep, <1>1, PTL DEF Spec

\* No discovery bot that made a ticket is marked as having found nothing.
THEOREM MarkerEarned == Spec => MarkerIsEarned
<1>1. ASSUME BotInv, [Next]_vars, NEW b \in Bot, b \in marker' \ marker
      PROVE  b \in Hunter /\ ~end[b].made
  <2>1. PICK c \in Bot : Leave(c)
    BY <1>1 DEF Next, Around, Outside, WriteTmp, Saved, NotSaved, Boot, Work, Ended, Spawn,
      Terminate, Kill, NoteExit, ExitNoted, ExitPassed, OrchestratorCrash, vars
  <2>2. /\ c = b /\ b \in Hunter /\ pc[b] = "leave" /\ ~end[b].known
        /\ end[b].kind \in {"completed", "iteration_limit"}
    BY <1>1, <2>1 DEF Leave
  <2>3. end[b].known = end[b].made
    BY <1>1, <2>2 DEF BotInv, EndsAgree, Agree, Tried
  <2>4. QED
    BY <2>2, <2>3
<1>2. BotInv /\ [Next]_vars =>
        [\A b \in Bot : b \in marker' \ marker => b \in Hunter /\ ~end[b].made]_vars
  BY <1>1
<1>3. QED
  BY BotInvInit, BotInvStep, <1>2, PTL DEF Spec, MarkerIsEarned

ExitTells(b) ==
  pc[b] \in Alive /\ pc'[b] = "dead" =>
    /\ end'[b].code = 0 => end[b].kind = "completed" \/ pc[b] = "boot"
    /\ end[b].kind = "completed" => \/ end'[b].code \in {0, 2}
                                      \/ b \in stopped' \/ crashes > 0

LEMMA ExitsTell ==
  ASSUME BotInv, [Next]_vars, NEW b \in Bot
  PROVE  ExitTells(b)
<1> USE DEF BotInv
<1>0. Agree(pc[b], end[b])
  BY DEF EndsAgree
<1>1. CASE Around(b) \/ Work(b) \/ Outside(b)
  <2> USE DEF TypeOK, Goto, ExitTells
  <2>1. CASE WriteTmp(b) \/ Leave(b) \/ Work(b)
    BY <2>1 DEF WriteTmp, Leave, Work, Ended
  <2>2. CASE Saved(b)
    BY <1>0, <2>2 DEF Saved, Die, Agree, Tried
  <2>3. CASE NotSaved(b)
    <3>1. CASE pc[b] = "entering"
      BY <1>0, <2>3, <3>1 DEF NotSaved, Crash, Die, Agree, Starting
    <3>2. CASE pc[b] = "limiting"
      BY <2>3, <3>2 DEF NotSaved
    <3>3. CASE pc[b] = "recording"
      <4>1. tmp[PadOf[b]] = NoPad /\ mem[b] # NoPad
        BY <2>3, BotRunAssumption DEF NotSaved, RenameFailed
      <4>2. crashes # 0
        BY <3>3, <4>1 DEF OneAtATime, Writing
      <4>3. crashes > 0
        BY <4>2, BotRunAssumption
      <4>4. end'[b].code = 1
        BY <2>3, <3>3 DEF NotSaved, Crash, Die
      <4>5. QED
        BY <4>3, <4>4
    <3>4. QED
      BY <2>3, <3>1, <3>2, <3>3 DEF NotSaved
  <2>4. CASE Boot(b)
    BY <1>0, <2>4 DEF Boot, Crash, Die, Agree, Starting
  <2>5. CASE Terminate(b)
    <3>1. b \in stopped'
      BY <2>5 DEF Terminate
    <3>2. pc'[b] = "dead" => end'[b].code \in {2, 143}
      BY <2>5 DEF Terminate, Die
    <3>3. QED
      BY <3>1, <3>2
  <2>6. CASE Kill(b)
    BY <2>6 DEF Kill, Die
  <2>7. CASE Spawn(b)
    BY <2>7 DEF Spawn
  <2>8. CASE NoteExit(b) \/ ExitNoted(b) \/ ExitPassed(b)
    BY <2>8 DEF NoteExit, ExitNoted, ExitPassed, Gone
  <2>9. QED
    BY <1>1, <2>1, <2>2, <2>3, <2>4, <2>5, <2>6, <2>7, <2>8 DEF Around, Outside
<1>2. CASE \E c \in Bot \ {b} : Around(c) \/ Work(c) \/ Outside(c)
  <2>1. pc'[b] = pc[b]
    BY <1>2, Locality
  <2>2. QED
    BY <2>1 DEF ExitTells, Alive, Saving
<1>3. CASE OrchestratorCrash
  BY <1>3 DEF OrchestratorCrash, TypeOK, ExitTells, Alive, Saving
<1>4. CASE UNCHANGED vars
  BY <1>4 DEF vars, ExitTells, Alive, Saving
<1>5. QED
  BY <1>1, <1>2, <1>3, <1>4 DEF Next

\* The exit code tells whether the bot answered, unless a signal, or another saver of the same
\* scratchpad after a crash of the orchestrator, gets in between.
THEOREM ExitsTellWhy == Spec => ExitTellsWhy
<1>1. BotInv /\ [Next]_vars =>
        [\A b \in Bot : pc[b] \in Alive /\ pc'[b] = "dead" =>
           /\ end'[b].code = 0 => end[b].kind = "completed" \/ pc[b] = "boot"
           /\ end[b].kind = "completed" => \/ end'[b].code \in {0, 2}
                                             \/ b \in stopped' \/ crashes > 0]_vars
  BY ExitsTell DEF ExitTells
<1>2. QED
  BY BotInvInit, BotInvStep, <1>1, PTL DEF Spec, ExitTellsWhy

------------------------------------------------------------------------------
(* The run of a bot nears its end.                                            *)

\* The points of a run still ahead of a process.
Ahead == [p \in PC |->
  CASE p = "boot" -> 9 [] p = "enter" -> 8 [] p = "entering" -> 7 [] p = "work" -> 6
    [] p = "limit" -> 5 [] p = "limiting" -> 4 [] p = "leave" -> 3
    [] p = "record" -> 2 [] p = "recording" -> 1
    [] p \in {"off", "dead", "noting"} -> 0]

Nearer(b) ==
  \/ Ahead[pc'[b]] < Ahead[pc[b]]
  \/ pc'[b] = pc[b] /\ b = Followed /\ TurnsLeft' < TurnsLeft
Unmoved(b) == pc'[b] = pc[b] /\ (b = Followed => TurnsLeft' = TurnsLeft)

BotsNearTheirEnd ==
  [][\A b \in Bot : pc[b] \in Alive =>
       /\ Process(b) => Nearer(b)
       /\ Nearer(b) \/ Unmoved(b)]_runnerVars

LEMMA AheadValues ==
  /\ Ahead["boot"] = 9 /\ Ahead["enter"] = 8 /\ Ahead["entering"] = 7 /\ Ahead["work"] = 6
  /\ Ahead["limit"] = 5 /\ Ahead["limiting"] = 4 /\ Ahead["leave"] = 3
  /\ Ahead["record"] = 2 /\ Ahead["recording"] = 1
  /\ Ahead["off"] = 0 /\ Ahead["dead"] = 0 /\ Ahead["noting"] = 0
BY DEF Ahead, PC, Alive, Saving

\* The way of a process: which point follows which.
LEMMA ProcessMovesOn ==
  ASSUME TypeOK, NEW b \in Bot,
         Around(b) \/ (\E o \in Outcome : Ended(b, o)) \/ Terminate(b) \/ Kill(b)
  PROVE  Ahead[pc'[b]] < Ahead[pc[b]]
<1> USE AheadValues DEF TypeOK, Goto
<1>1. CASE WriteTmp(b)
  BY <1>1 DEF WriteTmp
<1>2. CASE Saved(b)
  BY <1>2 DEF Saved, Die
<1>3. CASE NotSaved(b)
  BY <1>3 DEF NotSaved, Crash, Die
<1>4. CASE Boot(b)
  BY <1>4 DEF Boot, Crash, Die
<1>5. CASE Leave(b)
  BY <1>5 DEF Leave
<1>6. CASE \E o \in Outcome : Ended(b, o)
  BY <1>6 DEF Ended
<1>7. CASE Kill(b)
  BY <1>7 DEF Kill, Die, Alive, Saving
<1>8. CASE Terminate(b)
  <2>1. CASE pc'[b] = "dead" /\ pc[b] \in Alive
    BY <2>1 DEF Alive, Saving
  <2>2. CASE pc'[b] = "leave" /\ pc[b] \in Trying
    BY <2>2 DEF Trying
  <2>3. QED
    BY <1>8, <2>1, <2>2 DEF Terminate, Die
<1>9. QED
  BY <1>1, <1>2, <1>3, <1>4, <1>5, <1>6, <1>7, <1>8 DEF Around

\* A loop that is left alone has as many turns left as before.
LEMMA LoopUnmoved ==
  ASSUME UNCHANGED loopVars
  PROVE  TurnsLeft' = TurnsLeft
BY DEF loopVars, TurnsLeft, CallsLeft, ToolsLeft, QuartersLeft, NudgesLeft, EndLeft, Running

LEMMA OwnStepNears ==
  ASSUME TypeOK, LoopInv, NEW b \in Bot, Process(b)
  PROVE  Nearer(b)
<1>1. CASE Around(b)
  BY <1>1, ProcessMovesOn DEF Nearer
<1>2. CASE b = Followed /\ LoopStep
  <2>1. TurnsLeft' < TurnsLeft
    BY <1>2, TurnIsCounted DEF LoopStep
  <2>2. QED
    BY <1>2, <2>1 DEF LoopStep, vars, Nearer
<1>3. CASE b = Followed /\ LoopEnded
  <2>1. Result \in Outcome /\ Ended(b, Result)
    BY <1>3, ResultIsOutcome DEF LoopEnded
  <2>2. QED
    BY <2>1, ProcessMovesOn DEF Nearer
<1>4. CASE Work(b)
  BY <1>4, ProcessMovesOn DEF Work, Nearer
<1>5. QED
  BY <1>1, <1>2, <1>3, <1>4 DEF Process

\* What others do, and what is done to the bot, does not set it back.
LEMMA NoStepSetsBack ==
  ASSUME TypeOK, LoopInv, RunnerNext, NEW b \in Bot, pc[b] \in Alive
  PROVE  Nearer(b) \/ Unmoved(b)
<1>1. ASSUME NEW c \in Bot, Process(c)
      PROVE  Nearer(b) \/ Unmoved(b)
  <2>1. CASE c = b
    BY <1>1, <2>1, OwnStepNears
  <2>2. CASE c # b /\ c = Followed
    <3>1. CASE LoopStep
      BY <2>2, <3>1 DEF LoopStep, vars, Unmoved
    <3>2. CASE LoopEnded
      <4>1. Ended(c, Result)
        BY <2>2, <3>2 DEF LoopEnded
      <4>2. pc'[b] = pc[b]
        BY <2>2, <4>1 DEF Ended, Goto, TypeOK
      <4>3. QED
        BY <2>2, <4>2 DEF Unmoved
    <3>3. CASE Around(c)
      BY <2>2, <3>3, Locality DEF Unmoved
    <3>4. QED
      BY <1>1, <2>2, <3>1, <3>2, <3>3 DEF Process
  <2>3. CASE c # b /\ c # Followed
    <3>1. (Around(c) \/ Work(c)) /\ UNCHANGED loopVars
      BY <1>1, <2>3 DEF Process
    <3>2. pc'[b] = pc[b]
      BY <2>3, <3>1, Locality
    <3>3. QED
      BY <3>1, <3>2, LoopUnmoved DEF Unmoved
  <2>4. QED
    BY <2>1, <2>2, <2>3
<1>2. ASSUME NEW c \in Bot, Outside(c), LoopIsLeft
      PROVE  Nearer(b) \/ Unmoved(b)
  <2>1. CASE c = b
    <3>1. Terminate(b) \/ Kill(b)
      BY <1>2, <2>1 DEF Outside, Spawn, NoteExit, ExitNoted, ExitPassed, Alive, Saving
    <3>2. QED
      BY <3>1, ProcessMovesOn DEF Nearer
  <2>2. CASE c # b
    <3>1. pc'[b] = pc[b]
      BY <1>2, <2>2, Locality
    <3>2. b = Followed => UNCHANGED loopVars
      BY <1>2, <3>1 DEF LoopIsLeft
    <3>3. QED
      BY <3>1, <3>2, LoopUnmoved DEF Unmoved
  <2>3. QED
    BY <2>1, <2>2
<1>3. CASE OrchestratorCrash /\ UNCHANGED loopVars
  <2>1. pc'[b] = pc[b]
    BY <1>3 DEF OrchestratorCrash, TypeOK
  <2>2. QED
    BY <1>3, <2>1, LoopUnmoved DEF Unmoved
<1>4. QED
  BY <1>1, <1>2, <1>3 DEF RunnerNext

\* BotsEnd without its fairness: each step of a live bot's own process brings it nearer to
\* its end, and no step of anybody sets it back.  There is no way round a loop of
\* saves, retries, nudges and signals that a bot could take for ever.
THEOREM BotsNearEnd == RunnerSpec => BotsNearTheirEnd
<1>1. RunnerInit => LoopInv /\ TypeOK
  BY LoopStarts, BotTypeInit DEF RunnerInit
<1>2. LoopInv /\ TypeOK /\ [RunnerNext]_runnerVars => LoopInv' /\ TypeOK'
  BY RunnerKeepsLoopInv, RunnerStepIsBotStep, BotTypeStep
<1>3. LoopInv /\ TypeOK /\ [RunnerNext]_runnerVars =>
        [\A b \in Bot : pc[b] \in Alive =>
           /\ Process(b) => Nearer(b)
           /\ Nearer(b) \/ Unmoved(b)]_runnerVars
  BY OwnStepNears, NoStepSetsBack
<1>4. QED
  BY <1>1, <1>2, <1>3, PTL DEF RunnerSpec, BotsNearTheirEnd
==============================================================================
