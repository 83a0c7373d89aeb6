----------------------------- MODULE MCServices -----------------------------
(***************************************************************************)
(* Five services of the program that share no state, checked in one run:   *)
(* the first state chooses which of them runs, and the others rest in a    *)
(* state of theirs in which nothing is fair to happen.                     *)
(***************************************************************************)
EXTENDS DiscoveryPool, FindingInbox, PidFiles, Checkpoints, RateLimiter

VARIABLE service

vars == <<poolVars, inboxVars, pidVars, ckptVars, rateVars, service>>

\* Two findings of one problem with one evidence, which differ in the files they name.
MCEvidenceOf == [f \in File |-> "e1"]
MCFingerprintOf == [f \in File |-> IF f = 1 THEN "p1" ELSE "p2"]

\* 20 requests a minute, as for qwen-3.8-max.
MCConfigured == [m \in Models |-> 3000]

-----------------------------------------------------------------------------
PoolRests ==
  /\ process = [r \in Role |-> "none"] /\ cooling = {} /\ draining = FALSE
  /\ main = Off /\ daemon = Resting /\ next = 0

InboxRests ==
  /\ box = [f \in File |-> "unwritten"] /\ known = {} /\ logged = {} /\ open = {}
  /\ byEvidence = [e \in Evidence |-> None] /\ byFingerprint = [p \in Fingerprint |-> None]
  /\ walk = Inside("off", 0) /\ unlogged = {}

PidRests ==
  /\ runs = [p \in Pid |-> "none"]
  /\ pidFile = [n \in Named |-> NoPid] /\ claim = [p \in Pid |-> NoClaim]
  /\ unfiled = {} /\ stopping = NoRequest /\ filed = NoPid /\ overlapped = {}

Services == {"discovery", "inbox", "pids", "checkpoints", "rates"}

Init ==
  /\ service \in Services
  /\ IF service = "discovery" THEN PoolInit ELSE PoolRests
  /\ IF service = "inbox" THEN InboxInit ELSE InboxRests
  /\ IF service = "pids" THEN PidInit ELSE PidRests
  /\ CheckpointInit /\ RateInit

Next ==
  /\ UNCHANGED service
  /\ \/ service = "discovery" /\ PoolNext
        /\ UNCHANGED <<inboxVars, pidVars, ckptVars, rateVars>>
     \/ service = "inbox" /\ InboxNext
        /\ UNCHANGED <<poolVars, pidVars, ckptVars, rateVars>>
     \/ service = "pids" /\ PidNext
        /\ UNCHANGED <<poolVars, inboxVars, ckptVars, rateVars>>
     \/ service = "checkpoints" /\ CheckpointNext
        /\ UNCHANGED <<poolVars, inboxVars, pidVars, rateVars>>
     \/ service = "rates" /\ RateNext
        /\ UNCHANGED <<poolVars, inboxVars, pidVars, ckptVars>>

\* In a state of rest no fair action is enabled.
Spec == Init /\ [][Next]_vars /\ PoolFairness /\ InboxFairness
=============================================================================
