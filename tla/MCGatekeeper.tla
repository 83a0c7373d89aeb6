---------------------------- MODULE MCGatekeeper ----------------------------
(* Two tickets that share a file, each with its verifier: the first one verifies twice,
   the second one puts its copy of the cache back in between and commits. *)
EXTENDS Gatekeeper, TLC

MCOf == [v \in Verifiers |-> IF v = "v1" THEN "t1" ELSE "t2"]
MCTouches == [t \in Tickets |-> {Files}]
MCModules == [t \in Tickets |-> IF t = "t1" THEN {} ELSE Files]
MCRuns == [v \in Verifiers |-> IF v = "v1" THEN 2 ELSE 1]

\* Contents are only compared with each other.
Symmetry == Permutations(Contents)
=============================================================================
