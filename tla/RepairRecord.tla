---------------------------- MODULE RepairRecord ----------------------------
(***************************************************************************)
(* What the claim files of a ticket's repairs promise, without results,    *)
(* locks and reconcilers: one claim for each refused move, made while no    *)
(* other is active, executed at most MAX_REPAIR_EXECUTIONS - 1 times (and   *)
(* once at least), patched only while it runs, and closed once and for all. *)
(***************************************************************************)
EXTENDS Naturals

CONSTANTS Dest, MAX_REPAIR_EXECUTIONS

VARIABLES
  status,    \* of each move's claim
  attempt    \* the execution it is in

Active(d) == status[d] \in {"CLAIMED", "RUNNING", "PATCH_APPLIED"}

Init ==
  /\ status = [d \in Dest |-> "none"]
  /\ attempt = [d \in Dest |-> 0]

Become(d, old, new) ==
  /\ status[d] = old
  /\ status' = [status EXCEPT ![d] = new]

Claim(d) ==
  /\ \A e \in Dest : ~Active(e)
  /\ Become(d, "none", "CLAIMED")
  /\ attempt' = [attempt EXCEPT ![d] = 1]

Start(d) == Become(d, "CLAIMED", "RUNNING") /\ UNCHANGED attempt

Again(d) ==
  /\ attempt[d] + 1 < MAX_REPAIR_EXECUTIONS
  /\ Become(d, "RUNNING", "CLAIMED")
  /\ attempt' = [attempt EXCEPT ![d] = @ + 1]

Patch(d) == Become(d, "RUNNING", "PATCH_APPLIED") /\ UNCHANGED attempt

Close(d) ==
  /\ \/ Become(d, "RUNNING", "FAILED")
     \/ \E end \in {"COMPLETED", "FAILED"} : Become(d, "PATCH_APPLIED", end)
  /\ UNCHANGED attempt

Next == \E d \in Dest : Claim(d) \/ Start(d) \/ Again(d) \/ Patch(d) \/ Close(d)

Spec == Init /\ [][Next]_<<status, attempt>>
=============================================================================
