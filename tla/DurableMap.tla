----------------------------- MODULE DurableMap -----------------------------
(***************************************************************************)
(* What a ticket store promises its clients: a map whose contents survive  *)
(* crashes.  A value is the number of the call that wrote it, so the map   *)
(* says which call a client would find the effect of.  Contents change     *)
(* only by a client's call, one call at a time; saving, compacting,        *)
(* crashing and restarting are invisible.                                  *)
(***************************************************************************)
EXTENDS Naturals

CONSTANT Key

VARIABLES db,    \* the contents a client could recover; 0 is "no ticket"
          calls  \* number of calls completed

dvars == <<db, calls>>

DInit == db = [k \in Key |-> 0] /\ calls = 0

\* One completed call: it gives the keys of S the value v and changes no other.
Write(S, v) ==
  /\ db' = [k \in Key |-> IF k \in S THEN v ELSE db[k]]
  /\ calls' = calls + 1

Create(k) == db[k] = 0 /\ Write({k}, calls + 1)
Update(S) == (\A k \in S : db[k] # 0) /\ Write(S, calls + 1)
Delete(k) == db[k] # 0 /\ Write({k}, 0)

DNext ==
  \/ \E k \in Key : Create(k) \/ Delete(k)
  \/ \E S \in SUBSET Key : Update(S)

DSpec == DInit /\ [][DNext]_dvars

=============================================================================
