----------------------------- MODULE TicketLog -----------------------------
(***************************************************************************)
(* The lines of tickets.wal.jsonl for one ticket, and the two readers of   *)
(* codebot/ticket_engine.py: the one that loads a store at start-up and    *)
(* the one that merges the log into a running store before a compaction.   *)
(*                                                                         *)
(* A ticket is abstracted to the number of the call that wrote it and the  *)
(* updated_at it carries.                                                  *)
(***************************************************************************)
EXTENDS Naturals, Sequences, FiniteSets

Absent == [ver |-> 0, ts |-> 0]     \* no such ticket; as a log line, its tombstone
Version == [ver : Nat \ {0}, ts : Nat] \cup {Absent}

\* What _replay_wal makes of a ticket at start-up: the last line wins.
LastLine(base, log) == IF log = <<>> THEN base ELSE log[Len(log)]

\* Mutant: the merge takes the last line, as the start-up does.
ReplayedLast(m, log) == LastLine(m, log)
\* Mutant: the merge skips tombstones.
ReplayedLive(m, log) ==
  LET live == {i \in 1 .. Len(log) : log[i].ver # 0}
      Newest(i) == \A j \in live : log[j].ts < log[i].ts \/ (log[j].ts = log[i].ts /\ j <= i)
  IN  IF live = {} \/ (m.ver # 0 /\ \A i \in live : log[i].ts < m.ts)
      THEN m ELSE log[CHOOSE i \in live : Newest(i)]
\* Mutant: of two lines with the same updated_at the first stays.
ReplayedFirst(m, log) ==
  LET After(i) == \A j \in i .. Len(log) : log[j].ver # 0
      live == {i \in 1 .. Len(log) : After(i)}
      base == IF Cardinality(live) = Len(log) THEN m ELSE Absent
      Newest(i) == \A j \in live : log[j].ts < log[i].ts \/ (log[j].ts = log[i].ts /\ j >= i)
      kept == base.ver # 0 /\ \A i \in live : log[i].ts < base.ts
  IN  IF live = {} \/ kept THEN base ELSE log[CHOOSE i \in live : Newest(i)]

(***************************************************************************)
(* What _replay_wal_into_memory_locked makes of a ticket: a tombstone      *)
(* always removes it, any other line is skipped when the ticket in memory  *)
(* has a later updated_at.  After the last tombstone the latest line of    *)
(* the greatest updated_at is therefore the one that stays.                *)
(***************************************************************************)
Replayed(m, log) ==
  LET After(i) == \A j \in i .. Len(log) : log[j].ver # 0
      live == {i \in 1 .. Len(log) : After(i)}
      base == IF Cardinality(live) = Len(log) THEN m ELSE Absent
      Newest(i) == \A j \in live : log[j].ts < log[i].ts \/ (log[j].ts = log[i].ts /\ j <= i)
      kept == base.ver # 0 /\ \A i \in live : log[i].ts < base.ts
  IN  IF live = {} \/ kept THEN base ELSE log[CHOOSE i \in live : Newest(i)]
=============================================================================
