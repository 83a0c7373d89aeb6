----------------------------- MODULE ReplayLoop -----------------------------
(***************************************************************************)
(* The loop of _replay_wal_into_memory_locked for one ticket, line by      *)
(* line: the reference for the closed form Replayed of TicketLog.          *)
(***************************************************************************)
EXTENDS TicketLog

\* What one line does to the ticket in memory.
ReplayLine(entry, line) ==
  IF line.ver # 0 /\ entry.ver # 0 /\ entry.ts > line.ts THEN entry ELSE line

\* The ticket in memory after the first i lines, and after all of them.
Looped(m, log) ==
  LET entry[i \in 0 .. Len(log)] == IF i = 0 THEN m ELSE ReplayLine(entry[i - 1], log[i])
  IN  entry[Len(log)]
=============================================================================
