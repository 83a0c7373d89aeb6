------------------------- MODULE TicketStoreShared -------------------------
(***************************************************************************)
(* Two processes that open the same ticket store: the orchestrator and a   *)
(* bot whose create_ticket tool adds a ticket and flushes.  Each has its   *)
(* own memory, dirty set and savers; tickets.json, the log and the flock   *)
(* are shared.  The appends of API calls take no flock.                    *)
(***************************************************************************)
EXTENDS Naturals, Sequences

CONSTANTS Ticket, SaverP, SaverQ, NoSaver, Ops, MaxClock

VARIABLES
  memP, dirtyP, pendingP, signalP, countP, upP, jobP,   \* private to process P
  memQ, dirtyQ, pendingQ, signalQ, countQ, upQ, jobQ,   \* private to process Q
  snap, snapExists, wal, flock,                         \* the files
  clock, used, faults, latest

privateP == <<memP, dirtyP, pendingP, signalP, countP, upP, jobP>>
privateQ == <<memQ, dirtyQ, pendingQ, signalQ, countQ, upQ, jobQ>>
shared == <<snap, snapExists, wal, flock, clock, used, faults, latest>>

P == INSTANCE TicketStore WITH
  mem <- memP, dirty <- dirtyP, pending <- pendingP, signal <- signalP,
  saveCount <- countP, up <- upP, job <- jobP, Worker <- {}, Flusher <- SaverP,
  FullSaveInterval <- 1, SmallSaves <- FALSE, Faults <- {}, MaxFaults <- 0
Q == INSTANCE TicketStore WITH
  mem <- memQ, dirty <- dirtyQ, pending <- pendingQ, signal <- signalQ,
  saveCount <- countQ, up <- upQ, job <- jobQ, Worker <- {}, Flusher <- SaverQ,
  FullSaveInterval <- 1, SmallSaves <- FALSE, Faults <- {}, MaxFaults <- 0

Init == P!Init /\ Q!Init
StepP == P!Next /\ UNCHANGED privateQ
StepQ == Q!Next /\ UNCHANGED privateP
Next == StepP \/ StepQ
Spec == Init /\ [][Next]_<<privateP, privateQ, shared>>

\* No completed API call of either process is lost by the other's saves: what a
\* start-up would read is what the last call on each ticket left.
NoLostUpdate == P!AckedDurable
=============================================================================
