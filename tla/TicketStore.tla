---------------------------- MODULE TicketStore ----------------------------
(***************************************************************************)
(* The storage engine of codebot/ticket_engine.py: one process's           *)
(* TicketStore over the files tickets.json (the snapshot), tickets.wal.jsonl *)
(* (the write-ahead log) and tickets.lock (the flock file).                *)
(*                                                                         *)
(* An API call changes a ticket in memory, marks it dirty and appends it to *)
(* the log, all under the store's RLock, so a call is one action.  Savers  *)
(* (the background worker, and threads inside flush() or close()) run      *)
(* _save() concurrently with the calls and with each other; _save() holds  *)
(* the RLock only around its hand-off, its replay and its clean-up, so     *)
(* every stretch between two of those is an action of its own.             *)
(*                                                                         *)
(* A ticket is abstracted to the version written by its last API call and  *)
(* that version's updated_at.  The log is kept per ticket: it is only ever *)
(* appended to and unlinked whole, and its readers treat tickets           *)
(* independently, so the order of lines of different tickets is immaterial.*)
(***************************************************************************)
EXTENDS Naturals, Sequences, FiniteSets, ReplayLoop

CONSTANTS
  Ticket,            \* ticket identifiers
  Worker,            \* background save workers of this process (at most one in the code)
  Flusher,           \* threads that call flush() or close()
  NoSaver,           \* the flock is free
  FullSaveInterval,  \* _FULL_SAVE_INTERVAL: every n-th save compacts
  SmallSaves,        \* BOOLEAN: may a save stay below the compaction thresholds?
  Ops,               \* the API calls the clients make, a subset of OpNames
  Faults,            \* the I/O faults that may happen, a subset of FaultNames
  MaxClock,          \* bound: number of API calls
  MaxFaults          \* bound: number of I/O faults

Saver == Worker \cup Flusher
OpNames == {"add", "transition", "batch", "record_commit", "update_context", "remove"}
FaultNames == {"append", "io", "lock", "replace", "crash"}
MaxRetries == 3

ASSUME StoreAssumption ==
  /\ NoSaver \notin Saver
  /\ Worker \cap Flusher = {}
  /\ FullSaveInterval \in Nat \ {0}
  /\ SmallSaves \in BOOLEAN
  /\ Ops \subseteq OpNames
  /\ Faults \subseteq FaultNames
  /\ MaxClock \in Nat
  /\ MaxFaults \in Nat

VARIABLES
  mem,        \* _tickets: what the process serves
  dirty,      \* _dirty_ids
  pending,    \* _pending_flush
  signal,     \* is _save_queue non-empty?
  saveCount,  \* _save_count modulo _FULL_SAVE_INTERVAL
  up,         \* is the process running?
  snap,       \* tickets.json
  snapExists,
  wal,        \* tickets.wal.jsonl: each ticket's lines, oldest first
  flock,      \* the saver holding tickets.lock
  job,        \* the locals of _save() in each saver
  clock,      \* logical time.time(); counts the API calls
  used,       \* ids generate_ticket_id has handed out
  faults,     \* I/O faults so far
  latest      \* history: what the last API call left in each ticket

memVars == <<mem, dirty, signal>>
fileVars == <<snap, snapExists, wal>>
histVars == <<clock, used, latest>>
vars == <<mem, dirty, pending, signal, saveCount, up, snap, snapExists, wal, flock,
          job, clock, used, faults, latest>>

-----------------------------------------------------------------------------
(* Data *)

NoTickets == [t \in Ticket |-> Absent]
EmptyLog == [t \in Ticket |-> <<>>]

\* An entry of _dirty_ids: a ticket id, or "__deleted__:" followed by one.
DirtyId == [id : Ticket, deleted : BOOLEAN]
Live(t) == [id |-> t, deleted |-> FALSE]
Deleted(t) == [id |-> t, deleted |-> TRUE]

Recovered == [t \in Ticket |-> LastLine(snap[t], wal[t])]

\* The orders in which _save may serialise a ticket's entries of a set of dirty
\* ids (iteration order of a Python set); a live id with no ticket writes nothing.
LineOrders(ids, t) ==
  LET live == IF Live(t) \in ids /\ mem[t].ver # 0 THEN <<mem[t]>> ELSE <<>>
      tomb == IF Deleted(t) \in ids THEN <<Absent>> ELSE <<>>
  IN  {live \o tomb, tomb \o live}

(* A saver's locals: where it is, pending_ids_snapshot, pending_payloads,  *)
(* needs_compaction, the payload a compaction writes, the loop counter.    *)
IdleJob == [pc |-> "idle", handed |-> {}, lines |-> EmptyLog, kind |-> "append",
            built |-> NoTickets, attempt |-> 0]
Pc(s) == job[s].pc

LineChoices(ids) ==
  {l \in [Ticket -> UNION {LineOrders(ids, t) : t \in Ticket}] :
     \A t \in Ticket : l[t] \in LineOrders(ids, t)}
AppendAll(log, more) == [t \in Ticket |-> log[t] \o more[t]]

-----------------------------------------------------------------------------
(* Start-up: __init__, _load *)

Init ==
  /\ mem = NoTickets /\ dirty = {} /\ pending = {} /\ signal = FALSE /\ saveCount = 0
  /\ up = TRUE
  /\ snap = NoTickets /\ snapExists = FALSE /\ wal = EmptyLog /\ flock = NoSaver
  /\ job = [s \in Saver |-> IdleJob]
  /\ clock = 0 /\ used = {} /\ faults = 0
  /\ latest = NoTickets

-----------------------------------------------------------------------------
(* API calls *)

Fault(f) == f \in Faults /\ faults < MaxFaults

\* Mutant: the call does not queue the save.
LogOnly(more) == wal' = AppendAll(wal, more) /\ UNCHANGED <<signal, faults>>

\* _append_wal_locked followed by _queue_save; or an OSError from the append or
\* its fsync, in which case the lines may or may not have reached the file and
\* the save is not queued.
LogAndQueue(more) ==
  \/ wal' = AppendAll(wal, more) /\ signal' = TRUE /\ UNCHANGED faults
  \/ /\ Fault("append") /\ faults' = faults + 1
     /\ wal' \in {wal, AppendAll(wal, more)}
     /\ UNCHANGED signal

\* One call that leaves the versions v (a function on the tickets it changes) in
\* memory, discards the dirty ids drop and adds the dirty ids mark.
Call(op, v, drop, mark) ==
  /\ op \in Ops /\ up /\ clock < MaxClock
  /\ mem' = [t \in Ticket |-> IF t \in DOMAIN v THEN v[t] ELSE mem[t]]
  /\ dirty' = (dirty \ drop) \cup mark
  /\ LogAndQueue([t \in Ticket |-> IF t \in DOMAIN v THEN <<v[t]>> ELSE <<>>])
  /\ clock' = clock + 1
  /\ latest' = [t \in Ticket |-> IF t \in DOMAIN v THEN v[t] ELSE latest[t]]
  /\ UNCHANGED <<pending, saveCount, up, snap, snapExists, flock, job>>

Present(t) == mem[t].ver # 0
\* The new versions of a call that sets updated_at, and of one that does not.
Stamped(S) == [t \in S |-> [ver |-> clock + 1, ts |-> clock + 1]]
Unstamped(S) == [t \in S |-> [ver |-> clock + 1, ts |-> mem[t].ts]]
Gone(S) == [t \in S |-> Absent]

\* add(): the id is new (generate_ticket_id draws 128 random bits).
Add(t) ==
  /\ t \notin used
  /\ used' = used \cup {t}
  /\ Call("add", Stamped({t}), {}, {Live(t)})

\* transition(); record_implementation_approval() has the same effect here.
Transition(t) ==
  /\ Present(t)
  /\ Call("transition", Stamped({t}), {}, {Live(t)})
  /\ UNCHANGED used

\* batch_transition(): one append for the whole batch.
BatchTransition(S) ==
  /\ \A t \in S : Present(t)
  /\ Cardinality(S) > 1
  /\ Call("batch", Stamped(S), {}, {Live(t) : t \in S})
  /\ UNCHANGED used

\* Mutant: record_commit() does not mark the ticket dirty.
RecordCommitUnmarked(t) ==
  /\ Present(t)
  /\ Call("record_commit", Unstamped({t}), {}, {})
  /\ UNCHANGED used

\* record_commit() keeps updated_at.
RecordCommit(t) ==
  /\ Present(t)
  /\ Call("record_commit", Unstamped({t}), {}, {Live(t)})
  /\ UNCHANGED used

\* update_context_fields() keeps updated_at; unlike the other calls it restores
\* the ticket and its dirty mark when the append fails.
UpdateContextFields(t) ==
  /\ Present(t)
  /\ UNCHANGED used
  /\ \/ Call("update_context", Unstamped({t}), {}, {Live(t)}) /\ UNCHANGED faults
     \/ /\ "update_context" \in Ops /\ up /\ clock < MaxClock
        /\ Fault("append") /\ faults' = faults + 1
        /\ wal' \in {wal, [wal EXCEPT ![t] = Append(@, Unstamped({t})[t])]}
        /\ clock' = clock + 1
        /\ UNCHANGED <<mem, dirty, signal, latest, pending, saveCount, up, snap,
                       snapExists, flock, job>>

\* remove(): the log receives a tombstone.
Remove(t) ==
  /\ Present(t)
  /\ Call("remove", Gone({t}), {Live(t)}, {Deleted(t)})
  /\ UNCHANGED used

ApiCall ==
  \/ \E t \in Ticket : \/ Add(t) \/ Transition(t) \/ RecordCommit(t)
                       \/ UpdateContextFields(t) \/ Remove(t)
  \/ \E S \in SUBSET Ticket : BatchTransition(S)

-----------------------------------------------------------------------------
(* _save() *)

Goto(s, l) == job' = [job EXCEPT ![s].pc = l]
Finish(s) == job' = [job EXCEPT ![s] = IdleJob]

\* The worker waits for the save queue to be non-empty ...
WorkerWakes(s) == s \in Worker /\ signal
\* ... and a thread may call flush() at any time.
FlushCalled(s) == s \in Flusher

\* A thread enters _save(), having emptied the save queue.
Begin(s) ==
  /\ up /\ Pc(s) = "idle"
  /\ WorkerWakes(s) \/ FlushCalled(s)
  /\ signal' = FALSE
  /\ Goto(s, "begin")
  /\ UNCHANGED <<mem, dirty, pending, saveCount, up, fileVars, flock, histVars, faults>>

\* if not self._dirty_ids: return
NothingDirty(s) ==
  /\ up /\ Pc(s) = "begin" /\ dirty = {}
  /\ Finish(s)
  /\ UNCHANGED <<memVars, pending, saveCount, up, fileVars, flock, histVars, faults>>

\* Under the RLock: dirty ids become pending, their payloads are serialised, and the
\* save decides to compact if there is no tickets.json, if it is the n-th, on a size
\* threshold, or if forced: flush() sets a flag that a second flush() may clear.
HandOff(s) ==
  /\ up /\ Pc(s) = "begin" /\ dirty # {}
  /\ pending' = dirty /\ dirty' = {}
  /\ saveCount' = (saveCount + 1) % FullSaveInterval
  /\ \E l \in LineChoices(dirty), k \in {"append", "compact"} :
       /\ k = "append" => /\ SmallSaves /\ snapExists /\ saveCount' # 0
                          /\ s \in Flusher => \E r \in Flusher : r # s
       /\ job' = [job EXCEPT ![s].pc = "ready", ![s].handed = dirty, ![s].lines = l,
                             ![s].kind = k]
  /\ UNCHANGED <<mem, signal, up, fileVars, flock, histVars, faults>>

\* flock(lock_fd, LOCK_EX)
Lock(s) ==
  /\ up /\ Pc(s) = "ready" /\ flock = NoSaver
  /\ flock' = s
  /\ Goto(s, "locked")
  /\ UNCHANGED <<memVars, pending, saveCount, up, fileVars, histVars, faults>>

\* Append path: the payloads serialised at the hand-off go to the log, off the RLock.
AppendLines(s) ==
  /\ up /\ Pc(s) = "locked" /\ job[s].kind = "append"
  /\ wal' = AppendAll(wal, job[s].lines)
  /\ Goto(s, "appended")
  /\ UNCHANGED <<memVars, pending, saveCount, up, snap, snapExists, flock, histVars, faults>>

FinishAppend(s) ==
  /\ up /\ Pc(s) = "appended"
  /\ pending' = pending \ job[s].handed
  /\ flock' = NoSaver
  /\ Finish(s)
  /\ UNCHANGED <<memVars, saveCount, up, fileVars, histVars, faults>>

\* Compaction, under the RLock: replay the log into memory, build the payload.
Build(s) ==
  /\ up /\ Pc(s) = "locked" /\ job[s].kind = "compact"
  /\ mem' = [t \in Ticket |-> Replayed(mem[t], wal[t])]
  /\ job' = [job EXCEPT ![s].pc = "built", ![s].built = mem']
  /\ UNCHANGED <<dirty, signal, pending, saveCount, up, fileVars, flock, histVars, faults>>

\* tmp.replace(self._path)
Replace(s) ==
  /\ up /\ Pc(s) = "built"
  /\ snap' = job[s].built /\ snapExists' = TRUE
  /\ Goto(s, "replaced")
  /\ UNCHANGED <<memVars, pending, saveCount, up, wal, flock, histVars, faults>>

\* Mutant: the log is unlinked whatever became dirty meanwhile.
ClearWalAlways(s) ==
  /\ up /\ Pc(s) = "replaced"
  /\ wal' = EmptyLog
  /\ pending' = pending \ job[s].handed
  /\ flock' = NoSaver
  /\ Finish(s)
  /\ UNCHANGED <<memVars, saveCount, up, snap, snapExists, histVars, faults>>

\* Under the RLock: unlink the log unless something became dirty meanwhile.
ClearWal(s) ==
  /\ up /\ Pc(s) = "replaced"
  /\ wal' = IF dirty = {} THEN EmptyLog ELSE wal
  /\ pending' = pending \ job[s].handed
  /\ flock' = NoSaver
  /\ Finish(s)
  /\ UNCHANGED <<memVars, saveCount, up, snap, snapExists, histVars, faults>>

SaveStep(s) ==
  \/ Begin(s) \/ NothingDirty(s) \/ HandOff(s) \/ Lock(s)
  \/ AppendLines(s) \/ FinishAppend(s) \/ Build(s) \/ Replace(s) \/ ClearWal(s)

-----------------------------------------------------------------------------
(* Failures *)

\* After a failed attempt: retry with the same payloads, or give up after three.
RetryOrGiveUp(s) ==
  IF job[s].attempt + 1 < MaxRetries
  THEN job' = [job EXCEPT ![s].pc = "ready", ![s].attempt = @ + 1]
  ELSE Finish(s)

\* An OSError inside the flock merges the handed ids back into _dirty_ids.  A
\* failed append may have reached the file.
SaveIOError(s) ==
  /\ up /\ Pc(s) \in {"locked", "built", "replaced"}
  /\ Fault("io") /\ faults' = faults + 1
  /\ IF Pc(s) = "locked" /\ job[s].kind = "append"
     THEN wal' \in {wal, AppendAll(wal, job[s].lines)}
     ELSE UNCHANGED wal
  /\ dirty' = dirty \cup job[s].handed
  /\ pending' = pending \ job[s].handed
  /\ flock' = NoSaver
  /\ RetryOrGiveUp(s)
  /\ UNCHANGED <<mem, signal, saveCount, up, snap, snapExists, histVars>>

\* An OSError from opening or locking tickets.lock is only retried.
LockError(s) ==
  /\ up /\ Pc(s) = "ready"
  /\ Fault("lock") /\ faults' = faults + 1
  /\ RetryOrGiveUp(s)
  /\ UNCHANGED <<memVars, pending, saveCount, up, fileVars, flock, histVars>>

\* A failed replace or verification is a RuntimeError, which no handler of
\* _save catches: the handed ids stay in _pending_flush.
ReplaceError(s) ==
  /\ up /\ Pc(s) = "built"
  /\ Fault("replace") /\ faults' = faults + 1
  /\ \/ UNCHANGED <<snap, snapExists>>
     \/ snap' = job[s].built /\ snapExists' = TRUE
  /\ flock' = NoSaver
  /\ Finish(s)
  /\ UNCHANGED <<memVars, pending, saveCount, up, wal, histVars>>

\* The process dies: memory is lost, the kernel drops its flock.
Crash ==
  /\ up /\ up' = FALSE
  /\ Fault("crash") /\ faults' = faults + 1
  /\ mem' = NoTickets /\ dirty' = {} /\ pending' = {} /\ signal' = FALSE
  /\ saveCount' = 0
  /\ flock' = IF flock \in Saver THEN NoSaver ELSE flock
  /\ job' = [s \in Saver |-> IdleJob]
  /\ UNCHANGED <<fileVars, histVars>>

\* __init__: _load reads the snapshot and replays the log.
Restart ==
  /\ ~up /\ up' = TRUE
  /\ mem' = Recovered
  /\ latest' = Recovered
  /\ UNCHANGED <<dirty, pending, signal, saveCount, fileVars, flock, job, clock,
                 used, faults>>

-----------------------------------------------------------------------------
Next ==
  \/ ApiCall
  \/ \E s \in Saver : SaveStep(s) \/ SaveIOError(s) \/ LockError(s) \/ ReplaceError(s)
  \/ Crash
  \/ Restart

Spec == Init /\ [][Next]_vars

\* The worker thread, and a thread inside flush(), keep running while the process
\* does; whether flush() is called is the clients' choice.
Fairness ==
  \A s \in Saver : WF_vars(SaveStep(s) /\ (s \in Worker \/ Pc(s) # "idle"))
FairSpec == Spec /\ Fairness

-----------------------------------------------------------------------------
(* Properties *)

Job == [pc : {"idle", "begin", "ready", "locked", "appended", "built", "replaced"},
        handed : SUBSET DirtyId, lines : [Ticket -> Seq(Version)],
        kind : {"append", "compact"}, built : [Ticket -> Version], attempt : Nat]

\* The variables have their types, and only a saver between the flock and its
\* release holds tickets.lock.
TypeOK ==
  /\ mem \in [Ticket -> Version] /\ latest \in [Ticket -> Version]
  /\ snap \in [Ticket -> Version] /\ snapExists \in BOOLEAN
  /\ wal \in [Ticket -> Seq(Version)]
  /\ dirty \in SUBSET DirtyId /\ pending \in SUBSET DirtyId
  /\ signal \in BOOLEAN /\ up \in BOOLEAN /\ saveCount \in Nat
  /\ job \in [Saver -> Job]
  /\ clock \in Nat /\ faults \in Nat /\ used \in SUBSET Ticket

\* A crash at any moment loses no completed API call: what _load would read back
\* is what the last call left ("fast WAL append under lock guarantees crash safety").
AckedDurable == Recovered = latest

\* The store implements a map that survives crashes: what _load would read back
\* changes only by API calls, each of which leaves its own version in its tickets.
Map == INSTANCE DurableMap WITH
  Key <- Ticket, db <- [t \in Ticket |-> Recovered[t].ver], calls <- clock
ImplementsDurableMap == Map!DSpec

\* Background saving never changes what the process serves: after every replay,
\* memory still holds what the last API call (or the start-up) left there.
MemoryKeepsLatest == up => mem = latest

\* _save unlinks the log only when tickets.json holds everything the process serves.
UnlinkOnlyCompacted == [][wal # EmptyLog /\ wal' = EmptyLog => snap = mem]_vars

\* The merge of the log before a compaction (the closed form Replayed) is what the
\* code's loop computes from the lines, whatever it starts from.
MergeIsTheLoop ==
  \A t \in Ticket : \A m \in {mem[t], snap[t], latest[t], Absent} :
    Replayed(m, wal[t]) = Looped(m, wal[t])

\* No wake-up of the worker is lost: when no read or write fails, whatever is dirty is handed
\* to a save in the end.
DirtyIsSaved == dirty # {} ~> dirty = {}

\* What it rests on: as long as something is dirty the worker has been signalled, or
\* a saver has taken the signal and not yet looked.
WakeUpPending == dirty # {} => signal \/ \E s \in Saver : Pc(s) = "begin"

=============================================================================
