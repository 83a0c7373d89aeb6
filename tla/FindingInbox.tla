---------------------------- MODULE FindingInbox ----------------------------
(***************************************************************************)
(* codebot/finding_ingestion.py, run in every tick of the scheduler, over  *)
(* the indexes a TicketStore refuses duplicates by (ticket_engine.py, add) *)
(* and the create_ticket tool of the bots' own processes.                  *)
(*                                                                         *)
(* Bots write findings as files of their own; a tick goes through the      *)
(* files in the order of their names, makes a ticket of each and moves the *)
(* file away.  The program may crash between any two steps, the append to  *)
(* the log and the move may fail.  What other processes add to the log is  *)
(* known here only after the next compaction, or a new load.               *)
(***************************************************************************)
EXTENDS Naturals, FiniteSets

CONSTANTS
  Files,        \* how many files of findings there are; a file is its place by name
  Evidence,     \* what Ticket.evidence_hash() tells apart: class, problem and evidence
  Fingerprint,  \* what DiscoveryFinding.fingerprint() tells apart: category, problem, files
  EvidenceOf, FingerprintOf,   \* those of each file; open tickets that are found similar
                               \* are added to the evidence, so files that share one have
                               \* tickets whose components keep them from being found
  Tools         \* tickets other bots may make, each of the evidence and fingerprint of a file

File == 1..Files

ASSUME InboxAssumption ==
  /\ Files \in Nat
  /\ EvidenceOf \in [File -> Evidence] /\ FingerprintOf \in [File -> Fingerprint]
  /\ Tools \subseteq File

\* The tickets: up to two made of each file, so that a second one can be told, and the tools'.
Ticket == [of : {"first", "second", "tool"}, file : File]
None == [of |-> "none", file |-> 0]

EvidenceHash(t) == EvidenceOf[t.file]
FingerprintHash(t) == FingerprintOf[t.file]

Content == {"finding", "text", "array", "bare"}

VARIABLES
  box,        \* each file: unwritten, processed, rejected, or what it holds in the inbox: a
              \* finding, text (no JSON), an array (no object), a bare finding (no title)
  known,      \* the tickets in this store's memory
  logged,     \* the tickets on disk, in the log or the snapshot
  open,       \* the tickets that are not in a final or deferred state
  byEvidence, byFingerprint,   \* _evidence_index, _fingerprint_index
  walk,       \* where ingest_findings is
  unlogged    \* history: the files whose ticket could not be appended to the log

store == <<known, logged, open, byEvidence, byFingerprint>>
inboxVars == <<box, store, walk, unlogged>>

Outside == [at |-> "resting", file |-> 0]
Inside(where, f) == [at |-> where, file |-> f]

InboxInit ==
  /\ box = [f \in File |-> "unwritten"]
  /\ known = {} /\ logged = {} /\ open = {}
  /\ byEvidence = [e \in Evidence |-> None] /\ byFingerprint = [p \in Fingerprint |-> None]
  /\ walk = Outside /\ unlogged = {}

-----------------------------------------------------------------------------
(* The walk through the inbox *)

Next1(f) == IF f = Files THEN Outside ELSE Inside("file", f + 1)

Begin ==
  /\ walk = Outside /\ Files > 0
  /\ walk' = Inside("file", 1)
  /\ UNCHANGED <<box, store, unlogged>>

Looking(f) == walk = Inside("file", f)

\* A file that is not there, or is gone by now.
NoFile(f) ==
  /\ Looking(f) /\ box[f] \notin Content
  /\ walk' = Next1(f)
  /\ UNCHANGED <<box, store, unlogged>>

\* What is no JSON, or cannot be read just now, is moved aside, if that works.
Quarantine(f) ==
  /\ Looking(f) /\ box[f] \in Content
  /\ box' \in {box, [box EXCEPT ![f] = "rejected"]}
  /\ walk' = Next1(f)
  /\ UNCHANGED <<store, unlogged>>

\* DiscoveryFinding.from_dict asks an array for its keys: AttributeError, which only the
\* scheduler catches; the files behind it wait.
Poisoned(f) ==
  /\ Looking(f) /\ box[f] = "array"
  /\ walk' = Outside
  /\ UNCHANGED <<box, store, unlogged>>

\* Mutant: only tickets that are not closed count, as in add.
IsOpenDuplicate(f) == \E t \in known \cap open : FingerprintHash(t) = FingerprintOf[f]
\* _is_exact_duplicate: a ticket of this finding, or any with its fingerprint.
IsExactDuplicate(f) ==
  \/ \E t \in known : t.of # "tool" /\ t.file = f
  \/ byFingerprint[FingerprintOf[f]] # None

\* _move_to_processed; where neither the move nor the deletion works, the file stays.
Suppress(f) ==
  /\ Looking(f) /\ box[f] \in {"finding", "bare"} /\ IsExactDuplicate(f)
  /\ box' \in {box, [box EXCEPT ![f] = "processed"]}
  /\ walk' = Next1(f)
  /\ UNCHANGED <<store, unlogged>>

\* create_ticket raises for a finding without a title, add is not reached, the file stays.
Bare(f) ==
  /\ Looking(f) /\ box[f] = "bare" /\ ~IsExactDuplicate(f)
  /\ walk' = Next1(f)
  /\ UNCHANGED <<box, store, unlogged>>

\* Mutant: a ticket that is closed counts as well.
StandsAnyhow(t) == t \in known
Stands(t) == t \in known /\ t \in open
\* TicketStore.add finds a ticket with the same evidence, or fingerprint, that is not closed.
Refuses(f) ==
  Stands(byEvidence[EvidenceOf[f]]) \/ Stands(byFingerprint[FingerprintOf[f]])

\* The file stays, to be tried again.
Refused(f) ==
  /\ Looking(f) /\ box[f] = "finding" /\ ~IsExactDuplicate(f)
  /\ Refuses(f)
  /\ walk' = Next1(f)
  /\ UNCHANGED <<box, store, unlogged>>

NewTicket(f) ==
  [of |-> IF \E t \in known \cup logged : t.of = "first" /\ t.file = f THEN "second" ELSE "first",
   file |-> f]

EnterTicket(t) ==
  /\ known' = known \cup {t} /\ open' = open \cup {t}
  /\ byEvidence' = [byEvidence EXCEPT ![EvidenceHash(t)] = t]
  /\ byFingerprint' = [byFingerprint EXCEPT ![FingerprintHash(t)] = t]

\* TicketStore.add indexes the ticket, then appends it to the log; if that raises, the
\* ticket stays in memory and the file in the inbox.
Add(f, written) ==
  /\ Looking(f) /\ box[f] = "finding" /\ ~IsExactDuplicate(f)
  /\ ~Refuses(f)
  /\ EnterTicket(NewTicket(f))
  /\ IF written
     THEN logged' = logged \cup {NewTicket(f)} /\ walk' = Inside("move", f) /\ UNCHANGED unlogged
     ELSE unlogged' = unlogged \cup {f} /\ walk' = Next1(f) /\ UNCHANGED logged
  /\ UNCHANGED box

Move(f) ==
  /\ walk = Inside("move", f)
  /\ box' \in {box, [box EXCEPT ![f] = "processed"]}
  /\ walk' = Next1(f)
  /\ UNCHANGED <<store, unlogged>>

-----------------------------------------------------------------------------
(* The store and the other processes *)

\* What index a log and a snapshot leave: the last line of an evidence or a fingerprint
\* wins, and any ticket's may be the last.
Indexes(tickets) ==
  /\ \E last \in [Evidence -> tickets \cup {None}] :
       /\ \A e \in Evidence :
            IF \E t \in tickets : EvidenceHash(t) = e
            THEN last[e] # None /\ EvidenceHash(last[e]) = e
            ELSE last[e] = None
       /\ byEvidence' = last
  /\ \E last \in [Fingerprint -> tickets \cup {None}] :
       /\ \A p \in Fingerprint :
            IF \E t \in tickets : FingerprintHash(t) = p
            THEN last[p] # None /\ FingerprintHash(last[p]) = p
            ELSE last[p] = None
       /\ byFingerprint' = last

\* _save merges the log of all processes into memory and writes the snapshot, also of what
\* could not be appended before.
Compact ==
  /\ known # logged
  /\ known' = known \cup logged /\ logged' = known'
  /\ Indexes(known')
  /\ UNCHANGED <<box, open, walk, unlogged>>

\* The orchestrator is killed and started again: _load, _replay_wal.
Crash ==
  /\ known' = logged /\ open' = open \cap logged
  /\ Indexes(logged)
  /\ walk' = Outside
  /\ UNCHANGED <<box, logged, unlogged>>

\* _create_ticket_tool in the process of another bot, whose store knows what it has read.
ToolCreates(f) ==
  LET t == [of |-> "tool", file |-> f] IN
  /\ f \in Tools /\ t \notin logged
  /\ logged' = logged \cup {t} /\ open' = open \cup {t}
  /\ UNCHANGED <<box, known, byEvidence, byFingerprint, walk, unlogged>>

\* Bots take tickets to their end; LATER and DEFERRED ones may come back.
Close(t) ==
  /\ t \in open \cap known
  /\ open' = open \ {t}
  /\ UNCHANGED <<box, known, logged, byEvidence, byFingerprint, walk, unlogged>>

Reopen(t) ==
  /\ t \in known \ open
  /\ open' = open \cup {t}
  /\ UNCHANGED <<box, known, logged, byEvidence, byFingerprint, walk, unlogged>>

\* A bot writes a file.
Write(f, content) ==
  /\ box[f] = "unwritten"
  /\ box' = [box EXCEPT ![f] = content]
  /\ UNCHANGED <<store, walk, unlogged>>

WalkStep ==
  \/ Begin
  \/ \E f \in File :
       \/ NoFile(f) \/ Quarantine(f) \/ Poisoned(f) \/ Bare(f) \/ Suppress(f) \/ Refused(f)
       \/ (\E written \in BOOLEAN : Add(f, written)) \/ Move(f)

InboxNext ==
  \/ WalkStep \/ Compact \/ Crash
  \/ \E f \in File : ToolCreates(f) \/ \E content \in Content : Write(f, content)
  \/ \E t \in Ticket : Close(t) \/ Reopen(t)

Leaves(f) == box'[f] # box[f]
Settles(f) ==
  \/ Add(f, TRUE)
  \/ Suppress(f) /\ Leaves(f)
  \/ Move(f) /\ Leaves(f)
  \/ box[f] = "text" /\ Quarantine(f) /\ Leaves(f)

\* The scheduler ticks, bots finish what they took, an append succeeds at some time, and a file
\* that may be moved is at some time.
InboxFairness ==
  /\ WF_inboxVars(WalkStep)
  /\ \A f \in File : SF_inboxVars(Settles(f))
  /\ \A t \in Ticket : WF_inboxVars(Close(t))

InboxSpec == InboxInit /\ [][InboxNext]_inboxVars /\ InboxFairness

-----------------------------------------------------------------------------
InboxTypeOK ==
  /\ box \in [File -> {"unwritten", "processed", "rejected"} \cup Content]
  /\ known \subseteq Ticket /\ logged \subseteq Ticket /\ open \subseteq Ticket
  /\ byEvidence \in [Evidence -> Ticket \cup {None}]
  /\ byFingerprint \in [Fingerprint -> Ticket \cup {None}]
  /\ walk \in [at : {"resting", "file", "move"}, file : 0..Files] /\ unlogged \subseteq File

\* Ingestion happens once (docs/CODING_STANDARDS.md, 21. IDEMPOTENT INGESTION): whatever
\* crashes, fails to be moved and is met again, a finding becomes at most one ticket, and it
\* is put away only when it has one on disk, itself or by its fingerprint, unless the append
\* to the log failed.
FindingsOnce ==
  \A f \in File :
    /\ [of |-> "second", file |-> f] \notin known \cup logged
    /\ box[f] = "processed" =>
         \/ \E t \in logged : FingerprintHash(t) = FingerprintOf[f]
         \/ \E g \in unlogged : FingerprintOf[g] = FingerprintOf[f]

\* A file does not wait for ever, if no array is in the inbox before it: it becomes a ticket,
\* is suppressed or quarantined, although open tickets with its evidence keep it waiting,
\* unless the program crashes, or closed tickets are opened, again and again.
InboxDrains ==
  \A f \in File :
    \/ \E g \in 1..(f - 1) : <>(box[g] = "array")
    \/ []<><<Crash \/ \E t \in Ticket : Reopen(t)>>_inboxVars
    \/ []((box[f] \in {"finding", "text"}) => <>(box[f] \in {"processed", "rejected"}))
=============================================================================
