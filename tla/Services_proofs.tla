-------------------------- MODULE Services_proofs --------------------------
(***************************************************************************)
(* Theorems of the services MCServices checks: the discovery pool, the     *)
(* inbox of findings, the PID files and the checkpoints.                   *)
(***************************************************************************)
EXTENDS DiscoveryPool, FindingInbox, PidFiles, Checkpoints, RateLimiter, FiniteSetTheorems, TLAPS

-----------------------------------------------------------------------------
(* Checkpoints *)

\* Once a checkpoint was completed, the backup is one, unless it is being written or spoilt;
\* and what is about to be written to it is one.
CkptInv ==
  /\ CheckpointTypeOK
  /\ runner # "none" => session \in Version
  /\ starter.at \in {"repair", "repairing"} => starter.read \in Version
  /\ completed => backup \in Version \/ runner = "writing" \/ starter.at = "repairing" \/ spoilt

LEMMA CkptInit == CheckpointInit => CkptInv
<1> SUFFICES ASSUME CheckpointInit PROVE CkptInv
  OBVIOUS
<1> USE CheckpointAssumption DEF CheckpointInit, NoCheckpoint, NoStart, Held
<1>1. starter \in [at : {"none", "repair", "repairing", "setAside"}, read : Held]
  OBVIOUS
<1>2. completed \in BOOLEAN /\ spoilt \in BOOLEAN
  OBVIOUS
<1>3. primary \in Held /\ backup \in Held /\ session \in 0..Sessions
  OBVIOUS
<1>4. CheckpointTypeOK
  BY <1>1, <1>2, <1>3 DEF CheckpointTypeOK
<1>5. runner = "none" /\ starter.at = "none" /\ ~completed
  OBVIOUS
<1> QED
  BY <1>4, <1>5 DEF CkptInv

\* What is written over the backup is whole, or what is there now is known to be spoilt.
LEMMA Overwritten ==
  ASSUME NEW v \in Version, Overwrite(v)
  PROVE  /\ backup' = v \/ (backup' = Junk /\ spoilt')
         /\ spoilt' \in BOOLEAN
<1> USE CheckpointAssumption DEF Overwrite
<1>1. backup' \in {v, Junk} /\ v # Junk
  BY DEF Version, Junk
<1>2. CASE backup' = v
  BY <1>2
<1>3. CASE backup' # v
  BY <1>1, <1>3
<1> QED
  BY <1>2, <1>3

LEMMA CkptStep == CkptInv /\ [CheckpointNext]_ckptVars => CkptInv'
<1> SUFFICES ASSUME CkptInv, [CheckpointNext]_ckptVars PROVE CkptInv'
  OBVIOUS
<1> USE CheckpointAssumption
    DEF CkptInv, CheckpointTypeOK, NoCheckpoint, NoStart, Held, Version, Torn, Junk, Starter
<1>1. CASE ReplacePrimary
  BY <1>1 DEF ReplacePrimary
<1>2. CASE OpenBackup
  BY <1>2 DEF OpenBackup
<1>3. CASE WriteBackup
  <2>3. session \in Version /\ Overwrite(session)
    BY <1>3 DEF WriteBackup
  <2>2. /\ backup' = session \/ (backup' = Junk /\ spoilt')
        /\ spoilt' \in BOOLEAN
    BY <2>3, Overwritten
  <2>1. backup' \in Held /\ spoilt' \in BOOLEAN /\ (backup' \in Version \/ spoilt')
    BY <2>3, <2>2
  <2> QED
    BY <1>3, <2>1 DEF WriteBackup
<1>4. CASE BackupFails
  BY <1>4 DEF BackupFails
<1>5. CASE AgentWrites
  BY <1>5 DEF AgentWrites
<1>6. CASE ReadBackupOnly
  BY <1>6 DEF ReadBackupOnly, ckptVars
<1>7. CASE ReadPrimary
  BY <1>7 DEF ReadPrimary, Valid
<1>8. CASE OpenToRepair
  BY <1>8 DEF OpenToRepair
<1>9. CASE Repair
  <2>3. starter.read \in Version /\ Overwrite(starter.read)
    BY <1>9 DEF Repair
  <2>2. /\ backup' = starter.read \/ (backup' = Junk /\ spoilt')
        /\ spoilt' \in BOOLEAN
    BY <2>3, Overwritten
  <2>1. backup' \in Held /\ spoilt' \in BOOLEAN /\ (backup' \in Version \/ spoilt')
    BY <2>3, <2>2
  <2> QED
    BY <1>9, <2>1 DEF Repair, NoStart
<1>10. CASE RepairFails
  BY <1>10 DEF RepairFails
<1>11. CASE SetAside
  BY <1>11 DEF SetAside
<1>12. CASE RunnerKilled
  BY <1>12 DEF RunnerKilled
<1>13. CASE StarterKilled
  BY <1>13 DEF StarterKilled
<1>14. CASE UNCHANGED ckptVars
  BY <1>14 DEF ckptVars
<1> QED
  BY <1>1, <1>2, <1>3, <1>4, <1>5, <1>6, <1>7, <1>8, <1>9, <1>10, <1>11, <1>12, <1>13, <1>14
     DEF CheckpointNext

\* write_platform_checkpoint, read_checkpoint: for any number of sessions, whoever is killed
\* where, a completed checkpoint leaves one to start from.
THEOREM CheckpointKept == CheckpointSpec => []CheckpointSurvives
<1>1. CkptInv => CheckpointSurvives
  BY DEF CkptInv, CheckpointSurvives
<1> QED
  BY <1>1, CkptInit, CkptStep, PTL DEF CheckpointSpec

\* The files hold a checkpoint, a part of one, something else or nothing.
THEOREM CheckpointTypeCorrect == CheckpointSpec => []CheckpointTypeOK
<1>1. CkptInv => CheckpointTypeOK
  BY DEF CkptInv
<1> QED
  BY <1>1, CkptInit, CkptStep, PTL DEF CheckpointSpec
-----------------------------------------------------------------------------
(* The inbox of findings *)

Told(f) ==
  \/ \E t \in logged : FingerprintHash(t) = FingerprintOf[f]
  \/ \E g \in unlogged : FingerprintOf[g] = FingerprintOf[f]

\* This process knows every ticket made of a file that is on disk; what it knows is on disk
\* or could not be written; an index entry names a ticket it knows.
InboxInv ==
  /\ known \subseteq Ticket /\ logged \subseteq Ticket /\ unlogged \subseteq File
  /\ walk \in [at : {"resting", "file", "move"}, file : 0..Files]
  /\ box \in [File -> {"unwritten", "processed", "rejected"} \cup Content]
  /\ byFingerprint \in [Fingerprint -> Ticket \cup {None}]
  /\ \A t \in logged : t.of # "tool" => t \in known
  /\ \A t \in known : t.of # "second" /\ (t \in logged \/ t.file \in unlogged)
  /\ \A p \in Fingerprint :
       byFingerprint[p] # None => byFingerprint[p] \in known /\ FingerprintHash(byFingerprint[p]) = p
  /\ walk.at = "move" => walk.file \in File /\ Told(walk.file)
  /\ \A f \in File : box[f] = "processed" => Told(f)

LEMMA InboxInit0 == InboxInit => InboxInv
  BY InboxAssumption DEF InboxInit, InboxInv, Outside, None, Content, File

\* What was told of a file stays told.
LEMMA ToldStays ==
  ASSUME NEW f, Told(f), logged \subseteq logged', unlogged \subseteq unlogged'
  PROVE  Told(f)'
  BY DEF Told, FingerprintHash

\* The index that is read from tickets names tickets, each at its own fingerprint.
LEMMA IndexesTell ==
  ASSUME NEW tickets, tickets \subseteq Ticket, Indexes(tickets)
  PROVE  /\ byFingerprint' \in [Fingerprint -> Ticket \cup {None}]
         /\ \A p \in Fingerprint : byFingerprint'[p] # None =>
              byFingerprint'[p] \in tickets /\ FingerprintHash(byFingerprint'[p]) = p
<1>1. PICK last \in [Fingerprint -> tickets \cup {None}] :
        /\ \A p \in Fingerprint :
             IF \E t \in tickets : FingerprintHash(t) = p
             THEN last[p] # None /\ FingerprintHash(last[p]) = p
             ELSE last[p] = None
        /\ byFingerprint' = last
  BY DEF Indexes
<1> QED
  BY <1>1

\* What is indexed, or made of the file, tells of the file.
LEMMA DuplicateTells ==
  ASSUME InboxInv, NEW f \in File, IsExactDuplicate(f)
  PROVE  Told(f)
<1> USE DEF InboxInv
<1>1. FingerprintOf[f] \in Fingerprint
  BY InboxAssumption
<1>2. PICK t \in known : FingerprintOf[t.file] = FingerprintOf[f]
  <2>1. CASE \E t \in known : t.of # "tool" /\ t.file = f
    BY <2>1
  <2>2. CASE byFingerprint[FingerprintOf[f]] # None
    BY <1>1, <2>2 DEF FingerprintHash
  <2> QED
    BY <2>1, <2>2 DEF IsExactDuplicate
<1>3. t \in logged \/ t.file \in unlogged
  BY <1>2
<1> QED
  BY <1>2, <1>3 DEF Told, FingerprintHash

\* A file that is no duplicate has no ticket yet.
LEMMA FirstOfItsFile ==
  ASSUME InboxInv, NEW f \in File, ~IsExactDuplicate(f)
  PROVE  NewTicket(f) = [of |-> "first", file |-> f] /\ NewTicket(f) \in Ticket
<1>1. ~ \E t \in known \cup logged : t.of = "first" /\ t.file = f
  BY DEF InboxInv, IsExactDuplicate
<1>2. NewTicket(f) = [of |-> "first", file |-> f]
  BY <1>1 DEF NewTicket
<1> QED
  BY <1>2 DEF Ticket

\* The walk goes on to the next file, or ends.
LEMMA WalkOn ==
  ASSUME NEW f \in File
  PROVE  Next1(f) \in [at : {"resting", "file", "move"}, file : 0..Files] /\ Next1(f).at # "move"
<1>1. f = Files \/ f + 1 \in 0..Files
  BY InboxAssumption DEF File
<1> QED
  BY <1>1, InboxAssumption DEF Next1, Outside, Inside, File

LEMMA InboxStep == InboxInv /\ [InboxNext]_inboxVars => InboxInv'
<1> SUFFICES ASSUME InboxInv, [InboxNext]_inboxVars PROVE InboxInv'
  OBVIOUS
<1>1. CASE Begin
  BY <1>1, InboxAssumption DEF Begin, InboxInv, Told, FingerprintHash, store, Inside, File
<1>2. ASSUME NEW f \in File, NoFile(f) \/ Poisoned(f) \/ Bare(f) \/ Refused(f) PROVE InboxInv'
  BY <1>2, WalkOn, InboxAssumption
     DEF NoFile, Poisoned, Bare, Refused, InboxInv, Told, FingerprintHash, store, Outside
<1>3. ASSUME NEW f \in File, Quarantine(f) PROVE InboxInv'
  BY <1>3, WalkOn DEF Quarantine, InboxInv, Told, FingerprintHash, store
<1>4. ASSUME NEW f \in File, Suppress(f) PROVE InboxInv'
  BY <1>4, WalkOn, DuplicateTells DEF Suppress, InboxInv, Told, FingerprintHash, store
<1>5. ASSUME NEW f \in File, NEW written \in BOOLEAN, Add(f, written) PROVE InboxInv'
  <2> DEFINE n == NewTicket(f)
  <2>1. n = [of |-> "first", file |-> f] /\ n \in Ticket /\ n.of = "first" /\ n.file = f
    BY <1>5, FirstOfItsFile DEF Add
  <2>2. /\ known' = known \cup {n}
        /\ byFingerprint' = [byFingerprint EXCEPT ![FingerprintOf[f]] = n]
    BY <1>5, <2>1 DEF Add, EnterTicket, FingerprintHash
  <2>3. /\ box' = box
        /\ \/ /\ logged' = logged \cup {n} /\ walk' = Inside("move", f) /\ unlogged' = unlogged
           \/ /\ unlogged' = unlogged \cup {f} /\ walk' = Next1(f) /\ logged' = logged
    BY <1>5 DEF Add
  <2> HIDE DEF n
  <2>4. /\ known' \subseteq Ticket /\ logged' \subseteq Ticket /\ unlogged' \subseteq File
        /\ box' \in [File -> {"unwritten", "processed", "rejected"} \cup Content]
        /\ byFingerprint' \in [Fingerprint -> Ticket \cup {None}]
    BY <2>1, <2>2, <2>3 DEF InboxInv
  <2>5. /\ \A t \in logged' : t.of # "tool" => t \in known'
        /\ \A t \in known' : t.of # "second" /\ (t \in logged' \/ t.file \in unlogged')
    BY <2>1, <2>2, <2>3 DEF InboxInv
  <2>6. \A p \in Fingerprint : byFingerprint'[p] # None =>
          byFingerprint'[p] \in known' /\ FingerprintHash(byFingerprint'[p]) = p
    BY <2>1, <2>2 DEF InboxInv, FingerprintHash
  <2>7. \A g \in File : Told(g) => Told(g)'
    BY <2>3, ToldStays
  <2>8. /\ walk' \in [at : {"resting", "file", "move"}, file : 0..Files]
        /\ (walk.at = "move" => walk.file \in File /\ Told(walk.file))'
    <3>1. CASE walk' = Next1(f)
      BY <3>1, WalkOn
    <3>2. CASE logged' = logged \cup {n} /\ walk' = Inside("move", f)
      <4>1. Told(f)'
        BY <2>1, <3>2 DEF Told, FingerprintHash
      <4> QED
        BY <3>2, <4>1, InboxAssumption DEF Inside, File
    <3> QED
      BY <2>3, <3>1, <3>2
  <2>9. \A g \in File : box'[g] = "processed" => Told(g)'
    BY <2>3, <2>7 DEF InboxInv
  <2> QED
    BY <2>4, <2>5, <2>6, <2>8, <2>9 DEF InboxInv, Told, FingerprintHash
<1>6. ASSUME NEW f \in File, Move(f) PROVE InboxInv'
  BY <1>6, WalkOn DEF Move, InboxInv, Told, FingerprintHash, store, Inside
<1>7. CASE Compact
  <2>1. /\ known' = known \cup logged /\ logged' = known \cup logged
        /\ box' = box /\ walk' = walk /\ unlogged' = unlogged /\ Indexes(known \cup logged)
    BY <1>7 DEF Compact
  <2>2. known \cup logged \subseteq Ticket
    BY DEF InboxInv
  <2>3. /\ byFingerprint' \in [Fingerprint -> Ticket \cup {None}]
        /\ \A p \in Fingerprint : byFingerprint'[p] # None =>
             byFingerprint'[p] \in known \cup logged /\ FingerprintHash(byFingerprint'[p]) = p
    BY <2>1, <2>2, IndexesTell
  <2>4. \A t \in known \cup logged : t.of # "second"
    BY DEF InboxInv
  <2>5. \A f \in File : Told(f) => Told(f)'
    BY <2>1, ToldStays
  <2> QED
    BY <2>1, <2>2, <2>3, <2>4, <2>5 DEF InboxInv
<1>8. CASE Crash
  <2>1. known' = logged /\ logged' = logged /\ box' = box /\ unlogged' = unlogged
        /\ walk' = Outside /\ Indexes(logged)
    BY <1>8 DEF Crash
  <2>2. logged \subseteq Ticket
    BY DEF InboxInv
  <2>3. /\ byFingerprint' \in [Fingerprint -> Ticket \cup {None}]
        /\ \A p \in Fingerprint : byFingerprint'[p] # None =>
             byFingerprint'[p] \in logged /\ FingerprintHash(byFingerprint'[p]) = p
    BY <2>1, <2>2, IndexesTell
  <2>5. \A f \in File : Told(f) => Told(f)'
    BY <2>1, ToldStays
  <2> QED
    BY <2>1, <2>2, <2>3, <2>5, InboxAssumption DEF InboxInv, Outside, FingerprintHash
<1>9. ASSUME NEW f \in File, ToolCreates(f) PROVE InboxInv'
  <2>1. /\ logged' = logged \cup {[of |-> "tool", file |-> f]}
        /\ known' = known /\ byFingerprint' = byFingerprint
        /\ box' = box /\ walk' = walk /\ unlogged' = unlogged
    BY <1>9 DEF ToolCreates
  <2>2. [of |-> "tool", file |-> f] \in Ticket
    BY DEF Ticket
  <2>3. \A g \in File : Told(g) => Told(g)'
    BY <2>1, ToldStays
  <2> QED
    BY <2>1, <2>2, <2>3 DEF InboxInv, FingerprintHash
<1>10. ASSUME NEW t \in Ticket, Close(t) \/ Reopen(t) PROVE InboxInv'
  BY <1>10 DEF Close, Reopen, InboxInv, Told, FingerprintHash
<1>11. ASSUME NEW f \in File, NEW content \in Content, Write(f, content) PROVE InboxInv'
  BY <1>11 DEF Write, InboxInv, Told, FingerprintHash, store, Content
<1>12. CASE UNCHANGED inboxVars
  BY <1>12 DEF inboxVars, store, InboxInv, Told, FingerprintHash
<1> QED
  BY <1>1, <1>2, <1>3, <1>4, <1>5, <1>6, <1>7, <1>8, <1>9, <1>10, <1>11, <1>12
     DEF InboxNext, WalkStep

\* ingest_findings, TicketStore.add: for any number of files, whatever tickets other bots
\* make of them, and whatever crashes or fails in between, a finding becomes one ticket at
\* most and is not put away without one.
THEOREM FindingsTakenOnce == InboxSpec => []FindingsOnce
<1>1. InboxInv => FindingsOnce
  <2> SUFFICES ASSUME InboxInv, NEW f \in File
               PROVE  /\ [of |-> "second", file |-> f] \notin known \cup logged
                      /\ box[f] = "processed" => Told(f)
    BY DEF FindingsOnce, Told
  <2>1. \A t \in known \cup logged : t.of # "second"
    BY DEF InboxInv
  <2> QED
    BY <2>1 DEF InboxInv
<1> QED
  BY <1>1, InboxInit0, InboxStep, PTL DEF InboxSpec
-----------------------------------------------------------------------------
(* The discovery pool *)

\* The place of the bot that is being restarted stays taken while it is down.
Pending == IF main.at \in {"stopping", "restart"} THEN {main.of} ELSE {}
Occupied == Live \cup Pending
\* What the daemon's tick may still start.
Left == IF daemon.at = "resting" THEN 0 ELSE daemon.left

PoolInv ==
  /\ PoolTypeOK
  /\ daemon.at = "launch" => daemon.left > 0 /\ daemon.i < Roles
  /\ Cardinality(Occupied) + Left <= MaxConcurrent + 1

\* The cardinalities that are compared: taking away makes a set no larger, adding one role
\* makes it larger by one at most.
LEMMA Cardinals ==
  /\ \A S \in SUBSET Role : Cardinality(S) \in Nat
  /\ \A S \in SUBSET Role : \A T \in SUBSET S : Cardinality(T) <= Cardinality(S)
  /\ \A S \in SUBSET Role : \A r \in Role : \A T \in SUBSET (S \cup {r}) :
       Cardinality(T) <= Cardinality(S) + 1
<1>1. IsFiniteSet(Role)
  BY FS_Interval, DiscoveryAssumption DEF Role
<1>2. \A S \in SUBSET Role : IsFiniteSet(S)
  BY <1>1, FS_Subset
<1>3. \A S \in SUBSET Role : Cardinality(S) \in Nat
  BY <1>2, FS_CardinalityType
<1>4. \A S \in SUBSET Role : \A T \in SUBSET S : Cardinality(T) <= Cardinality(S)
  BY <1>2, FS_Subset
<1>5. ASSUME NEW S \in SUBSET Role, NEW r \in Role, NEW T \in SUBSET (S \cup {r})
      PROVE  Cardinality(T) <= Cardinality(S) + 1
  <2>1. Cardinality(T) <= Cardinality(S \cup {r})
    BY <1>4
  <2>2. Cardinality(S \cup {r}) = IF r \in S THEN Cardinality(S) ELSE Cardinality(S) + 1
    BY <1>2, FS_AddElement
  <2>3. Cardinality(S) \in Nat /\ Cardinality(T) \in Nat
    BY <1>3
  <2> QED
    BY <2>1, <2>2, <2>3
<1> QED
  BY <1>3, <1>4, <1>5

LEMMA OccupiedRoles == PoolTypeOK => Live \in SUBSET Role /\ Occupied \in SUBSET Role
  BY DEF PoolTypeOK, Live, Occupied, Pending

\* A place in the ring, however far the tick has come.
LEMMA InTheRing == \A n \in Nat : n % Roles \in Role
  BY DiscoveryAssumption DEF Role

LEMMA PoolInit0 == PoolInit => PoolInv
<1> SUFFICES ASSUME PoolInit PROVE PoolInv
  OBVIOUS
<1> USE DiscoveryAssumption DEF PoolInit
<1>1. PoolTypeOK
  BY DEF PoolTypeOK, Role, Tending, At, Resting
<1>2. Occupied = {} /\ Left = 0
  BY DEF Occupied, Pending, Live, Left, Tending, At, Resting
<1>3. Cardinality(Occupied) = 0
  BY <1>2, FS_EmptySet
<1> QED
  BY <1>1, <1>2, <1>3 DEF PoolInv, Resting

\* What takes no place and no right to one keeps the bound.
LEMMA NoPlaceTaken ==
  ASSUME PoolInv, PoolTypeOK', Occupied' \subseteq Occupied, Left' <= Left,
         daemon'.at = "launch" => daemon'.left > 0 /\ daemon'.i < Roles
  PROVE  PoolInv'
<1>1. Cardinality(Occupied') <= Cardinality(Occupied)
  BY Cardinals, OccupiedRoles DEF PoolInv
<1>2. Cardinality(Occupied) \in Nat /\ Cardinality(Occupied') \in Nat
  <2>1. Occupied' \in SUBSET Role
    BY OccupiedRoles DEF PoolInv
  <2> QED
    BY <2>1, Cardinals, OccupiedRoles DEF PoolInv
<1>3. Left \in Int /\ Left' \in Int /\ MaxConcurrent \in Nat
  BY DiscoveryAssumption DEF PoolInv, PoolTypeOK, Left
<1> QED
  BY <1>1, <1>2, <1>3 DEF PoolInv

\* The types of where the daemon is, step by step.
LEMMA DaemonTypes ==
  ASSUME PoolTypeOK
  PROVE  /\ daemon.i \in Nat /\ daemon.left \in Nat /\ next \in Nat
         /\ Candidate \in Role /\ NextIndex(Candidate) \in Role
<1>1. daemon.i \in Nat /\ daemon.left \in Nat /\ next \in Nat
  BY DiscoveryAssumption DEF PoolTypeOK, Role
<1>2. Candidate \in Role
  BY <1>1, InTheRing DEF Candidate
<1>3. Candidate + 1 \in Nat
  BY <1>2, DiscoveryAssumption DEF Role
<1> QED
  BY <1>1, <1>2, <1>3, InTheRing DEF NextIndex

LEMMA PoolStep == PoolInv /\ [PoolNext]_poolVars => PoolInv'
<1> SUFFICES ASSUME PoolInv, [PoolNext]_poolVars PROVE PoolInv'
  OBVIOUS
<1>0. PoolTypeOK
  BY DEF PoolInv
<1> USE DiscoveryAssumption
<1>1. CASE Tick
  <2>1. Cardinality(Live) \in Nat /\ Cardinality(Occupied) \in Nat
    BY <1>0, OccupiedRoles, Cardinals
  <2>2. /\ Cardinality(Live) < MaxConcurrent /\ daemon' = Scan(0, ToSpawn, next)
        /\ process' = process /\ main' = main /\ cooling' = cooling /\ draining' = draining
        /\ next' = next
    BY <1>1 DEF Tick
  <2>3. ToSpawn \in 0..MaxConcurrent
    BY <2>1, <2>2 DEF ToSpawn
  <2>4. PoolTypeOK'
    BY <1>0, <2>2, <2>3 DEF PoolTypeOK, Scan
  <2>5. Occupied' = Occupied /\ Left' = ToSpawn
    BY <2>2 DEF Occupied, Pending, Live, Left, Scan
  <2>6. Cardinality(Occupied) <= Cardinality(Live) + 1
    <3>1. Live \in SUBSET Role /\ main.of \in Role
      BY <1>0, OccupiedRoles DEF PoolTypeOK
    <3>2. Occupied \in SUBSET (Live \cup {main.of})
      BY DEF Occupied, Pending
    <3> QED
      BY <3>1, <3>2, Cardinals
  <2>7. Cardinality(Occupied) + ToSpawn <= MaxConcurrent + 1
    BY <2>1, <2>6 DEF ToSpawn
  <2> QED
    BY <2>2, <2>4, <2>5, <2>7 DEF PoolInv, Scan
<1>2. CASE Skip
  <2>1. PoolTypeOK'
    BY <1>0, <1>2, DaemonTypes DEF Skip, Scanning, PoolTypeOK, Scan
  <2>2. Occupied' = Occupied /\ Left' = Left
    BY <1>2 DEF Skip, Scanning, Occupied, Pending, Live, Left, Scan
  <2>3. Left \in Int
    BY <1>0, DaemonTypes DEF Left
  <2> QED
    BY <2>1, <2>2, <2>3, <1>2, NoPlaceTaken DEF Skip, Scan
<1>3. CASE Prepare
  <2>1. PoolTypeOK'
    BY <1>0, <1>3 DEF Prepare, PoolTypeOK
  <2>2. Occupied' = Occupied /\ Left' = Left
    BY <1>0, <1>3 DEF Prepare, Scanning, Occupied, Pending, Live, Left, PoolTypeOK
  <2>3. Left \in Int
    BY <1>0, DaemonTypes DEF Left
  <2>4. daemon'.left > 0 /\ daemon'.i < Roles
    BY <1>0, <1>3 DEF Prepare, Scanning, PoolTypeOK
  <2> QED
    BY <2>1, <2>2, <2>3, <2>4, NoPlaceTaken
<1>4. CASE Launch
  <2>0. Candidate \in Role /\ NextIndex(Candidate) \in Role /\ daemon.left \in Nat /\ daemon.i \in Nat
    BY <1>0, DaemonTypes
  <2>1. /\ daemon.left > 0 /\ daemon.i < Roles /\ main' = main /\ draining' = draining
        /\ next' = next /\ daemon.at = "launch"
        /\ daemon' = Scan(daemon.i + 1, daemon.left - 1, NextIndex(Candidate))
        /\ process' = [process EXCEPT ![Candidate] = "live"]
        /\ cooling' = cooling \cup {Candidate}
    BY <1>4 DEF Launch, PoolInv, Popen, Assign
  <2>2. PoolTypeOK'
    BY <1>0, <2>0, <2>1 DEF PoolTypeOK, Scan
  <2>3. Occupied' \subseteq Occupied \cup {Candidate}
    BY <2>1, <1>0 DEF Occupied, Pending, Live, PoolTypeOK
  <2>4. Cardinality(Occupied') <= Cardinality(Occupied) + 1
    BY <2>0, <2>3, <1>0, OccupiedRoles, Cardinals
  <2>5. Left = daemon.left /\ Left' = daemon.left - 1
    BY <2>1 DEF Left, Scan
  <2>6. Cardinality(Occupied) \in Nat /\ Cardinality(Occupied') \in Nat
    <3>1. Occupied' \in SUBSET Role
      BY <2>0, <2>3, <1>0, OccupiedRoles
    <3> QED
      BY <3>1, <1>0, OccupiedRoles, Cardinals
  <2>7. Cardinality(Occupied') + Left' <= MaxConcurrent + 1
    BY <2>0, <2>4, <2>5, <2>6 DEF PoolInv
  <2> QED
    BY <2>1, <2>2, <2>7 DEF PoolInv, Scan
<1>5. CASE LaunchFails
  <2>1. daemon.i + 1 \in 0..Roles /\ daemon.left \in 0..MaxConcurrent /\ daemon.next \in Role
    BY <1>0, <1>5 DEF LaunchFails, PoolInv, PoolTypeOK
  <2>2. PoolTypeOK'
    BY <1>0, <1>5, <2>1 DEF LaunchFails, PoolTypeOK, Scan
  <2>3. Occupied' = Occupied /\ Left' = Left
    BY <1>5 DEF LaunchFails, Occupied, Pending, Live, Left, Scan
  <2>4. Left \in Int
    BY <1>0, DaemonTypes DEF Left
  <2> QED
    BY <2>2, <2>3, <2>4, <1>5, NoPlaceTaken DEF LaunchFails, Scan
<1>6. CASE TickEnds \/ TickRaises \/ Exit
  <2>1. PoolTypeOK'
    <3>1. /\ daemon' = Resting /\ main' \in {main, Off} /\ next' \in {next, daemon.next}
          /\ process' = process /\ cooling' = cooling /\ draining' = draining
      BY <1>6 DEF TickEnds, TickRaises, Exit
    <3>2. 0 \in Role /\ 0 \in 0..Roles /\ 0 \in 0..MaxConcurrent
      BY DEF Role
    <3> QED
      BY <1>0, <3>1, <3>2 DEF PoolTypeOK, Resting, Off, At
  <2>2. Occupied' \subseteq Occupied
    BY <1>6 DEF TickEnds, TickRaises, Exit, Occupied, Pending, Live, Off, At
  <2>3. Left' = 0 /\ 0 <= Left
    BY <1>0, <1>6, DaemonTypes DEF TickEnds, TickRaises, Exit, Left, Resting
  <2> QED
    BY <2>1, <2>2, <2>3, <1>6, NoPlaceTaken DEF TickEnds, TickRaises, Exit, Resting
<1>7. ASSUME NEW r \in Role,
             \/ SeeExit(r) \/ Stop(r, "stopping") \/ Stop(r, "reloading") \/ StopNext(r)
             \/ BotEnds(r) \/ CooldownEnds(r)
      PROVE  PoolInv'
  <2>1. PoolTypeOK'
    BY <1>0, <1>7 DEF SeeExit, Stop, StopNext, BotEnds, CooldownEnds, PoolTypeOK, Assign, At
  <2>2. Occupied' \subseteq Occupied
    BY <1>0, <1>7 DEF SeeExit, Stop, StopNext, BotEnds, CooldownEnds, Occupied, Pending, Live,
                      Assign, At, Tending, PoolTypeOK
  <2>3. daemon' = daemon
    BY <1>7 DEF SeeExit, Stop, StopNext, BotEnds, CooldownEnds
  <2>4. Left' = Left /\ Left \in Int
    BY <1>0, <2>3, DaemonTypes DEF Left
  <2> QED
    BY <2>1, <2>2, <2>3, <2>4, NoPlaceTaken DEF PoolInv
<1>8. CASE HandleExit \/ Stopped \/ Quit \/ Drain
  <2>1. PoolTypeOK'
    <3>1. 0 \in Role /\ main.of \in Role
      BY <1>0 DEF PoolTypeOK, Role
    <3>2. process' \in [Role -> {"none", "live", "dead"}] /\ cooling' \subseteq Role
          /\ draining' \in BOOLEAN /\ next' = next /\ daemon' = daemon
      BY <1>0, <1>8, <3>1 DEF HandleExit, Stopped, Quit, Drain, PoolTypeOK, Assign
    <3>3. main' \in [at : {"tending", "exited", "stopping", "reloading", "restart",
                           "shutdown", "off"}, of : Role]
      BY <1>0, <1>8, <3>1 DEF HandleExit, Stopped, Quit, Drain, PoolTypeOK, At, Tending
    <3> QED
      BY <1>0, <3>2, <3>3 DEF PoolTypeOK
  <2>2. Occupied' \subseteq Occupied
    BY <1>0, <1>8 DEF HandleExit, Stopped, Quit, Drain, Occupied, Pending, Live, Assign, At,
                      Tending, PoolTypeOK
  <2>3. daemon' = daemon
    BY <1>8 DEF HandleExit, Stopped, Quit, Drain
  <2>4. Left' = Left /\ Left \in Int
    BY <1>0, <2>3, DaemonTypes DEF Left
  <2> QED
    BY <2>1, <2>2, <2>3, <2>4, NoPlaceTaken DEF PoolInv
<1>9. CASE Restart
  <2>1. PoolTypeOK'
    <3>1. 0 \in Role /\ main.of \in Role
      BY <1>0 DEF PoolTypeOK, Role
    <3> QED
      BY <1>0, <1>9, <3>1 DEF Restart, PoolTypeOK, Popen, Assign, At, Tending
  <2>2. Occupied' \subseteq Occupied
    BY <1>0, <1>9 DEF Restart, Occupied, Pending, Live, Popen, Assign, At, Tending, PoolTypeOK
  <2>3. daemon' = daemon
    BY <1>9 DEF Restart
  <2>4. Left' = Left /\ Left \in Int
    BY <1>0, <2>3, DaemonTypes DEF Left
  <2> QED
    BY <2>1, <2>2, <2>3, <2>4, NoPlaceTaken DEF PoolInv
<1>10. CASE UNCHANGED poolVars
  BY <1>10 DEF poolVars, PoolInv, PoolTypeOK, Occupied, Pending, Live, Left
<1> QED
  BY <1>1, <1>2, <1>3, <1>4, <1>5, <1>6, <1>7, <1>8, <1>9, <1>10
     DEF PoolNext, DaemonStep, MainStep, World

\* DiscoveryDaemon.tick beside the health tick: for any number of roles and any bound, the
\* daemon's bots take no more than one place beyond its own.
THEOREM PoolBounded == PoolSpec => []PoolNearlyBounded
<1>1. PoolInv => PoolNearlyBounded
  <2> SUFFICES ASSUME PoolInv PROVE PoolNearlyBounded
    OBVIOUS
  <2>1. Live \in SUBSET Role /\ Occupied \in SUBSET Role /\ Live \in SUBSET Occupied
    BY OccupiedRoles DEF PoolInv, Occupied
  <2>2. Cardinality(Live) <= Cardinality(Occupied) /\ Cardinality(Live) \in Nat
        /\ Cardinality(Occupied) \in Nat
    BY <2>1, Cardinals
  <2>3. Left \in Nat
    BY DaemonTypes DEF PoolInv, Left
  <2> QED
    BY <2>2, <2>3, DiscoveryAssumption DEF PoolInv, PoolNearlyBounded
<1> QED
  BY <1>1, PoolInit0, PoolStep, PTL DEF PoolSpec

\* The daemon keeps its place in the ring of the roles, whatever ends, fails or is restarted.
THEOREM PoolTypeCorrect == PoolSpec => []PoolTypeOK
<1>1. PoolInv => PoolTypeOK
  BY DEF PoolInv
<1> QED
  BY <1>1, PoolInit0, PoolStep, PTL DEF PoolSpec
-----------------------------------------------------------------------------
(* The PID files *)

Claiming(p) == claim[p].at \in {"read", "check", "truncate", "write"}
Holding(p) == claim[p].at \in {"running", "release", "unlink"}
\* The file is, or was until it is written again, the process's own.
Holder(p) == Holding(p) \/ (Claiming(p) /\ claim[p].saw = p)
StopAsked(n) == stopping.at # "none" /\ stopping.name = n

\* While no two were about to change the orchestrator's file: one claims at a time, who has
\* the file is the number in it, who claims beside it has read that number, and a request to
\* stop names the holder and has not found it gone.
OrchestratorInv ==
  /\ \A p, q \in Pid : Claiming(p) /\ Claiming(q) => p = q
  /\ \A p \in Pid : Holder(p) /\ claim[p].at # "write" => pidFile["orchestrator"] = p
  /\ \A p \in Pid : claim[p].at = "write" => pidFile["orchestrator"] = NoPid
  /\ \A p, q \in Pid : Claiming(p) /\ Holding(q) =>
       claim[p].at = "read" \/ (claim[p].at = "check" /\ claim[p].saw = q)
  /\ StopAsked("orchestrator") => \A p \in Pid :
       /\ Claiming(p) => claim[p].saw = p
       /\ Holder(p) => stopping.pid = p /\ stopping.at # "unlink"

\* While no two were about to change the bot's file: one is to be filed at a time, and none
\* while a request to stop is under way, which has not found the bot that is filed gone.
BotInv ==
  /\ \A p, q \in unfiled : p = q
  /\ filed \in {NoPid, pidFile["bot"]}
  /\ StopAsked("bot") =>
       /\ unfiled = {}
       /\ filed # NoPid => stopping.pid = filed /\ stopping.at # "unlink"

PidInv ==
  /\ PidTypeOK
  /\ \A p \in Pid : claim[p].at # "none" => runs[p] = "orchestrator"
  /\ filed # NoPid => runs[filed] = "bot"
  /\ "orchestrator" \in overlapped \/ OrchestratorInv
  /\ "bot" \in overlapped \/ BotInv

LEMMA PidInit0 == PidInit => PidInv
<1> SUFFICES ASSUME PidInit PROVE PidInv
  OBVIOUS
<1> USE PidAssumption DEF PidInit, NoClaim, NoRequest, NoPid
<1>1. PidTypeOK
  BY DEF PidTypeOK, Named
<1>2. \A p \in Pid : claim[p].at = "none"
  OBVIOUS
<1>3. OrchestratorInv
  BY <1>2 DEF OrchestratorInv, Claiming, Holding, Holder, StopAsked
<1>4. BotInv
  BY DEF BotInv, StopAsked
<1> QED
  BY <1>1, <1>2, <1>3, <1>4 DEF PidInv

\* What has not overlapped after a step had not before it, and two are not at a file then.
LEMMA OneAtAFile ==
  ASSUME PidTypeOK, Watch
  PROVE  /\ overlapped \subseteq overlapped' /\ overlapped' \subseteq Named
         /\ "orchestrator" \notin overlapped' =>
              \A p \in Pid : Claiming(p)' =>
                /\ StopAsked("orchestrator")' => claim'[p].saw = p
                /\ \A q \in Pid : Claiming(q)' => q = p
         /\ "bot" \notin overlapped' =>
              \A p \in unfiled' : ~StopAsked("bot")' /\ \A q \in unfiled' : q = p
<1>1. overlapped \subseteq overlapped' /\ overlapped' \subseteq Named
  BY DEF Watch, PidTypeOK
<1>2. ASSUME "orchestrator" \notin overlapped', NEW p \in Pid, Claiming(p)'
      PROVE  /\ StopAsked("orchestrator")' => claim'[p].saw = p
             /\ \A q \in Pid : Claiming(q)' => q = p
  BY <1>2 DEF Watch, Changes, Asked, Claiming, StopAsked, Named
<1>3. ASSUME "bot" \notin overlapped', NEW p \in unfiled'
      PROVE  ~StopAsked("bot")' /\ \A q \in unfiled' : q = p
  BY <1>3 DEF Watch, Changes, Asked, StopAsked, Named
<1> QED
  BY <1>1, <1>2, <1>3

LEMMA PidTypesKept == PidTypeOK /\ [PidNext]_pidVars => PidTypeOK'
<1> SUFFICES ASSUME PidTypeOK, [PidNext]_pidVars PROVE PidTypeOK'
  OBVIOUS
<1> DEFINE Where == {"none", "read", "check", "truncate", "write", "running", "release", "unlink"}
           What == {"none", "orchestrator", "bot", "other"}
           Numbers == 0..Pids
           Claims == [at : Where, saw : Numbers]
           Requests == [at : {"none", "verify", "gone", "unlink"}, name : Named, pid : Numbers]
           Types == /\ runs' \in [Pid -> What] /\ pidFile' \in [Named -> Numbers]
                    /\ filed' \in Numbers /\ claim' \in [Pid -> Claims]
                    /\ unfiled' \subseteq Pid /\ stopping' \in Requests
<1>1. /\ runs \in [Pid -> What] /\ pidFile \in [Named -> Numbers] /\ filed \in Numbers
      /\ claim \in [Pid -> Claims] /\ unfiled \subseteq Pid /\ stopping \in Requests
  BY DEF PidTypeOK
<1>2. Pid \subseteq Numbers /\ NoPid \in Numbers
  BY PidAssumption DEF Pid, NoPid
<1>3. "orchestrator" \in Named /\ "bot" \in Named
  BY DEF Named
<1>4. /\ NoClaim \in Claims /\ \A w \in Where : ClaimAt(w) \in Claims
      /\ \A w \in Where : \A q \in Numbers : [at |-> w, saw |-> q] \in Claims
      /\ \A w \in Where : \A c \in Claims : [c EXCEPT !.at = w] \in Claims
  BY <1>2 DEF NoClaim, ClaimAt
<1>5. /\ "none" \in Where /\ "read" \in Where /\ "check" \in Where /\ "truncate" \in Where
      /\ "write" \in Where /\ "running" \in Where /\ "release" \in Where /\ "unlink" \in Where
      /\ "none" \in What /\ "orchestrator" \in What /\ "bot" \in What /\ "other" \in What
  OBVIOUS
<1>6. NoRequest \in Requests
  BY <1>2, <1>3 DEF NoRequest
<1>7. stopping.name \in Named /\ stopping.pid \in Numbers
  BY <1>1
<1> HIDE DEF Where, What, Numbers, Claims, Types
<1> USE <1>1, <1>2, <1>3, <1>4, <1>5 DEF Run, Claim, Put
<1>8. ASSUME NEW p \in Pid, OrchestratorStarts(p) \/ ReadFile(p) \/ Refuse(p) \/ Proceed(p)
      PROVE  Types
  <2>1. CASE OrchestratorStarts(p)
    BY <2>1 DEF OrchestratorStarts, Types
  <2>2. CASE ReadFile(p)
    BY <2>2 DEF ReadFile, Types
  <2>3. CASE Refuse(p)
    BY <2>3 DEF Refuse, Types
  <2>4. CASE Proceed(p)
    BY <2>4 DEF Proceed, Types
  <2> QED
    BY <1>8, <2>1, <2>2, <2>3, <2>4
<1>9. ASSUME NEW p \in Pid, Truncate(p) \/ WriteFile(p) \/ Exec(p) \/ Release(p)
      PROVE  Types
  <2>1. CASE Truncate(p)
    BY <2>1 DEF Truncate, Types
  <2>2. CASE WriteFile(p)
    BY <2>2 DEF WriteFile, Types
  <2>3. CASE Exec(p)
    BY <2>3 DEF Exec, Types
  <2>4. CASE Release(p)
    BY <2>4 DEF Release, Types
  <2> QED
    BY <1>9, <2>1, <2>2, <2>3, <2>4
<1>10. ASSUME NEW p \in Pid, ReadOwn(p) \/ UnlinkOwn(p) PROVE Types
  BY <1>10 DEF ReadOwn, UnlinkOwn, Types
<1>11. ASSUME NEW p \in Pid, LaunchBot(p) \/ FileBot(p) \/ FileBotFails(p) PROVE Types
  BY <1>11 DEF LaunchBot, FileBot, FileBotFails, Types
<1>12. ASSUME NEW p \in Pid, OtherStarts(p) \/ Dies(p) PROVE Types
  BY <1>12 DEF OtherStarts, Dies, Types
<1>13. ASSUME NEW n \in Named, AskStop(n) PROVE Types
  <2>1. Request("verify", n, pidFile[n]) => stopping' \in Requests
    BY DEF Request, Requests
  <2> QED
    BY <1>13, <2>1 DEF AskStop, Types
<1>14. ASSUME NotSignalled \/ NotVerified \/ KeepFile \/ SeeGone \/ UnlinkStale PROVE Types
  <2>1. stopping' \in Requests
    BY <1>6, <1>7, <1>14
       DEF NotSignalled, NotVerified, KeepFile, SeeGone, UnlinkStale, Request, Requests
  <2> QED
    BY <1>7, <1>14, <2>1 DEF NotSignalled, NotVerified, KeepFile, SeeGone, UnlinkStale, Types
<1>15. ASSUME PidNext PROVE PidTypeOK'
  <2>1. Types
    BY ONLY <1>8, <1>9, <1>10, <1>11, <1>12, <1>13, <1>14, <1>15 DEF PidNext, PidStep
  <2>2. overlapped' \subseteq Named
    BY <1>15, OneAtAFile DEF PidNext
  <2> QED
    BY <2>1, <2>2 DEF PidTypeOK, Types, Where, What, Numbers, Claims, Requests
<1> QED
  BY <1>15 DEF pidVars, PidTypeOK
\* Who claims or holds runs as an orchestrator, and the bot that is filed as a bot.
LEMMA RunsAsItself ==
  ASSUME PidInv, PidStep, PidTypeOK'
  PROVE  /\ \A p \in Pid : claim'[p].at # "none" => runs'[p] = "orchestrator"
         /\ filed' # NoPid => runs'[filed'] = "bot"
<1> DEFINE Goal == /\ \A q \in Pid : claim'[q].at # "none" => runs'[q] = "orchestrator"
                   /\ filed' # NoPid => runs'[filed'] = "bot"
<1>a. /\ runs \in [Pid -> {"none", "orchestrator", "bot", "other"}]
      /\ DOMAIN claim = Pid /\ filed \in Pid \cup {NoPid} /\ unfiled \subseteq Pid
      /\ \A q \in Pid : claim[q].at # "none" => runs[q] = "orchestrator"
      /\ filed # NoPid => runs[filed] = "bot"
  BY PidAssumption DEF PidInv, PidTypeOK, Pid, NoPid
<1>b. NoClaim.at = "none"
  BY DEF NoClaim
<1> USE <1>a, <1>b DEF Run, Claim, Put, ClaimAt
<1>1. ASSUME NEW p \in Pid, OrchestratorStarts(p) PROVE Goal
  BY <1>1 DEF OrchestratorStarts, Free
<1>2. ASSUME NEW p \in Pid, ReadFile(p) PROVE Goal
  BY <1>2 DEF ReadFile
<1>3. ASSUME NEW p \in Pid, Refuse(p) PROVE Goal
  BY <1>3 DEF Refuse, AlreadyRuns
<1>4. ASSUME NEW p \in Pid, Proceed(p) PROVE Goal
  BY <1>4 DEF Proceed, AlreadyRuns
<1>5. ASSUME NEW p \in Pid, Truncate(p) PROVE Goal
  BY <1>5 DEF Truncate
<1>6. ASSUME NEW p \in Pid, WriteFile(p) PROVE Goal
  BY <1>6 DEF WriteFile
<1>7. ASSUME NEW p \in Pid, Exec(p) PROVE Goal
  BY <1>7 DEF Exec
<1>8. ASSUME NEW p \in Pid, Release(p) PROVE Goal
  BY <1>8 DEF Release
<1>9. ASSUME NEW p \in Pid, ReadOwn(p) PROVE Goal
  BY <1>9 DEF ReadOwn
<1>10. ASSUME NEW p \in Pid, UnlinkOwn(p) PROVE Goal
  BY <1>10 DEF UnlinkOwn
<1>11. ASSUME NEW p \in Pid, LaunchBot(p) PROVE Goal
  BY <1>11 DEF LaunchBot, Free
<1>12. ASSUME NEW p \in Pid, FileBot(p) PROVE Goal
  BY <1>12 DEF FileBot
<1>13. ASSUME NEW p \in Pid, FileBotFails(p) PROVE Goal
  BY <1>13 DEF FileBotFails
<1>14. ASSUME NEW p \in Pid, OtherStarts(p) PROVE Goal
  BY <1>14 DEF OtherStarts, Free
<1>15. ASSUME NEW p \in Pid, Dies(p) PROVE Goal
  BY <1>15 DEF Dies
<1>16. ASSUME NEW n \in Named, AskStop(n) PROVE Goal
  BY <1>16 DEF AskStop, Request, NoRequest, Named
<1>17. CASE NotSignalled
  BY <1>17 DEF NotSignalled, NoRequest
<1>18. CASE NotVerified
  BY <1>18 DEF NotVerified, Request, LooksRight, InExecve
<1>19. CASE KeepFile
  BY <1>19 DEF KeepFile, NoRequest
<1>20. CASE SeeGone
  BY <1>20 DEF SeeGone, Request, Gone
<1>21. CASE UnlinkStale
  BY <1>21 DEF UnlinkStale, NoRequest
<1> QED
  BY <1>1, <1>2, <1>3, <1>4, <1>5, <1>6, <1>7, <1>8, <1>9, <1>10, <1>11, <1>12, <1>13, <1>14, <1>15, <1>16, <1>17, <1>18, <1>19, <1>20, <1>21 DEF PidStep

\* The orchestrator's file, as long as no two were about to change it at once.
LEMMA OrchestratorStep ==
  ASSUME PidInv, PidStep, Watch, PidTypeOK', "orchestrator" \notin overlapped'
  PROVE  OrchestratorInv'
<1>a. /\ DOMAIN claim = Pid /\ DOMAIN pidFile = Named /\ DOMAIN runs = Pid
      /\ "orchestrator" \in Named /\ NoPid \notin Pid
      /\ \A q \in Pid : claim[q].at # "none" => runs[q] = "orchestrator"
  BY PidAssumption DEF PidInv, PidTypeOK, Pid, NoPid, Named
<1>b. OrchestratorInv
  BY OneAtAFile DEF PidInv
<1>c. \A q \in Pid : Claiming(q)' =>
        /\ StopAsked("orchestrator")' => claim'[q].saw = q
        /\ \A r \in Pid : Claiming(r)' => r = q
  BY OneAtAFile DEF PidInv
<1> USE <1>a, <1>b, <1>c
    DEF OrchestratorInv, Claiming, Holding, Holder, StopAsked, Run, Claim, Put, ClaimAt, NoClaim
<1>1. ASSUME NEW p \in Pid, OrchestratorStarts(p) PROVE OrchestratorInv'
  BY <1>1 DEF OrchestratorStarts, Free
<1>2. ASSUME NEW p \in Pid, ReadFile(p) PROVE OrchestratorInv'
  BY <1>2 DEF ReadFile
<1>3. ASSUME NEW p \in Pid, Refuse(p) PROVE OrchestratorInv'
  BY <1>3 DEF Refuse, AlreadyRuns
<1>4. ASSUME NEW p \in Pid, Proceed(p) PROVE OrchestratorInv'
  BY <1>4 DEF Proceed, AlreadyRuns
<1>5. ASSUME NEW p \in Pid, Truncate(p) PROVE OrchestratorInv'
  BY <1>5 DEF Truncate
<1>6. ASSUME NEW p \in Pid, WriteFile(p) PROVE OrchestratorInv'
  BY <1>6 DEF WriteFile
<1>7. ASSUME NEW p \in Pid, Exec(p) PROVE OrchestratorInv'
  BY <1>7 DEF Exec
<1>8. ASSUME NEW p \in Pid, Release(p) PROVE OrchestratorInv'
  BY <1>8 DEF Release
<1>9. ASSUME NEW p \in Pid, ReadOwn(p) PROVE OrchestratorInv'
  BY <1>9 DEF ReadOwn
<1>10. ASSUME NEW p \in Pid, UnlinkOwn(p) PROVE OrchestratorInv'
  BY <1>10 DEF UnlinkOwn
<1>11. ASSUME NEW p \in Pid, LaunchBot(p) PROVE OrchestratorInv'
  BY <1>11 DEF LaunchBot, Free
<1>12. ASSUME NEW p \in Pid, FileBot(p) PROVE OrchestratorInv'
  BY <1>12 DEF FileBot
<1>13. ASSUME NEW p \in Pid, FileBotFails(p) PROVE OrchestratorInv'
  BY <1>13 DEF FileBotFails
<1>14. ASSUME NEW p \in Pid, OtherStarts(p) PROVE OrchestratorInv'
  BY <1>14 DEF OtherStarts, Free
<1>15. ASSUME NEW p \in Pid, Dies(p) PROVE OrchestratorInv'
  BY <1>15 DEF Dies
<1>16. ASSUME NEW n \in Named, AskStop(n) PROVE OrchestratorInv'
  BY <1>16 DEF AskStop, Request, NoRequest, Named
<1>17. CASE NotSignalled
  BY <1>17 DEF NotSignalled, NoRequest
<1>18. CASE NotVerified
  BY <1>18 DEF NotVerified, Request, LooksRight, InExecve
<1>19. CASE KeepFile
  BY <1>19 DEF KeepFile, NoRequest
<1>20. CASE SeeGone
  BY <1>20 DEF SeeGone, Request, Gone
<1>21. CASE UnlinkStale
  BY <1>21 DEF UnlinkStale, NoRequest
<1> QED
  BY <1>1, <1>2, <1>3, <1>4, <1>5, <1>6, <1>7, <1>8, <1>9, <1>10, <1>11, <1>12, <1>13, <1>14, <1>15, <1>16, <1>17, <1>18, <1>19, <1>20, <1>21 DEF PidStep

\* The bot's file likewise.
LEMMA BotStep ==
  ASSUME PidInv, PidStep, Watch, PidTypeOK', "bot" \notin overlapped'
  PROVE  BotInv'
<1>a. /\ DOMAIN claim = Pid /\ DOMAIN pidFile = Named /\ DOMAIN runs = Pid
      /\ "bot" \in Named /\ NoPid \notin Pid /\ unfiled \subseteq Pid /\ stopping.name \in Named
      /\ filed # NoPid => runs[filed] = "bot"
  BY PidAssumption DEF PidInv, PidTypeOK, Pid, NoPid, Named
<1>b. BotInv
  BY OneAtAFile DEF PidInv
<1>c. \A q \in unfiled' : ~StopAsked("bot")' /\ \A r \in unfiled' : r = q
  BY OneAtAFile DEF PidInv
<1> USE <1>a, <1>b, <1>c DEF BotInv, StopAsked, Run, Put
<1>1. ASSUME NEW p \in Pid, OrchestratorStarts(p) PROVE BotInv'
  BY <1>1 DEF OrchestratorStarts, Free
<1>2. ASSUME NEW p \in Pid, ReadFile(p) PROVE BotInv'
  BY <1>2 DEF ReadFile
<1>3. ASSUME NEW p \in Pid, Refuse(p) PROVE BotInv'
  BY <1>3 DEF Refuse, AlreadyRuns
<1>4. ASSUME NEW p \in Pid, Proceed(p) PROVE BotInv'
  BY <1>4 DEF Proceed, AlreadyRuns
<1>5. ASSUME NEW p \in Pid, Truncate(p) PROVE BotInv'
  BY <1>5 DEF Truncate
<1>6. ASSUME NEW p \in Pid, WriteFile(p) PROVE BotInv'
  BY <1>6 DEF WriteFile
<1>7. ASSUME NEW p \in Pid, Exec(p) PROVE BotInv'
  BY <1>7 DEF Exec
<1>8. ASSUME NEW p \in Pid, Release(p) PROVE BotInv'
  BY <1>8 DEF Release
<1>9. ASSUME NEW p \in Pid, ReadOwn(p) PROVE BotInv'
  BY <1>9 DEF ReadOwn
<1>10. ASSUME NEW p \in Pid, UnlinkOwn(p) PROVE BotInv'
  BY <1>10 DEF UnlinkOwn
<1>11. ASSUME NEW p \in Pid, LaunchBot(p) PROVE BotInv'
  BY <1>11 DEF LaunchBot, Free
<1>12. ASSUME NEW p \in Pid, FileBot(p) PROVE BotInv'
  BY <1>12 DEF FileBot
<1>13. ASSUME NEW p \in Pid, FileBotFails(p) PROVE BotInv'
  BY <1>13 DEF FileBotFails
<1>14. ASSUME NEW p \in Pid, OtherStarts(p) PROVE BotInv'
  BY <1>14 DEF OtherStarts, Free
<1>15. ASSUME NEW p \in Pid, Dies(p) PROVE BotInv'
  BY <1>15 DEF Dies
<1>16. ASSUME NEW n \in Named, AskStop(n) PROVE BotInv'
  BY <1>16 DEF AskStop, Request, NoRequest, Named
<1>17. CASE NotSignalled
  BY <1>17 DEF NotSignalled, NoRequest
<1>18. CASE NotVerified
  BY <1>18 DEF NotVerified, Request, LooksRight, InExecve
<1>19. CASE KeepFile
  BY <1>19 DEF KeepFile, NoRequest
<1>20. CASE SeeGone
  BY <1>20 DEF SeeGone, Request, Gone
<1>21. CASE UnlinkStale
  BY <1>21 DEF UnlinkStale, NoRequest
<1> QED
  BY <1>1, <1>2, <1>3, <1>4, <1>5, <1>6, <1>7, <1>8, <1>9, <1>10, <1>11, <1>12, <1>13, <1>14, <1>15, <1>16, <1>17, <1>18, <1>19, <1>20, <1>21 DEF PidStep

LEMMA PidInvStep == PidInv /\ [PidNext]_pidVars => PidInv'
<1> SUFFICES ASSUME PidInv, [PidNext]_pidVars PROVE PidInv'
  OBVIOUS
<1>1. PidTypeOK'
  BY PidTypesKept DEF PidInv
<1>2. CASE PidNext
  BY <1>1, <1>2, RunsAsItself, OrchestratorStep, BotStep DEF PidNext, PidInv
<1>3. CASE UNCHANGED pidVars
  BY <1>1, <1>3
     DEF pidVars, PidInv, OrchestratorInv, BotInv, Claiming, Holding, Holder, StopAsked
<1> QED
  BY <1>2, <1>3

\* _claim_orchestrator_pid, _release_orchestrator_pid, _launch_bot_subprocess and the control
\* server's clean-up: for any number of processes, a file that was not changed by two at once
\* names the one orchestrator that works, or the bot that was filed last.
THEOREM PidFilesNameTheirs == PidSpec => []PidFilesTell
<1>1. PidInv => PidFilesTell
  <2> SUFFICES ASSUME PidInv PROVE PidFilesTell
    OBVIOUS
  <2>1. ASSUME OrchestratorInv, NEW p \in Pid, Working(p)
        PROVE  pidFile["orchestrator"] = p /\ \A q \in Pid : Working(q) => q = p
    BY <2>1 DEF OrchestratorInv, Working, Holder, Holding
  <2> QED
    BY <2>1 DEF PidInv, BotInv, PidFilesTell
<1> QED
  BY <1>1, PidInit0, PidInvStep, PTL DEF PidSpec

\* Only the two files there are hold numbers, and those of processes.
THEOREM PidTypeCorrect == PidSpec => []PidTypeOK
<1>1. PidInv => PidTypeOK
  BY DEF PidInv
<1> QED
  BY <1>1, PidInit0, PidInvStep, PTL DEF PidSpec
-----------------------------------------------------------------------------
(* The rate limiter *)

\* How far apart two slots of the model have to be.
Spacing(m) == Configured[m] * (IF rates[m].limits > 0 THEN 2 ELSE 1)

\* Who sleeps holds the lock; while the file tells of the last slot it tells of none longer
\* ago, and who sleeps wakes when the slots are far enough apart.
RateInv ==
  /\ RateTypeOK
  /\ \A c \in Callers : calls[c].at = "sleeping" => rateLock = Owner(c)
  /\ \A m \in Models : m \notin unrecorded => rates[m].since <= sinceSlot[m]
  /\ \A c \in Callers : calls[c].at = "sleeping" /\ calls[c].model \notin unrecorded =>
       sinceSlot[calls[c].model] + calls[c].left >= Spacing(calls[c].model)

LEMMA Owners == \A c, d \in Callers : Owner(c) # NoCaller /\ (Owner(c) = Owner(d) => c = d)
<1> SUFFICES ASSUME NEW c \in Callers, NEW d \in Callers
             PROVE  Owner(c) # NoCaller /\ (Owner(c) = Owner(d) => c = d)
  OBVIOUS
<1>1. Owner(c).none = FALSE /\ NoCaller.none = TRUE /\ Owner(c).caller = c /\ Owner(d).caller = d
  BY DEF Owner, NoCaller
<1> QED
  BY <1>1

LEMMA LongEnough ==
  \A m \in Models : /\ Configured[m] \in Nat \ {0} /\ LongAgo(m) \in Nat
                    /\ LongAgo(m) >= Configured[m] * 2
  BY RateAssumption DEF LongAgo, Greater, Ceiling

Rates == [interval : Nat, limits : 0..3, since : Nat]

\* What is read of the file, or begun anew, is a rate, and so is what a call makes of it.
LEMMA RatesStay ==
  ASSUME RateTypeOK
  PROVE  /\ \A m \in Models : Unknown(m) \in Rates /\ Rate(m) \in Rates
         /\ \A r \in Rates : Requested(r) \in Rates /\ Succeeded(r) \in Rates
         /\ \A r \in Rates : \A after \in RetryAfter : Limited(r, after) \in Rates
<1>1. \A m \in Models : Configured[m] \in Nat /\ LongAgo(m) \in Nat /\ rates[m] \in Rates
  BY LongEnough DEF RateTypeOK, Rates
<1>2. ASSUME NEW m \in Models PROVE Unknown(m) \in Rates /\ Rate(m) \in Rates
  BY <1>1 DEF Unknown, Rate, Rates, Greater
<1>3. ASSUME NEW r \in Rates PROVE Requested(r) \in Rates
  BY DEF Requested, Rates
<1>4. ASSUME NEW r \in Rates PROVE Succeeded(r) \in Rates
  <2>1. Greater(0, r.limits - 1) \in 0..3
    BY DEF Greater, Rates
  <2>2. Greater(500, (r.interval * 8) \div 10) \in Nat
    BY DEF Greater, Rates
  <2> QED
    BY <2>1, <2>2 DEF Succeeded, Rates
<1>5. ASSUME NEW r \in Rates, NEW after \in RetryAfter PROVE Limited(r, after) \in Rates
  <2>0. after \in Nat
    BY RateAssumption
  <2>1. Lesser(r.limits + 1, 3) \in 0..3
    BY DEF Lesser, Rates
  <2>2. Greater(r.interval, Lesser(after, Ceiling)) \in Nat
    BY <2>0 DEF Greater, Lesser, Ceiling, Rates
  <2>3. Lesser((r.interval * 12) \div 10, Ceiling) \in Nat
    BY DEF Lesser, Ceiling, Rates
  <2> QED
    BY <2>1, <2>2, <2>3 DEF Limited, Rates
<1> QED
  BY <1>2, <1>3, <1>4, <1>5

\* The file after it was, or was not, written: every rate is one, and of each model it tells
\* what it told, tells what was written, or is known not to tell.
LEMMA Written ==
  ASSUME RateTypeOK, NEW m \in Models, NEW r \in Rates, NEW unread \in SUBSET Models,
         WriteRates(m, r, unread)
  PROVE  /\ rates' \in [Models -> Rates] /\ unrecorded' \in SUBSET Models
         /\ \A n \in Models : n \in unrecorded'
              \/ (n = m /\ rates'[n] = r /\ n \notin unread)
              \/ (n # m /\ rates'[n] = rates[n] /\ (n \notin unread \/ n \notin unrecorded))
<1>1. rates \in [Models -> Rates] /\ unrecorded \subseteq Models
  BY DEF RateTypeOK, Rates
<1>2. \A n \in Models : Unknown(n) \in Rates
  BY RatesStay
<1> HIDE DEF Rates
<1>3. CASE rates' = [rates EXCEPT ![m] = r] /\ unrecorded' = unread
  BY <1>1, <1>3
<1>4. CASE /\ rates' = [n \in Models |-> IF n = m THEN r ELSE Unknown(n)]
           /\ unrecorded' = unread \cup (Models \ {m})
  BY <1>1, <1>2, <1>4
<1>5. CASE rates' = rates /\ unrecorded' = unrecorded \cup {m}
  BY <1>1, <1>5
<1> QED
  BY <1>3, <1>4, <1>5 DEF WriteRates

\* A call is counted, or told how it ended: the file tells of no longer a time than before.
LEMMA Updated ==
  ASSUME RateInv, NEW m \in Models, NEW r \in Rates,
         \/ WriteRates(m, r, unrecorded) /\ (r.since = 0 \/ r.since = rates[m].since)
         \/ WriteRates(m, r, unrecorded \cup {m})
  PROVE  /\ rates' \in [Models -> Rates] /\ unrecorded' \in SUBSET Models
         /\ \A n \in Models : n \notin unrecorded' =>
              n \notin unrecorded /\ (rates'[n].since = 0 \/ rates'[n].since = rates[n].since)
<1>1. RateTypeOK /\ unrecorded \in SUBSET Models /\ unrecorded \cup {m} \in SUBSET Models
  BY DEF RateInv, RateTypeOK
<1> HIDE DEF Rates
<1> QED
  BY <1>1, Written

LEMMA RateInit0 == RateInit => RateInv
<1> SUFFICES ASSUME RateInit PROVE RateInv
  OBVIOUS
<1>1. /\ rates = [m \in Models |-> Unknown(m)] /\ rateLock = NoCaller
      /\ calls \in [Callers -> {NoCall(m) : m \in Models}]
      /\ sinceSlot = [m \in Models |-> LongAgo(m)] /\ unrecorded = {}
  BY DEF RateInit
<1>2. \A m \in Models : Unknown(m) \in Rates /\ Unknown(m).since = LongAgo(m) /\ LongAgo(m) \in Nat
  BY LongEnough DEF Unknown, Rates
<1>3. rates \in [Models -> Rates] /\ sinceSlot \in [Models -> Nat]
  BY <1>1, <1>2
<1>4. \A c \in Callers : calls[c].at = "none"
  BY <1>1 DEF NoCall
<1>5. calls \in [Callers -> [at : {"none", "sleeping", "slot", "calling"}, model : Models,
                            left : Nat, read : BOOLEAN]]
  <2>1. \A m \in Models : NoCall(m) \in [at : {"none", "sleeping", "slot", "calling"},
                                         model : Models, left : Nat, read : BOOLEAN]
    BY DEF NoCall
  <2> QED
    BY <1>1, <2>1
<1>6. RateTypeOK
  BY <1>1, <1>3, <1>5 DEF RateTypeOK, Rates
<1>7. \A m \in Models : rates[m].since <= sinceSlot[m]
  BY <1>1, <1>2
<1> QED
  BY <1>4, <1>6, <1>7 DEF RateInv

LEMMA RateStep == RateInv /\ [RateNext]_rateVars => RateInv'
<1> SUFFICES ASSUME RateInv, [RateNext]_rateVars PROVE RateInv'
  OBVIOUS
<1> DEFINE Calls == [at : {"none", "sleeping", "slot", "calling"}, model : Models,
                     left : Nat, read : BOOLEAN]
<1>1. /\ rates \in [Models -> Rates] /\ calls \in [Callers -> Calls]
      /\ sinceSlot \in [Models -> Nat] /\ unrecorded \subseteq Models
      /\ rateLock \in {NoCaller} \cup {Owner(c) : c \in Callers}
      /\ RateTypeOK
  BY DEF RateInv, RateTypeOK, Rates
<1>2. /\ \A c \in Callers : calls[c].at = "sleeping" => rateLock = Owner(c)
      /\ \A m \in Models : m \notin unrecorded => rates[m].since <= sinceSlot[m]
      /\ \A c \in Callers : calls[c].at = "sleeping" /\ calls[c].model \notin unrecorded =>
           sinceSlot[calls[c].model] + calls[c].left >= Spacing(calls[c].model)
  BY DEF RateInv
<1>3. \A c \in Callers : calls[c] \in Calls /\ calls[c].model \in Models /\ calls[c].left \in Nat
  BY <1>1
<1>4. \A m \in Models : rates[m].since \in Nat /\ rates[m].limits \in 0..3 /\ rates[m].interval \in Nat
                        /\ sinceSlot[m] \in Nat
  BY <1>1 DEF Rates
<1>5. ASSUME rates' \in [Models -> Rates], calls' \in [Callers -> Calls],
             sinceSlot' \in [Models -> Nat], unrecorded' \in SUBSET Models,
             rateLock' \in {NoCaller} \cup {Owner(c) : c \in Callers}
      PROVE  RateTypeOK'
  BY <1>5 DEF RateTypeOK, Rates
<1>6. ASSUME NEW c \in Callers, NEW w \in {"none", "sleeping", "slot", "calling"}, Step(c, w)
      PROVE  /\ calls' \in [Callers -> Calls]
             /\ \A d \in Callers : /\ calls'[d].model = calls[d].model
                                   /\ calls'[d].left = calls[d].left
                                   /\ calls'[d].at = IF d = c THEN w ELSE calls[d].at
  BY <1>1, <1>3, <1>6 DEF Step
<1> HIDE DEF Calls, Rates
\* A call is counted, or ends: nobody sleeps then.
<1>7. ASSUME NEW c \in Callers, NEW w \in {"none", "calling"}, NEW r \in Rates,
             LockFree, Step(c, w), rateLock' = rateLock, sinceSlot' = sinceSlot,
             \/ WriteRates(calls[c].model, r, unrecorded)
                /\ (r.since = 0 \/ r.since = rates[calls[c].model].since)
             \/ WriteRates(calls[c].model, r, unrecorded \cup {calls[c].model})
      PROVE  RateInv'
  <2>1. /\ rates' \in [Models -> Rates] /\ unrecorded' \in SUBSET Models
        /\ \A n \in Models : n \notin unrecorded' =>
             n \notin unrecorded /\ (rates'[n].since = 0 \/ rates'[n].since = rates[n].since)
    BY <1>3, <1>7, Updated
  <2>2. \A d \in Callers : calls[d].at # "sleeping"
    BY <1>2, <1>7, Owners DEF LockFree
  <2>3. /\ calls' \in [Callers -> Calls]
        /\ \A d \in Callers : calls'[d].at # "sleeping"
    BY <1>6, <1>7, <2>2
  <2>4. RateTypeOK'
    BY <1>1, <1>5, <1>7, <2>1, <2>3
  <2>5. \A n \in Models : n \notin unrecorded' => rates'[n].since <= sinceSlot'[n]
    BY <1>2, <1>4, <1>7, <2>1
  <2> QED
    BY <2>3, <2>4, <2>5 DEF RateInv
<1>8. ASSUME NEW c \in Callers, NEW m \in Models, TakeLock(c, m) PROVE RateInv'
  <2>1. /\ calls[c].at = "none" /\ rateLock = NoCaller /\ rateLock' = Owner(c)
        /\ rates' = rates /\ sinceSlot' = sinceSlot
    BY <1>8 DEF TakeLock, LockFree
  <2>2. PICK read \in BOOLEAN :
          /\ calls' = [calls EXCEPT ![c] =
               [at |-> "sleeping", model |-> m, read |-> read,
                left |-> IF read THEN Greater(0, Effective(Rate(m)) - rates[m].since) ELSE 0]]
          /\ unrecorded' = IF read THEN unrecorded ELSE unrecorded \cup {m}
    BY <1>8 DEF TakeLock
  <2> DEFINE asleep == [at |-> "sleeping", model |-> m, read |-> read,
                left |-> IF read THEN Greater(0, Effective(Rate(m)) - rates[m].since) ELSE 0]
  <2>3. /\ Effective(Rate(m)) \in Nat
        /\ Effective(Rate(m)) >= Spacing(m) /\ Spacing(m) \in Nat
    <3>1. Configured[m] \in Nat /\ Rate(m).limits = rates[m].limits
          /\ Rate(m).interval = Greater(rates[m].interval, Configured[m])
      BY <1>1, <1>4, LongEnough DEF Rate, Rates
    <3>2. Rate(m).interval \in Nat /\ Rate(m).interval >= Configured[m]
      BY <1>4, <3>1 DEF Greater
    <3> QED
      BY <1>4, <3>1, <3>2 DEF Effective, Spacing
  <2>4. (IF read THEN Greater(0, Effective(Rate(m)) - rates[m].since) ELSE 0) \in Nat
    BY <1>4, <2>3 DEF Greater
  <2>5. asleep \in Calls
    BY <2>4 DEF Calls
  <2>6. calls' \in [Callers -> Calls] /\ \A d \in Callers : calls'[d] = IF d = c THEN asleep ELSE calls[d]
    BY <1>1, <2>2, <2>5
  <2>7. RateTypeOK'
    BY <1>1, <1>5, <2>1, <2>2, <2>6
  <2>8. \A d \in Callers : d # c => calls[d].at # "sleeping"
    BY <1>2, <2>1, Owners
  <2>9. \A n \in Models : n \notin unrecorded' => n \notin unrecorded /\ (n = m => read)
    BY <2>2
  <2>10. read /\ m \notin unrecorded =>
           sinceSlot[m] + Greater(0, Effective(Rate(m)) - rates[m].since) >= Spacing(m)
    BY <1>2, <1>4, <2>3 DEF Greater
  <2>11. Spacing(m)' = Spacing(m)
    BY <2>1 DEF Spacing
  <2>12. \A d \in Callers : calls'[d].at = "sleeping" => d = c /\ rateLock' = Owner(d)
    BY <2>1, <2>6, <2>8
  <2>13. calls'[c].model \notin unrecorded' => sinceSlot'[m] + calls'[c].left >= Spacing(m)'
    BY <2>1, <2>6, <2>9, <2>10, <2>11
  <2>14. calls'[c].model = m
    BY <2>6
  <2>15. \A n \in Models : n \notin unrecorded' => rates'[n].since <= sinceSlot'[n]
    BY <1>2, <2>1, <2>9
  <2>16. \A d \in Callers : calls'[d].at = "sleeping" /\ calls'[d].model \notin unrecorded' =>
           (sinceSlot[calls[d].model] + calls[d].left >= Spacing(calls[d].model))'
    BY <2>12, <2>13, <2>14 DEF Spacing
  <2> QED
    BY <2>7, <2>12, <2>15, <2>16 DEF RateInv, Spacing
<1>9. ASSUME NEW c \in Callers, Slot(c) PROVE RateInv'
  <2> DEFINE m == calls[c].model
             r == Requested(IF calls[c].read THEN Rate(m) ELSE Unknown(m))
  <2>1. /\ calls[c].at = "sleeping" /\ WriteRates(m, r, unrecorded \ {m})
        /\ sinceSlot' = [sinceSlot EXCEPT ![m] = 0] /\ rateLock' = NoCaller /\ Step(c, "slot")
    BY <1>9 DEF Slot
  <2>2. m \in Models /\ r \in Rates /\ r.since = 0 /\ unrecorded \ {m} \in SUBSET Models
    BY <1>1, <1>3, RatesStay DEF Requested, Rates
  <2> HIDE DEF r
  <2>3. /\ rates' \in [Models -> Rates] /\ unrecorded' \in SUBSET Models
        /\ \A n \in Models : n \in unrecorded'
             \/ (n = m /\ rates'[n] = r /\ n \notin unrecorded \ {m})
             \/ (n # m /\ rates'[n] = rates[n]
                 /\ (n \notin unrecorded \ {m} \/ n \notin unrecorded))
    BY <1>1, <2>1, <2>2, Written
  <2>4. /\ calls' \in [Callers -> Calls]
        /\ \A d \in Callers : calls'[d].at # "sleeping"
    BY <1>2, <1>6, <2>1, Owners
  <2>5. RateTypeOK'
    BY <1>1, <1>5, <2>1, <2>2, <2>3, <2>4
  <2>6. \A n \in Models : n \notin unrecorded' => rates'[n].since <= sinceSlot'[n]
    BY <1>1, <1>2, <1>4, <2>1, <2>2, <2>3
  <2> QED
    BY <2>4, <2>5, <2>6 DEF RateInv
<1>10. ASSUME NEW c \in Callers, NEW m \in Models, NoSlot(c, m) PROVE RateInv'
  <2>1. /\ calls' = [calls EXCEPT ![c] = [NoCall(m) EXCEPT !.at = "slot"]]
        /\ UNCHANGED <<rates, rateLock, sinceSlot, unrecorded>>
    BY <1>10 DEF NoSlot
  <2>2. [NoCall(m) EXCEPT !.at = "slot"] \in Calls
        /\ [NoCall(m) EXCEPT !.at = "slot"].at = "slot"
    BY DEF NoCall, Calls
  <2>3. calls' \in [Callers -> Calls]
        /\ \A d \in Callers : calls'[d].at = "sleeping" => calls'[d] = calls[d]
    BY <1>1, <2>1, <2>2
  <2>4. RateTypeOK'
    BY <1>1, <1>5, <2>1, <2>3
  <2> QED
    BY <1>2, <2>1, <2>3, <2>4 DEF RateInv, Spacing
<1>11. ASSUME NEW c \in Callers, CountCall(c) PROVE RateInv'
  <2>1. PICK r \in Rates :
          /\ r.since = 0
          /\ WriteRates(calls[c].model, r, unrecorded)
             \/ WriteRates(calls[c].model, r, unrecorded \cup {calls[c].model})
    <3>1. \A s \in Rates : Requested(s) \in Rates /\ Requested(s).since = 0
      BY <1>1, RatesStay DEF Requested, Rates
    <3>2. Rate(calls[c].model) \in Rates /\ Unknown(calls[c].model) \in Rates
      BY <1>1, <1>3, RatesStay
    <3> QED
      BY <1>11, <3>1, <3>2 DEF CountCall, Update
  <2> QED
    BY <1>7, <1>11, <2>1 DEF CountCall
<1>12. ASSUME NEW c \in Callers,
              CallSucceeds(c) \/ \E after \in RetryAfter : CallIsLimited(c, after)
       PROVE  RateInv'
  <2>1. PICK r \in Rates :
          \/ WriteRates(calls[c].model, r, unrecorded) /\ r.since = rates[calls[c].model].since
          \/ WriteRates(calls[c].model, r, unrecorded \cup {calls[c].model})
    <3>1. Rate(calls[c].model).since = rates[calls[c].model].since
      BY <1>1, <1>3 DEF Rate, Rates
    <3>2. \A s \in Rates : Succeeded(s) \in Rates /\ Succeeded(s).since = s.since
      BY <1>1, RatesStay DEF Succeeded, Rates
    <3>3. \A s \in Rates : \A after \in RetryAfter :
            Limited(s, after) \in Rates /\ Limited(s, after).since = s.since
      BY <1>1, RatesStay DEF Limited, Rates
    <3>4. Rate(calls[c].model) \in Rates /\ Unknown(calls[c].model) \in Rates
      BY <1>1, <1>3, RatesStay
    <3>5. CASE CallSucceeds(c)
      BY <3>1, <3>2, <3>4, <3>5 DEF CallSucceeds, Update
    <3>6. ASSUME NEW after \in RetryAfter, CallIsLimited(c, after)
          PROVE  \E r \in Rates :
                   \/ WriteRates(calls[c].model, r, unrecorded)
                      /\ r.since = rates[calls[c].model].since
                   \/ WriteRates(calls[c].model, r, unrecorded \cup {calls[c].model})
      <4>1. Update(calls[c].model, Limited(Rate(calls[c].model), after),
                   Limited(Unknown(calls[c].model), after))
        BY <3>6 DEF CallIsLimited
      <4> QED
        BY <3>1, <3>3, <3>4, <4>1 DEF Update
    <3> QED
      BY <1>12, <3>5, <3>6
  <2>2. LockFree /\ Step(c, "none") /\ rateLock' = rateLock /\ sinceSlot' = sinceSlot
    BY <1>12 DEF CallSucceeds, CallIsLimited
  <2> QED
    BY <1>7, <2>1, <2>2
<1>13. ASSUME NEW c \in Callers, CallEnds(c) PROVE RateInv'
  <2>1. /\ calls' = [calls EXCEPT ![c] = NoCall(calls[c].model)]
        /\ rateLock' = IF rateLock = Owner(c) THEN NoCaller ELSE rateLock
        /\ UNCHANGED <<rates, sinceSlot, unrecorded>>
    BY <1>1, <1>13 DEF CallEnds
  <2>2. NoCall(calls[c].model) \in Calls /\ NoCall(calls[c].model).at = "none"
    BY <1>3 DEF NoCall, Calls
  <2>3. calls' \in [Callers -> Calls]
        /\ \A d \in Callers : calls'[d].at = "sleeping" => calls'[d] = calls[d] /\ d # c
    BY <1>1, <2>1, <2>2
  <2>4. RateTypeOK'
    BY <1>1, <1>5, <2>1, <2>3
  <2>5. \A d \in Callers : calls'[d].at = "sleeping" => rateLock' = Owner(d)
    BY <1>2, <2>1, <2>3, Owners
  <2> QED
    BY <1>2, <2>1, <2>3, <2>4, <2>5 DEF RateInv, Spacing
<1>14. CASE TimePasses
  <2>1. PICK d \in IF rateLock = NoCaller THEN {Pace} ELSE {calls[rateLock.caller].left} :
          /\ d > 0
          /\ rates' = [m \in Models |-> [rates[m] EXCEPT !.since = Later(@, d, m)]]
          /\ sinceSlot' = [m \in Models |-> Later(sinceSlot[m], d, m)]
          /\ calls' = [c \in Callers |-> [calls[c] EXCEPT !.left = Greater(0, @ - d)]]
          /\ UNCHANGED <<rateLock, unrecorded>>
    BY <1>14 DEF TimePasses
  <2>2. d \in Nat
    <3>1. rateLock # NoCaller => calls[rateLock.caller].left \in Nat
      BY <1>1, <1>3 DEF Owner
    <3> QED
      BY <2>1, <3>1, RateAssumption
  <2>3. \A m \in Models : \A t \in Nat :
          /\ Later(t, d, m) \in Nat
          /\ Later(t, d, m) = IF t + d < LongAgo(m) THEN t + d ELSE LongAgo(m)
    BY <2>2, LongEnough DEF Later, Lesser
  <2>4. \A c \in Callers : Greater(0, calls[c].left - d) \in Nat
                           /\ Greater(0, calls[c].left - d) >= calls[c].left - d
    BY <1>3, <2>2 DEF Greater
  <2>5. /\ rates' \in [Models -> Rates] /\ \A m \in Models :
             rates'[m].since = Later(rates[m].since, d, m) /\ rates'[m].limits = rates[m].limits
    <3>1. ASSUME NEW m \in Models
          PROVE  LET r == [rates[m] EXCEPT !.since = Later(@, d, m)]
                 IN  r \in Rates /\ r.since = Later(rates[m].since, d, m) /\ r.limits = rates[m].limits
      BY <1>1, <1>4, <2>3 DEF Rates
    <3> QED
      BY <2>1, <3>1
  <2>6. sinceSlot' \in [Models -> Nat] /\ \A m \in Models : sinceSlot'[m] = Later(sinceSlot[m], d, m)
    BY <1>4, <2>1, <2>3
  <2>7. /\ calls' \in [Callers -> Calls] /\ \A c \in Callers :
             /\ calls'[c].at = calls[c].at /\ calls'[c].model = calls[c].model
             /\ calls'[c].left = Greater(0, calls[c].left - d)
    BY <1>1, <1>3, <2>1, <2>4 DEF Calls
  <2>8. RateTypeOK'
    BY <1>1, <1>5, <2>1, <2>5, <2>6, <2>7
  <2>9. \A m \in Models : m \notin unrecorded' => rates'[m].since <= sinceSlot'[m]
    BY <1>2, <1>4, <2>1, <2>2, <2>3, <2>5, <2>6, LongEnough
  <2>10. ASSUME NEW c \in Callers, calls'[c].at = "sleeping", calls'[c].model \notin unrecorded'
         PROVE  (sinceSlot[calls[c].model] + calls[c].left >= Spacing(calls[c].model))'
    <3> DEFINE m == calls[c].model
    <3>1. m \in Models /\ calls'[c].model = m /\ sinceSlot[m] + calls[c].left >= Spacing(m)
      BY <1>2, <1>3, <2>1, <2>7, <2>10
    <3>2. /\ sinceSlot'[m] = IF sinceSlot[m] + d < LongAgo(m) THEN sinceSlot[m] + d ELSE LongAgo(m)
          /\ calls'[c].left \in Nat /\ calls'[c].left >= calls[c].left - d
      BY <1>4, <2>3, <2>4, <2>6, <2>7, <3>1
    <3>3. /\ rates'[m].limits = rates[m].limits
          /\ Spacing(m) \in Nat /\ LongAgo(m) \in Nat /\ LongAgo(m) >= Spacing(m)
      BY <2>5, <3>1, LongEnough DEF Spacing
    <3>4. Spacing(calls[c].model)' = Spacing(m)
      BY <3>1, <3>3 DEF Spacing
    <3>5. calls[c].left \in Nat /\ sinceSlot[m] \in Nat
      BY <1>3, <1>4, <3>1
    <3>6. sinceSlot'[m] + calls'[c].left >= Spacing(m)
      BY <2>2, <3>1, <3>2, <3>3, <3>5
    <3> QED
      BY <3>1, <3>4, <3>6
  <2> QED
    BY <1>2, <2>1, <2>7, <2>8, <2>9, <2>10 DEF RateInv
<1>15. CASE UNCHANGED rateVars
  BY <1>15 DEF rateVars, RateInv, RateTypeOK, Spacing
<1> QED
  BY <1>8, <1>9, <1>10, <1>11, <1>12, <1>13, <1>14, <1>15 DEF RateNext

\* AdaptiveRateLimiter.acquire_slot: for any number of bots and models, and whatever the
\* servers tell, two slots of a model are as far apart as they should be, unless the file
\* could not be read or written in between.
THEOREM SlotsSpaced == RateSpec => SlotsAreSpaced
<1> DEFINE Spaced == \A c \in Callers :
             LET m == calls[c].model IN
             calls'[c].at = "slot" /\ calls[c].at = "sleeping" /\ m \notin unrecorded =>
               sinceSlot[m] >= Configured[m] * (IF rates[m].limits > 0 THEN 2 ELSE 1)
<1>1. RateInv /\ [RateNext]_rateVars => Spaced
  <2> SUFFICES ASSUME RateInv, [RateNext]_rateVars, NEW c \in Callers,
                      calls'[c].at = "slot", calls[c].at = "sleeping",
                      calls[c].model \notin unrecorded
               PROVE  sinceSlot[calls[c].model] >= Spacing(calls[c].model)
    BY DEF Spacing
  <2>1. calls \in [Callers -> [at : {"none", "sleeping", "slot", "calling"}, model : Models,
                               left : Nat, read : BOOLEAN]]
    BY DEF RateInv, RateTypeOK
  <2>2. calls[c].left = 0
    <3>1. ASSUME NEW d \in Callers, Slot(d) PROVE calls[c].left = 0
      <4>1. d = c
        BY <2>1, <3>1 DEF Slot, Step
      <4> QED
        BY <3>1, <4>1 DEF Slot
    <3>2. ASSUME NEW d \in Callers, NEW m \in Models, TakeLock(d, m) \/ NoSlot(d, m) PROVE FALSE
      BY <2>1, <3>2 DEF TakeLock, NoSlot
    <3>3. ASSUME NEW d \in Callers,
                 CountCall(d) \/ CallSucceeds(d) \/ (\E after \in RetryAfter : CallIsLimited(d, after))
          PROVE  FALSE
      BY <2>1, <3>3 DEF CountCall, CallSucceeds, CallIsLimited, Step
    <3>4. ASSUME NEW d \in Callers, CallEnds(d) PROVE FALSE
      BY <2>1, <3>4 DEF CallEnds, NoCall
    <3>5. CASE TimePasses
      BY <2>1, <3>5 DEF TimePasses
    <3>6. CASE UNCHANGED rateVars
      BY <3>6 DEF rateVars
    <3> QED
      BY <3>1, <3>2, <3>3, <3>4, <3>5, <3>6 DEF RateNext
  <2>3. calls[c].model \in Models /\ sinceSlot[calls[c].model] \in Nat
    BY <2>1 DEF RateInv, RateTypeOK
  <2> QED
    BY <2>2, <2>3 DEF RateInv
<1>2. RateInv /\ [RateNext]_rateVars => [Spaced]_rateVars
  BY <1>1
<1> QED
  BY <1>2, RateInit0, RateStep, PTL DEF RateSpec, SlotsAreSpaced

\* The file holds a rate for each model, and one bot at most has the lock.
THEOREM RateTypeCorrect == RateSpec => []RateTypeOK
<1>1. RateInv => RateTypeOK
  BY DEF RateInv
<1> QED
  BY <1>1, RateInit0, RateStep, PTL DEF RateSpec
=============================================================================
