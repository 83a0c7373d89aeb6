------------------------ MODULE TicketStore_proofs ------------------------
(* Theorems about the storage engine, for every value of its constants. *)
EXTENDS TicketStore, TLAPS, FiniteSetTheorems,
        SequenceTheorems, WellFoundedInduction

-----------------------------------------------------------------------------
(* Replaying a log *)

\* Every non-empty set of numbers has a least one.
LEMMA LeastNatural ==
  ASSUME NEW S \in SUBSET Nat, S # {}
  PROVE  \E n \in S : \A k \in S : n <= k
<1>1. PICK n \in S : \A k \in S : <<k, n>> \notin OpToRel(<, Nat)
  BY NatLessThanWellFounded, WFMin
<1>2. \A k \in S : ~ (k < n)
  BY <1>1 DEF OpToRel
<1>3. QED
  BY <1>2

\* A version's numbers; there is one version without a ticket.
LEMMA VersionFacts ==
  /\ \A v \in Version : v.ver \in Nat /\ v.ts \in Nat /\ (v.ver = 0 => v = Absent)
  /\ \A n \in Nat \ {0}, k \in Nat : [ver |-> n, ts |-> k] \in Version
BY DEF Version, Absent

\* Among some lines of a log one is the newest: it has the greatest updated_at, and
\* is the last with it.
LEMMA NewestExists ==
  ASSUME NEW n \in Nat, NEW ts \in [1 .. n -> Nat], NEW S \in SUBSET (1 .. n), S # {}
  PROVE  \E i \in S : \A j \in S : ts[j] < ts[i] \/ (ts[j] = ts[i] /\ j <= i)
<1> DEFINE Best(U) == \E i \in U : \A j \in U : ts[j] < ts[i] \/ (ts[j] = ts[i] /\ j <= i)
           Worse(k) == \E U \in SUBSET (1 .. k) : U # {} /\ U \subseteq 1 .. n /\ ~ Best(U)
           Bad == {k \in Nat : Worse(k)}
<1> HIDE DEF Best, Worse
<1>1. SUFFICES ASSUME Bad # {} PROVE FALSE
  <2>1. Worse(n) \/ Best(S)
    BY DEF Worse
  <2>2. QED
    BY <1>1, <2>1 DEF Best
<1>2. PICK k \in Bad : \A l \in Bad : k <= l
  BY <1>1, LeastNatural
<1>3. k \in Nat /\ Worse(k) /\ \A l \in Nat : l < k => ~ Worse(l)
  BY <1>2
<1> HIDE DEF Bad
<1>4. PICK T \in SUBSET (1 .. k) : T # {} /\ T \subseteq 1 .. n /\ ~ Best(T)
  BY <1>3 DEF Worse
<1>5. k # 0
  <2>1. 1 .. 0 = {}
    OBVIOUS
  <2>2. QED
    BY <1>4, <2>1
<1>6. k - 1 \in Nat /\ ~ Worse(k - 1)
  BY <1>3, <1>5
<1>7. k \in T
  <2>1. SUFFICES ASSUME k \notin T PROVE FALSE
    OBVIOUS
  <2>2. \A x \in T : x \in 1 .. (k - 1)
    BY <1>3, <2>1
  <2>3. QED
    BY <2>2, <1>4, <1>6 DEF Worse
<1>8. CASE T = {k}
  BY <1>8, <1>4 DEF Best
<1>9. CASE T # {k}
  <2>1. T \ {k} # {} /\ T \ {k} \in SUBSET (1 .. (k - 1)) /\ T \ {k} \subseteq 1 .. n
    <3>1. \A x \in T \ {k} : x \in 1 .. (k - 1)
      BY <1>3
    <3>2. QED
      BY <3>1, <1>9, <1>4
  <2>2. Best(T \ {k})
    BY <2>1, <1>6 DEF Worse
  <2>3. PICK i \in T \ {k} : \A j \in T \ {k} : ts[j] < ts[i] \/ (ts[j] = ts[i] /\ j <= i)
    BY <2>2 DEF Best
  <2>4. i \in 1 .. n /\ k \in 1 .. n /\ ts[i] \in Nat /\ ts[k] \in Nat
    BY <1>4, <1>7
  <2>5. CASE ts[k] < ts[i]
    BY <2>3, <2>4, <2>5, <1>4 DEF Best
  <2>6. CASE ~ (ts[k] < ts[i])
    <3>1. \A j \in T : j \in 1 .. n /\ j <= k /\ ts[j] \in Nat
      BY <1>3, <1>4
    <3>2. \A j \in T : ts[j] < ts[k] \/ (ts[j] = ts[k] /\ j <= k)
      BY <3>1, <2>3, <2>4, <2>6
    <3>3. QED
      BY <3>2, <1>4, <1>7 DEF Best
  <2>7. QED
    BY <2>5, <2>6
<1>10. QED
  BY <1>8, <1>9

\* A replay yields a version.
LEMMA ReplayedType ==
  ASSUME NEW m \in Version, NEW log \in Seq(Version)
  PROVE  Replayed(m, log) \in Version
<1> DEFINE n == Len(log)
           ts == [i \in 1 .. n |-> log[i].ts]
           live == {i \in 1 .. n : \A j \in i .. n : log[j].ver # 0}
           Newest(i) == \A j \in live : log[j].ts < log[i].ts \/ (log[j].ts = log[i].ts /\ j <= i)
<1>1. n \in Nat /\ (\A i \in 1 .. n : log[i] \in Version) /\ Absent \in Version
  <2>1. n \in Nat /\ \A i \in 1 .. n : log[i] \in Version
    OBVIOUS
  <2>2. QED
    BY <2>1 DEF Absent, Version
<1>2. CASE live = {}
  BY <1>1, <1>2 DEF Replayed
<1>3. CASE live # {}
  <2>1. ts \in [1 .. n -> Nat] /\ live \in SUBSET (1 .. n)
    BY <1>1, VersionFacts
  <2>2. \E i \in live : Newest(i)
    <3>1. PICK i \in live : \A j \in live : ts[j] < ts[i] \/ (ts[j] = ts[i] /\ j <= i)
      BY <1>1, <1>3, <2>1, NewestExists
    <3>2. \A j \in live : ts[j] = log[j].ts
      OBVIOUS
    <3>3. QED
      BY <3>1, <3>2
  <2>3. (CHOOSE i \in live : Newest(i)) \in 1 .. n
    BY <2>1, <2>2
  <2>4. QED
    BY <1>1, <2>3 DEF Replayed
<1>4. QED
  BY <1>2, <1>3

-----------------------------------------------------------------------------
(* The lines a save writes *)

\* A save serialises every ticket to some sequence of versions.
LEMMA LineOrdersType ==
  ASSUME mem \in [Ticket -> Version], NEW ids, NEW t \in Ticket
  PROVE  LineOrders(ids, t) \subseteq Seq(Version)
<1> DEFINE live == IF Live(t) \in ids /\ mem[t].ver # 0 THEN <<mem[t]>> ELSE <<>>
           tomb == IF Deleted(t) \in ids THEN <<Absent>> ELSE <<>>
<1>1. Absent \in Version /\ mem[t] \in Version
  BY DEF Absent, Version
<1>2. live \in Seq(Version) /\ tomb \in Seq(Version)
  BY <1>1
<1> HIDE DEF live, tomb
<1>3. live \o tomb \in Seq(Version) /\ tomb \o live \in Seq(Version)
  BY <1>2
<1>4. LineOrders(ids, t) = {live \o tomb, tomb \o live}
  BY DEF LineOrders, live, tomb
<1>5. QED
  BY <1>3, <1>4

LEMMA LineChoicesType ==
  ASSUME mem \in [Ticket -> Version], NEW ids, NEW l \in LineChoices(ids)
  PROVE  l \in [Ticket -> Seq(Version)]
<1>1. /\ l \in [Ticket -> UNION {LineOrders(ids, t) : t \in Ticket}]
      /\ \A t \in Ticket : l[t] \in LineOrders(ids, t)
  BY DEF LineChoices
<1>2. \A t \in Ticket : l[t] \in Seq(Version)
  BY <1>1, LineOrdersType
<1>3. QED
  BY <1>1, <1>2

LEMMA AppendAllType ==
  ASSUME NEW log \in [Ticket -> Seq(Version)], NEW more \in [Ticket -> Seq(Version)]
  PROVE  AppendAll(log, more) \in [Ticket -> Seq(Version)]
<1>1. \A t \in Ticket : log[t] \in Seq(Version) /\ more[t] \in Seq(Version)
  OBVIOUS
<1>2. \A t \in Ticket : log[t] \o more[t] \in Seq(Version)
  BY <1>1
<1>3. QED
  BY <1>2 DEF AppendAll

-----------------------------------------------------------------------------
(* Type correctness *)

\* An API call keeps the types.
LEMMA CallType ==
  ASSUME TypeOK, NEW op, NEW S \in SUBSET Ticket, NEW v \in [S -> Version],
         NEW drop, NEW mark \in SUBSET DirtyId, Call(op, v, drop, mark),
         used' \in SUBSET Ticket
  PROVE  TypeOK'
<1> DEFINE more == [t \in Ticket |-> IF t \in DOMAIN v THEN <<v[t]>> ELSE <<>>]
<1>1. more \in [Ticket -> Seq(Version)]
  OBVIOUS
<1>2. wal' \in {wal, AppendAll(wal, more)} /\ signal' \in BOOLEAN /\ faults' \in Nat
  <2>1. LogAndQueue(more)
    BY DEF Call
  <2> HIDE DEF more
  <2>2. wal' \in {wal, AppendAll(wal, more)} /\ faults' \in Nat
    BY <2>1 DEF LogAndQueue, Fault, TypeOK
  <2>3. signal' = TRUE \/ signal' = signal
    BY <2>1 DEF LogAndQueue
  <2>4. signal' \in BOOLEAN
    BY <2>3, Zenon DEF TypeOK
  <2>5. QED
    BY <2>2, <2>4
<1> HIDE DEF more
<1>3. wal' \in [Ticket -> Seq(Version)]
  BY <1>1, <1>2, AppendAllType DEF TypeOK
<1>4. mem' \in [Ticket -> Version] /\ latest' \in [Ticket -> Version]
  BY DEF Call, TypeOK
<1>5. dirty' \in SUBSET DirtyId /\ clock' \in Nat
  BY DEF Call, TypeOK
<1>6. UNCHANGED <<pending, saveCount, up, snap, snapExists, job>>
  BY DEF Call
<1>7. QED
  BY <1>2, <1>3, <1>4, <1>5, <1>6 DEF TypeOK

\* The versions a call writes, and the ids it marks, have their types.
LEMMA StampsType ==
  ASSUME TypeOK, NEW S \in SUBSET Ticket
  PROVE  /\ Stamped(S) \in [S -> Version] /\ Unstamped(S) \in [S -> Version]
         /\ Gone(S) \in [S -> Version]
         /\ {Live(t) : t \in S} \subseteq DirtyId
         /\ {Deleted(t) : t \in S} \subseteq DirtyId
<1>1. clock + 1 \in Nat \ {0} /\ \A t \in S : mem[t].ts \in Nat
  BY VersionFacts DEF TypeOK
<1>2. Stamped(S) \in [S -> Version]
  BY <1>1, VersionFacts DEF Stamped
<1>3. Unstamped(S) \in [S -> Version]
  BY <1>1, VersionFacts DEF Unstamped
<1>4. Gone(S) \in [S -> Version]
  BY DEF Gone, Absent, Version
<1>5. \A t \in S : Live(t) \in DirtyId /\ Deleted(t) \in DirtyId
  BY DEF Live, Deleted, DirtyId
<1>6. QED
  BY <1>2, <1>3, <1>4, <1>5

LEMMA ApiCallType ==
  ASSUME TypeOK, ApiCall
  PROVE  TypeOK'
<1>1. used \in SUBSET Ticket
  BY DEF TypeOK
<1>2. ASSUME NEW t \in Ticket, Add(t)
      PROVE  TypeOK'
  <2>1. Call("add", Stamped({t}), {}, {Live(t)}) /\ used' \in SUBSET Ticket
    BY <1>1, <1>2 DEF Add
  <2>2. Stamped({t}) \in [{t} -> Version] /\ {Live(t)} \in SUBSET DirtyId
    BY StampsType
  <2>3. QED
    BY <2>1, <2>2, CallType
<1>3. ASSUME NEW t \in Ticket, Transition(t)
      PROVE  TypeOK'
  <2>1. Call("transition", Stamped({t}), {}, {Live(t)}) /\ used' \in SUBSET Ticket
    BY <1>1, <1>3 DEF Transition
  <2>2. Stamped({t}) \in [{t} -> Version] /\ {Live(t)} \in SUBSET DirtyId
    BY StampsType
  <2>3. QED
    BY <2>1, <2>2, CallType
<1>4. ASSUME NEW t \in Ticket, RecordCommit(t)
      PROVE  TypeOK'
  <2>1. Call("record_commit", Unstamped({t}), {}, {Live(t)}) /\ used' \in SUBSET Ticket
    BY <1>1, <1>4 DEF RecordCommit
  <2>2. Unstamped({t}) \in [{t} -> Version] /\ {Live(t)} \in SUBSET DirtyId
    BY StampsType
  <2>3. QED
    BY <2>1, <2>2, CallType
<1>5. ASSUME NEW t \in Ticket, UpdateContextFields(t)
      PROVE  TypeOK'
  <2>1. Unstamped({t}) \in [{t} -> Version] /\ {Live(t)} \in SUBSET DirtyId
    BY StampsType
  <2>2. used' \in SUBSET Ticket
    BY <1>1, <1>5 DEF UpdateContextFields
  <2>3. CASE Call("update_context", Unstamped({t}), {}, {Live(t)})
    BY <2>1, <2>2, <2>3, CallType
  <2>4. CASE /\ Fault("append") /\ faults' = faults + 1
             /\ wal' \in {wal, [wal EXCEPT ![t] = Append(@, Unstamped({t})[t])]}
             /\ clock' = clock + 1
             /\ UNCHANGED <<mem, dirty, signal, latest, pending, saveCount, up, snap,
                            snapExists, flock, job>>
    <3>1. Append(wal[t], Unstamped({t})[t]) \in Seq(Version)
      BY <2>1 DEF TypeOK
    <3>2. wal' \in [Ticket -> Seq(Version)]
      BY <2>4, <3>1 DEF TypeOK
    <3>3. QED
      BY <2>2, <2>4, <3>2 DEF TypeOK
  <2>5. QED
    BY <1>5, <2>3, <2>4 DEF UpdateContextFields
<1>6. ASSUME NEW t \in Ticket, Remove(t)
      PROVE  TypeOK'
  <2>1. Call("remove", Gone({t}), {Live(t)}, {Deleted(t)}) /\ used' \in SUBSET Ticket
    BY <1>1, <1>6 DEF Remove
  <2>2. Gone({t}) \in [{t} -> Version] /\ {Deleted(t)} \in SUBSET DirtyId
    BY StampsType
  <2>3. QED
    BY <2>1, <2>2, CallType
<1>7. ASSUME NEW S \in SUBSET Ticket, BatchTransition(S)
      PROVE  TypeOK'
  <2>1. Call("batch", Stamped(S), {}, {Live(t) : t \in S}) /\ used' \in SUBSET Ticket
    BY <1>1, <1>7 DEF BatchTransition
  <2>2. Stamped(S) \in [S -> Version] /\ {Live(t) : t \in S} \in SUBSET DirtyId
    BY StampsType
  <2>3. QED
    BY <2>1, <2>2, CallType
<1>8. QED
  BY <1>2, <1>3, <1>4, <1>5, <1>6, <1>7 DEF ApiCall

\* Every step of a save, failed or not, keeps the types.
LEMMA SaveType ==
  ASSUME StoreAssumption, TypeOK, NEW s \in Saver,
         SaveStep(s) \/ SaveIOError(s) \/ LockError(s) \/ ReplaceError(s)
  PROVE  TypeOK'
<1>1. job[s] \in Job /\ IdleJob \in Job
  <2>1. NoTickets \in [Ticket -> Version] /\ EmptyLog \in [Ticket -> Seq(Version)]
    BY DEF NoTickets, EmptyLog, Absent, Version
  <2>2. QED
    BY <2>1 DEF TypeOK, Job, IdleJob
<1>2. job[s].lines \in [Ticket -> Seq(Version)] /\ job[s].built \in [Ticket -> Version]
      /\ job[s].handed \in SUBSET DirtyId
  BY <1>1 DEF Job
<1>3. Finish(s) => job' \in [Saver -> Job]
  BY <1>1 DEF Finish, TypeOK
<1>4. \A l \in {"begin", "locked", "appended", "replaced"} :
        Goto(s, l) => job' \in [Saver -> Job]
  <2>1. TAKE l \in {"begin", "locked", "appended", "replaced"}
  <2>2. [job[s] EXCEPT !.pc = l] \in Job
    BY <1>1 DEF Job
  <2>3. [job EXCEPT ![s] = [@ EXCEPT !.pc = l]] \in [Saver -> Job]
    BY <2>2 DEF TypeOK
  <2>4. QED
    BY <2>3 DEF Goto
<1>5. RetryOrGiveUp(s) => job' \in [Saver -> Job]
  <2>1. job[s].attempt + 1 \in Nat
    BY <1>1 DEF Job
  <2>2. [job EXCEPT ![s].pc = "ready", ![s].attempt = @ + 1] \in [Saver -> Job]
    BY <1>1, <2>1 DEF TypeOK, Job
  <2>3. QED
    BY <1>3, <2>2 DEF RetryOrGiveUp
<1>6. AppendAll(wal, job[s].lines) \in [Ticket -> Seq(Version)]
  BY <1>2, AppendAllType DEF TypeOK
<1>7. CASE Begin(s)
  BY <1>7, <1>4 DEF Begin, TypeOK, fileVars, histVars
<1>8. CASE NothingDirty(s)
  BY <1>8, <1>3 DEF NothingDirty, TypeOK, memVars, fileVars, histVars
<1>9. CASE HandOff(s)
  <2>1. PICK l \in LineChoices(dirty), k \in {"append", "compact"} :
          job' = [job EXCEPT ![s].pc = "ready", ![s].handed = dirty, ![s].lines = l,
                             ![s].kind = k]
    BY <1>9 DEF HandOff
  <2>2. l \in [Ticket -> Seq(Version)]
    BY LineChoicesType DEF TypeOK
  <2>3. job' \in [Saver -> Job]
    BY <1>1, <2>1, <2>2 DEF TypeOK, Job
  <2>4. saveCount' \in Nat
    BY <1>9 DEF HandOff, TypeOK, StoreAssumption
  <2>5. QED
    BY <1>9, <2>3, <2>4 DEF HandOff, TypeOK, fileVars, histVars
<1>10. CASE Lock(s)
  BY <1>10, <1>4 DEF Lock, TypeOK, memVars, fileVars, histVars
<1>11. CASE AppendLines(s)
  BY <1>11, <1>4, <1>6 DEF AppendLines, TypeOK, memVars, histVars
<1>12. CASE FinishAppend(s)
  BY <1>12, <1>3 DEF FinishAppend, TypeOK, memVars, fileVars, histVars
<1>13. CASE Build(s)
  <2>1. mem' \in [Ticket -> Version]
    <3>1. \A t \in Ticket : Replayed(mem[t], wal[t]) \in Version
      BY ReplayedType DEF TypeOK
    <3>2. QED
      BY <1>13, <3>1 DEF Build
  <2>2. job' \in [Saver -> Job]
    BY <1>1, <1>13, <2>1 DEF Build, TypeOK, Job
  <2>3. QED
    BY <1>13, <2>1, <2>2 DEF Build, TypeOK, fileVars, histVars
<1>14. CASE Replace(s)
  BY <1>14, <1>2, <1>4 DEF Replace, TypeOK, memVars, histVars
<1>15. CASE ClearWal(s)
  <2>1. wal' \in [Ticket -> Seq(Version)]
    BY <1>15 DEF ClearWal, EmptyLog, TypeOK
  <2>2. QED
    BY <1>15, <1>3, <2>1 DEF ClearWal, TypeOK, memVars, histVars
<1>16. CASE SaveIOError(s)
  <2>1. wal' \in [Ticket -> Seq(Version)] /\ faults' \in Nat
    BY <1>16, <1>6 DEF SaveIOError, TypeOK
  <2>2. QED
    BY <1>16, <1>2, <1>5, <2>1 DEF SaveIOError, TypeOK, histVars
<1>17. CASE LockError(s)
  BY <1>17, <1>5 DEF LockError, TypeOK, memVars, fileVars, histVars
<1>18. CASE ReplaceError(s)
  <2>1. snap' \in [Ticket -> Version] /\ faults' \in Nat
    BY <1>18, <1>2 DEF ReplaceError, TypeOK
  <2>2. snapExists' = TRUE \/ snapExists' = snapExists
    BY <1>18 DEF ReplaceError
  <2>3. snapExists' \in BOOLEAN
    BY <2>2, Zenon DEF TypeOK
  <2>4. job' \in [Saver -> Job]
    BY <1>18, <1>3 DEF ReplaceError
  <2>5. QED
    BY <1>18, <2>1, <2>3, <2>4 DEF ReplaceError, TypeOK, memVars, histVars
<1>19. QED
  BY <1>7, <1>8, <1>9, <1>10, <1>11, <1>12, <1>13, <1>14, <1>15, <1>16, <1>17, <1>18
  DEF SaveStep

LEMMA RecoveredType ==
  ASSUME TypeOK
  PROVE  Recovered \in [Ticket -> Version]
<1>1. \A t \in Ticket : LastLine(snap[t], wal[t]) \in Version
  <2>1. TAKE t \in Ticket
  <2>2. wal[t] \in Seq(Version) /\ snap[t] \in Version
    BY DEF TypeOK
  <2>3. CASE wal[t] = <<>>
    BY <2>2, <2>3 DEF LastLine
  <2>4. CASE wal[t] # <<>>
    BY <2>2, <2>4 DEF LastLine
  <2>5. QED
    BY <2>3, <2>4
<1>2. QED
  BY <1>1 DEF Recovered

LEMMA TypeStep == StoreAssumption /\ TypeOK /\ [Next]_vars => TypeOK'
<1> SUFFICES ASSUME StoreAssumption, TypeOK, [Next]_vars PROVE TypeOK'
  OBVIOUS
<1>1. CASE ApiCall
  BY <1>1, ApiCallType
<1>2. ASSUME NEW s \in Saver,
             SaveStep(s) \/ SaveIOError(s) \/ LockError(s) \/ ReplaceError(s)
      PROVE  TypeOK'
  BY <1>2, SaveType
<1>3. CASE Crash
  <2>1. NoTickets \in [Ticket -> Version]
    BY DEF NoTickets, Absent, Version
  <2>2. job' \in [Saver -> Job]
    <3>1. IdleJob \in Job
      BY <2>1 DEF Job, IdleJob, EmptyLog
    <3>2. QED
      BY <1>3, <3>1 DEF Crash
  <2>3. mem' \in [Ticket -> Version] /\ dirty' \in SUBSET DirtyId /\ pending' \in SUBSET DirtyId
    BY <1>3, <2>1 DEF Crash
  <2>4. saveCount' \in Nat /\ faults' \in Nat
    BY <1>3 DEF Crash, TypeOK
  <2>5. signal' \in BOOLEAN /\ up' \in BOOLEAN
    BY <1>3, Zenon DEF Crash
  <2>6. UNCHANGED <<snap, snapExists, wal, clock, used, latest>>
    BY <1>3 DEF Crash, fileVars, histVars
  <2>7. QED
    BY <2>2, <2>3, <2>4, <2>5, <2>6 DEF TypeOK
<1>4. CASE Restart
  BY <1>4, RecoveredType DEF Restart, TypeOK, fileVars
<1>5. CASE UNCHANGED vars
  BY <1>5 DEF TypeOK, vars
<1>6. QED
  BY <1>1, <1>2, <1>3, <1>4, <1>5 DEF Next

\* Every variable of the store, and every local of a save, keeps its type.
THEOREM TypeCorrect == Spec => []TypeOK
<1>1. Init => TypeOK
  <2>1. NoTickets \in [Ticket -> Version] /\ EmptyLog \in [Ticket -> Seq(Version)]
    BY DEF NoTickets, EmptyLog, Absent, Version
  <2>2. IdleJob \in Job
    BY <2>1 DEF Job, IdleJob
  <2> SUFFICES ASSUME Init PROVE TypeOK
    OBVIOUS
  <2>4. signal \in BOOLEAN /\ up \in BOOLEAN /\ snapExists \in BOOLEAN
    BY Zenon DEF Init
  <2>5. job \in [Saver -> Job]
    BY <2>2 DEF Init
  <2>6. /\ mem \in [Ticket -> Version] /\ latest \in [Ticket -> Version]
        /\ snap \in [Ticket -> Version] /\ wal \in [Ticket -> Seq(Version)]
    BY <2>1 DEF Init
  <2>7. /\ dirty \in SUBSET DirtyId /\ pending \in SUBSET DirtyId /\ used \in SUBSET Ticket
        /\ saveCount \in Nat /\ clock \in Nat /\ faults \in Nat
    BY DEF Init
  <2>8. QED
    BY <2>4, <2>5, <2>6, <2>7 DEF TypeOK
<1>2. TypeOK /\ [Next]_vars => TypeOK'
  BY TypeStep, StoreAssumption
<1>3. QED
  BY <1>1, <1>2, PTL DEF Spec

-----------------------------------------------------------------------------
(* The merge, line by line *)

\* The closed form over the first n lines of a log: the ticket as it was is kept if
\* none of them is a tombstone.
LiveIn(log, n) == {i \in 1 .. n : \A j \in i .. n : log[j].ver # 0}
NewestIn(log, n, i) ==
  /\ i \in LiveIn(log, n)
  /\ \A j \in LiveIn(log, n) : log[j].ts < log[i].ts \/ (log[j].ts = log[i].ts /\ j <= i)
BaseIn(m, log, n) == IF LiveIn(log, n) = 1 .. n THEN m ELSE Absent
KeptIn(m, log, n) ==
  BaseIn(m, log, n).ver # 0 /\ \A i \in LiveIn(log, n) : log[i].ts < BaseIn(m, log, n).ts
MergedTo(m, log, n) ==
  IF LiveIn(log, n) = {} \/ KeptIn(m, log, n) THEN BaseIn(m, log, n)
  ELSE log[CHOOSE i \in LiveIn(log, n) : NewestIn(log, n, i)]

LogFacts(log) ==
  /\ Len(log) \in Nat
  /\ \A i \in 1 .. Len(log) : /\ log[i].ver \in Nat /\ log[i].ts \in Nat
                              /\ log[i].ver = 0 => log[i] = Absent

\* A line is among the live ones of a prefix from then on until a tombstone.
LEMMA LiveGrows ==
  ASSUME NEW log, NEW n \in Nat
  PROVE  /\ log[n + 1].ver = 0 => LiveIn(log, n + 1) = {}
         /\ log[n + 1].ver # 0 => LiveIn(log, n + 1) = LiveIn(log, n) \cup {n + 1}
<1>1. ASSUME log[n + 1].ver = 0 PROVE LiveIn(log, n + 1) = {}
  BY <1>1 DEF LiveIn
<1>2. ASSUME log[n + 1].ver # 0 PROVE LiveIn(log, n + 1) = LiveIn(log, n) \cup {n + 1}
  <2>1. ASSUME NEW i \in 1 .. n
        PROVE  (\A j \in i .. (n + 1) : log[j].ver # 0) <=> (\A j \in i .. n : log[j].ver # 0)
    <3>1. \A j : j \in i .. (n + 1) <=> j \in i .. n \/ j = n + 1
      OBVIOUS
    <3>2. QED
      BY <1>2, <3>1
  <2>2. \A j \in (n + 1) .. (n + 1) : log[j].ver # 0
    BY <1>2
  <2>3. \A i : i \in 1 .. (n + 1) <=> i \in 1 .. n \/ i = n + 1
    OBVIOUS
  <2>4. QED
    BY <2>1, <2>2, <2>3 DEF LiveIn
<1>3. QED
  BY <1>1, <1>2

\* The newest line of a prefix is one, so the closed form takes that one.
LEMMA TheNewest ==
  ASSUME NEW log, LogFacts(log), NEW n \in 0 .. Len(log), NEW i, NewestIn(log, n, i)
  PROVE  (CHOOSE k \in LiveIn(log, n) : NewestIn(log, n, k)) = i
<1> DEFINE c == CHOOSE k \in LiveIn(log, n) : NewestIn(log, n, k)
<1>1. NewestIn(log, n, c)
  BY DEF NewestIn
<1> HIDE DEF c
<1>2. /\ i \in 1 .. n /\ c \in 1 .. n
      /\ log[i].ts \in Nat /\ log[c].ts \in Nat
      /\ i \in LiveIn(log, n) /\ c \in LiveIn(log, n)
  BY <1>1 DEF NewestIn, LiveIn, LogFacts
<1>3. c = i
  BY <1>1, <1>2 DEF NewestIn
<1>4. QED
  BY <1>3 DEF c

\* If there is a live line, one is the newest.
LEMMA NewestOf ==
  ASSUME NEW log, LogFacts(log), NEW n \in 0 .. Len(log), LiveIn(log, n) # {}
  PROVE  \E i : NewestIn(log, n, i)
<1> DEFINE ts == [i \in 1 .. n |-> log[i].ts]
<1>1. n \in Nat /\ ts \in [1 .. n -> Nat] /\ LiveIn(log, n) \in SUBSET (1 .. n)
  BY DEF LogFacts, LiveIn
<1>2. PICK i \in LiveIn(log, n) :
        \A j \in LiveIn(log, n) : ts[j] < ts[i] \/ (ts[j] = ts[i] /\ j <= i)
  BY <1>1, NewestExists
<1>3. \A j \in LiveIn(log, n) : ts[j] = log[j].ts
  BY <1>1
<1>4. QED
  BY <1>2, <1>3 DEF NewestIn

\* One more line does to the closed form what ReplayLine does.
LEMMA MergeStep ==
  ASSUME NEW m \in Version, NEW log, LogFacts(log), NEW n \in 0 .. (Len(log) - 1)
  PROVE  MergedTo(m, log, n + 1) = ReplayLine(MergedTo(m, log, n), log[n + 1])
<1> DEFINE line == log[n + 1]
           base == BaseIn(m, log, n)
<1>1. /\ n \in Nat /\ n \in 0 .. Len(log) /\ n + 1 \in 1 .. Len(log) /\ n + 1 \in 0 .. Len(log)
      /\ line.ver \in Nat /\ line.ts \in Nat /\ (line.ver = 0 => line = Absent)
      /\ Absent.ver = 0
  BY DEF LogFacts, Absent
<1>2. LiveIn(log, n) \subseteq 1 .. n /\ n + 1 \notin LiveIn(log, n)
  BY <1>1 DEF LiveIn
<1>3. CASE line.ver = 0
  <2>1. LiveIn(log, n + 1) = {}
    BY <1>1, <1>3, LiveGrows
  <2>2. LiveIn(log, n + 1) # 1 .. (n + 1)
    <3>1. n + 1 \in 1 .. (n + 1)
      BY <1>1
    <3>2. QED
      BY <2>1, <3>1
  <2>3. MergedTo(m, log, n + 1) = line
    BY <1>1, <1>3, <2>1, <2>2 DEF MergedTo, BaseIn
  <2>4. QED
    BY <1>3, <2>3 DEF ReplayLine
<1>4. CASE line.ver # 0
  <2>1. LiveIn(log, n + 1) = LiveIn(log, n) \cup {n + 1}
    BY <1>1, <1>4, LiveGrows
  <2>2. BaseIn(m, log, n + 1) = base
    <3>1. 1 .. (n + 1) = (1 .. n) \cup {n + 1} /\ n + 1 \notin 1 .. n
      BY <1>1
    <3>2. LiveIn(log, n + 1) = 1 .. (n + 1) <=> LiveIn(log, n) = 1 .. n
      BY <1>2, <2>1, <3>1
    <3>3. QED
      BY <3>2 DEF BaseIn
  <2>3. base.ver \in Nat /\ base.ts \in Nat
    <3>1. base \in Version
      BY DEF BaseIn, Version
    <3>2. QED
      BY <3>1, VersionFacts
  <2>4. \A i \in LiveIn(log, n) : log[i].ts \in Nat /\ log[i].ver # 0 /\ i \in 1 .. n
    BY <1>1 DEF LiveIn, LogFacts
  <2> HIDE DEF line, base
  <2>5. KeptIn(m, log, n + 1) <=>
          base.ver # 0 /\ line.ts < base.ts /\ \A i \in LiveIn(log, n) : log[i].ts < base.ts
    BY <2>1, <2>2 DEF KeptIn, line
  <2>6. KeptIn(m, log, n) <=> base.ver # 0 /\ \A i \in LiveIn(log, n) : log[i].ts < base.ts
    BY DEF KeptIn, base
  <2>7. ASSUME NEW k, NewestIn(log, n + 1, k), ~KeptIn(m, log, n + 1)
        PROVE  MergedTo(m, log, n + 1) = log[k]
    BY <1>1, <2>1, <2>7, TheNewest DEF MergedTo
  <2>8. CASE KeptIn(m, log, n) \/ LiveIn(log, n) = {}
    <3>1. MergedTo(m, log, n) = base
      BY <2>8 DEF MergedTo, base
    <3>2. CASE base.ver # 0 /\ line.ts < base.ts
      <4>1. KeptIn(m, log, n + 1)
        BY <2>5, <2>6, <2>8, <3>2
      <4>2. QED
        BY <1>1, <1>4, <2>2, <2>3, <3>1, <3>2, <4>1 DEF MergedTo, ReplayLine, line
    <3>3. CASE ~(base.ver # 0 /\ line.ts < base.ts)
      <4>1. NewestIn(log, n + 1, n + 1)
        <5>1. \A j \in LiveIn(log, n) : log[j].ts <= line.ts
          BY <1>1, <2>3, <2>4, <2>6, <2>8, <3>3
        <5>2. \A j \in LiveIn(log, n) : log[j].ts < line.ts \/ (log[j].ts = line.ts /\ j <= n + 1)
          BY <1>1, <2>4, <5>1
        <5>3. QED
          BY <1>1, <2>1, <5>2 DEF NewestIn, line
      <4>2. MergedTo(m, log, n + 1) = line
        BY <2>5, <2>7, <3>3, <4>1 DEF line
      <4>3. QED
        BY <1>1, <2>3, <3>1, <3>3, <4>2 DEF ReplayLine, line
    <3>4. QED
      BY <3>2, <3>3
  <2>9. CASE ~KeptIn(m, log, n) /\ LiveIn(log, n) # {}
    <3>1. PICK k : NewestIn(log, n, k)
      BY <1>1, <2>9, NewestOf
    <3>2. k \in LiveIn(log, n) /\ log[k].ts \in Nat /\ log[k].ver # 0
      BY <2>4, <3>1 DEF NewestIn
    <3>3. MergedTo(m, log, n) = log[k]
      BY <1>1, <2>9, <3>1, TheNewest DEF MergedTo
    <3>4. ~KeptIn(m, log, n + 1)
      BY <2>5, <2>6, <2>9
    <3>5. CASE line.ts < log[k].ts
      <4>1. NewestIn(log, n + 1, k)
        BY <2>1, <3>1, <3>2, <3>5 DEF NewestIn, line
      <4>2. QED
        BY <1>1, <1>4, <2>7, <3>2, <3>3, <3>4, <3>5, <4>1 DEF ReplayLine, line
    <3>6. CASE ~(line.ts < log[k].ts)
      <4>1. NewestIn(log, n + 1, n + 1)
        <5>1. \A j \in LiveIn(log, n) : log[j].ts < line.ts \/ (log[j].ts = line.ts /\ j <= n + 1)
          BY <1>1, <2>4, <3>1, <3>2, <3>6 DEF NewestIn
        <5>2. QED
          BY <1>1, <2>1, <5>1 DEF NewestIn, line
      <4>2. MergedTo(m, log, n + 1) = line
        BY <2>7, <3>4, <4>1 DEF line
      <4>3. QED
        BY <1>1, <3>2, <3>3, <3>6, <4>2 DEF ReplayLine, line
    <3>7. QED
      BY <3>5, <3>6
  <2>10. QED
    BY <2>8, <2>9
<1>5. QED
  BY <1>1, <1>3, <1>4

\* The closed form over the whole log is Replayed.
LEMMA ReplayedMerges ==
  ASSUME NEW m, NEW log, LogFacts(log)
  PROVE  Replayed(m, log) = MergedTo(m, log, Len(log))
<1> DEFINE n == Len(log)
           live == {i \in 1 .. n : \A j \in i .. n : log[j].ver # 0}
           Newest(i) == \A j \in live : log[j].ts < log[i].ts \/ (log[j].ts = log[i].ts /\ j <= i)
           base == IF Cardinality(live) = n THEN m ELSE Absent
           kept == base.ver # 0 /\ \A i \in live : log[i].ts < base.ts
<1>1. n \in Nat /\ live = LiveIn(log, n)
  BY DEF LogFacts, LiveIn
<1>2. Cardinality(live) = n <=> live = 1 .. n
  <2>1. IsFiniteSet(1 .. n) /\ Cardinality(1 .. n) = n
    BY <1>1, FS_Interval
  <2>2. QED
    BY <2>1, FS_Subset
<1>3. \A i \in live : Newest(i) <=> NewestIn(log, n, i)
  BY <1>1 DEF NewestIn
<1>4. (CHOOSE i \in live : Newest(i)) = CHOOSE i \in live : NewestIn(log, n, i)
  BY <1>3
<1>5. base = BaseIn(m, log, n)
  BY <1>1, <1>2 DEF BaseIn
<1>6. kept <=> KeptIn(m, log, n)
  BY <1>1, <1>5 DEF KeptIn
<1>7. Replayed(m, log) = IF live = {} \/ kept THEN base ELSE log[CHOOSE i \in live : Newest(i)]
  BY DEF Replayed
<1> HIDE DEF live, base, kept, Newest
<1>8. QED
  BY <1>1, <1>4, <1>5, <1>6, <1>7 DEF MergedTo

\* The closed form is the loop: by induction over the lines.
LEMMA MergeLoops ==
  ASSUME NEW m \in Version, NEW log, LogFacts(log)
  PROVE  Replayed(m, log) = Looped(m, log)
<1> DEFINE n == Len(log)
           D == 0 .. n
           closed == [i \in D |-> MergedTo(m, log, i)]
           IsLoop(g) == g = [i \in D |-> IF i = 0 THEN m ELSE ReplayLine(g[i - 1], log[i])]
           entry == CHOOSE g : IsLoop(g)
<1>1. n \in Nat /\ 0 \in D /\ n \in D
  BY DEF LogFacts
<1>2. MergedTo(m, log, 0) = m
  <2>1. LiveIn(log, 0) = {} /\ 1 .. 0 = {}
    BY DEF LiveIn
  <2>2. QED
    BY <2>1 DEF MergedTo, BaseIn
<1>3. ASSUME NEW i \in D, i # 0
      PROVE  i - 1 \in D /\ MergedTo(m, log, i) = ReplayLine(MergedTo(m, log, i - 1), log[i])
  <2>1. i - 1 \in 0 .. (Len(log) - 1) /\ (i - 1) + 1 = i /\ i - 1 \in D
    BY <1>1, <1>3
  <2>2. MergedTo(m, log, (i - 1) + 1) = ReplayLine(MergedTo(m, log, i - 1), log[(i - 1) + 1])
    BY <2>1, MergeStep
  <2>3. QED
    BY <2>1, <2>2
<1>4. IsLoop(closed)
  BY <1>2, <1>3
<1>5. IsLoop(entry)
  BY <1>4
<1>6. \A i \in D : entry[i] = MergedTo(m, log, i)
  <2> DEFINE Bad == {i \in D : entry[i] # MergedTo(m, log, i)}
  <2>1. SUFFICES ASSUME Bad # {} PROVE FALSE
    OBVIOUS
  <2>2. Bad \in SUBSET Nat
    BY <1>1
  <2>3. PICK i \in Bad : \A k \in Bad : i <= k
    BY <2>1, <2>2, LeastNatural
  <2> HIDE DEF entry
  <2>4. entry[i] = IF i = 0 THEN m ELSE ReplayLine(entry[i - 1], log[i])
    BY <1>5
  <2>5. CASE i = 0
    BY <1>2, <2>4, <2>5
  <2>6. CASE i # 0
    <3>1. i - 1 \in D /\ i - 1 \notin Bad
      BY <1>1, <1>3, <2>3, <2>6
    <3>2. QED
      BY <1>3, <2>4, <2>6, <3>1
  <2>7. QED
    BY <2>5, <2>6
<1>7. Looped(m, log) = entry[n]
  BY DEF Looped
<1>8. QED
  BY <1>1, <1>6, <1>7, ReplayedMerges

\* On every log the store meets, the closed form of the merge is what the loop of
\* _replay_wal_into_memory_locked computes, line by line, from whatever it starts from.
THEOREM MergeLoopsAlways == Spec => []MergeIsTheLoop
<1>1. ASSUME NEW log \in Seq(Version) PROVE LogFacts(log)
  <2>1. Len(log) \in Nat /\ \A i \in 1 .. Len(log) : log[i] \in Version
    OBVIOUS
  <2>2. QED
    BY <2>1, VersionFacts DEF LogFacts
<1>2. TypeOK => MergeIsTheLoop
  <2>1. Absent \in Version
    BY DEF Version
  <2>2. QED
    BY <1>1, <2>1, MergeLoops DEF TypeOK, MergeIsTheLoop
<1>3. QED
  BY <1>2, TypeCorrect, PTL

-----------------------------------------------------------------------------
(* No wake-up of the worker is lost *)

\* A call that does not fail leaves the worker signalled.
LEMMA ApiCallSignals ==
  ASSUME "append" \notin Faults, ApiCall
  PROVE  signal'
<1>1. \A more : LogAndQueue(more) => signal'
  BY DEF LogAndQueue, Fault
<1>2. \A op, v, drop, mark : Call(op, v, drop, mark) => signal'
  BY <1>1 DEF Call
<1>3. \A t \in Ticket : UpdateContextFields(t) => signal'
  BY <1>2 DEF UpdateContextFields, Fault
<1>4. QED
  BY <1>2, <1>3 DEF ApiCall, Add, Transition, RecordCommit, Remove, BatchTransition

\* A step of a saver leaves the others where they are.
LEMMA OthersStay ==
  ASSUME TypeOK, NEW s \in Saver,
         SaveStep(s) \/ SaveIOError(s) \/ LockError(s) \/ ReplaceError(s)
  PROVE  \A r \in Saver \ {s} : job'[r] = job[r]
BY DEF TypeOK, SaveStep, Begin, NothingDirty, HandOff, Lock, AppendLines, FinishAppend, Build, Replace,
       ClearWal, SaveIOError, LockError, ReplaceError, RetryOrGiveUp, Goto, Finish

LEMMA WakeUpStep ==
  ASSUME Faults \cap {"append", "io"} = {}
  PROVE  TypeOK /\ WakeUpPending /\ [Next]_vars => WakeUpPending'
<1> SUFFICES ASSUME TypeOK, WakeUpPending, [Next]_vars, dirty' # {}
             PROVE  signal' \/ \E s \in Saver : Pc(s)' = "begin"
  BY DEF WakeUpPending
<1>1. CASE ApiCall
  BY <1>1, ApiCallSignals
<1>2. ASSUME NEW s \in Saver, SaveStep(s) \/ LockError(s) \/ ReplaceError(s)
      PROVE  signal' \/ \E r \in Saver : Pc(r)' = "begin"
  <2>1. CASE Begin(s)
    BY <2>1 DEF Begin, Goto, TypeOK, Job, Pc
  <2>2. CASE NothingDirty(s) \/ HandOff(s)
    BY <2>2 DEF NothingDirty, HandOff, memVars
  <2>3. CASE Pc(s) # "begin" /\ ~Begin(s)
    <3>1. UNCHANGED <<dirty, signal>>
      BY <1>2, <2>3 DEF SaveStep, NothingDirty, HandOff, Lock, AppendLines, FinishAppend, Build, Replace,
         ClearWal, LockError, ReplaceError, memVars
    <3>2. PICK r \in Saver : signal \/ Pc(r) = "begin"
      BY <1>2, <3>1 DEF WakeUpPending
    <3>3. CASE signal
      BY <3>1, <3>3
    <3>4. CASE Pc(r) = "begin"
      BY <1>2, <2>3, <3>4, OthersStay DEF Pc
    <3>5. QED
      BY <3>2, <3>3, <3>4
  <2>4. Begin(s) \/ NothingDirty(s) \/ HandOff(s) \/ Pc(s) # "begin"
    BY <1>2 DEF SaveStep, Lock, AppendLines, FinishAppend, Build, Replace, ClearWal, LockError, ReplaceError
  <2>5. QED
    BY <2>1, <2>2, <2>3, <2>4
<1>3. \A s \in Saver : ~SaveIOError(s)
  BY DEF SaveIOError, Fault
<1>4. CASE Crash
  BY <1>4 DEF Crash
<1>5. CASE Restart \/ UNCHANGED vars
  BY <1>5 DEF Restart, vars, WakeUpPending, Pc
<1>6. QED
  BY <1>1, <1>2, <1>3, <1>4, <1>5 DEF Next

\* No wake-up of the worker is lost, for any calls, savers, crashes and failing renames and
\* locks: what is dirty has a signal, or a saver about to look.  A failed append or save may
\* leave something dirty without one.
THEOREM NoWakeUpLost ==
  ASSUME Faults \cap {"append", "io"} = {}
  PROVE  Spec => []WakeUpPending
<1>1. Init => WakeUpPending
  BY DEF Init, WakeUpPending
<1>2. TypeOK /\ WakeUpPending /\ [Next]_vars => WakeUpPending'
  BY WakeUpStep
<1>3. QED
  BY <1>1, <1>2, TypeCorrect, PTL DEF Spec

-----------------------------------------------------------------------------
(* With one saver the log is unlinked only when the snapshot is complete *)

\* No two threads of the process are ever inside _save(): no thread calls flush()
\* or close() while the worker runs.
OneSaver == \A a, b \in Saver : a = b

Marked(t) == Live(t) \in dirty \/ Deleted(t) \in dirty

\* Between building the payload and unlinking the log, a ticket that is no longer as
\* it was compacted is marked dirty, which is what ClearWal looks at.
CompactInv ==
  /\ ~ up => \A s \in Saver : Pc(s) = "idle"
  /\ \A s \in Saver : Pc(s) = "built" =>
       \A t \in Ticket : job[s].built[t] = mem[t] \/ Marked(t)
  /\ \A s \in Saver : Pc(s) = "replaced" =>
       \A t \in Ticket : snap[t] = mem[t] \/ Marked(t)

\* What an API call does to a ticket as seen by a compaction under way.
CallEffect ==
  /\ UNCHANGED <<up, snap, job>>
  /\ \A t \in Ticket : /\ mem'[t] = mem[t] \/ Marked(t)'
                       /\ Marked(t) => Marked(t)'

LEMMA CallMarks ==
  ASSUME NEW op, NEW S \in SUBSET Ticket, NEW v, DOMAIN v = S, NEW drop, NEW mark,
         Call(op, v, drop, mark),
         \A t \in S : Live(t) \in mark \/ Deleted(t) \in mark,
         \A t \in Ticket \ S : Live(t) \notin drop /\ Deleted(t) \notin drop
  PROVE  CallEffect
<1>1. /\ mem' = [t \in Ticket |-> IF t \in S THEN v[t] ELSE mem[t]]
      /\ dirty' = (dirty \ drop) \cup mark
      /\ UNCHANGED <<up, snap, job>>
  BY DEF Call
<1>2. \A t \in S : Marked(t)'
  BY <1>1 DEF Marked, Live, Deleted
<1>3. \A t \in Ticket \ S : mem'[t] = mem[t] /\ (Marked(t) => Marked(t)')
  BY <1>1 DEF Marked, Live, Deleted
<1>4. QED
  BY <1>1, <1>2, <1>3 DEF CallEffect

LEMMA ApiCallMarks ==
  ASSUME ApiCall
  PROVE  CallEffect
<1>1. \A t, u : t # u => Live(u) # Live(t) /\ Deleted(u) # Live(t)
  BY DEF Live, Deleted
<1>2. ASSUME NEW t \in Ticket,
             \/ Call("add", Stamped({t}), {}, {Live(t)})
             \/ Call("transition", Stamped({t}), {}, {Live(t)})
             \/ Call("record_commit", Unstamped({t}), {}, {Live(t)})
             \/ Call("update_context", Unstamped({t}), {}, {Live(t)})
      PROVE  CallEffect
  <2>1. DOMAIN Stamped({t}) = {t} /\ DOMAIN Unstamped({t}) = {t}
    BY DEF Stamped, Unstamped
  <2>2. ASSUME NEW op, NEW v, DOMAIN v = {t}, Call(op, v, {}, {Live(t)})
        PROVE  CallEffect
    <3>1. /\ {t} \in SUBSET Ticket
          /\ \A u \in {t} : Live(u) \in {Live(t)}
          /\ \A u \in Ticket \ {t} : Live(u) \notin {} /\ Deleted(u) \notin {}
      OBVIOUS
    <3>2. QED
      BY <2>2, <3>1, CallMarks
  <2>3. QED
    BY <1>2, <2>1, <2>2
<1>3. ASSUME NEW t \in Ticket, Remove(t)
      PROVE  CallEffect
  <2>1. DOMAIN Gone({t}) = {t} /\ Call("remove", Gone({t}), {Live(t)}, {Deleted(t)})
    BY <1>3 DEF Gone, Remove
  <2>2. /\ {t} \in SUBSET Ticket
        /\ \A u \in {t} : Deleted(u) \in {Deleted(t)}
        /\ \A u \in Ticket \ {t} : Live(u) \notin {Live(t)} /\ Deleted(u) \notin {Live(t)}
    BY <1>1
  <2>3. QED
    BY <2>1, <2>2, CallMarks
<1>4. ASSUME NEW S \in SUBSET Ticket, BatchTransition(S)
      PROVE  CallEffect
  <2>1. DOMAIN Stamped(S) = S /\ Call("batch", Stamped(S), {}, {Live(t) : t \in S})
    BY <1>4 DEF Stamped, BatchTransition
  <2>2. QED
    BY <2>1, CallMarks
<1>5. ASSUME NEW t \in Ticket, UpdateContextFields(t),
             ~ Call("update_context", Unstamped({t}), {}, {Live(t)})
      PROVE  CallEffect
  BY <1>5 DEF UpdateContextFields, CallEffect, Marked
<1>6. QED
  BY <1>2, <1>3, <1>4, <1>5 DEF ApiCall, Add, Transition, RecordCommit, UpdateContextFields

LEMMA CompactStep ==
  ASSUME OneSaver, TypeOK, CompactInv, [Next]_vars
  PROVE  CompactInv'
<1>1. CASE ApiCall
  <2>1. CallEffect /\ up
    BY <1>1, ApiCallMarks DEF ApiCall, Add, Transition, RecordCommit, UpdateContextFields,
                              Remove, BatchTransition, Call
  <2>2. UNCHANGED <<up, snap, job>>
    BY <2>1 DEF CallEffect
  <2>3. ASSUME NEW v \in [Ticket -> Version], NEW t \in Ticket, v[t] = mem[t] \/ Marked(t)
        PROVE  v[t] = mem'[t] \/ Marked(t)'
    BY <2>1, <2>3 DEF CallEffect
  <2>4. snap \in [Ticket -> Version] /\ \A s \in Saver : job[s].built \in [Ticket -> Version]
    BY DEF TypeOK, Job
  <2>5. QED
    BY <2>1, <2>2, <2>3, <2>4 DEF CompactInv, Pc
<1>2. ASSUME NEW s \in Saver,
             SaveStep(s) \/ SaveIOError(s) \/ LockError(s) \/ ReplaceError(s)
      PROVE  CompactInv'
  <2>1. up /\ UNCHANGED up /\ \A r \in Saver : r = s
    BY <1>2 DEF OneSaver, SaveStep, Begin, NothingDirty, HandOff, Lock, AppendLines,
                FinishAppend, Build, Replace, ClearWal, SaveIOError, LockError, ReplaceError
  <2>2. job \in [Saver -> Job] /\ job[s] \in Job
    BY DEF TypeOK
  <2>3. CASE Pc(s)' \notin {"built", "replaced"}
    BY <2>1, <2>3 DEF CompactInv
  <2>4. CASE Build(s)
    <3>1. job'[s].pc = "built" /\ job'[s].built = mem'
      BY <2>2, <2>4 DEF Build, Job
    <3>2. QED
      BY <2>1, <3>1 DEF CompactInv, Pc
  <2>5. CASE Replace(s)
    <3>1. job'[s].pc = "replaced" /\ snap' = job[s].built /\ UNCHANGED <<mem, dirty>>
      BY <2>2, <2>5 DEF Replace, Goto, Job, memVars
    <3>2. Pc(s) = "built"
      BY <2>5 DEF Replace
    <3>3. QED
      BY <2>1, <3>1, <3>2 DEF CompactInv, Pc, Marked
  <2>6. ASSUME ~ Build(s), ~ Replace(s)
        PROVE  Pc(s)' \notin {"built", "replaced"}
    <3>1. Finish(s) => Pc(s)' = "idle"
      BY <2>2 DEF Finish, Pc, IdleJob
    <3>2. \A l : Goto(s, l) => Pc(s)' = l
      BY <2>2 DEF Goto, Pc, Job
    <3>3. RetryOrGiveUp(s) => Pc(s)' \in {"idle", "ready"}
      BY <2>2, <3>1 DEF RetryOrGiveUp, Pc, Job
    <3>4. HandOff(s) => Pc(s)' = "ready"
      BY <2>2 DEF HandOff, Pc, Job
    <3>5. QED
      BY <1>2, <2>6, <3>1, <3>2, <3>3, <3>4
      DEF SaveStep, Begin, NothingDirty, Lock, AppendLines, FinishAppend, ClearWal, SaveIOError,
          LockError, ReplaceError
  <2>7. QED
    BY <2>3, <2>4, <2>5, <2>6
<1>3. CASE Crash
  <2>1. \A s \in Saver : job'[s].pc = "idle"
    BY <1>3 DEF Crash, IdleJob
  <2>2. QED
    BY <2>1 DEF CompactInv, Pc
<1>4. CASE Restart
  <2>1. \A s \in Saver : Pc(s)' = "idle"
    BY <1>4 DEF Restart, CompactInv, Pc
  <2>2. QED
    BY <2>1 DEF CompactInv
<1>5. CASE UNCHANGED vars
  BY <1>5 DEF vars, CompactInv, Pc, Marked
<1>6. QED
  BY <1>1, <1>2, <1>3, <1>4, <1>5 DEF Next

\* An API call only appends to the log.
LEMMA CallLog ==
  ASSUME TypeOK, NEW op, NEW S \in SUBSET Ticket, NEW v \in [S -> Version],
         NEW drop, NEW mark, Call(op, v, drop, mark)
  PROVE  \E more \in [Ticket -> Seq(Version)] : wal' \in {wal, AppendAll(wal, more)}
<1> DEFINE more == [t \in Ticket |-> IF t \in DOMAIN v THEN <<v[t]>> ELSE <<>>]
<1>1. more \in [Ticket -> Seq(Version)]
  OBVIOUS
<1>2. LogAndQueue(more)
  BY DEF Call
<1> HIDE DEF more
<1>3. QED
  BY <1>1, <1>2 DEF LogAndQueue

LEMMA ApiCallLog ==
  ASSUME TypeOK, ApiCall
  PROVE  \E more \in [Ticket -> Seq(Version)] : wal' \in {wal, AppendAll(wal, more)}
<1> DEFINE Grows == \E more \in [Ticket -> Seq(Version)] : wal' \in {wal, AppendAll(wal, more)}
<1>1. ASSUME NEW t \in Ticket,
             \/ Call("add", Stamped({t}), {}, {Live(t)})
             \/ Call("transition", Stamped({t}), {}, {Live(t)})
             \/ Call("record_commit", Unstamped({t}), {}, {Live(t)})
             \/ Call("update_context", Unstamped({t}), {}, {Live(t)})
             \/ Call("remove", Gone({t}), {Live(t)}, {Deleted(t)})
      PROVE  Grows
  <2>1. /\ {t} \in SUBSET Ticket /\ Gone({t}) \in [{t} -> Version]
        /\ Stamped({t}) \in [{t} -> Version] /\ Unstamped({t}) \in [{t} -> Version]
    BY StampsType
  <2>2. QED
    BY <1>1, <2>1, CallLog
<1>2. ASSUME NEW S \in SUBSET Ticket, BatchTransition(S)
      PROVE  Grows
  <2>1. Stamped(S) \in [S -> Version] /\ Call("batch", Stamped(S), {}, {Live(t) : t \in S})
    BY <1>2, StampsType DEF BatchTransition
  <2>2. QED
    BY <2>1, CallLog
<1>3. ASSUME NEW t \in Ticket,
             wal' \in {wal, [wal EXCEPT ![t] = Append(@, Unstamped({t})[t])]}
      PROVE  Grows
  <2>1. Unstamped({t})[t] \in Version
    BY StampsType
  <2> DEFINE more == [u \in Ticket |-> IF u = t THEN <<Unstamped({t})[t]>> ELSE <<>>]
  <2>2. more \in [Ticket -> Seq(Version)]
    BY <2>1
  <2>3. [wal EXCEPT ![t] = Append(@, Unstamped({t})[t])] = AppendAll(wal, more)
    <3>1. \A u \in Ticket : wal[u] \in Seq(Version)
      BY DEF TypeOK
    <3>2. \A u \in Ticket : wal[u] \o <<>> = wal[u]
      BY <3>1
    <3>3. Append(wal[t], Unstamped({t})[t]) = wal[t] \o <<Unstamped({t})[t]>>
      BY <3>1, <2>1, AppendIsConcat
    <3>4. QED
      BY <3>2, <3>3 DEF AppendAll, TypeOK
  <2>4. QED
    BY <1>3, <2>2, <2>3
<1>4. QED
  BY <1>1, <1>2, <1>3
  DEF ApiCall, Add, Transition, RecordCommit, UpdateContextFields, Remove

\* Only the clean-up of a compaction empties the log.
LEMMA OnlyClearWalEmpties ==
  ASSUME TypeOK, [Next]_vars, wal # EmptyLog, wal' = EmptyLog
  PROVE  \E s \in Saver : ClearWal(s)
<1>1. PICK t \in Ticket : wal[t] # <<>>
  BY DEF TypeOK, EmptyLog
<1>2. wal[t] \in Seq(Version) /\ wal'[t] = <<>>
  BY DEF TypeOK, EmptyLog
<1>3. ASSUME NEW more \in [Ticket -> Seq(Version)], wal' = AppendAll(wal, more)
      PROVE  FALSE
  <2>1. wal'[t] = wal[t] \o more[t] /\ more[t] \in Seq(Version)
    BY <1>3 DEF AppendAll
  <2>2. Len(wal[t]) # 0
    BY <1>1, <1>2
  <2>3. QED
    BY <1>2, <2>1, <2>2
<1>4. ~ ApiCall
  BY <1>3, ApiCallLog
<1>5. ASSUME NEW s \in Saver
      PROVE  ~ AppendLines(s) /\ ~ SaveIOError(s)
  <2>1. job[s].lines \in [Ticket -> Seq(Version)]
    BY DEF TypeOK, Job
  <2>2. QED
    BY <1>3, <2>1 DEF AppendLines, SaveIOError
<1>6. QED
  BY <1>4, <1>5
  DEF Next, SaveStep, Begin, NothingDirty, HandOff, Lock, FinishAppend, Build, Replace,
      LockError, ReplaceError, Crash, Restart, vars, fileVars

\* With one saver, _save unlinks the log only when tickets.json holds everything the
\* process serves, whatever calls and faults come between its steps.
THEOREM UnlinkSafe ==
  ASSUME OneSaver
  PROVE  Spec => UnlinkOnlyCompacted
<1>1. Init => CompactInv
  BY DEF Init, CompactInv, Pc, IdleJob
<1>2. TypeOK /\ CompactInv /\ [Next]_vars => CompactInv'
  BY CompactStep
<1>3. TypeOK /\ CompactInv /\ [Next]_vars
        => [wal # EmptyLog /\ wal' = EmptyLog => snap = mem]_vars
  <2> SUFFICES ASSUME TypeOK, CompactInv, [Next]_vars, wal # EmptyLog, wal' = EmptyLog
               PROVE  snap = mem
    OBVIOUS
  <2>1. PICK s \in Saver : ClearWal(s)
    BY OnlyClearWalEmpties
  <2>2. Pc(s) = "replaced" /\ dirty = {}
    BY <2>1 DEF ClearWal
  <2>3. \A t \in Ticket : snap[t] = mem[t]
    BY <2>2 DEF CompactInv, Marked
  <2>4. QED
    BY <2>3 DEF TypeOK
<1>4. QED
  BY <1>1, <1>2, <1>3, TypeCorrect, PTL DEF Spec, UnlinkOnlyCompacted

-----------------------------------------------------------------------------
(* With one saver whose saves all compact, no completed call is lost *)

EverySaveCompacts == SmallSaves = FALSE \/ Worker = {}

\* A log line agrees with the bound b on updated_at.
Within(log, b) == \A i \in 1 .. Len(log) : log[i].ts <= b

(***************************************************************************)
(* Recovery finds the last call's version because it is the last line, or, *)
(* the log being empty, is in the snapshot.  A replay into memory finds    *)
(* the same one because a live last line is also the newest: that is what  *)
(* a stale line appended off-lock would break.                             *)
(***************************************************************************)
DurableInv ==
  /\ Recovered = latest
  /\ up => mem = latest
  /\ \A s \in Saver : /\ Pc(s) # "appended"
                      /\ Pc(s) \notin {"idle", "begin"} => job[s].kind = "compact"
                      /\ Pc(s) = "built" => \A t \in Ticket : \/ job[s].built[t] = mem[t]
                                                              \/ wal[t] # <<>>
  /\ \A t \in Ticket :
       /\ latest[t].ver = 0 => latest[t] = Absent
       /\ latest[t].ts <= clock
       /\ Within(wal[t], clock)
       /\ wal[t] # <<>> /\ latest[t].ver # 0 => Within(wal[t], latest[t].ts)

\* The log of a ticket after one more line.
LEMMA AppendLine ==
  ASSUME NEW log \in Seq(Version), NEW x \in Version, NEW base
  PROVE  /\ log \o <<x>> \in Seq(Version) /\ log \o <<x>> # <<>>
         /\ LastLine(base, log \o <<x>>) = x
         /\ \A b \in Nat : Within(log, b) /\ x.ts <= b => Within(log \o <<x>>, b)
<1> DEFINE more == Append(log, x)
<1>1. /\ more \in Seq(Version) /\ more # <<>> /\ Len(more) = Len(log) + 1
      /\ \A i \in 1 .. Len(log) : more[i] = log[i]
      /\ more[Len(log) + 1] = x
  BY AppendProperties
<1>2. log \o <<x>> = more
  BY AppendIsConcat
<1> HIDE DEF more
<1>3. Len(log) \in Nat
  OBVIOUS
<1>4. ASSUME NEW b \in Nat, Within(log, b), x.ts <= b
      PROVE  Within(more, b)
  BY <1>1, <1>3, <1>4 DEF Within
<1>5. QED
  BY <1>1, <1>2, <1>3, <1>4 DEF LastLine

\* Replaying a log whose last line is what memory holds, and is as new as any other,
\* changes nothing.
LEMMA ReplayKeeps ==
  ASSUME NEW m \in Version, NEW log \in Seq(Version), m.ver = 0 => m = Absent,
         log # <<>> => log[Len(log)] = m /\ (m.ver # 0 => Within(log, m.ts))
  PROVE  Replayed(m, log) = m
<1> DEFINE n == Len(log)
           live == {i \in 1 .. n : \A j \in i .. n : log[j].ver # 0}
           Newest(i) == \A j \in live : log[j].ts < log[i].ts \/ (log[j].ts = log[i].ts /\ j <= i)
<1>1. n \in Nat /\ \A i \in 1 .. n : log[i].ts \in Nat
  <2>1. \A i \in 1 .. Len(log) : log[i] \in Version
    OBVIOUS
  <2>2. QED
    BY <2>1, VersionFacts
<1>2. Cardinality({}) = 0
  BY FS_EmptySet
<1>3. CASE log = <<>>
  <2>1. n = 0 /\ live = {}
    BY <1>3
  <2>2. QED
    BY <1>2, <2>1 DEF Replayed
<1>4. CASE log # <<>> /\ m.ver = 0
  <2>1. n # 0 /\ log[n].ver = 0
    BY <1>4
  <2>2. live = {}
    BY <1>1, <2>1
  <2>3. QED
    BY <1>2, <1>4, <2>1, <2>2 DEF Replayed
<1>5. CASE log # <<>> /\ m.ver # 0
  <2>1. n # 0 /\ log[n] = m /\ Within(log, m.ts)
    BY <1>5
  <2>2. n \in live
    BY <1>1, <1>5, <2>1
  <2>3. \A i \in live : i \in 1 .. n /\ log[i].ts <= log[n].ts
    BY <2>1 DEF Within
  <2>4. Newest(n)
    BY <1>1, <2>1, <2>3
  <2>5. ASSUME NEW i \in live, Newest(i) PROVE i = n
    BY <1>1, <2>2, <2>3, <2>5
  <2>6. (CHOOSE i \in live : Newest(i)) = n
    BY <2>2, <2>4, <2>5
  <2>7. QED
    BY <2>1, <2>2, <2>6 DEF Replayed, Absent
<1>6. QED
  BY <1>3, <1>4, <1>5

\* A call's effect when no append fails: the tickets of S get the versions v in
\* memory and as a new last line of the log, and the others are left alone.
CallWrote(S, v) ==
  /\ up /\ clock' = clock + 1
  /\ UNCHANGED <<up, snap, job>>
  /\ \A t \in S : mem'[t] = v[t] /\ latest'[t] = v[t] /\ wal'[t] = wal[t] \o <<v[t]>>
  /\ \A t \in Ticket \ S : mem'[t] = mem[t] /\ latest'[t] = latest[t] /\ wal'[t] = wal[t]

LEMMA CallWrites ==
  ASSUME TypeOK, "append" \notin Faults, NEW op, NEW S \in SUBSET Ticket,
         NEW v \in [S -> Version], NEW drop, NEW mark, Call(op, v, drop, mark)
  PROVE  CallWrote(S, v)
<1> DEFINE more == [t \in Ticket |-> IF t \in DOMAIN v THEN <<v[t]>> ELSE <<>>]
<1>1. wal' = AppendAll(wal, more)
  BY DEF Call, LogAndQueue, Fault
<1>2. \A t \in S : more[t] = <<v[t]>>
  OBVIOUS
<1>3. \A t \in Ticket \ S : more[t] = <<>> /\ wal[t] \o <<>> = wal[t]
  <2>1. \A t \in Ticket : wal[t] \in Seq(Version)
    BY DEF TypeOK
  <2>2. QED
    BY <2>1
<1> HIDE DEF more
<1>4. /\ \A t \in S : wal'[t] = wal[t] \o <<v[t]>>
      /\ \A t \in Ticket \ S : wal'[t] = wal[t]
  BY <1>1, <1>2, <1>3 DEF AppendAll
<1>5. QED
  BY <1>4 DEF CallWrote, Call

\* The three kinds of call: one that adds a new id, one that changes tickets, one
\* that removes a ticket.
AddsTicket(S, v) ==
  \E t \in Ticket : S = {t} /\ t \notin used /\ used' = used \cup {t} /\ v = Stamped(S)
ChangesTickets(S, v) ==
  (\A t \in S : Present(t)) /\ used' = used /\ (v = Stamped(S) \/ v = Unstamped(S))
RemovesTicket(S, v) ==
  \E t \in Ticket : S = {t} /\ Present(t) /\ used' = used /\ v = Gone(S)

LEMMA ApiCallWrites ==
  ASSUME TypeOK, "append" \notin Faults, ApiCall
  PROVE  \E S \in SUBSET Ticket : \E v \in [S -> Version] :
           /\ CallWrote(S, v)
           /\ AddsTicket(S, v) \/ ChangesTickets(S, v) \/ RemovesTicket(S, v)
<1>1. ~ Fault("append")
  BY DEF Fault
<1>2. \A t \in Ticket : /\ {t} \in SUBSET Ticket /\ Gone({t}) \in [{t} -> Version]
                        /\ Stamped({t}) \in [{t} -> Version]
                        /\ Unstamped({t}) \in [{t} -> Version]
  BY StampsType
<1>3. CASE \E t \in Ticket : Add(t)
  <2>1. PICK t \in Ticket : t \notin used /\ used' = used \cup {t}
                             /\ Call("add", Stamped({t}), {}, {Live(t)})
    BY <1>3 DEF Add
  <2>2. CallWrote({t}, Stamped({t})) /\ AddsTicket({t}, Stamped({t}))
    BY <1>2, <2>1, CallWrites DEF AddsTicket
  <2>3. QED
    BY <1>2, <2>2
<1>4. CASE \E t \in Ticket : Transition(t) \/ RecordCommit(t) \/ UpdateContextFields(t)
  <2>1. PICK t \in Ticket : Transition(t) \/ RecordCommit(t) \/ UpdateContextFields(t)
    BY <1>4
  <2>2. /\ Present(t) /\ used' = used
        /\ \E v \in {Stamped({t}), Unstamped({t})} : \E op : Call(op, v, {}, {Live(t)})
    BY <1>1, <2>1 DEF Transition, RecordCommit, UpdateContextFields
  <2>3. PICK v \in {Stamped({t}), Unstamped({t})} : \E op : Call(op, v, {}, {Live(t)})
    BY <2>2
  <2>4. CallWrote({t}, v) /\ ChangesTickets({t}, v)
    BY <1>2, <2>2, <2>3, CallWrites DEF ChangesTickets
  <2>5. QED
    BY <1>2, <2>3, <2>4
<1>5. CASE \E t \in Ticket : Remove(t)
  <2>1. PICK t \in Ticket : Present(t) /\ used' = used
                             /\ Call("remove", Gone({t}), {Live(t)}, {Deleted(t)})
    BY <1>5 DEF Remove
  <2>2. CallWrote({t}, Gone({t})) /\ RemovesTicket({t}, Gone({t}))
    BY <1>2, <2>1, CallWrites DEF RemovesTicket
  <2>3. QED
    BY <1>2, <2>2
<1>6. CASE \E S \in SUBSET Ticket : BatchTransition(S)
  <2>1. PICK S \in SUBSET Ticket : BatchTransition(S)
    BY <1>6
  <2>2. Stamped(S) \in [S -> Version] /\ ChangesTickets(S, Stamped(S))
    BY <2>1, StampsType DEF BatchTransition, ChangesTickets
  <2>3. CallWrote(S, Stamped(S))
    BY <2>1, <2>2, CallWrites DEF BatchTransition
  <2>4. QED
    BY <2>2, <2>3
<1>7. QED
  BY <1>3, <1>4, <1>5, <1>6 DEF ApiCall

LEMMA DurableCall ==
  ASSUME TypeOK, TypeOK', "append" \notin Faults, DurableInv, ApiCall
  PROVE  DurableInv'
<1> PICK S \in SUBSET Ticket : \E v \in [S -> Version] :
        /\ CallWrote(S, v)
        /\ AddsTicket(S, v) \/ ChangesTickets(S, v) \/ RemovesTicket(S, v)
  BY ApiCallWrites
<1>1. PICK v \in [S -> Version] :
        /\ CallWrote(S, v)
        /\ AddsTicket(S, v) \/ ChangesTickets(S, v) \/ RemovesTicket(S, v)
  OBVIOUS
<1>2. /\ up /\ UNCHANGED <<up, snap, job>> /\ clock' = clock + 1 /\ clock \in Nat
      /\ mem = latest /\ Recovered = latest
  BY <1>1 DEF CallWrote, DurableInv, TypeOK
<1>3. \A t \in S : \/ v[t] = Absent
                   \/ v[t].ver # 0 /\ v[t].ts = clock + 1
                   \/ v[t].ver # 0 /\ v[t].ts = mem[t].ts /\ mem[t].ver # 0
  BY <1>1, <1>2 DEF AddsTicket, ChangesTickets, RemovesTicket, Stamped, Unstamped, Gone, Present
<1>4. ASSUME NEW t \in Ticket
      PROVE  /\ wal[t] \in Seq(Version) /\ mem[t] \in Version /\ latest[t] \in Version
             /\ latest[t] = mem[t] /\ mem[t].ts \in Nat
             /\ LastLine(snap[t], wal[t]) = latest[t]
             /\ latest[t].ver = 0 => latest[t] = Absent
             /\ latest[t].ts <= clock /\ Within(wal[t], clock)
             /\ wal[t] # <<>> /\ latest[t].ver # 0 => Within(wal[t], latest[t].ts)
             /\ Within(wal[t], clock + 1)
  <2>1. wal[t] \in Seq(Version) /\ mem[t] \in Version /\ latest[t] = mem[t] /\ mem[t].ts \in Nat
    BY <1>2, VersionFacts DEF TypeOK
  <2>2. LastLine(snap[t], wal[t]) = latest[t]
    BY <1>2 DEF Recovered
  <2>3. Within(wal[t], clock + 1)
    <3>1. Within(wal[t], clock) /\ Len(wal[t]) \in Nat
          /\ \A i \in 1 .. Len(wal[t]) : wal[t][i] \in Version
      BY <2>1 DEF DurableInv
    <3>2. \A i \in 1 .. Len(wal[t]) : wal[t][i].ts \in Nat
      BY <3>1, VersionFacts
    <3>3. QED
      BY <3>1, <3>2, <1>2 DEF Within
  <2>4. QED
    BY <2>1, <2>2, <2>3 DEF DurableInv
<1>5. ASSUME NEW t \in S
      PROVE  /\ LastLine(snap[t], wal'[t]) = latest'[t] /\ mem'[t] = latest'[t]
             /\ wal'[t] # <<>>
             /\ latest'[t].ver = 0 => latest'[t] = Absent
             /\ latest'[t].ts <= clock' /\ Within(wal'[t], clock')
             /\ latest'[t].ver # 0 => Within(wal'[t], latest'[t].ts)
  <2>1. mem'[t] = v[t] /\ latest'[t] = v[t] /\ wal'[t] = wal[t] \o <<v[t]>> /\ v[t] \in Version
    BY <1>1 DEF CallWrote
  <2>2. /\ LastLine(snap[t], wal'[t]) = v[t] /\ wal'[t] # <<>>
        /\ \A b \in Nat : Within(wal[t], b) /\ v[t].ts <= b => Within(wal'[t], b)
    BY <1>4, <2>1, AppendLine
  <2>3. v[t].ts \in Nat /\ v[t].ts <= clock + 1 /\ (v[t].ver = 0 => v[t] = Absent)
    BY <1>2, <1>3, <1>4 DEF Absent
  <2>4. Within(wal'[t], clock')
    BY <1>2, <1>4, <2>2, <2>3
  <2>5. v[t].ver # 0 => Within(wal'[t], v[t].ts)
    <3>1. CASE v[t].ts = clock + 1
      BY <1>4, <2>2, <2>3, <3>1
    <3>2. CASE v[t].ts = mem[t].ts /\ mem[t].ver # 0
      <4>1. CASE wal[t] = <<>>
        BY <2>2, <2>3, <4>1 DEF Within
      <4>2. CASE wal[t] # <<>>
        BY <1>4, <2>2, <2>3, <3>2, <4>2
      <4>3. QED
        BY <4>1, <4>2
    <3>3. QED
      BY <1>3, <3>1, <3>2 DEF Absent
  <2>6. QED
    BY <1>2, <2>1, <2>2, <2>3, <2>4, <2>5
<1>6. ASSUME NEW t \in Ticket \ S
      PROVE  /\ LastLine(snap[t], wal'[t]) = latest'[t] /\ mem'[t] = latest'[t]
             /\ wal'[t] = wal[t] /\ mem'[t] = mem[t]
             /\ latest'[t].ver = 0 => latest'[t] = Absent
             /\ latest'[t].ts <= clock' /\ Within(wal'[t], clock')
             /\ wal'[t] # <<>> /\ latest'[t].ver # 0 => Within(wal'[t], latest'[t].ts)
  <2>1. mem'[t] = mem[t] /\ latest'[t] = latest[t] /\ wal'[t] = wal[t]
    BY <1>1 DEF CallWrote
  <2>2. QED
    BY <1>2, <1>4, <2>1
<1>7. Recovered' = latest' /\ mem' = latest'
  BY <1>2, <1>5, <1>6 DEF Recovered, TypeOK
<1>8. ASSUME NEW s \in Saver
      PROVE  /\ Pc(s)' = Pc(s) /\ Pc(s) # "appended"
             /\ Pc(s) \notin {"idle", "begin"} => job'[s].kind = "compact"
             /\ Pc(s) = "built" => \A t \in Ticket : job'[s].built[t] = mem'[t] \/ wal'[t] # <<>>
  BY <1>2, <1>5, <1>6 DEF DurableInv, Pc
<1>9. QED
  BY <1>5, <1>6, <1>7, <1>8 DEF DurableInv

LEMMA DurableSave ==
  ASSUME OneSaver, EverySaveCompacts, TypeOK, CompactInv, DurableInv, NEW s \in Saver,
         SaveStep(s) \/ SaveIOError(s) \/ LockError(s) \/ ReplaceError(s)
  PROVE  DurableInv'
<1>1. /\ up /\ UNCHANGED <<up, latest, clock>> /\ \A r \in Saver : r = s
      /\ mem = latest /\ Recovered = latest /\ job[s] \in Job /\ job \in [Saver -> Job]
  BY DEF OneSaver, SaveStep, Begin, NothingDirty, HandOff, Lock, AppendLines, FinishAppend,
         Build, Replace, ClearWal, SaveIOError, LockError, ReplaceError, DurableInv,
         TypeOK, histVars
<1>2. mem' = mem
  <2>1. CASE Build(s)
    <3>1. ASSUME NEW t \in Ticket
          PROVE  Replayed(mem[t], wal[t]) = mem[t]
      <4>1. mem[t] \in Version /\ wal[t] \in Seq(Version)
        BY DEF TypeOK
      <4>2. mem[t] = latest[t] /\ LastLine(snap[t], wal[t]) = mem[t]
        BY <1>1 DEF Recovered
      <4>3. /\ mem[t].ver = 0 => mem[t] = Absent
            /\ wal[t] # <<>> /\ mem[t].ver # 0 => Within(wal[t], mem[t].ts)
        BY <4>2 DEF DurableInv
      <4>4. wal[t] # <<>> => wal[t][Len(wal[t])] = mem[t]
        BY <4>2 DEF LastLine
      <4>5. QED
        BY <4>1, <4>3, <4>4, ReplayKeeps
    <3>2. QED
      BY <2>1, <3>1 DEF Build, TypeOK
  <2>2. CASE ~ Build(s)
    BY <2>2 DEF SaveStep, Begin, NothingDirty, HandOff, Lock, AppendLines, FinishAppend,
                Replace, ClearWal, SaveIOError, LockError, ReplaceError, memVars
  <2>3. QED
    BY <2>1, <2>2
<1>3. Pc(s) = "locked" => job[s].kind = "compact"
  BY DEF DurableInv
<1>4. /\ Pc(s)' # "appended"
      /\ Pc(s)' \notin {"idle", "begin"} => job'[s].kind = "compact"
      /\ Pc(s)' = "built" => job'[s].built = mem'
  <2>1. Finish(s) => Pc(s)' = "idle"
    BY <1>1 DEF Finish, Pc, IdleJob
  <2>2. \A l : Goto(s, l) => Pc(s)' = l /\ job'[s].kind = job[s].kind
    BY <1>1 DEF Goto, Pc, Job
  <2>3. CASE HandOff(s)
    <3>1. PICK l \in LineChoices(dirty), k \in {"append", "compact"} :
            /\ k = "append" => SmallSaves /\ (s \in Flusher => \E r \in Flusher : r # s)
            /\ job' = [job EXCEPT ![s].pc = "ready", ![s].handed = dirty, ![s].lines = l,
                                  ![s].kind = k]
      BY <2>3 DEF HandOff
    <3>2. k = "compact"
      BY <1>1, <3>1 DEF EverySaveCompacts, Saver
    <3>3. QED
      BY <1>1, <3>1, <3>2 DEF Pc, Job
  <2>4. CASE Lock(s)
    <3>1. job[s].kind = "compact"
      BY <2>4 DEF Lock, DurableInv
    <3>2. QED
      BY <2>2, <2>4, <3>1 DEF Lock
  <2>5. CASE Build(s)
    BY <1>1, <2>5 DEF Build, Pc, Job
  <2>6. CASE SaveIOError(s) \/ LockError(s)
    <3>1. job[s].kind = "compact" /\ RetryOrGiveUp(s)
      BY <2>6 DEF SaveIOError, LockError, DurableInv
    <3>2. QED
      BY <1>1, <2>1, <3>1 DEF RetryOrGiveUp, Pc, Job
  <2>7. CASE Begin(s) \/ NothingDirty(s) \/ ClearWal(s) \/ ReplaceError(s)
    BY <2>1, <2>2, <2>7 DEF Begin, NothingDirty, ClearWal, ReplaceError
  <2>8. CASE Replace(s)
    BY <2>2, <2>8 DEF Replace, DurableInv
  <2>9. ~ AppendLines(s) /\ ~ FinishAppend(s)
    BY <1>3 DEF AppendLines, FinishAppend, DurableInv
  <2>10. QED
    BY <2>3, <2>4, <2>5, <2>6, <2>7, <2>8, <2>9 DEF SaveStep
<1>5. CASE UNCHANGED <<snap, wal>>
  <2>1. Recovered' = latest'
    BY <1>1, <1>5 DEF Recovered
  <2>2. \A t \in Ticket : /\ latest'[t].ver = 0 => latest'[t] = Absent
                          /\ latest'[t].ts <= clock' /\ Within(wal'[t], clock')
                          /\ wal'[t] # <<>> /\ latest'[t].ver # 0
                               => Within(wal'[t], latest'[t].ts)
    BY <1>1, <1>5 DEF DurableInv
  <2>3. \A r \in Saver : /\ Pc(r)' # "appended"
                         /\ Pc(r)' \notin {"idle", "begin"} => job'[r].kind = "compact"
                         /\ Pc(r)' = "built" => \A t \in Ticket : job'[r].built[t] = mem'[t]
    BY <1>1, <1>4
  <2>4. up' => mem' = latest'
    BY <1>1, <1>2
  <2>5. QED
    BY <2>1, <2>2, <2>3, <2>4 DEF DurableInv
<1>6. CASE snap' = job[s].built /\ UNCHANGED wal /\ Pc(s) = "built" /\ Pc(s)' # "built"
  <2>1. ASSUME NEW t \in Ticket
        PROVE  LastLine(snap'[t], wal[t]) = latest[t]
    <3>1. LastLine(snap[t], wal[t]) = latest[t]
      BY <1>1 DEF Recovered
    <3>2. snap'[t] = mem[t] \/ wal[t] # <<>>
      BY <1>6 DEF DurableInv
    <3>3. QED
      BY <1>1, <3>1, <3>2 DEF LastLine
  <2>2. Recovered' = latest'
    BY <1>1, <1>6, <2>1 DEF Recovered, TypeOK
  <2>3. Pc(s)' # "built"
    BY <1>6
  <2>4. \A t \in Ticket : /\ latest'[t].ver = 0 => latest'[t] = Absent
                          /\ latest'[t].ts <= clock' /\ Within(wal'[t], clock')
                          /\ wal'[t] # <<>> /\ latest'[t].ver # 0
                               => Within(wal'[t], latest'[t].ts)
    BY <1>1, <1>6 DEF DurableInv
  <2>5. \A r \in Saver : /\ Pc(r)' # "appended" /\ Pc(r)' # "built"
                         /\ Pc(r)' \notin {"idle", "begin"} => job'[r].kind = "compact"
    BY <1>1, <1>4, <2>3
  <2>6. up' => mem' = latest'
    BY <1>1, <1>2
  <2>7. QED
    BY <2>2, <2>4, <2>5, <2>6 DEF DurableInv
<1>7. CASE ClearWal(s) /\ dirty = {}
  <2>1. wal' = EmptyLog /\ snap' = snap /\ Pc(s) = "replaced" /\ Pc(s)' = "idle"
    BY <1>1, <1>7 DEF ClearWal, Finish, IdleJob, Pc
  <2>2. ASSUME NEW t \in Ticket
        PROVE  LastLine(snap'[t], wal'[t]) = latest[t] /\ wal'[t] = <<>>
    BY <1>1, <1>7, <2>1 DEF LastLine, EmptyLog, CompactInv, Marked
  <2>3. Recovered' = latest'
    BY <1>1, <2>2 DEF Recovered, TypeOK
  <2>4. \A t \in Ticket : \A b : Within(wal'[t], b)
    BY <2>2 DEF Within
  <2>5. QED
    BY <1>1, <1>2, <2>1, <2>2, <2>3, <2>4 DEF DurableInv
<1>8. \/ UNCHANGED <<snap, wal>>
      \/ snap' = job[s].built /\ UNCHANGED wal /\ Pc(s) = "built" /\ Pc(s)' # "built"
      \/ ClearWal(s) /\ dirty = {}
  <2>1. Finish(s) => Pc(s)' = "idle"
    BY <1>1 DEF Finish, Pc, IdleJob
  <2>2. Goto(s, "replaced") => Pc(s)' = "replaced"
    BY <1>1 DEF Goto, Pc, Job
  <2>3. ~ AppendLines(s)
    BY <1>3 DEF AppendLines
  <2>4. QED
    BY <1>3, <2>1, <2>2, <2>3
    DEF SaveStep, Begin, NothingDirty, HandOff, Lock, FinishAppend, Build, Replace, ClearWal,
        SaveIOError, LockError, ReplaceError, fileVars
<1>9. QED
  BY <1>5, <1>6, <1>7, <1>8

LEMMA DurableStep ==
  ASSUME OneSaver, EverySaveCompacts, "append" \notin Faults, TypeOK, TypeOK', CompactInv,
         DurableInv, [Next]_vars
  PROVE  DurableInv'
<1>1. CASE ApiCall
  BY <1>1, DurableCall
<1>2. ASSUME NEW s \in Saver,
             SaveStep(s) \/ SaveIOError(s) \/ LockError(s) \/ ReplaceError(s)
      PROVE  DurableInv'
  BY <1>2, DurableSave
<1>3. CASE Crash \/ Restart
  <2>1. UNCHANGED <<snap, wal, clock>> /\ latest' = latest /\ Recovered' = latest'
    BY <1>3 DEF Crash, Restart, fileVars, histVars, DurableInv, Recovered
  <2>2. \A s \in Saver : Pc(s)' = "idle"
    <3>1. CASE Crash
      BY <3>1 DEF Crash, Pc, IdleJob
    <3>2. CASE Restart
      BY <3>2 DEF Restart, Pc, CompactInv
    <3>3. QED
      BY <1>3, <3>1, <3>2
  <2>3. up' => mem' = latest'
    BY <1>3 DEF Crash, Restart
  <2>4. QED
    BY <2>1, <2>2, <2>3 DEF DurableInv
<1>4. CASE UNCHANGED vars
  <2>1. Recovered' = Recovered
    BY <1>4 DEF vars, Recovered
  <2>2. QED
    BY <1>4, <2>1 DEF vars, DurableInv, Pc
<1>5. QED
  BY <1>1, <1>2, <1>3, <1>4 DEF Next

LEMMA DurableInit ==
  ASSUME Init
  PROVE  DurableInv
<1>1. /\ \A t \in Ticket : snap[t] = Absent /\ wal[t] = <<>> /\ latest[t] = Absent
      /\ mem = latest /\ clock = 0 /\ latest = [t \in Ticket |-> Absent]
      /\ \A s \in Saver : Pc(s) = "idle"
  BY DEF Init, NoTickets, EmptyLog, Pc, IdleJob
<1>2. Recovered = latest
  BY <1>1 DEF Recovered, LastLine
<1>3. \A t \in Ticket : Within(wal[t], clock)
  BY <1>1 DEF Within
<1>4. QED
  BY <1>1, <1>2, <1>3 DEF DurableInv, Absent

LEMMA DurableAlways ==
  ASSUME OneSaver, EverySaveCompacts, "append" \notin Faults
  PROVE  Spec => [](TypeOK /\ CompactInv /\ DurableInv)
<1>1. Init => CompactInv /\ DurableInv
  <2>1. Init => CompactInv
    BY DEF Init, CompactInv, Pc, IdleJob
  <2>2. QED
    BY <2>1, DurableInit
<1>2. TypeOK /\ TypeOK' /\ CompactInv /\ DurableInv /\ [Next]_vars => CompactInv' /\ DurableInv'
  BY CompactStep, DurableStep
<1>3. QED
  BY <1>1, <1>2, TypeCorrect, PTL DEF Spec

\* Crash safety: if one thread saves, and every save compacts, then at every moment
\* what a start-up would read back is what the last completed call left, under any
\* interleaving of calls, saves, retries, failed renames, crashes and restarts.
THEOREM CrashSafe ==
  ASSUME OneSaver, EverySaveCompacts, "append" \notin Faults
  PROVE  Spec => []AckedDurable
<1>1. DurableInv => AckedDurable
  BY DEF DurableInv, AckedDurable
<1>2. QED
  BY <1>1, DurableAlways, PTL

\* Under the same conditions the replay that precedes a compaction never changes
\* what the process serves.
THEOREM MemorySafe ==
  ASSUME OneSaver, EverySaveCompacts, "append" \notin Faults
  PROVE  Spec => []MemoryKeepsLatest
<1>1. DurableInv => MemoryKeepsLatest
  BY DEF DurableInv, MemoryKeepsLatest
<1>2. QED
  BY <1>1, DurableAlways, PTL

-----------------------------------------------------------------------------
(* ... so the store implements a map that survives crashes *)

\* Ids are never reused, so add() always creates.
FreshIds == \A t \in Ticket \ used : latest[t].ver = 0

\* A step that is no API call changes nothing a client could recover.
LEMMA OtherStepsInvisible ==
  ASSUME DurableInv, DurableInv', [Next]_vars, ~ ApiCall
  PROVE  UNCHANGED <<latest, clock, used, Recovered>>
<1>1. Recovered = latest /\ Recovered' = latest'
  BY DEF DurableInv
<1>2. CASE Restart
  BY <1>1, <1>2 DEF Restart
<1>3. CASE ~ Restart
  <2>1. UNCHANGED <<latest, clock, used>>
    BY <1>3 DEF Next, SaveStep, Begin, NothingDirty, HandOff, Lock, AppendLines,
                FinishAppend, Build, Replace, ClearWal, SaveIOError, LockError,
                ReplaceError, Crash, histVars, vars
  <2>2. QED
    BY <1>1, <2>1
<1>4. QED
  BY <1>2, <1>3

\* An API call is one call of the map.
LEMMA ApiCallIsMapCall ==
  ASSUME TypeOK, DurableInv, DurableInv', "append" \notin Faults, FreshIds, ApiCall
  PROVE  FreshIds' /\ Map!DNext
<1> PICK S \in SUBSET Ticket : \E v \in [S -> Version] :
        /\ CallWrote(S, v)
        /\ AddsTicket(S, v) \/ ChangesTickets(S, v) \/ RemovesTicket(S, v)
  BY ApiCallWrites
<1>1. PICK v \in [S -> Version] :
        /\ CallWrote(S, v)
        /\ AddsTicket(S, v) \/ ChangesTickets(S, v) \/ RemovesTicket(S, v)
  OBVIOUS
<1> DEFINE db == [t \in Ticket |-> Recovered[t].ver]
<1>2. /\ up /\ clock' = clock + 1 /\ Recovered = latest /\ Recovered' = latest'
      /\ mem = latest
  BY <1>1 DEF CallWrote, DurableInv
<1>3. /\ \A t \in S : latest'[t] = v[t]
      /\ \A t \in Ticket \ S : latest'[t] = latest[t]
  BY <1>1 DEF CallWrote
<1>4. \A t \in Ticket : db[t] = latest[t].ver /\ db'[t] = latest'[t].ver
  BY <1>2
<1>5. (\A t \in S : v[t].ver = clock + 1) => Map!Write(S, clock + 1)
  BY <1>2, <1>3 DEF Map!Write
<1>6. (\A t \in S : v[t].ver = 0) => Map!Write(S, 0)
  BY <1>2, <1>3 DEF Map!Write
<1>7. CASE AddsTicket(S, v)
  <2>1. PICK t \in Ticket : S = {t} /\ t \notin used /\ used' = used \cup {t} /\ v = Stamped(S)
    BY <1>7 DEF AddsTicket
  <2>2. db[t] = 0 /\ FreshIds'
    BY <1>3, <1>4, <2>1 DEF FreshIds
  <2>3. Map!Write({t}, clock + 1)
    <3>1. \A u \in S : v[u].ver = clock + 1
      BY <2>1 DEF Stamped
    <3>2. QED
      BY <1>5, <2>1, <3>1
  <2>4. QED
    BY <2>2, <2>3 DEF Map!DNext, Map!Create
<1>8. CASE ChangesTickets(S, v)
  <2>1. \A t \in S : db[t] # 0
    BY <1>2, <1>4, <1>8 DEF ChangesTickets, Present
  <2>2. FreshIds'
    BY <1>2, <1>3, <1>8 DEF FreshIds, ChangesTickets, Present
  <2>3. Map!Write(S, clock + 1)
    <3>1. \A u \in S : v[u].ver = clock + 1
      BY <1>8 DEF ChangesTickets, Stamped, Unstamped
    <3>2. QED
      BY <1>5, <3>1
  <2>4. QED
    BY <2>1, <2>2, <2>3 DEF Map!DNext, Map!Update
<1>9. CASE RemovesTicket(S, v)
  <2>1. PICK t \in Ticket : S = {t} /\ Present(t) /\ used' = used /\ v = Gone(S)
    BY <1>9 DEF RemovesTicket
  <2>2. db[t] # 0 /\ v[t] = Absent
    BY <1>2, <1>4, <2>1 DEF Present, Gone
  <2>3. FreshIds'
    BY <1>3, <2>1, <2>2 DEF FreshIds, Absent
  <2>4. Map!Write({t}, 0)
    BY <1>6, <2>1, <2>2 DEF Absent
  <2>5. QED
    BY <2>2, <2>3, <2>4 DEF Map!DNext, Map!Delete
<1>10. QED
  BY <1>1, <1>7, <1>8, <1>9

\* Under the conditions of CrashSafe the recoverable contents behave as a map to
\* which each API call, and nothing else, applies its own write in one step.
THEOREM StoreImplementsMap ==
  ASSUME OneSaver, EverySaveCompacts, "append" \notin Faults
  PROVE  Spec => ImplementsDurableMap
<1>1. Init => FreshIds /\ Map!DInit
  <2>1. Init => \A t \in Ticket : latest[t].ver = 0 /\ Recovered[t].ver = 0
    BY DEF Init, NoTickets, EmptyLog, Absent, Recovered, LastLine
  <2>2. Init => clock = 0
    BY DEF Init
  <2>3. QED
    BY <2>1, <2>2 DEF FreshIds, Map!DInit
<1>2. TypeOK /\ DurableInv /\ DurableInv' /\ FreshIds /\ [Next]_vars
        => FreshIds' /\ [Map!DNext]_(Map!dvars)
  <2> SUFFICES ASSUME TypeOK, DurableInv, DurableInv', FreshIds, [Next]_vars
               PROVE  FreshIds' /\ [Map!DNext]_(Map!dvars)
    OBVIOUS
  <2>1. CASE ApiCall
    BY <2>1, ApiCallIsMapCall
  <2>2. CASE ~ ApiCall
    <3>1. UNCHANGED <<latest, clock, used, Recovered>>
      BY <2>2, OtherStepsInvisible
    <3>2. QED
      BY <3>1 DEF FreshIds, Map!dvars
  <2>3. QED
    BY <2>1, <2>2
<1>3. QED
  BY <1>1, <1>2, DurableAlways, PTL DEF Spec, ImplementsDurableMap, Map!DSpec
=============================================================================
