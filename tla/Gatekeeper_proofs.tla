------------------------- MODULE Gatekeeper_proofs -------------------------
(* For any verifiers, tickets, files and faults: skipped gates are paid for, and the log *)
(* keeps what was logged.                                                                *)
EXTENDS Gatekeeper, TLAPS

\* A cache in which every ticket has an entry of its own full runs, or none.
Clean(c, P) ==
  /\ c \in [Tickets -> {NoEntry} \cup P]
  /\ \A t \in Tickets : c[t] # NoEntry => c[t].of = t

\* What the cache file or its temporary file may hold.
Honest(c) == c = Torn \/ c = Missing \/ Clean(c, paid)

\* A probe that found a hit has found a paid run with the same contents and gates.
HalfPaid(v) ==
  /\ run[v].asked.of = Of[v]
  /\ \E a \in paid : a.of = Of[v] /\ SameWork(a, run[v].asked)

CacheInv ==
  /\ run = [v \in Verifiers |-> run[v]]
  /\ Honest(cache) /\ Honest(tmp)
  /\ \A v \in Verifiers : At(v) = "compare" => HalfPaid(v)
  /\ \A v \in Verifiers : At(v) \in {"open", "fill"} => Clean(run[v].mem, paid)
  /\ SkipsArePaid

\* The holder of the flock has a copy of every decision logged.
LogInv ==
  /\ run = [v \in Verifiers |-> run[v]]
  /\ \A v \in Verifiers : At(v) = "write" => locked = v /\ logged \subseteq run[v].copy
  /\ DecisionsAreKept

LEMMA LoadedIsClean ==
  ASSUME Honest(cache)
  PROVE  Clean(Loaded, paid)
<1>1. Clean(Nothing, paid)  BY DEF Clean, Nothing
<1>2. CASE cache \in {Torn, Missing}  BY <1>1, <1>2 DEF Loaded
<1>3. CASE cache \notin {Torn, Missing}  BY <1>3 DEF Loaded, Honest
<1> QED BY <1>2, <1>3

LEMMA CleanGrows ==
  ASSUME NEW c, NEW P, NEW Q, Clean(c, P), P \subseteq Q
  PROVE  Clean(c, Q)
<1>1. c \in [Tickets -> {NoEntry} \cup Q]  BY DEF Clean
<1> QED BY <1>1 DEF Clean

-----------------------------------------------------------------------------
(* A step that leaves the cache and its histories alone *)

LEMMA QuietStep ==
  ASSUME CacheInv, UNCHANGED <<cache, tmp, paid, skipped>>,
         NEW v \in Verifiers, NEW r, run' = [run EXCEPT ![v] = r],
         r.at \notin {"compare", "open", "fill"}
  PROVE  CacheInv'
<1>1. run' = [w \in Verifiers |-> IF w = v THEN r ELSE run[w]]  BY DEF CacheInv
<1>2. \A w \in Verifiers : At(w)' \in {"compare", "open", "fill"} => run'[w] = run[w]
  BY <1>1 DEF At
<1>3. Honest(cache)' /\ Honest(tmp)'  BY DEF CacheInv, Honest, Clean
<1>4. \A w \in Verifiers : At(w)' = "compare" => HalfPaid(w)'
  BY <1>2 DEF CacheInv, At, HalfPaid
<1>5. \A w \in Verifiers : At(w)' \in {"open", "fill"} => Clean(run[w].mem, paid)'
  BY <1>2 DEF CacheInv, At, Clean
<1>6. SkipsArePaid'  BY DEF CacheInv, SkipsArePaid
<1>7. run' = [w \in Verifiers |-> run'[w]]  BY <1>1
<1> QED BY <1>3, <1>4, <1>5, <1>6, <1>7 DEF CacheInv

\* A step of the world, or a stuttering one.
LEMMA WorldStep ==
  ASSUME CacheInv, UNCHANGED <<cache, tmp, paid, skipped, run>>
  PROVE  CacheInv'
BY DEF CacheInv, Honest, Clean, HalfPaid, At, SkipsArePaid
-----------------------------------------------------------------------------
(* The cache and its readers *)

LEMMA ProbeStep ==
  ASSUME CacheInv, NEW v \in Verifiers, NEW fresh, Probe(v, fresh), GatekeeperAssumption
  PROVE  CacheInv'
<1> DEFINE e == Loaded[Of[v]]
<1>1. CASE ~(fresh /\ SameWork(e, Asked(v)))
  <2>1. run' = [run EXCEPT ![v] = Work(v, "gates", NoEntry)]  BY <1>1 DEF Probe
  <2>2. UNCHANGED <<cache, tmp, paid, skipped>>  BY DEF Probe, history
  <2>3. Work(v, "gates", NoEntry).at \notin {"compare", "open", "fill"}  BY DEF Work
  <2> QED BY <2>1, <2>2, <2>3, QuietStep
<1>2. CASE fresh /\ SameWork(e, Asked(v))
  <2>1. run' = [w \in Verifiers |-> IF w = v THEN Work(v, "compare", Asked(v)) ELSE run[w]]
    BY <1>2 DEF Probe, CacheInv
  <2>2. UNCHANGED <<cache, tmp, paid, skipped>>  BY DEF Probe, history
  <2>3. e \in paid /\ e.of = Of[v]
    <3>1. Clean(Loaded, paid) /\ Of[v] \in Tickets
      BY LoadedIsClean DEF CacheInv, GatekeeperAssumption
    <3>2. e # NoEntry  BY <1>2 DEF SameWork
    <3> QED BY <3>1, <3>2 DEF Clean
  <2>4. HalfPaid(v)'
    <3>1. run'[v].asked = Asked(v)  BY <2>1 DEF Work
    <3>2. Asked(v).of = Of[v]  BY DEF Asked, Evidence
    <3> QED BY <1>2, <2>2, <2>3, <3>1, <3>2 DEF HalfPaid
  <2>5. \A w \in Verifiers \ {v} : run'[w] = run[w]  BY <2>1
  <2>6. At(v)' = "compare"  BY <2>1 DEF At, Work
  <2>7. Honest(cache)' /\ Honest(tmp)'  BY <2>2 DEF CacheInv, Honest, Clean
  <2>8. \A w \in Verifiers : At(w)' = "compare" => HalfPaid(w)'
    BY <2>2, <2>4, <2>5 DEF CacheInv, At, HalfPaid
  <2>9. \A w \in Verifiers : At(w)' \in {"open", "fill"} => Clean(run[w].mem, paid)'
    BY <2>2, <2>5, <2>6 DEF CacheInv, At, Clean
  <2>10. SkipsArePaid'  BY <2>2 DEF CacheInv, SkipsArePaid
  <2>11. run' = [w \in Verifiers |-> run'[w]]  BY <2>1
  <2> QED BY <2>7, <2>8, <2>9, <2>10, <2>11 DEF CacheInv
<1> QED BY <1>1, <1>2

LEMMA CompareStep ==
  ASSUME CacheInv, NEW v \in Verifiers, Compare(v), GatekeeperAssumption
  PROVE  CacheInv'
<1> DEFINE e == Loaded[Of[v]]
           next == IF SameRevisions(e, run[v].asked)
                   THEN [at |-> "judge", n |-> run[v].n, passed |-> TRUE]
                   ELSE Work(v, "gates", NoEntry)
<1>1. run' = [w \in Verifiers |-> IF w = v THEN next ELSE run[w]]  BY DEF Compare, CacheInv
<1>2. UNCHANGED <<cache, tmp, paid>>  BY DEF Compare
<1>3. next.at \notin {"compare", "open", "fill"}  BY DEF Work
<1>4. \A w \in Verifiers : At(w)' \in {"compare", "open", "fill"} => run'[w] = run[w]
  BY <1>1, <1>3 DEF At
<1>5. Honest(cache)' /\ Honest(tmp)'  BY <1>2 DEF CacheInv, Honest, Clean
<1>6. \A w \in Verifiers : At(w)' = "compare" => HalfPaid(w)'
  BY <1>2, <1>4 DEF CacheInv, At, HalfPaid
<1>7. \A w \in Verifiers : At(w)' \in {"open", "fill"} => Clean(run[w].mem, paid)'
  BY <1>2, <1>4 DEF CacheInv, At, Clean
<1>8. SkipsArePaid'
  <2>1. CASE ~SameRevisions(e, run[v].asked)
    BY <1>2, <2>1 DEF Compare, CacheInv, SkipsArePaid
  <2>2. CASE SameRevisions(e, run[v].asked)
    <3>1. Clean(Loaded, paid) /\ Of[v] \in Tickets
      BY LoadedIsClean DEF CacheInv, GatekeeperAssumption
    <3>2. e # NoEntry  BY <2>2 DEF SameRevisions
    <3>3. e \in paid /\ e.of = Of[v]  BY <3>1, <3>2 DEF Clean
    <3>4. HalfPaid(v)  BY DEF CacheInv, Compare
    <3>5. skipped' = skipped \cup {run[v].asked}  BY <2>2 DEF Compare
    <3> QED BY <1>2, <2>2, <3>3, <3>4, <3>5
            DEF CacheInv, SkipsArePaid, HalfPaid, SameRevisions
  <2> QED BY <2>1, <2>2
<1>9. run' = [w \in Verifiers |-> run'[w]]  BY <1>1
<1> QED BY <1>5, <1>6, <1>7, <1>8, <1>9 DEF CacheInv

-----------------------------------------------------------------------------
(* The writers of the cache *)

LEMMA GatesPassStep ==
  ASSUME CacheInv, NEW v \in Verifiers, GatesPass(v), GatekeeperAssumption
  PROVE  CacheInv'
<1> DEFINE mem == [Loaded EXCEPT ![Of[v]] = Asked(v)]
<1>1. run' = [w \in Verifiers |-> IF w = v THEN [at |-> "open", n |-> run[v].n, mem |-> mem]
                                  ELSE run[w]]
  BY DEF GatesPass, CacheInv
<1>2. paid' = paid \cup {Asked(v)} /\ UNCHANGED <<cache, tmp, skipped>>  BY DEF GatesPass
<1>3. paid \subseteq paid'  BY <1>2
<1>4. \A w \in Verifiers \ {v} : run'[w] = run[w]  BY <1>1
<1>5. Clean(mem, paid')
  <2>1. Clean(Loaded, paid) /\ Of[v] \in Tickets
    BY LoadedIsClean DEF CacheInv, GatekeeperAssumption
  <2>2. Asked(v).of = Of[v]  BY DEF Asked, Evidence
  <2>3. mem = [t \in Tickets |-> IF t = Of[v] THEN Asked(v) ELSE Loaded[t]]
    BY <2>1 DEF Clean
  <2>4. mem \in [Tickets -> {NoEntry} \cup paid']  BY <1>2, <2>1, <2>3 DEF Clean
  <2>5. \A t \in Tickets : mem[t] # NoEntry => mem[t].of = t
    BY <2>1, <2>2, <2>3 DEF Clean
  <2> QED BY <2>4, <2>5 DEF Clean
<1>6. Honest(cache)' /\ Honest(tmp)'
  BY <1>2, <1>3, CleanGrows DEF CacheInv, Honest
<1>7. \A w \in Verifiers : At(w)' = "compare" => HalfPaid(w)'
  BY <1>1, <1>3, <1>4 DEF CacheInv, At, HalfPaid
<1>8. \A w \in Verifiers : At(w)' \in {"open", "fill"} => Clean(run[w].mem, paid)'
  <2>1. Clean(run[v].mem, paid)'  BY <1>1, <1>5
  <2>2. ASSUME NEW w \in Verifiers \ {v}, At(w)' \in {"open", "fill"}
        PROVE  Clean(run[w].mem, paid)'
    BY <1>3, <1>4, <2>2, CleanGrows DEF CacheInv, At
  <2> QED BY <2>1, <2>2
<1>9. SkipsArePaid'  BY <1>2, <1>3 DEF CacheInv, SkipsArePaid
<1>10. run' = [w \in Verifiers |-> run'[w]]  BY <1>1
<1> QED BY <1>6, <1>7, <1>8, <1>9, <1>10 DEF CacheInv

LEMMA OpenStep ==
  ASSUME CacheInv, NEW v \in Verifiers, OpenTmp(v)
  PROVE  CacheInv'
<1> DEFINE r == [at |-> "fill", n |-> run[v].n, mem |-> run[v].mem, fd |-> "tmp"]
<1>1. run' = [w \in Verifiers |-> IF w = v THEN r ELSE run[w]]  BY DEF OpenTmp, CacheInv
<1>2. UNCHANGED <<cache, paid, skipped>> /\ tmp' = Torn  BY DEF OpenTmp, history
<1>3. \A w \in Verifiers \ {v} : run'[w] = run[w]  BY <1>1
<1>4. At(v)' = "fill" /\ run'[v].mem = run[v].mem  BY <1>1 DEF At
<1>5. Honest(cache)' /\ Honest(tmp)'  BY <1>2 DEF CacheInv, Honest, Torn
<1>6. \A w \in Verifiers : At(w)' = "compare" => HalfPaid(w)'
  BY <1>2, <1>3, <1>4 DEF CacheInv, At, HalfPaid
<1>7. \A w \in Verifiers : At(w)' \in {"open", "fill"} => Clean(run[w].mem, paid)'
  BY <1>2, <1>3, <1>4 DEF CacheInv, At, OpenTmp
<1>8. SkipsArePaid'  BY <1>2 DEF CacheInv, SkipsArePaid
<1>9. run' = [w \in Verifiers |-> run'[w]]  BY <1>1
<1> QED BY <1>5, <1>6, <1>7, <1>8, <1>9 DEF CacheInv

LEMMA FillStep ==
  ASSUME CacheInv, NEW v \in Verifiers, FillTmp(v)
  PROVE  CacheInv'
<1>1. run' = [w \in Verifiers |-> IF w = v THEN [at |-> "publish", n |-> run[v].n]
                                  ELSE run[w]]
  BY DEF FillTmp, CacheInv
<1>2. UNCHANGED <<paid, skipped>>  BY DEF FillTmp, history
<1>3. \A w \in Verifiers : At(w)' \in {"compare", "open", "fill"} => run'[w] = run[w]
  BY <1>1 DEF At
<1>4. Clean(run[v].mem, paid)  BY DEF CacheInv, FillTmp
<1>5. \A c, now : c \in Written(now, run[v].mem) => c = Torn \/ c = run[v].mem
  BY DEF Written
<1>6. Honest(cache)' /\ Honest(tmp)'
  <2>1. cache' \in {cache, Torn, run[v].mem} /\ tmp' \in {tmp, Torn, run[v].mem}
    BY <1>5 DEF FillTmp
  <2> QED BY <1>2, <1>4, <2>1 DEF CacheInv, Honest
<1>7. \A w \in Verifiers : At(w)' = "compare" => HalfPaid(w)'
  BY <1>2, <1>3 DEF CacheInv, At, HalfPaid
<1>8. \A w \in Verifiers : At(w)' \in {"open", "fill"} => Clean(run[w].mem, paid)'
  BY <1>2, <1>3 DEF CacheInv, At
<1>9. SkipsArePaid'  BY <1>2 DEF CacheInv, SkipsArePaid
<1>10. run' = [w \in Verifiers |-> run'[w]]  BY <1>1
<1> QED BY <1>6, <1>7, <1>8, <1>9, <1>10 DEF CacheInv

LEMMA PublishStep ==
  ASSUME CacheInv, NEW v \in Verifiers, Publish(v)
  PROVE  CacheInv'
<1> DEFINE r == [at |-> "judge", n |-> run[v].n, passed |-> TRUE]
           done == [run EXCEPT ![v] = r]
<1>1. CASE tmp = Missing
  <2>1. run' = done /\ UNCHANGED <<cache, tmp, paid, skipped>>
    BY <1>1 DEF Publish, history
  <2> QED BY <2>1, QuietStep
<1>2. CASE tmp # Missing
  <2>1. run' = Moved(done, v) /\ cache' = tmp /\ tmp' = Missing
        /\ UNCHANGED <<paid, skipped>>
    BY <1>2 DEF Publish, history
  <2>2. done = [w \in Verifiers |-> IF w = v THEN r ELSE run[w]]  BY DEF CacheInv
  <2>3. run'[v].at = "judge"  BY <2>1, <2>2 DEF Moved
  <2>4. ASSUME NEW w \in Verifiers \ {v}
        PROVE  \/ run'[w] = run[w]
               \/ At(w) = "fill" /\ At(w)' = "fill" /\ run'[w].mem = run[w].mem
    BY <2>1, <2>2, <2>4 DEF Moved, At
  <2>5. Honest(cache)' /\ Honest(tmp)'  BY <2>1 DEF CacheInv, Honest, Missing
  <2>6. \A w \in Verifiers : At(w)' = "compare" => HalfPaid(w)'
    BY <2>1, <2>3, <2>4 DEF CacheInv, At, HalfPaid
  <2>7. \A w \in Verifiers : At(w)' \in {"open", "fill"} => Clean(run[w].mem, paid)'
    BY <2>1, <2>3, <2>4 DEF CacheInv, At
  <2>8. SkipsArePaid'  BY <2>1 DEF CacheInv, SkipsArePaid
  <2>9. run' = [w \in Verifiers |-> run'[w]]  BY <2>1 DEF Moved
  <2> QED BY <2>5, <2>6, <2>7, <2>8, <2>9 DEF CacheInv
<1> QED BY <1>1, <1>2

-----------------------------------------------------------------------------
(* All other steps of a verification are quiet *)

\* A step of v after which it asks, writes or fills nothing.
Quiet(v) == \E r : /\ run' = [run EXCEPT ![v] = r]
                   /\ r.at \notin {"compare", "open", "fill"}
                   /\ r.at = "write" => ReadLog(v)

Other(v) ==
  \/ \E files \in Touches[Of[v]], class \in Classes : Begin(v, files, class)
  \/ Reject(v) \/ Survey(v) \/ GatesFail(v)
  \/ \E covered \in Coverage : Judge(v, covered)
  \/ Raise(v) \/ AlreadyCommitted(v)
  \/ \E pushed \in PushOutcomes, sync \in SyncOutcomes : Commit(v, pushed, sync)
  \/ ReadLog(v) \/ WriteLog(v) \/ LogFails(v)
  \/ SendBack(v) \/ NotMoved(v) \/ Kill(v)

LEMMA DecidedIsQuiet ==
  ASSUME NEW v, NEW d, NEW at \in {"log", "commit", "move"}, Decided(v, d, at)
  PROVE  Quiet(v)
<1>1. [at |-> at, n |-> run[v].n, decision |-> d].at = at  OBVIOUS
<1> QED BY <1>1 DEF Decided, Quiet

LEMMA OthersAreQuiet ==
  ASSUME NEW v \in Verifiers, Other(v)
  PROVE  Quiet(v)
<1>2. ASSUME NEW d, NEW at \in {"log", "commit", "move"}, Decided(v, d, at)  PROVE Quiet(v)
  BY <1>2, DecidedIsQuiet
<1>1. ASSUME NEW r, run' = [run EXCEPT ![v] = r],
             r.at \notin {"compare", "open", "fill", "write"}
      PROVE  Quiet(v)
  BY <1>1 DEF Quiet
<1>3. CASE \E files \in Touches[Of[v]], class \in Classes : Begin(v, files, class)
  <2>1. PICK files, class : Begin(v, files, class)  BY <1>3
  <2> DEFINE r == [at |-> "survey", n |-> run[v].n + 1, files |-> files, class |-> class,
                   policy |-> policy, revision |-> revision[Of[v]]]
  <2>2. run' = [run EXCEPT ![v] = r]  BY <2>1 DEF Begin
  <2>3. r.at = "survey"  OBVIOUS
  <2> HIDE DEF r
  <2> QED BY <2>2, <2>3, <1>1
<1>4. CASE Reject(v) \/ Survey(v) \/ GatesFail(v)
  <2>1. CASE Reject(v)
    <3> DEFINE r == [at |-> "log", n |-> run[v].n + 1, decision |-> "FAIL"]
    <3>1. run' = [run EXCEPT ![v] = r] /\ r.at = "log"  BY <2>1 DEF Reject
    <3> HIDE DEF r
    <3> QED BY <3>1, <1>1
  <2>2. CASE Survey(v)
    <3> DEFINE r == [at |-> "probe", n |-> run[v].n, files |-> run[v].files,
                     class |-> run[v].class, policy |-> run[v].policy,
                     revision |-> run[v].revision, head |-> head, reviews |-> reviews[Of[v]]]
    <3>1. run' = [run EXCEPT ![v] = r] /\ r.at = "probe"  BY <2>2 DEF Survey
    <3> HIDE DEF r
    <3> QED BY <3>1, <1>1
  <2>3. CASE GatesFail(v)
    <3> DEFINE r == [at |-> "judge", n |-> run[v].n, passed |-> FALSE]
    <3>1. run' = [run EXCEPT ![v] = r] /\ r.at = "judge"  BY <2>3 DEF GatesFail
    <3> HIDE DEF r
    <3> QED BY <3>1, <1>1
  <2> QED BY <1>4, <2>1, <2>2, <2>3
<1>5. CASE \E covered \in Coverage : Judge(v, covered)
  <2>1. Decided(v, "REWORK", "log") \/ Decided(v, "COMPLETE", "log")
        \/ Decided(v, "REWORK", "commit")
    BY <1>5 DEF Judge
  <2> QED BY <1>2, <2>1
<1>6. CASE Raise(v) \/ AlreadyCommitted(v) \/ WriteLog(v) \/ LogFails(v)
  <2>1. Decided(v, "FAIL", "log") \/ Decided(v, "COMPLETE", "log")
        \/ Decided(v, run[v].decision, "move")
    BY <1>6 DEF Raise, AlreadyCommitted, WriteLog, LogFails
  <2> QED BY <1>2, <2>1
<1>7. CASE \E pushed \in PushOutcomes, sync \in SyncOutcomes : Commit(v, pushed, sync)
  <2>1. \E d : Decided(v, d, "log")  BY <1>7 DEF Commit
  <2> QED BY <1>2, <2>1
<1>8. CASE ReadLog(v)
  <2>1. PICK copy : run' = [run EXCEPT ![v] = [at |-> "write", n |-> run[v].n,
                                   decision |-> run[v].decision, copy |-> copy]]
    BY <1>8 DEF ReadLog
  <2> DEFINE r == [at |-> "write", n |-> run[v].n, decision |-> run[v].decision,
                   copy |-> copy]
  <2>2. run' = [run EXCEPT ![v] = r] /\ r.at = "write"  BY <2>1
  <2> HIDE DEF r
  <2> QED BY <1>8, <2>2 DEF Quiet
<1>9. CASE SendBack(v) \/ Kill(v)
  <2>1. run' = [run EXCEPT ![v] = [at |-> "idle", n |-> run[v].n]]
    BY <1>9 DEF SendBack, Kill
  <2>2. [at |-> "idle", n |-> run[v].n].at = "idle"  OBVIOUS
  <2> QED BY <2>1, <2>2, <1>1
<1>10. CASE NotMoved(v)
  <2>1. Decided(v, "FALLBACK", "log")
        \/ run' = [run EXCEPT ![v] = [at |-> "idle", n |-> run[v].n]]
    BY <1>10 DEF NotMoved
  <2>2. [at |-> "idle", n |-> run[v].n].at = "idle"  OBVIOUS
  <2> QED BY <2>1, <2>2, <1>1, <1>2
<1> QED BY <1>3, <1>4, <1>5, <1>6, <1>7, <1>8, <1>9, <1>10 DEF Other

LEMMA OtherSteps ==
  ASSUME CacheInv, NEW v \in Verifiers, Other(v)
  PROVE  CacheInv'
<1>1. UNCHANGED <<cache, tmp, paid, skipped>>
  BY DEF Other, Begin, Reject, Survey, GatesFail, Judge, Raise, AlreadyCommitted, Commit,
         ReadLog, WriteLog, LogFails, SendBack, NotMoved, Kill, history
<1> QED BY <1>1, OthersAreQuiet, QuietStep DEF Quiet

\* Whatever the verifiers, tickets, files and gates, gates are skipped only for what full
\* runs of the same ticket's gates have passed on.
THEOREM SkipsPaid == Spec => []SkipsArePaid
<1>1. Init => CacheInv
  BY DEF Init, CacheInv, Honest, At, Idle, SkipsArePaid
<1>2. CacheInv /\ [Next]_vars => CacheInv'
  <2> SUFFICES ASSUME CacheInv, [Next]_vars  PROVE CacheInv'
    OBVIOUS
  <2>1. CASE World
    BY <2>1, WorldStep DEF World, Edit, ChangePolicy, WriteVerdict, ChangeTicket, history
  <2>2. CASE UNCHANGED vars
    BY <2>2, WorldStep DEF vars, history
  <2>3. ASSUME NEW v \in Verifiers, Verify(v)  PROVE CacheInv'
    <3>1. CASE \E fresh \in BOOLEAN : Probe(v, fresh)
      BY <3>1, ProbeStep, GatekeeperAssumption
    <3>2. CASE Compare(v)  BY <3>2, CompareStep, GatekeeperAssumption
    <3>3. CASE GatesPass(v)  BY <3>3, GatesPassStep, GatekeeperAssumption
    <3>4. CASE OpenTmp(v)  BY <3>4, OpenStep
    <3>5. CASE FillTmp(v)  BY <3>5, FillStep
    <3>6. CASE Publish(v)  BY <3>6, PublishStep
    <3> QED BY <2>3, <3>1, <3>2, <3>3, <3>4, <3>5, <3>6, OtherSteps DEF Verify, Other
  <2> QED BY <2>1, <2>2, <2>3 DEF Next
<1>3. CacheInv => SkipsArePaid  BY DEF CacheInv
<1> QED BY <1>1, <1>2, <1>3, PTL DEF Spec

-----------------------------------------------------------------------------
(* The log *)

\* A step by which nobody begins to write, and whoever writes keeps the flock.
LEMMA LogQuietStep ==
  ASSUME LogInv, run' = [w \in Verifiers |-> run'[w]],
         \A w \in Verifiers : At(w)' = "write" => run'[w] = run[w] /\ locked' = locked,
         log \subseteq log', logged' = logged
  PROVE  LogInv'
BY DEF LogInv, At, DecisionsAreKept

LEMMA ReadLogStep ==
  ASSUME LogInv, NEW v \in Verifiers, ReadLog(v), "read" \notin LogFaults,
         GatekeeperAssumption
  PROVE  LogInv'
<1> DEFINE r == [at |-> "write", n |-> run[v].n, decision |-> run[v].decision, copy |-> log]
<1>1. run' = [w \in Verifiers |-> IF w = v THEN r ELSE run[w]]  BY DEF ReadLog, LogInv
<1>2. UNCHANGED <<log, logged>> /\ locked' = v  BY DEF ReadLog, history
<1>3. \A w \in Verifiers : At(w) # "write"
  BY DEF ReadLog, LogFree, LogInv, GatekeeperAssumption
<1>4. \A w \in Verifiers : At(w)' = "write" => w = v  BY <1>1, <1>3 DEF At
<1>5. run'[v].copy = log  BY <1>1
<1> QED BY <1>1, <1>2, <1>4, <1>5 DEF LogInv, DecisionsAreKept

LEMMA WriteLogStep ==
  ASSUME LogInv, NEW v \in Verifiers, WriteLog(v)
  PROVE  LogInv'
<1> DEFINE r == [at |-> "move", n |-> run[v].n, decision |-> run[v].decision]
           line == Line(v, run[v].decision)
<1>1. run' = [w \in Verifiers |-> IF w = v THEN r ELSE run[w]]
  BY DEF WriteLog, Decided, LogInv
<1>2. log' = run[v].copy \cup {line} /\ logged' = logged \cup {line}  BY DEF WriteLog
<1>3. locked = v /\ logged \subseteq run[v].copy  BY DEF WriteLog, LogInv
<1>4. \A w \in Verifiers : At(w)' # "write"  BY <1>1, <1>3 DEF At, LogInv
<1> QED BY <1>1, <1>2, <1>3, <1>4 DEF LogInv, DecisionsAreKept

LEMMA OtherLogStep ==
  ASSUME LogInv, NEW v \in Verifiers, Other(v), ~ReadLog(v), ~WriteLog(v)
  PROVE  LogInv'
<1>1. log \subseteq log' /\ logged' = logged
  BY DEF Other, Begin, Reject, Survey, GatesFail, Judge, Raise, AlreadyCommitted, Commit,
         LogFails, SendBack, NotMoved, Kill, history
<1>2. locked' = locked \/ (locked' = "nobody" /\ locked = v)
  BY DEF Other, Begin, Reject, Survey, GatesFail, Judge, Raise, AlreadyCommitted, Commit,
         LogFails, SendBack, NotMoved, Kill, LogInv
<1>3. PICK r : run' = [run EXCEPT ![v] = r] /\ r.at # "write"
  BY OthersAreQuiet DEF Quiet
<1>4. run' = [w \in Verifiers |-> IF w = v THEN r ELSE run[w]]  BY <1>3 DEF LogInv
<1>5. ASSUME NEW w \in Verifiers, At(w)' = "write"
      PROVE  run'[w] = run[w] /\ locked' = locked
  <2>1. w # v  BY <1>3, <1>4, <1>5 DEF At
  <2>2. run'[w] = run[w]  BY <1>4, <2>1
  <2>3. locked = w  BY <1>5, <2>2 DEF At, LogInv
  <2> QED BY <1>2, <2>1, <2>2, <2>3
<1> QED BY <1>1, <1>4, <1>5, LogQuietStep

\* The steps at the cache.
LEMMA CacheLogStep ==
  ASSUME LogInv, NEW v \in Verifiers,
         \/ \E fresh \in BOOLEAN : Probe(v, fresh)
         \/ Compare(v) \/ GatesPass(v) \/ OpenTmp(v) \/ FillTmp(v) \/ Publish(v)
  PROVE  LogInv'
<1>1. UNCHANGED <<log, logged, locked>>
  BY DEF Probe, Compare, GatesPass, OpenTmp, FillTmp, Publish, history
<1> DEFINE Elsewhere(r) ==
             /\ r = [w \in Verifiers |-> r[w]] /\ r[v].at # "write"
             /\ \A w \in Verifiers : r[w].at = "write" => r[w] = run[w]
<1>2. ASSUME NEW q, q.at # "write"  PROVE Elsewhere([run EXCEPT ![v] = q])
  BY <1>2 DEF LogInv
<1>3. Elsewhere(run')
  <2>1. CASE \E fresh \in BOOLEAN : Probe(v, fresh)
    <3>1. \/ run' = [run EXCEPT ![v] = Work(v, "compare", Asked(v))]
          \/ run' = [run EXCEPT ![v] = Work(v, "gates", NoEntry)]
      BY <2>1 DEF Probe
    <3>2. /\ Work(v, "compare", Asked(v)).at = "compare"
          /\ Work(v, "gates", NoEntry).at = "gates"
      BY DEF Work
    <3> QED BY <3>1, <3>2, <1>2
  <2>2. CASE Compare(v)
    <3>1. \/ run' = [run EXCEPT ![v] = [at |-> "judge", n |-> run[v].n, passed |-> TRUE]]
          \/ run' = [run EXCEPT ![v] = Work(v, "gates", NoEntry)]
      BY <2>2 DEF Compare
    <3>2. Work(v, "gates", NoEntry).at = "gates"  BY DEF Work
    <3>3. [at |-> "judge", n |-> run[v].n, passed |-> TRUE].at = "judge"  OBVIOUS
    <3> QED BY <3>1, <3>2, <3>3, <1>2
  <2>3. CASE GatesPass(v)
    <3> DEFINE r == [at |-> "open", n |-> run[v].n,
                     mem |-> [Loaded EXCEPT ![Of[v]] = Asked(v)]]
    <3>1. run' = [run EXCEPT ![v] = r] /\ r.at = "open"  BY <2>3 DEF GatesPass
    <3> HIDE DEF r
    <3> QED BY <3>1, <1>2
  <2>4. CASE OpenTmp(v)
    <3> DEFINE r == [at |-> "fill", n |-> run[v].n, mem |-> run[v].mem, fd |-> "tmp"]
    <3>1. run' = [run EXCEPT ![v] = r] /\ r.at = "fill"  BY <2>4 DEF OpenTmp
    <3> HIDE DEF r
    <3> QED BY <3>1, <1>2
  <2>5. CASE FillTmp(v)
    <3> DEFINE r == [at |-> "publish", n |-> run[v].n]
    <3>1. run' = [run EXCEPT ![v] = r] /\ r.at = "publish"  BY <2>5 DEF FillTmp
    <3> HIDE DEF r
    <3> QED BY <3>1, <1>2
  <2>6. CASE Publish(v)
    <3> DEFINE r == [at |-> "judge", n |-> run[v].n, passed |-> TRUE]
               done == [run EXCEPT ![v] = r]
    <3>1. run' = done \/ run' = Moved(done, v)  BY <2>6 DEF Publish
    <3>2. r.at = "judge"  OBVIOUS
    <3>3. Elsewhere(done)
      <4> HIDE DEF r
      <4> QED BY <3>2, <1>2
    <3>4. \A w \in Verifiers : Moved(done, v)[w] = done[w] \/ Moved(done, v)[w].at = "fill"
      BY DEF Moved
    <3>5. Moved(done, v) = [w \in Verifiers |-> Moved(done, v)[w]]  BY DEF Moved
    <3>6. Elsewhere(Moved(done, v))
      <4> HIDE DEF done
      <4> QED BY <3>3, <3>4, <3>5
    <3> QED BY <3>1, <3>3, <3>6
  <2> QED BY <2>1, <2>2, <2>3, <2>4, <2>5, <2>6
<1> QED BY <1>1, <1>3, LogQuietStep DEF At

\* While the log can be read, no decision logged is lost, whoever is killed where and
\* whatever else is appended.
THEOREM DecisionsKept ==
  ASSUME "read" \notin LogFaults
  PROVE  Spec => []DecisionsAreKept
<1>1. Init => LogInv
  BY DEF Init, LogInv, At, Idle, DecisionsAreKept
<1>2. LogInv /\ [Next]_vars => LogInv'
  <2> SUFFICES ASSUME LogInv, [Next]_vars  PROVE LogInv'
    OBVIOUS
  <2>1. CASE World
    <3>1. UNCHANGED <<run, log, logged, locked>>
      BY <2>1 DEF World, Edit, ChangePolicy, WriteVerdict, ChangeTicket, history
    <3> QED BY <3>1 DEF LogInv, At, DecisionsAreKept
  <2>2. CASE UNCHANGED vars
    BY <2>2 DEF vars, history, LogInv, At, DecisionsAreKept
  <2>3. ASSUME NEW v \in Verifiers, Verify(v)  PROVE LogInv'
    <3>1. CASE ReadLog(v)  BY <3>1, ReadLogStep, GatekeeperAssumption
    <3>2. CASE WriteLog(v)  BY <3>2, WriteLogStep
    <3>3. CASE Other(v) /\ ~ReadLog(v) /\ ~WriteLog(v)  BY <3>3, OtherLogStep
    <3>4. CASE ~Other(v)  BY <2>3, <3>4, CacheLogStep DEF Verify, Other
    <3> QED BY <3>1, <3>2, <3>3, <3>4
  <2> QED BY <2>1, <2>2, <2>3 DEF Next
<1>3. LogInv => DecisionsAreKept  BY DEF LogInv
<1> QED BY <1>1, <1>2, <1>3, PTL DEF Spec
=============================================================================
