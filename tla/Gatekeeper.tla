----------------------------- MODULE Gatekeeper -----------------------------
(***************************************************************************)
(* codebot/gatekeeper.py and the parts of quality_gate.py and              *)
(* completion_commit.py it calls: the verification of tickets by several   *)
(* bot processes on one workspace, one gate_pass_cache.json and one        *)
(* gate_results.jsonl.                                                     *)
(*                                                                         *)
(* A verifier runs verify_ticket for its bot's ticket.  Before it runs     *)
(* the gates it asks the cache whether they passed already for the same    *)
(* files, contents, gates and revisions; the cache is one file for all     *)
(* tickets, read twice for one question and rewritten whole through a      *)
(* temporary name all processes share.  The decision goes to the log       *)
(* under a flock, by copying the whole log.                                *)
(*                                                                         *)
(* The outcome of the gates, of the coverage run and of git is free.       *)
(* Nothing is ever pushed: sync_ticket_issue returns no success (its body  *)
(* ends before the issue is looked up), so a ticket with files is sent     *)
(* back although its commit was made.                                      *)
(***************************************************************************)
EXTENDS Naturals, FiniteSets

CONSTANTS
  Tickets, Verifiers, Files, Contents,
  Of,           \* the ticket each verifier's bot owns
  Touches,      \* for each ticket, the sets of files its bots may have changed
  Modules,      \* for each ticket, the files it is to be committed with
  Classes,      \* the ticket classes a bot's name stands for
  MaxRuns,      \* bound: how many verifications each verifier makes
  MaxChanges,   \* bound: edits, commits and changes of policy, reviews and tickets
  LogFaults     \* which steps of _log_decision may raise OSError: {"read", "write"}

ASSUME GatekeeperAssumption ==
  /\ "nobody" \notin Verifiers
  /\ Of \in [Verifiers -> Tickets]
  /\ Touches \in [Tickets -> SUBSET (SUBSET Files)]
  /\ Modules \in [Tickets -> SUBSET Files]
  /\ MaxRuns \in [Verifiers -> Nat] /\ MaxChanges \in Nat

VARIABLES
  file,         \* the contents of the workspace's files
  policy, head, \* the version of the gate policy, and of git's HEAD
  revision,     \* each ticket's updated_at
  reviews,      \* the version of each ticket's review files
  changes,      \* how many changes were made so far
  cache, tmp,   \* gate_pass_cache.json and its one temporary file
  log, locked,  \* the lines of gate_results.jsonl, and who holds its flock
  run,          \* the verifiers
  paid,         \* history: what full runs of a ticket's gates have passed on
  skipped,      \* history: what gates were skipped for
  logged        \* history: the decisions whose logging succeeded

world == <<file, policy, head, revision, reviews, changes>>
history == <<paid, skipped, logged>>
vars == <<world, cache, tmp, log, locked, run, history>>

\* What a run of the gates depends on.  The names of the gates follow from the policy,
\* the ticket's class and the names of the files; conditions are never given.
Evidence(t, files, class, rev, pol, hd, evidence) ==
  [of |-> t, contents |-> [f \in files |-> file[f]], class |-> class,
   revision |-> rev, policy |-> pol, head |-> hd, reviews |-> evidence]

NoEntry == [of |-> "none"]
Nothing == [t \in Tickets |-> NoEntry]
Torn == [t \in Tickets |-> [of |-> "torn"]]      \* truncated, or mixed by two writers
Missing == [t \in Tickets |-> [of |-> "missing"]]

\* _load_pass_cache: what cannot be read or parsed is an empty cache.
Loaded == IF cache \in {Torn, Missing} THEN Nothing ELSE cache

Idle == [at |-> "idle", n |-> 0]
At(v) == run[v].at

Init ==
  /\ file \in [Files -> Contents] /\ policy = 0 /\ head = 0 /\ changes = 0
  /\ revision = [t \in Tickets |-> 0] /\ reviews = [t \in Tickets |-> 0]
  /\ cache = Missing /\ tmp = Missing
  /\ log = {} /\ locked = "nobody"
  /\ run = [v \in Verifiers |-> Idle]
  /\ paid = {} /\ skipped = {} /\ logged = {}

-----------------------------------------------------------------------------
(* verify_ticket up to the verdict of the gates *)

\* The arguments are checked, the policy is loaded and the ticket's revision is read.
Begin(v, files, class) ==
  /\ At(v) = "idle" /\ run[v].n < MaxRuns[v]
  /\ run' = [run EXCEPT ![v] =
       [at |-> "survey", n |-> @.n + 1, files |-> files, class |-> class,
        policy |-> policy, revision |-> revision[Of[v]]]]
  /\ UNCHANGED <<world, cache, tmp, log, locked, history>>

\* A malformed id or path: nothing is run, and the decision is FAIL.
Reject(v) ==
  /\ At(v) = "idle" /\ run[v].n < MaxRuns[v]
  /\ run' = [run EXCEPT ![v] = [at |-> "log", n |-> @.n + 1, decision |-> "FAIL"]]
  /\ UNCHANGED <<world, cache, tmp, log, locked, history>>

\* HEAD and the review files are fingerprinted.
Survey(v) ==
  /\ At(v) = "survey"
  /\ run' = [run EXCEPT ![v] = [at |-> "probe", n |-> @.n, files |-> @.files,
       class |-> @.class, policy |-> @.policy, revision |-> @.revision,
       head |-> head, reviews |-> reviews[Of[v]]]]
  /\ UNCHANGED <<world, cache, tmp, log, locked, history>>

Asked(v) == Evidence(Of[v], run[v].files, run[v].class, run[v].revision,
                     run[v].policy, run[v].head, run[v].reviews)

SameWork(e, a) == e # NoEntry /\ e.contents = a.contents /\ e.class = a.class
\* Mutant: the policy's revision is not compared.
SameRevisionsButPolicy(e, a) ==
  /\ e # NoEntry
  /\ e.revision = a.revision /\ e.head = a.head /\ e.reviews = a.reviews
SameRevisions(e, a) ==
  /\ e # NoEntry
  /\ e.revision = a.revision /\ e.policy = a.policy
  /\ e.head = a.head /\ e.reviews = a.reviews

Work(v, at, asked) ==
  [at |-> at, n |-> run[v].n, files |-> run[v].files, class |-> run[v].class,
   policy |-> run[v].policy, revision |-> run[v].revision, head |-> run[v].head,
   reviews |-> run[v].reviews, asked |-> asked]

\* check_gate_pass_cache compares files, their contents and the gates; a day-old entry
\* does not count.
Probe(v, fresh) ==
  LET hit == fresh /\ SameWork(Loaded[Of[v]], Asked(v)) IN
  /\ At(v) = "probe"
  /\ run' = [run EXCEPT ![v] = IF hit THEN Work(v, "compare", Asked(v))
                                      ELSE Work(v, "gates", NoEntry)]
  /\ UNCHANGED <<world, cache, tmp, log, locked, history>>

\* The cache is loaded once more to compare the revisions.
Compare(v) ==
  LET hit == SameRevisions(Loaded[Of[v]], run[v].asked) IN
  /\ At(v) = "compare"
  /\ run' = [run EXCEPT ![v] = IF hit THEN [at |-> "judge", n |-> @.n, passed |-> TRUE]
                                      ELSE Work(v, "gates", NoEntry)]
  /\ skipped' = IF hit THEN skipped \cup {run[v].asked} ELSE skipped
  /\ UNCHANGED <<world, cache, tmp, log, locked, paid, logged>>

\* run_quality_gates: failures are not remembered.
GatesFail(v) ==
  /\ At(v) = "gates"
  /\ run' = [run EXCEPT ![v] = [at |-> "judge", n |-> @.n, passed |-> FALSE]]
  /\ UNCHANGED <<world, cache, tmp, log, locked, history>>

\* After a full pass the cache is read and the entry is made: the files are hashed only
\* now, the revisions are those of the beginning.
GatesPass(v) ==
  /\ At(v) = "gates"
  /\ run' = [run EXCEPT ![v] = [at |-> "open", n |-> @.n,
                                mem |-> [Loaded EXCEPT ![Of[v]] = Asked(v)]]]
  /\ paid' = paid \cup {Asked(v)}
  /\ UNCHANGED <<world, cache, tmp, log, locked, skipped, logged>>

-----------------------------------------------------------------------------
(* _store_pass_cache: every process writes to gate_pass_cache.json.tmp *)

\* write_text truncates the file; fd is where the process's descriptor leads to.
OpenTmp(v) ==
  /\ At(v) = "open"
  /\ tmp' = Torn
  /\ run' = [run EXCEPT ![v] = [at |-> "fill", n |-> @.n, mem |-> @.mem, fd |-> "tmp"]]
  /\ UNCHANGED <<world, cache, log, locked, history>>

\* The bytes reach the file just truncated, or mix with those of another writer.
Written(now, mem) == IF now = Torn THEN {mem} ELSE {mem, Torn}

FillTmp(v) ==
  /\ At(v) = "fill"
  /\ run' = [run EXCEPT ![v] = [at |-> "publish", n |-> @.n]]
  /\ \/ run[v].fd = "tmp" /\ tmp' \in Written(tmp, run[v].mem) /\ UNCHANGED cache
     \/ run[v].fd = "cache" /\ cache' \in Written(cache, run[v].mem) /\ UNCHANGED tmp
     \/ run[v].fd = "gone" /\ UNCHANGED <<cache, tmp>>
  /\ UNCHANGED <<world, log, locked, history>>

\* os.replace moves the file under the descriptors of the others; without a temporary
\* file it raises, which is ignored.
Moved(r, v) ==
  [w \in Verifiers |->
     IF w # v /\ At(w) = "fill"
     THEN [at |-> "fill", n |-> r[w].n, mem |-> r[w].mem,
           fd |-> IF r[w].fd = "tmp" THEN "cache" ELSE "gone"]
     ELSE r[w]]

Publish(v) ==
  LET done == [run EXCEPT ![v] = [at |-> "judge", n |-> @.n, passed |-> TRUE]] IN
  /\ At(v) = "publish"
  /\ IF tmp = Missing
     THEN run' = done /\ UNCHANGED <<cache, tmp>>
     ELSE run' = Moved(done, v) /\ cache' = tmp /\ tmp' = Missing
  /\ UNCHANGED <<world, log, locked, history>>

-----------------------------------------------------------------------------
(* The verdict, the commit, the log and the ticket *)

Line(v, kind) == [by |-> v, n |-> run[v].n, kind |-> kind]

Decided(v, decision, at) ==
  run' = [run EXCEPT ![v] = [at |-> at, n |-> @.n, decision |-> decision]]

\* _coverage_evaluation: full coverage of the changed modules, or a failed gate more.
Coverage == BOOLEAN

\* Coverage may fail what the gates passed.  record_gate_results appends to the log
\* without its lock.
Judge(v, covered) ==
  /\ At(v) = "judge"
  /\ log' = log \cup {Line(v, "gates")}
  /\ IF ~(run[v].passed /\ covered) THEN Decided(v, "REWORK", "log")
     ELSE IF Modules[Of[v]] = {} THEN Decided(v, "COMPLETE", "log")
     ELSE Decided(v, "REWORK", "commit")
  /\ UNCHANGED <<world, cache, tmp, locked, history>>

\* An append, a packet or a repository access that raises ends in verification_error.
Raise(v) ==
  /\ At(v) \in {"survey", "gates", "judge"}
  /\ Decided(v, "FAIL", "log")
  /\ UNCHANGED <<world, cache, tmp, log, locked, history>>

\* sync_ticket_issue answers (False, why) or, once gh is authenticated, nothing at all,
\* which its caller cannot unpack.
SyncOutcomes == {"refused", "raises"}
\* push_current_branch: GITHUB_DRY_RUN, the environment of git and git itself decide.
PushOutcomes == BOOLEAN

\* _commit_completed_ticket
Provenance(pushed, sync) == IF pushed /\ sync = "synced" THEN "COMPLETE" ELSE "PROVENANCE"

\* commit_ticket_files commits on the ticket's branch (or finds nothing to commit, or
\* fails); the commit is recorded only if it was pushed and the issue synchronised.
Commit(v, pushed, sync) ==
  /\ At(v) = "commit"
  /\ Decided(v, Provenance(pushed, sync), "log")
  /\ \/ /\ changes < MaxChanges
        /\ changes' = changes + 1 /\ head' = head + 1
     \/ UNCHANGED <<changes, head>>
  /\ UNCHANGED <<file, policy, revision, reviews, cache, tmp, log, locked, history>>

\* A ticket with a commit_sha is not committed again.
AlreadyCommitted(v) ==
  /\ At(v) = "commit"
  /\ Decided(v, "COMPLETE", "log")
  /\ UNCHANGED <<world, cache, tmp, log, locked, history>>

\* Mutant: the lock file is not locked.
LogFreeAlways == TRUE
\* _log_decision takes the flock and reads the whole log; a log that cannot be read
\* counts as empty.
LogFree == locked = "nobody"
ReadLog(v) ==
  /\ At(v) = "log" /\ LogFree
  /\ locked' = v
  /\ \E copy \in {log} \cup (IF "read" \in LogFaults THEN {{}} ELSE {}) :
       run' = [run EXCEPT ![v] = [at |-> "write", n |-> @.n, decision |-> @.decision,
                                  copy |-> copy]]
  /\ UNCHANGED <<world, cache, tmp, log, history>>

\* ... writes it with its line under a name of its own, and renames.
WriteLog(v) ==
  LET line == Line(v, run[v].decision) IN
  /\ At(v) = "write"
  /\ locked' = "nobody"
  /\ Decided(v, run[v].decision, "move")
  /\ log' = run[v].copy \cup {line}
  /\ logged' = logged \cup {line}
  /\ UNCHANGED <<world, cache, tmp, paid, skipped>>

\* OSError: the line is given up, the lock is released.
LogFails(v) ==
  /\ At(v) = "write" /\ "write" \in LogFaults
  /\ locked' = "nobody"
  /\ Decided(v, run[v].decision, "move")
  /\ UNCHANGED <<world, cache, tmp, log, history>>

\* _transition_ticket sends a ticket in REVIEW back, which changes its revision; it never
\* completes one, since REVIEW -> COMPLETE is not in the table, and skips other states.
SendBack(v) ==
  /\ At(v) = "move" /\ run[v].decision # "COMPLETE" /\ changes < MaxChanges
  /\ changes' = changes + 1
  /\ revision' = [revision EXCEPT ![Of[v]] = @ + 1]
  /\ run' = [run EXCEPT ![v] = [at |-> "idle", n |-> @.n]]
  /\ UNCHANGED <<file, policy, head, reviews, cache, tmp, log, locked, history>>

\* The failed transition of a first decision is logged as REWORK, and tried once more.
NotMoved(v) ==
  /\ At(v) = "move"
  /\ IF run[v].decision \in {"COMPLETE", "REWORK"}
     THEN Decided(v, "FALLBACK", "log")
     ELSE run' = [run EXCEPT ![v] = [at |-> "idle", n |-> @.n]]
  /\ UNCHANGED <<world, cache, tmp, log, locked, history>>

\* The bot is killed; the kernel releases its flock.
Kill(v) ==
  /\ At(v) # "idle"
  /\ run' = [run EXCEPT ![v] = [at |-> "idle", n |-> @.n]]
  /\ locked' = IF locked = v THEN "nobody" ELSE locked
  /\ UNCHANGED <<world, cache, tmp, log, history>>

-----------------------------------------------------------------------------
(* The rest of the world: bots edit files, reviewers write verdicts, an operator edits
   the policy, services change tickets.  Contents may return to what they were. *)

Edit(f, c) ==
  /\ changes < MaxChanges /\ file[f] # c
  /\ changes' = changes + 1 /\ file' = [file EXCEPT ![f] = c]
  /\ UNCHANGED <<policy, head, revision, reviews, cache, tmp, log, locked, run, history>>

ChangePolicy ==
  /\ changes < MaxChanges
  /\ changes' = changes + 1 /\ policy' = policy + 1
  /\ UNCHANGED <<file, head, revision, reviews, cache, tmp, log, locked, run, history>>

\* write_verdict, through the write tool of a reviewer's bot
WriteVerdict(t) ==
  /\ changes < MaxChanges
  /\ changes' = changes + 1 /\ reviews' = [reviews EXCEPT ![t] = @ + 1]
  /\ UNCHANGED <<file, policy, head, revision, cache, tmp, log, locked, run, history>>

ChangeTicket(t) ==
  /\ changes < MaxChanges
  /\ changes' = changes + 1 /\ revision' = [revision EXCEPT ![t] = @ + 1]
  /\ UNCHANGED <<file, policy, head, reviews, cache, tmp, log, locked, run, history>>

Verify(v) ==
  \/ \E files \in Touches[Of[v]], class \in Classes : Begin(v, files, class)
  \/ Reject(v) \/ Survey(v)
  \/ \E fresh \in BOOLEAN : Probe(v, fresh)
  \/ Compare(v) \/ GatesFail(v) \/ GatesPass(v)
  \/ OpenTmp(v) \/ FillTmp(v) \/ Publish(v)
  \/ \E covered \in Coverage : Judge(v, covered)
  \/ Raise(v) \/ AlreadyCommitted(v)
  \/ \E pushed \in PushOutcomes, sync \in SyncOutcomes : Commit(v, pushed, sync)
  \/ ReadLog(v) \/ WriteLog(v) \/ LogFails(v)
  \/ SendBack(v) \/ NotMoved(v) \/ Kill(v)

World ==
  \/ \E f \in Files, c \in Contents : Edit(f, c)
  \/ ChangePolicy
  \/ \E t \in Tickets : WriteVerdict(t) \/ ChangeTicket(t)

Next == (\E v \in Verifiers : Verify(v)) \/ World

Spec == Init /\ [][Next]_vars

-----------------------------------------------------------------------------
\* Gates are skipped only for files, contents and gates a full run of this very ticket's
\* gates has passed on, and only at a policy, HEAD, reviews and ticket such a run began at
\* (quality_gate.py, run_quality_gates_with_cache: "Any mismatch forces a full gate
\* re-run"), although verifiers put old copies of the cache back and tear it.  Since the
\* cache is read twice, the two may be different runs.
SkipsArePaid ==
  \A s \in skipped :
    /\ \E a \in paid : a.of = s.of /\ SameWork(a, s)
    /\ \E b \in paid : /\ b.of = s.of /\ b.revision = s.revision /\ b.policy = s.policy
                       /\ b.head = s.head /\ b.reviews = s.reviews

\* A decision that was logged stays in the log, whoever copies, appends and is killed
\* (gatekeeper.py, _log_decision: "Read existing content to preserve history").
DecisionsAreKept == logged \subseteq log
=============================================================================
