------------------------------ MODULE PidFiles ------------------------------
(***************************************************************************)
(* The PID files of codebot: the orchestrator claims .orchestrator.pid at  *)
(* its start and releases it at its end (orchestrator_runtime.py); who     *)
(* launches a bot writes the bot's file (process_manager.py); the control  *)
(* server is asked to stop either by its file (control_server.py).  They   *)
(* are processes without a common lock, they are killed at any step, and   *)
(* the numbers are used again.                                             *)
(*                                                                         *)
(* The control server sends no signal: the descriptor it opens has no      *)
(* /proc/self/fd/<pidfd>/cmdline to read, and the name it compares with is *)
(* "__unused__".  All a request to stop changes is a stale file.           *)
(***************************************************************************)
EXTENDS Naturals

CONSTANT Pids   \* how many process numbers there are

ASSUME PidAssumption == Pids \in Nat

Pid == 1..Pids
NoPid == 0      \* no file, or none that holds a number
Named == {"orchestrator", "bot"}

VARIABLES
  runs,       \* what runs under each number: none, orchestrator, bot, other
  pidFile,    \* the number in each file
  claim,      \* where each orchestrator is in its claim or release, and what it has read
  unfiled,    \* bots that are started and have no file yet
  stopping,   \* where the control server is with a request to stop
  filed,      \* history: the bot that lives and was filed last
  overlapped  \* history: the files that two processes were about to change at once

pidVars == <<runs, pidFile, claim, unfiled, stopping, filed, overlapped>>

NoClaim == [at |-> "none", saw |-> NoPid]
ClaimAt(where) == [at |-> where, saw |-> NoPid]
NoRequest == [at |-> "none", name |-> "bot", pid |-> NoPid]

PidInit ==
  /\ runs \in [Pid -> {"none", "other"}]
  /\ pidFile = [n \in Named |-> NoPid]
  /\ claim = [p \in Pid |-> NoClaim] /\ unfiled = {} /\ stopping = NoRequest
  /\ filed = NoPid /\ overlapped = {}

Run(p, what) == runs' = [runs EXCEPT ![p] = what]
Claim(p, c) == claim' = [claim EXCEPT ![p] = c]
Put(n, p) == pidFile' = [pidFile EXCEPT ![n] = p]

\* The numbers are handed out in turn: none is used again before its launcher has filed it.
Free(p) == runs[p] = "none" /\ p \notin unfiled

-----------------------------------------------------------------------------
(* Who is between its look at a file, or its start, and its change of the file *)

Changes(n) ==
  IF n = "bot" THEN unfiled'
  ELSE {p \in Pid : claim'[p].at \in {"read", "check", "truncate", "write"}}
\* A process whose number the file already holds is not in the way of a request to stop.
Asked(n, p) ==
  stopping'.at # "none" /\ stopping'.name = n /\ (n = "orchestrator" => claim'[p].saw # p)

Watch ==
  overlapped' = overlapped \cup
    {n \in Named : \E p \in Changes(n) : Asked(n, p) \/ \E q \in Changes(n) : q # p}

-----------------------------------------------------------------------------
(* The orchestrator: _claim_orchestrator_pid, _release_orchestrator_pid *)

OrchestratorStarts(p) ==
  /\ Free(p)
  /\ Run(p, "orchestrator") /\ Claim(p, ClaimAt("read"))
  /\ UNCHANGED <<pidFile, unfiled, stopping, filed>>

ReadFile(p) ==
  /\ claim[p].at = "read"
  /\ Claim(p, [at |-> "check", saw |-> pidFile["orchestrator"]])
  /\ UNCHANGED <<runs, pidFile, unfiled, stopping, filed>>

\* os.kill(pid, 0) answers for every process there is, also for one that is no orchestrator.
AlreadyRuns(p) == claim[p].saw \notin {NoPid, p} /\ runs[claim[p].saw] # "none"

Refuse(p) ==
  /\ claim[p].at = "check" /\ AlreadyRuns(p)
  /\ Run(p, "none") /\ Claim(p, NoClaim)
  /\ UNCHANGED <<pidFile, unfiled, stopping, filed>>

Proceed(p) ==
  /\ claim[p].at = "check" /\ ~AlreadyRuns(p)
  /\ Claim(p, [claim[p] EXCEPT !.at = "truncate"])
  /\ UNCHANGED <<runs, pidFile, unfiled, stopping, filed>>

\* write_text empties the file first; an empty file is read as none.
Truncate(p) ==
  /\ claim[p].at = "truncate"
  /\ Put("orchestrator", NoPid) /\ Claim(p, [claim[p] EXCEPT !.at = "write"])
  /\ UNCHANGED <<runs, unfiled, stopping, filed>>

WriteFile(p) ==
  /\ claim[p].at = "write"
  /\ Put("orchestrator", p) /\ Claim(p, ClaimAt("running"))
  /\ UNCHANGED <<runs, unfiled, stopping, filed>>

\* check_self_restart: os.execv begins the program again under its number.
Exec(p) ==
  /\ claim[p].at = "running"
  /\ Claim(p, [at |-> "read", saw |-> p])
  /\ UNCHANGED <<runs, pidFile, unfiled, stopping, filed>>

\* The main loop ends: the file is removed if it still holds the own number.
Release(p) ==
  /\ claim[p].at = "running"
  /\ Claim(p, ClaimAt("release"))
  /\ UNCHANGED <<runs, pidFile, unfiled, stopping, filed>>

ReadOwn(p) ==
  /\ claim[p].at = "release"
  /\ IF pidFile["orchestrator"] = p
     THEN Claim(p, ClaimAt("unlink")) /\ UNCHANGED runs
     ELSE Claim(p, NoClaim) /\ Run(p, "none")
  /\ UNCHANGED <<pidFile, unfiled, stopping, filed>>

UnlinkOwn(p) ==
  /\ claim[p].at = "unlink"
  /\ Put("orchestrator", NoPid) /\ Claim(p, NoClaim) /\ Run(p, "none")
  /\ UNCHANGED <<unfiled, stopping, filed>>

-----------------------------------------------------------------------------
(* Bots, and all other processes *)

\* _launch_bot_subprocess starts the process, then replaces the file; start_bot is called by
\* the orchestrator and by every `--start` of the control server or the command line.
LaunchBot(p) ==
  /\ Free(p)
  /\ Run(p, "bot") /\ unfiled' = unfiled \cup {p}
  /\ UNCHANGED <<pidFile, claim, stopping, filed>>

FileBot(p) ==
  /\ p \in unfiled
  /\ Put("bot", p) /\ unfiled' = unfiled \ {p}
  /\ filed' = IF runs[p] = "bot" THEN p ELSE NoPid
  /\ UNCHANGED <<runs, claim, stopping>>

\* The file cannot be written, or the launcher is killed.
FileBotFails(p) ==
  /\ p \in unfiled
  /\ unfiled' = unfiled \ {p}
  /\ UNCHANGED <<runs, pidFile, claim, stopping, filed>>

OtherStarts(p) ==
  /\ Free(p)
  /\ Run(p, "other")
  /\ UNCHANGED <<pidFile, claim, unfiled, stopping, filed>>

\* Ends, or is killed at any step; its file stays.
Dies(p) ==
  /\ runs[p] # "none"
  /\ Run(p, "none") /\ Claim(p, NoClaim)
  /\ filed' = IF filed = p THEN NoPid ELSE filed
  /\ UNCHANGED <<pidFile, unfiled, stopping>>

-----------------------------------------------------------------------------
(* The control server: _safe_kill_bot_process, _safe_kill_orchestrator *)

Request(where, n, p) == stopping' = [at |-> where, name |-> n, pid |-> p]

AskStop(n) ==
  /\ stopping = NoRequest /\ pidFile[n] # NoPid
  /\ Request("verify", n, pidFile[n])
  /\ UNCHANGED <<runs, pidFile, claim, unfiled, filed>>

\* The command line is the one expected, unless the process is just in execve.
LooksRight(n, p) == runs[p] = n
InExecve(p) == claim[p].at = "read"

\* _verify_and_signal_pidfd: nothing is sent.
NotSignalled ==
  /\ stopping.at = "verify" /\ LooksRight(stopping.name, stopping.pid)
  /\ stopping' = NoRequest
  /\ UNCHANGED <<runs, pidFile, claim, unfiled, filed>>

NotVerified ==
  /\ stopping.at = "verify"
  /\ ~LooksRight(stopping.name, stopping.pid) \/ InExecve(stopping.pid)
  /\ Request("gone", stopping.name, stopping.pid)
  /\ UNCHANGED <<runs, pidFile, claim, unfiled, filed>>

\* Mutant: what is not verified is taken for gone.
GoneUnseen(p) == TRUE
Gone(p) == runs[p] = "none"

KeepFile ==
  /\ stopping.at = "gone" /\ ~Gone(stopping.pid)
  /\ stopping' = NoRequest
  /\ UNCHANGED <<runs, pidFile, claim, unfiled, filed>>

SeeGone ==
  /\ stopping.at = "gone" /\ Gone(stopping.pid)
  /\ Request("unlink", stopping.name, stopping.pid)
  /\ UNCHANGED <<runs, pidFile, claim, unfiled, filed>>

\* Whatever number the file holds by now.
UnlinkStale ==
  /\ stopping.at = "unlink"
  /\ Put(stopping.name, NoPid) /\ stopping' = NoRequest
  /\ UNCHANGED <<runs, claim, unfiled, filed>>

PidStep ==
  \/ \E p \in Pid :
       \/ OrchestratorStarts(p) \/ ReadFile(p) \/ Refuse(p) \/ Proceed(p) \/ Truncate(p)
       \/ WriteFile(p) \/ Exec(p) \/ Release(p) \/ ReadOwn(p) \/ UnlinkOwn(p)
       \/ LaunchBot(p) \/ FileBot(p) \/ FileBotFails(p) \/ OtherStarts(p) \/ Dies(p)
  \/ \E n \in Named : AskStop(n)
  \/ NotSignalled \/ NotVerified \/ KeepFile \/ SeeGone \/ UnlinkStale

PidNext == PidStep /\ Watch

PidSpec == PidInit /\ [][PidNext]_pidVars

-----------------------------------------------------------------------------
PidTypeOK ==
  /\ runs \in [Pid -> {"none", "orchestrator", "bot", "other"}]
  /\ pidFile \in [Named -> 0..Pids] /\ filed \in 0..Pids
  /\ claim \in [Pid -> [at : {"none", "read", "check", "truncate", "write", "running",
                              "release", "unlink"}, saw : 0..Pids]]
  /\ unfiled \subseteq Pid /\ overlapped \subseteq Named
  /\ stopping \in [at : {"none", "verify", "gone", "unlink"}, name : Named, pid : 0..Pids]

Working(p) == claim[p].at = "running"

\* A process that runs is in its file (control_server.py:519-547, "clean up PID file only after
\* confirmed exit"), so a second orchestrator finds the first and ends
\* (orchestrator_runtime.py:57): at most one orchestrator works, it is the one its file names,
\* and so is the bot that was filed last, whatever is killed, used again or asked to stop,
\* unless two of them were about to change the same file at once.
PidFilesTell ==
  /\ "orchestrator" \in overlapped
     \/ \A p \in Pid : Working(p) =>
          pidFile["orchestrator"] = p /\ \A q \in Pid : Working(q) => q = p
  /\ "bot" \in overlapped
     \/ filed \in {NoPid, pidFile["bot"]}
=============================================================================
