--------------------------- MODULE DiscoveryPool ---------------------------
(***************************************************************************)
(* codebot/discovery_daemon.py beside the health tick of the orchestrator: *)
(* the daemon's thread starts the bots of the discovery roles in turn,     *)
(* while the main thread handles their exits, restarts those it takes for  *)
(* stuck, reloads those whose prompt changed and stops them all at the     *)
(* end.  Both write bot.process; nothing locks it.  A handle that is       *)
(* overwritten or cleared while its process lives is forgotten, here as    *)
(* in the code: nobody counts or stops that process again.                 *)
(*                                                                         *)
(* Whether a bot is disabled, or has used up its restarts, only says which *)
(* handlers pass it over; no handler is promised to run here.              *)
(***************************************************************************)
EXTENDS Integers, FiniteSets

CONSTANTS
  Roles,          \* how many discovery roles there are; a role is its place in the ring
  MaxConcurrent,  \* DISCOVERY_MAX_CONCURRENT
  Flaky           \* the roles whose launch may fail

ASSUME DiscoveryAssumption ==
  /\ Roles \in Nat \ {0} /\ MaxConcurrent \in Nat \ {0}
  /\ Flaky \subseteq 0..(Roles - 1)

Role == 0..(Roles - 1)

VARIABLES
  process,   \* bot.process of each role: none, or that of a process that lives or is dead
  cooling,   \* the roles on cooldown: next_run_at, _last_run or a heartbeat of the last minute
  draining,  \* whether .drain exists
  main,      \* where the main thread is, and with which role
  daemon,    \* where the daemon's thread is
  next       \* _next_index

poolVars == <<process, cooling, draining, main, daemon, next>>

Live == {r \in Role : process[r] = "live"}
Assign(r, p) == process' = [process EXCEPT ![r] = p]

At(where, r) == [at |-> where, of |-> r]
Tending == At("tending", 0)   \* between two handlers of a tick
Off == At("off", 0)

Resting == [at |-> "resting", i |-> 0, left |-> 0, next |-> 0]

\* Heartbeat files of an earlier run may be there; os.execv begins here again, too.
PoolInit ==
  /\ process = [r \in Role |-> "none"]
  /\ cooling \in SUBSET Role /\ draining \in BOOLEAN
  /\ main = Tending /\ daemon = Resting /\ next = 0

\* _launch_bot_subprocess, _update_bot_after_launch
Popen(r) == Assign(r, "live") /\ cooling' = cooling \cup {r}

-----------------------------------------------------------------------------
(* The daemon: tick() *)

\* What _running_count leaves of the pool.  The handles are read at once, which is short
\* against every other step.
ToSpawn == MaxConcurrent - Cardinality(Live)

Scan(i, left, nxt) == [at |-> "scan", i |-> i, left |-> left, next |-> nxt]

\* The loop asks for the shutdown flag, tick() for the drain, then for room.
Tick ==
  /\ daemon = Resting /\ main.at \notin {"shutdown", "off"} /\ ~draining
  /\ Cardinality(Live) < MaxConcurrent
  /\ daemon' = Scan(0, ToSpawn, next)
  /\ UNCHANGED <<process, cooling, draining, main, next>>

Candidate == (next + daemon.i) % Roles
PassedOver(r) == process[r] = "live" \/ r \in cooling
\* Mutant: the loop goes on when the room is used up.
ScanningOn == daemon.at = "scan" /\ daemon.i < Roles
Scanning == daemon.at = "scan" /\ daemon.i < Roles /\ daemon.left > 0

\* Mutant: the next tick starts at the role started last, not behind it.
SameIndex(r) == r
NextIndex(r) == (r + 1) % Roles

\* A role whose bot runs or that is on cooldown is passed over.
Skip ==
  /\ Scanning /\ PassedOver(Candidate)
  /\ daemon' = Scan(daemon.i + 1, daemon.left, daemon.next)
  /\ UNCHANGED <<process, cooling, draining, main, next>>

\* _ensure_bot, and _launch up to the prompt, the state file and the heartbeat.
Prepare ==
  /\ Scanning /\ ~PassedOver(Candidate)
  /\ daemon' = [daemon EXCEPT !.at = "launch"]
  /\ UNCHANGED <<process, cooling, draining, main, next>>

Launch ==
  /\ daemon.at = "launch"
  /\ Popen(Candidate)
  /\ daemon' = Scan(daemon.i + 1, daemon.left - 1, NextIndex(Candidate))
  /\ UNCHANGED <<draining, main, next>>

\* The role is paused, its prompt is missing, or anything else raises.
LaunchFails ==
  /\ daemon.at = "launch" /\ Candidate \in Flaky
  /\ daemon' = Scan(daemon.i + 1, daemon.left, daemon.next)
  /\ UNCHANGED <<process, cooling, draining, main, next>>

TickEnds ==
  /\ daemon.at = "scan" /\ ~Scanning
  /\ daemon' = Resting /\ next' = daemon.next
  /\ UNCHANGED <<process, cooling, draining, main>>

\* The main thread clears the handle between tick()'s two looks at it: None.poll() raises,
\* and where the tick has come to is forgotten.
TickRaises ==
  /\ Scanning /\ main.at \in {"exited", "stopping", "reloading", "shutdown"}
  /\ main.at # "shutdown" => main.of = Candidate
  /\ daemon' = Resting
  /\ UNCHANGED <<process, cooling, draining, main, next>>

-----------------------------------------------------------------------------
(* The main thread.  A tick goes through its handlers in a fixed order; since what they *)
(* look for may appear at any moment, any order of them is that of some ticks.          *)

\* handle_exited_bots: poll() has answered; events and reports are written.
SeeExit(r) ==
  /\ main = Tending /\ process[r] = "dead"
  /\ main' = At("exited", r)
  /\ UNCHANGED <<process, cooling, draining, daemon, next>>

\* ... and the handle is cleared, whatever it names by now.
HandleExit ==
  /\ main.at = "exited"
  /\ Assign(main.of, "none") /\ cooling' = cooling \cup {main.of}
  /\ main' = Tending
  /\ UNCHANGED <<draining, daemon, next>>

\* stop_bot: SIGTERM, and SIGKILL after five seconds; from restart_bot for a bot taken for
\* stuck, or from check_prompt_changes.
Stop(r, why) ==
  /\ main = Tending /\ process[r] = "live"
  /\ Assign(r, "dead") /\ main' = At(why, r)
  /\ UNCHANGED <<cooling, draining, daemon, next>>

\* It clears the handle when it has waited for the process.
Stopped ==
  /\ main.at \in {"stopping", "reloading"}
  /\ Assign(main.of, "none")
  /\ main' = IF main.at = "stopping" THEN At("restart", main.of) ELSE Tending
  /\ UNCHANGED <<cooling, draining, daemon, next>>

\* After the cooldown of its model the bot is started again, unless start_bot finds it
\* paused, without work, without a slot or without its prompt.
Restart ==
  /\ main.at = "restart"
  /\ \/ Popen(main.of)
     \/ UNCHANGED process /\ cooling' \in {cooling, cooling \cup {main.of}}
  /\ main' = Tending
  /\ UNCHANGED <<draining, daemon, next>>

\* run_main_loop after a signal, or check_self_restart: the bots are stopped one after
\* another.
Quit ==
  /\ main = Tending
  /\ main' = At("shutdown", 0)
  /\ UNCHANGED <<process, cooling, draining, daemon, next>>

StopNext(r) ==
  /\ main.at = "shutdown" /\ process[r] # "none"
  /\ Assign(r, "none")
  /\ UNCHANGED <<cooling, draining, main, daemon, next>>

\* The process ends, and the daemon's thread with it wherever it is; also before all bots
\* are stopped, if the daemon adds one to the dictionary that is gone through.  A bot that
\* runs by then runs on.
Exit ==
  /\ main.at = "shutdown"
  /\ main' = Off /\ daemon' = Resting
  /\ UNCHANGED <<process, cooling, draining, next>>

-----------------------------------------------------------------------------
(* Bots end, minutes pass, the operator drains. *)

BotEnds(r) ==
  /\ main # Off /\ process[r] = "live"
  /\ Assign(r, "dead")
  /\ UNCHANGED <<cooling, draining, main, daemon, next>>

CooldownEnds(r) ==
  /\ main # Off /\ r \in cooling
  /\ cooling' = cooling \ {r}
  /\ UNCHANGED <<process, draining, main, daemon, next>>

Drain ==
  /\ main # Off /\ draining' = ~draining
  /\ UNCHANGED <<process, cooling, main, daemon, next>>

DaemonStep == Tick \/ Skip \/ Prepare \/ Launch \/ LaunchFails \/ TickEnds

MainStep ==
  \/ \E r \in Role : SeeExit(r) \/ Stop(r, "stopping") \/ Stop(r, "reloading") \/ StopNext(r)
  \/ HandleExit \/ Stopped \/ Restart \/ Quit \/ Exit

World == Drain \/ \E r \in Role : BotEnds(r) \/ CooldownEnds(r)

PoolNext == DaemonStep \/ TickRaises \/ MainStep \/ World

\* The thread runs, minutes pass, and the bots, started again and again, end.
PoolFairness ==
  /\ WF_poolVars(DaemonStep)
  /\ \A r \in Role : WF_poolVars(CooldownEnds(r)) /\ SF_poolVars(BotEnds(r))

PoolSpec == PoolInit /\ [][PoolNext]_poolVars /\ PoolFairness

-----------------------------------------------------------------------------
PoolTypeOK ==
  /\ process \in [Role -> {"none", "live", "dead"}] /\ cooling \subseteq Role
  /\ draining \in BOOLEAN /\ next \in Role
  /\ main \in [at : {"tending", "exited", "stopping", "reloading", "restart", "shutdown", "off"},
                of : Role]
  /\ daemon \in [at : {"resting", "scan", "launch"}, i : 0..Roles, left : 0..MaxConcurrent,
                  next : Role]

\* The daemon's bots never take more than one place beyond its own (discovery_daemon.py:23,
\* "Own concurrency: 5 slots"): the place of the one bot the main thread is just restarting,
\* which the daemon cannot see, although exits, restarts and launches go on during its tick.
PoolNearlyBounded == Cardinality(Live) <= MaxConcurrent + 1

\* The roles take turns (docs/modules/discovery_daemon.md: "Round-robin 9 roles"): as long as
\* the orchestrator runs, is not drained again and again and the daemon's ticks do not raise
\* again and again, every role whose launch works runs again and again, also if other roles'
\* launches fail and bots are restarted.
RolesKeepRunning ==
  \/ []<>draining
  \/ <>(main.at \in {"shutdown", "off"})
  \/ []<><<TickRaises>>_poolVars
  \/ \A r \in Role \ Flaky : []<>(process[r] = "live")
=============================================================================
