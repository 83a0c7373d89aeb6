------------------------------- MODULE BotRun -------------------------------
(***************************************************************************)
(* The life of bot processes, codebot/api_runner.py, run_bot.  A bot reads *)
(* its ticket's scratchpad, works (AgentLoop) and leaves through a finally *)
(* block that writes the scratchpad again.  stop_bot sends SIGTERM at any  *)
(* moment and SIGKILL after it; the health loop reads the exit codes.      *)
(*                                                                         *)
(* Each bot of Bot is a process; two may bear one name.  Left out are the  *)
(* fail-open checkpoint, stream and heartbeat files, the size limit of a   *)
(* scratchpad, and the steps of write_text(tmp).                           *)
(***************************************************************************)
EXTENDS Integers

CONSTANTS
  Bot, NoBot,
  Pad, PadOf,   \* the scratchpad of each bot: its ticket's, or its own name's
  NoPad,        \* no temporary file
  Implementer,  \* the bots of implementer roles
  Hunter,       \* the bots of discovery roles: they have no ticket
  ReadsCodes,   \* FALSE: SIGCHLD is ignored, and poll() reports 0 for every exit
  MaxCrashes    \* bound: crashes of the orchestrator

\* A scratchpad: current_agent, and of agent_history the bots with a record of completion.
PadState == [agent : Bot \cup {NoBot}, history : SUBSET Bot]

ASSUME BotRunAssumption ==
  /\ NoBot \notin Bot /\ NoPad \notin PadState
  /\ PadOf \in [Bot -> Pad]
  /\ Implementer \subseteq Bot /\ Hunter \subseteq Bot
  /\ ReadsCodes \in BOOLEAN /\ MaxCrashes \in Nat

VARIABLES
  pc,       \* where each process is
  end,      \* the kind of exit_reason, the exit code; tickets made, and known to be made
  mem,      \* _scratch_state of each process
  pads,     \* the scratchpad files
  tmp,      \* their temporary files: one name for all who save a scratchpad
  marker,   \* the .no_tickets files
  stopped,  \* the bots stop_bot has signalled
  orphans,  \* the bots whose orchestrator has died
  crashes

vars == <<pc, end, mem, pads, tmp, marker, stopped, orphans, crashes>>
files == <<pads, tmp>>
fate == <<stopped, orphans, crashes>>

Saving == {"enter", "entering", "limit", "limiting", "record", "recording"}
Alive == Saving \cup {"boot", "work", "leave"}
PC == Alive \cup {"off", "dead", "noting"}
Starting == {"boot", "enter", "entering"}  \* before the SIGTERM handler is installed
Trying == {"work", "limit", "limiting"}
Finally == {"leave", "record", "recording"}

\* The kinds of exit_reason the finally block and the health loop tell apart: "interrupted"
\* is a timeout or a connection error, "failed" every other failure.
LoopKind == {"completed", "iteration_limit", "interrupted", "failed", "rate_limited_yield"}
Kind == LoopKind \cup {"none", "terminated"}

\* A death by signal, negative in Popen.returncode, is code 2 here.
Code == {0, 1, 2, 3, 143}
\* Mutant: a bot that used up its iterations reports success.
CodeOfLenient(kind) ==
  IF kind \in {"completed", "iteration_limit"} THEN 0 ELSE IF kind = "rate_limited_yield" THEN 3 ELSE 1
CodeOf(kind) == IF kind = "completed" THEN 0 ELSE IF kind = "rate_limited_yield" THEN 3 ELSE 1

\* How the agent loop may end.  tickets_created is copied from its result, and there is none
\* where the responder left it by sys.exit; a failure may or may not be a result.
Outcome ==
  {o \in [kind : LoopKind, code : {0, 1, 3}, made : BOOLEAN, known : BOOLEAN] :
     /\ o.code = CodeOf(o.kind)
     /\ o.known => o.made
     /\ o.kind \in {"completed", "iteration_limit"} => o.known = o.made
     /\ o.kind \in {"interrupted", "rate_limited_yield"} => ~o.known}

Fresh == [agent |-> NoBot, history |-> {}]
NewEnd == [kind |-> "none", code |-> 1, made |-> FALSE, known |-> FALSE]

Init ==
  /\ pc = [b \in Bot |-> "off"]
  /\ end = [b \in Bot |-> NewEnd]
  /\ mem = [b \in Bot |-> Fresh]
  /\ pads = [p \in Pad |-> Fresh] /\ tmp = [p \in Pad |-> NoPad]
  /\ marker = {} /\ stopped = {} /\ orphans = {}
  /\ crashes = 0

----------------------------------------------------------------------------
(* The scratchpad.  Every bot starts in stage IMPLEMENT, which keeps one    *)
(* record; the stage is empty exactly when there is no current agent.       *)

StartAgent(pad, b) == [agent |-> b, history |-> pad.history]

\* Mutant: the current agent is cleared before the record is made.
FinishAgentBlank(pad, done) ==
  [agent |-> NoBot, history |-> IF pad.agent = NoBot THEN pad.history ELSE {}]

\* The record of a failure, which is not kept here, drops the others just the same.
FinishAgent(pad, done) ==
  [agent |-> NoBot,
   history |-> (IF pad.agent = NoBot THEN pad.history ELSE {})
                 \cup IF done THEN {pad.agent} \ {NoBot} ELSE {}]

Goto(b, p) == pc' = [pc EXCEPT ![b] = p]

\* The process ends, and its memory with it.
Die(b, kind, code) ==
  /\ Goto(b, "dead")
  /\ end' = [end EXCEPT ![b] = [kind |-> kind, code |-> code, made |-> end[b].made,
                                known |-> end[b].known]]
  /\ mem' = [mem EXCEPT ![b] = Fresh]

Crash(b) == Die(b, end[b].kind, 1)

\* save_scratchpad writes a temporary file, then renames it.
WriteTmp(b) ==
  /\ \/ pc[b] = "enter" /\ Goto(b, "entering")
     \/ pc[b] = "limit" /\ Goto(b, "limiting")
     \/ pc[b] = "record" /\ Goto(b, "recording")
  /\ tmp' = [tmp EXCEPT ![PadOf[b]] = mem[b]]
  /\ UNCHANGED <<end, mem, pads, marker, fate>>

Renamed(p) ==
  /\ tmp[p] # NoPad
  /\ pads' = [pads EXCEPT ![p] = tmp[p]]
  /\ tmp' = [tmp EXCEPT ![p] = NoPad]

\* os.replace raises when another saver has renamed the temporary file.
RenameFailed(p) == tmp[p] = NoPad /\ UNCHANGED files

\* Where a bot goes on after a save, and what an OSError out of it leads to: before the
\* try and in the finally block nothing catches it.
Saved(b) ==
  /\ Renamed(PadOf[b])
  /\ \/ pc[b] = "entering" /\ Goto(b, "work") /\ UNCHANGED <<end, mem>>
     \/ pc[b] = "limiting" /\ Goto(b, "leave") /\ UNCHANGED <<end, mem>>
     \/ pc[b] = "recording" /\ Die(b, end[b].kind, end[b].code)
  /\ UNCHANGED <<marker, fate>>

NotSaved(b) ==
  /\ RenameFailed(PadOf[b])
  /\ \/ pc[b] \in {"entering", "recording"} /\ Crash(b)
     \/ pc[b] = "limiting" /\ Goto(b, "leave") /\ UNCHANGED <<end, mem>>
  /\ UNCHANGED <<marker, fate>>

----------------------------------------------------------------------------
(* A run.                                                                   *)

\* The dispatch gate lets one bot at a time work on a ticket; a bot that outlived its
\* orchestrator is not known to the next one.
Spawn(b) ==
  /\ pc[b] = "off"
  /\ \A c \in Bot : PadOf[c] = PadOf[b] => pc[c] = "off" \/ c \in orphans
  /\ Goto(b, "boot")
  /\ UNCHANGED <<end, mem, files, marker, fate>>

\* A drain request ends it at once with code 0, a missing API key with code 1.
Boot(b) ==
  /\ pc[b] = "boot"
  /\ \/ Die(b, "none", 0)
     \/ Crash(b)
     \/ /\ mem' = [mem EXCEPT ![b] = StartAgent(pads[PadOf[b]], b)]
        /\ Goto(b, "enter")
        /\ UNCHANGED end
  /\ UNCHANGED <<files, marker, fate>>

\* The loop ends, with a result or by sys.exit.  At the iteration limit the scratchpad is
\* saved before the finally block.
Ended(b, o) ==
  /\ pc[b] = "work"
  /\ end' = [end EXCEPT ![b] = o]
  /\ Goto(b, IF o.kind = "iteration_limit" THEN "limit" ELSE "leave")
  /\ UNCHANGED <<mem, files, marker, fate>>

\* Tickets are counted here for discovery roles only.
Work(b) == \E o \in Outcome : (o.made => b \in Hunter) /\ Ended(b, o)

\* The record in the scratchpad, which only these kinds get.
Recorded(pad, kind) ==
  IF kind \in {"interrupted", "iteration_limit"} THEN FinishAgent(pad, FALSE)
  ELSE IF kind = "completed" THEN FinishAgent(pad, TRUE)
  ELSE pad

\* Mutant: the marker does not look at exit_reason.
LeaveMarked(b) ==
  /\ pc[b] = "leave"
  /\ marker' = IF b \in Hunter /\ ~end[b].known THEN marker \cup {b} ELSE marker
  /\ mem' = [mem EXCEPT ![b] = Recorded(mem[b], end[b].kind)]
  /\ Goto(b, "record")
  /\ UNCHANGED <<end, files, fate>>

\* The finally block: the marker of a discovery bot that knows of no ticket it made, and
\* the scratchpad.
Leave(b) ==
  /\ pc[b] = "leave"
  /\ marker' = IF /\ b \in Hunter /\ ~end[b].known
                  /\ end[b].kind \in {"completed", "iteration_limit"}
               THEN marker \cup {b} ELSE marker
  /\ mem' = [mem EXCEPT ![b] = Recorded(mem[b], end[b].kind)]
  /\ Goto(b, "record")
  /\ UNCHANGED <<end, files, fate>>

----------------------------------------------------------------------------
(* Signals, the health loop and the orchestrator's end.                     *)

\* stop_bot, first half.  The handler raises SystemExit(143), which leads from the try to
\* the finally block and ends that one where it is.  The tickets made by then are not known.
Terminate(b) ==
  /\ pc[b] \in Alive /\ b \notin stopped \cup orphans
  /\ stopped' = stopped \cup {b}
  /\ \/ pc[b] \in Starting /\ Die(b, "none", 2)
     \/ pc[b] \in Finally /\ Die(b, "terminated", 143)
     \/ /\ pc[b] \in Trying
        /\ \E made \in IF pc[b] = "work" /\ b \in Hunter THEN BOOLEAN ELSE {end[b].made} :
             end' = [end EXCEPT ![b] = [kind |-> "terminated", code |-> 143, made |-> made,
                                        known |-> end[b].known]]
        /\ Goto(b, "leave")
        /\ UNCHANGED mem
  /\ UNCHANGED <<files, marker, orphans, crashes>>

\* SIGKILL: from stop_bot after five seconds, or the kernel's.
Kill(b) ==
  /\ pc[b] \in Alive
  /\ Die(b, end[b].kind, 2)
  /\ UNCHANGED <<files, marker, fate>>

\* The health loop adds a record of its own to the ticket's scratchpad when the code is
\* an error's, or a rate limit's of a role that does not implement.
Noted(b) ==
  /\ ReadsCodes /\ b \notin Hunter
  /\ end[b].code # 0 /\ ~(end[b].code = 3 /\ b \in Implementer)

\* Exits of bots it has stopped or never started it does not see.
Unseen(b) == b \in stopped \cup orphans

Gone(b) == Goto(b, "off") /\ end' = [end EXCEPT ![b] = NewEnd]

\* One thread handles the exits, one after another.
NoteExit(b) ==
  /\ pc[b] = "dead" /\ Noted(b) /\ ~Unseen(b)
  /\ \A c \in Bot : pc[c] # "noting"
  /\ tmp' = [tmp EXCEPT ![PadOf[b]] = FinishAgent(pads[PadOf[b]], FALSE)]
  /\ Goto(b, "noting")
  /\ UNCHANGED <<end, mem, pads, marker, fate>>

\* Its rename may fail as well, which is logged.
ExitNoted(b) ==
  /\ pc[b] = "noting"
  /\ Renamed(PadOf[b]) \/ RenameFailed(PadOf[b])
  /\ Gone(b)
  /\ UNCHANGED <<mem, marker, fate>>

ExitPassed(b) ==
  /\ pc[b] = "dead" /\ (~Noted(b) \/ Unseen(b))
  /\ \A c \in Bot : pc[c] # "noting"
  /\ Gone(b)
  /\ stopped' = stopped \ {b} /\ orphans' = orphans \ {b}
  /\ UNCHANGED <<mem, files, marker, crashes>>

\* The orchestrator dies and starts again; its bots run in sessions of their own.
OrchestratorCrash ==
  /\ crashes < MaxCrashes
  /\ crashes' = crashes + 1
  /\ orphans' = {b \in Bot : pc[b] \in Alive}
  /\ stopped' = stopped \cap orphans'
  /\ pc' = [b \in Bot |-> IF pc[b] \in Alive THEN pc[b] ELSE "off"]
  /\ end' = [b \in Bot |-> IF pc[b] \in Alive THEN end[b] ELSE NewEnd]
  /\ UNCHANGED <<mem, files, marker>>

\* What a bot does before and after its loop, and what is done to it.
Around(b) == WriteTmp(b) \/ Saved(b) \/ NotSaved(b) \/ Boot(b) \/ Leave(b)
Outside(b) ==
  Spawn(b) \/ Terminate(b) \/ Kill(b) \/ NoteExit(b) \/ ExitNoted(b) \/ ExitPassed(b)

Next == (\E b \in Bot : Around(b) \/ Work(b) \/ Outside(b)) \/ OrchestratorCrash

Spec == Init /\ [][Next]_vars

----------------------------------------------------------------------------
(* Properties.                                                              *)

TypeOK ==
  /\ pc \in [Bot -> PC]
  /\ end \in [Bot -> [kind : Kind, code : Code, made : BOOLEAN, known : BOOLEAN]]
  /\ mem \in [Bot -> PadState]
  /\ pads \in [Pad -> PadState] /\ tmp \in [Pad -> PadState \cup {NoPad}]
  /\ marker \subseteq Bot /\ stopped \subseteq Bot /\ orphans \subseteq Bot
  /\ crashes \in 0..MaxCrashes

\* A discovery bot is marked as having found nothing only when its run made no ticket,
\* although run_bot knows of none where the loop was left by an exception.
MarkerIsEarned ==
  [][\A b \in Bot : b \in marker' \ marker => b \in Hunter /\ ~end[b].made]_vars

\* A bot that has answered ends with code 0, unless a signal or another bot that saves the
\* same scratchpad gets in between; the other way round, code 0 means that it answered or
\* that it never began.
ExitTellsWhy ==
  [][\A b \in Bot : pc[b] \in Alive /\ pc'[b] = "dead" =>
       /\ end'[b].code = 0 => end[b].kind = "completed" \/ pc[b] = "boot"
       /\ end[b].kind = "completed" => \/ end'[b].code \in {0, 2}
                                         \/ b \in stopped' \/ crashes > 0]_vars

\* While one bot at a time works on a ticket, a bot that reports success has left its
\* record in the ticket's scratchpad for the next one.
CompletionIsHandedOn ==
  crashes = 0 =>
    \A b \in Bot : pc[b] = "dead" /\ end[b].kind = "completed" /\ end[b].code = 0 =>
      b \in pads[PadOf[b]].history

\* Every bot ends, whatever the model answers and whatever becomes of its scratchpad.
BotsEnd == \A b \in Bot : pc[b] \in Alive ~> pc[b] \notin Alive
=============================================================================
