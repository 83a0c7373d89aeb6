---------------------------- MODULE Checkpoints ----------------------------
(***************************************************************************)
(* The checkpoint of a bot (codebot/process_manager.py): a primary file    *)
(* that is replaced as a whole, and a backup that is written in place.     *)
(* The bot's runner writes both; who starts the bot reads the primary,     *)
(* repairs the backup from it, and sets an unreadable primary aside.       *)
(* They are processes of their own: bots outlive the orchestrator that     *)
(* started them.  Either is killed at any step, and an agent told to leave *)
(* the primary alone may still write to it.                                *)
(***************************************************************************)
EXTENDS Naturals

CONSTANT Sessions   \* how many checkpoints the runner writes

ASSUME CheckpointAssumption == Sessions \in Nat

Version == 1..Sessions
\* What a file holds: nothing, the checkpoint of a session, a part of one, or what is no
\* checkpoint (no object, a wrong type, more than 4 KB).
NoCheckpoint == 0
Torn == Sessions + 1
Junk == Sessions + 2
Held == 0..(Sessions + 2)

VARIABLES
  primary, backup,
  session,    \* how many checkpoints the runner has begun to write
  runner,     \* where write_platform_checkpoint is
  starter,    \* where read_checkpoint is, and what it has read
  completed,  \* history: whether a checkpoint was written to the end
  spoilt      \* history: whether the backup was left torn by a kill, or mixed by two writers

ckptVars == <<primary, backup, session, runner, starter, completed, spoilt>>

Starter(where, v) == starter' = [at |-> where, read |-> v]
NoStart == [at |-> "none", read |-> NoCheckpoint]

CheckpointInit ==
  /\ primary = NoCheckpoint /\ backup = NoCheckpoint
  /\ session = 0 /\ runner = "none" /\ starter = NoStart
  /\ completed = FALSE /\ spoilt = FALSE

\* Mutant: any JSON is a checkpoint.
ValidAnyway(v) == v \in Version \cup {Junk}
\* validate_checkpoint_payload
Valid(v) == v \in Version

\* An empty backup is filled; what another has written since is only written over, and its
\* end may stay.
Overwrite(v) ==
  /\ backup' \in (IF backup = Torn THEN {v} ELSE {v, Junk})
  /\ spoilt' = (backup' # v)

-----------------------------------------------------------------------------
(* The runner: write_platform_checkpoint *)

ReplacePrimary ==
  /\ runner = "none" /\ session < Sessions
  /\ session' = session + 1 /\ primary' = session + 1
  /\ runner' = "replaced"
  /\ UNCHANGED <<backup, starter, completed, spoilt>>

OpenBackup ==
  /\ runner = "replaced"
  /\ backup' = Torn /\ runner' = "writing"
  /\ UNCHANGED <<primary, session, starter, completed, spoilt>>

WriteBackup ==
  /\ runner = "writing"
  /\ Overwrite(session) /\ runner' = "none"
  /\ completed' = TRUE
  /\ UNCHANGED <<primary, session, starter>>

\* OSError: the backup stays as it is, and the checkpoint counts as written.
BackupFails ==
  /\ runner = "replaced"
  /\ runner' = "none"
  /\ UNCHANGED <<primary, backup, session, starter, completed, spoilt>>

\* The agent's own write to the primary, while its runner runs.
AgentWrites ==
  /\ runner = "none"
  /\ primary' = Junk
  /\ UNCHANGED <<backup, session, runner, starter, completed, spoilt>>

-----------------------------------------------------------------------------
(* start_bot: read_checkpoint *)

\* No primary: the backup is returned if it is one, and nothing is changed.
ReadBackupOnly ==
  /\ starter = NoStart /\ primary = NoCheckpoint
  /\ UNCHANGED ckptVars

\* A primary that cannot be read just now is taken for a corrupt one.
ReadPrimary ==
  /\ starter = NoStart /\ primary # NoCheckpoint
  /\ \/ Valid(primary) /\ Starter("repair", primary)
     \/ Starter("setAside", primary)
  /\ UNCHANGED <<primary, backup, session, runner, completed, spoilt>>

\* The backup is written again from the text that was read.
OpenToRepair ==
  /\ starter.at = "repair"
  /\ backup' = Torn /\ Starter("repairing", starter.read)
  /\ UNCHANGED <<primary, session, runner, completed, spoilt>>

Repair ==
  /\ starter.at = "repairing"
  /\ Overwrite(starter.read) /\ starter' = NoStart
  /\ UNCHANGED <<primary, session, runner, completed>>

RepairFails ==
  /\ starter.at = "repair"
  /\ starter' = NoStart
  /\ UNCHANGED <<primary, backup, session, runner, completed, spoilt>>

\* _quarantine_checkpoint moves what the primary is by now, and the backup is read.
SetAside ==
  /\ starter.at = "setAside"
  /\ primary' = NoCheckpoint /\ starter' = NoStart
  /\ UNCHANGED <<backup, session, runner, completed, spoilt>>

-----------------------------------------------------------------------------
RunnerKilled ==
  /\ runner # "none"
  /\ runner' = "none"
  /\ spoilt' = (spoilt \/ runner = "writing")
  /\ UNCHANGED <<primary, backup, session, starter, completed>>

StarterKilled ==
  /\ starter # NoStart
  /\ starter' = NoStart
  /\ spoilt' = (spoilt \/ starter.at = "repairing")
  /\ UNCHANGED <<primary, backup, session, runner, completed>>

CheckpointNext ==
  \/ ReplacePrimary \/ OpenBackup \/ WriteBackup \/ BackupFails \/ AgentWrites
  \/ ReadBackupOnly \/ ReadPrimary \/ OpenToRepair \/ Repair \/ RepairFails \/ SetAside
  \/ RunnerKilled \/ StarterKilled

CheckpointSpec == CheckpointInit /\ [][CheckpointNext]_ckptVars

-----------------------------------------------------------------------------
CheckpointTypeOK ==
  /\ primary \in Held /\ backup \in Held /\ session \in 0..Sessions
  /\ runner \in {"none", "replaced", "writing"}
  /\ starter \in [at : {"none", "repair", "repairing", "setAside"}, read : Held]
  /\ completed \in BOOLEAN /\ spoilt \in BOOLEAN

\* Progress survives (docs/GAP-ANALYSIS.md:40, "Drain, checkpoint, heartbeat, crash recovery"):
\* once a checkpoint has been written to the end, the next start of the bot finds one, the
\* last or an earlier, whatever the agent writes to the primary and whoever is killed where,
\* unless the backup is just being written, was left torn by a kill, or mixed by two at once.
CheckpointSurvives ==
  completed =>
    \/ primary \in Version \/ backup \in Version
    \/ runner = "writing" \/ starter.at = "repairing"
    \/ spoilt
=============================================================================
