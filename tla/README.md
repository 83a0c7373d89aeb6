# CodeBot: TLA+ models, model checking and proofs

This directory holds a verification development of CodeBot: TLA+ modules
translated from the Python sources under `codebot/`, TLC configurations that
check them on small instances, and TLAPS proofs of the same properties for any
instance. Line numbers refer to the sources; `PROJECT.json` gives the lines behind every
definition.

## 1. The system

CodeBot drives software-engineering *tickets* through a lifecycle. One
orchestrator process ticks: it reconciles agents, dispatches tickets to bot
subprocesses, and handles the exits of the bots. Bots call an LLM, use tools,
and report by writing files. Everything is shared through files under the state
directory, guarded by `flock`, and by threads of one process, guarded by locks.

| part | state | operations | interacts by |
|---|---|---|---|
| Ticket store, storage engine (`ticket_engine.py`) | `_tickets`, `_dirty_ids`, `_pending_flush`, save queue; `tickets.json`, `tickets.wal.jsonl`, `tickets.lock` | `add`, `transition`, `batch_transition`, `record_commit`, `update_context_fields`, `remove`, `flush`, background save, load | threads under one RLock; other processes through the files |
| Ticket lifecycle (`ticket_engine.py`, `context_contracts.py`) | a ticket's state, feedback, evidence fields; gate-failure artifacts | `transition`, contracts, gate failures | called by every service |
| Ticket indexes (`ticket_engine.py`) | evidence, fingerprint, state indexes | maintained by every call | read by discovery and dispatch |
| Context repair (`repair_claims.py`, `repair_applier.py`, `repair_handler.py`, `repair_context.py`) | gate-failure artifacts, repair claims | claim, run, apply, complete, reconcile | compare-and-swap on claim files and on the ticket |
| Dispatch gate (`scheduler_v2/dispatch_gate.py`) | concurrency reservations, claim files, spawn queue, active table | `try_dispatch`, `dequeue_ready`, `complete_dispatch`, `cancel_dispatch` | threads, claim files |
| Scheduler (`scheduler_v2/dispatcher.py`, `lifecycle.py`, `bucket_dispatcher.py`) | agent records, run lock, wake flag | tick, reconcile, finalise, sweep | the gate, the store, the process manager |
| Dispatch service, health loop (`dispatch_service.py`, `health_check_loop.py`, `ticket_dispatcher.py`) | running bots, exit codes | success and error transitions | the store, the gate |
| Bot runner (`api_runner.py`, `scratchpad.py`, `api_tools.py`, `tool_policy.py`, `checkpoint_manager.py`, `context_compactor.py`) | conversation, retry counters, scratchpad, `.no_tickets` marker, exit code | the turn loop, `run_bot` and its finally block | LLM, tools, ticket store; signals; the health loop reads its exit code |
| Gatekeeper and review (`gatekeeper.py`, `review_*.py`, `quality_gate.py`, `evidence_validator.py`, `completion_commit.py`) | verdict files, gate results | review, verify, commit | store, git |
| Discovery daemon (`discovery_daemon.py`, with the restarts of `bot_health.py`, `health_check_loop.py`) | `_next_index`, `bot.process`, cooldowns | tick, launch; exits, restarts, shutdown by the main thread | two threads through one unlocked handle |
| Ingestion and deduplication (`finding_ingestion.py`, `request_ingestion.py`, `add` in `ticket_engine.py`) | the inbox of files, evidence and fingerprint indexes | ingest, quarantine, move away, add | files of the bots, the store, other processes' log lines |
| Planning (`implementation_planner.py`, `task_splitter.py`, `dependency_graph.py`, ...) | plans, graphs | split, order | store |
| Process management (`process_manager.py`, `orchestrator_runtime.py`, `control_server.py`, `botop.py`, ...) | processes, PID files, checkpoints, commands | start, stop, restart, drain | signals, sockets, files |
| Models and budgets (`adaptive_rate_limiter.py`, `model_router.py`, `token_budget.py`, `cost_tracker.py`) | learned rates, cooldowns, windows, budgets | take a slot, record, choose | processes through one locked file |
| Learning (`rl_*.py`, `alignment_*.py`, metrics) | event logs, statistics | record, aggregate | files |

What makes it hard: threads share a store whose saving leaves and re-enters its
lock; processes share its files without always taking the file lock; a crash may
fall between any two file operations; claims, leases and artifacts are checked
at one moment and used at another; work may be retried after it was done.

What each part must guarantee, in order of importance: no completed call is lost
(store); a ticket moves only along its lifecycle, with its evidence (lifecycle);
a ticket is worked on by one bot at a time and comes free in the end (gate,
claims, leases); no transition is applied twice or on stale context (repair,
dispatch service); a bot ends, and its exit code and scratchpad say what it did (bot
runner); what was verified is what is let pass (gatekeeper); a finding becomes one
ticket (ingestion); what the files say of processes and progress is so (PID files,
checkpoints); limits and budgets hold (gate, discovery pool, rate limiter).

## 2. The modules

| module | what it is |
|---|---|
| `TicketLog` | the lines of the write-ahead log and its two readers (start-up, and the merge before a compaction) |
| `ReplayLoop` | the merge as the code's loop, the reference for its closed form in `TicketLog` |
| `TicketStore` | one process's store: API calls, savers, files, faults, crashes |
| `DurableMap` | what a store promises: a map that survives crashes; `TicketStore` refines it |
| `TicketStoreShared` | two processes (two instances of `TicketStore`) over the same files |
| `DispatchGate` | the gate's calls, step by step, by several threads |
| `WorkOwnership` | what the gate promises: exclusive, bounded ownership of tickets; `DispatchGate` and the whole tick of `Orchestrator` refine it |
| `Orchestrator` | the tick, with the gate's calls atomic, the bot processes and crashes |
| `LifecycleTable` | the lifecycle as data: moves, contracts, validators |
| `TicketLifecycle` | moves, batches, the context gate, repairs, goal decisions, restarts |
| `AgentLoop` | the turn loop of a bot with its nudges, retries and fallback models |
| `BotRun` | the life of bot processes: scratchpads, finally block, signals, the health loop's note |
| `BotRunner` | both: the work of one bot is `AgentLoop` turn by turn; refines `BotRun` |
| `ContextRepair` | claims, executions, completion, reconciliation and escalation of the repair of a refused ticket |
| `RepairRecord` | what the claims of those repairs promise, without results, locks and reconcilers; `ContextRepair` refines it |
| `Gatekeeper` | verifiers of tickets over one pass cache and one decision log |
| `DiscoveryPool` | the discovery daemon's thread beside the main thread |
| `FindingInbox` | the ingestion of findings over the store's duplicate indexes |
| `PidFiles` | orchestrators, launchers and the control server over the PID files |
| `Checkpoints` | a bot's checkpoint, its backup, and the reader that repairs it |
| `RateLimiter` | the bots' slots over the shared file of learned rates |
| `MC*` | small instances for TLC (`MCServices`: the last five); `*_proofs` theorems for TLAPS |

The modules meet at interfaces that one proves and the next assumes:
`TicketStore` shows that a completed call survives (under the conditions of
section 5), so `TicketLifecycle` keeps one durable ticket instead of a log;
`DispatchGate` shows that claims, slots and the active table agree whatever the
threads do, so `Orchestrator` takes the gate's calls as atomic, and is proved to keep the
gate's promise over whole ticks and crashes (both refine `WorkOwnership`). `BotsEnd` is what
`Orchestrator` assumes of its bots, and the exit codes it handles are those `BotRun`
explains. `Gatekeeper` is what `VerdictWritten` stands for when the verifier is the gatekeeper's
own code; `ContextRepair` follows one artifact that `TransitionRefused` wrote.

### Ticket store

An API call runs under the store's RLock from its first read to its append to
the log, so each is one action (`Add`, `Transition`, `BatchTransition`,
`RecordCommit`, `UpdateContextFields`, `Remove`). `_save()` takes and leaves
that lock three times; each stretch is an action of the saver that runs it
(`Begin`, `NothingDirty`, `HandOff`, `Lock`, `AppendLines`, `FinishAppend`, or
`Build`, `Replace`, `ClearWal`). `SaveIOError`, `LockError`, `ReplaceError` are
its handlers, `Crash` and `Restart` the process. A ticket is the number of the
call that wrote it and the `updated_at` that call left: `record_commit` and
`update_context_fields` leave the old one, which is what the merge compares.
The log is kept per ticket, because both readers treat tickets independently.

Abstracted: the save signal is set by the call although `_queue_save` runs just
after the RLock is left; the test that `tickets.json` exists is part of
`HandOff`; `close()` is a flush; `_FULL_SAVE_INTERVAL` is 50 in the code and a
parameter here. Not modelled: the backup files and `restore_latest_backup`, a
corrupt or oversized snapshot, an unreadable log (`_replay_wal` ignores it).

### Dispatch gate

`try_dispatch` is `Reserve`, `Claim`, `Enqueue`, `Record` (or `Unreserve`);
`cancel_dispatch` and `complete_dispatch` are `Pop`, `CheckOwner`, `Unlink`,
`ReleaseToken`, `Withdraw`, entered by `CancelCalled` or `CompleteCalled`; the drain is
`DequeueReady`. Each is one critical section; a thread's `job` says where it is.
Between `ReleaseToken` and `Withdraw` the slot is free while the request still waits,
so more than MAX_CONCURRENCY requests may wait for a moment.
Claim files of the older formats, the other fields of a claim, and clocks are
left out (a role is cooling or it is not).

### Orchestrator

`pc` follows `check_all_bots`: exits, absent agents, reconcile, dispatch, drain,
availability and gates. A bot is a process under a *name* (its role and the
first eight characters of the ticket's id, which tickets may share), an agent is
one dispatch. `BotExits`, `VerdictWritten` happen at any moment; `Crash` loses
the memory of the tick and leaves claim files and bots.

Abstracted: counters of restarts and rate-limit strikes are choices; a restart
that succeeds changes nothing a property sees; an agent id nothing refers to
stands for a fresh uuid4; `reviewer` stands for the six reviewer roles; a
contract's refusal of a transition is a choice here and computed in
`TicketLifecycle`. The record state RUNNING is never entered by the code. Not
modelled: self-restart and code reload, role caps, the plan gate and the choice
of models, triage fast paths, ingestion.

### Ticket lifecycle

`Transition` is `TicketStore.transition` with its gates in the code's order:
plan gate, context gate (`ContextOk`, which writes an artifact when it refuses:
`TransitionRefused`), table (`Legal`). A batch is taken item by item
(`BatchItem`), because an item may raise (`BatchFails` rolls back, `BatchEscapes`
is the OSError that is not rolled back) and the process may die between them.
`UpdateContextFields` is a repair's compare-and-set against the view that
`Freeze` took; `GoalDecision` writes the decision into memory after the move was
logged, as the health loop does; `Restart` brings back what was logged, with any
part of a batch under way, and artifacts not cleaned up.

A ticket's fields are kept by presence (`attempts` and `rework_count` are
present when positive), except `goal_disposition`, whose value contracts test.
Feedback passed with a move to REWORK adds nothing, since the contract asks for
feedback on the ticket as it is before. There is one repair at a time. Left out:
implementation approvals, lifecycle packets, learning events.

### Bot runner

`AgentLoop` is `run_agent_loop` and the responder `run_bot` gives it. A turn is
`Tools`, `Nudge` or `Answer`; a call of the model that fails is `CallFails`, with one
disjunct for each handler. Tools that only read cost a quarter of an iteration, so
iterations are counted in quarters. The messages, the warning against repeated calls and
what the tools do are left out, except that `create_ticket` may succeed.

`BotRun` follows a process by its `pc`: start (`boot`), the scratchpad's first save
(`enter`, `entering`), the try block (`work`, `limit`, `limiting`), the finally block
(`leave`, `record`, `recording`). A save is two steps, the temporary file and its rename,
because all who save a ticket's scratchpad use one temporary name. `Terminate` is
SIGTERM with the handler of `run_bot` (before it is installed the signal kills),
`Kill` is SIGKILL; `NoteExit` and `ExitNoted` are the record the health loop adds.
`OrchestratorCrash` leaves the bots alive, unknown to the next orchestrator.
`Outcome` is the set of ways `Work` may end, and `BotRunner` shows that the turn loop
ends in no other.

Abstracted: of a scratchpad's records only those of a completion are kept (a record of
failure still drops the others, as the IMPLEMENT stage keeps one record); the health
loop's load and write are one step. Left out: checkpoint, stream and heartbeat files,
which fail open, and the size limit of a scratchpad.

### Context repair

A claim file is read and written under its own lock from the first look to the last write;
`Locked` says who has it. `Claim` is `claim_repair` under the ticket's lock, `Start` and
`Propose` are the worker, `ResultOutdated`, `ResultRejected`, `ResultApplied`,
`ResultRefused` the ways through `handle_result`, whose later steps (`MarkApplied`,
`Complete`, `Retry`, `MarkCompleted`, `Retire`, `Lift`, `Escalate`, ...) are actions because
other threads and services act between them. `Scan` and `Reconcile` are
`reconcile_stale_claims`, which looks at a claim first and locks it later. The ticket is
kept by state, version and the set of fields a move would accept; one ticket in one state,
since claims, failures and proposals of others are other files.
Left out: the worker's prompt and the wording of proposals; claims of several states.
`TicketLifecycle` has one repair at a time as an abstraction; `OneActiveClaim` is the reason.

### Gatekeeper

A verifier is a bot's process in `verify_ticket`. `Begin`, `Survey`, `Probe`, `Compare`,
`GatesFail` or `GatesPass` follow `run_quality_gates_with_cache`: revisions are read at the
beginning, the files are hashed after the gates, and the cache is loaded twice. `OpenTmp`,
`FillTmp`, `Publish` are the save through the one temporary name; `fd` says where an open
descriptor leads after another's rename. `ReadLog`, `WriteLog`, `LogFails` are
`_log_decision` under its flock. The outcome of each gate, of coverage and of git is a
choice. Left out: which gates a policy names, evidence packets (a packet that raises is
`Raise`), scope checks, and the documentation ticket of a completed one.

### The five services

They share no state, so each is a module of its own and one run holds all (section 3).

*Discovery pool.* `daemon` is where the daemon's thread is in `tick`: `Tick` counts what lives,
`Skip`, `Prepare`, `Launch`, `LaunchFails` go round the ring, `TickEnds` keeps the place,
`TickRaises` loses it. `main` is where the main thread is: `SeeExit`/`HandleExit`,
`Stop`/`Stopped`/`Restart` (a bot taken for stuck, or with a new prompt), `Quit`/`StopNext`/`Exit`.
Cooldowns, the restart budget and disabled bots only say whom a handler passes over.

*Inbox.* `walk` is where `ingest_findings` is; a file holds a finding, no JSON, an array or an
object without a title. `Add` is `TicketStore.add` with its indexes before its append;
`Compact` is the store's merge; `Crash` reads the indexes back from the log; `ToolCreates` is
the `create_ticket` tool in another process. Tickets that are found similar change the
evidence of later ones; the files of an instance that share an evidence are those whose components keep
them apart. Requests (`request_ingestion.py`) are left out, since no running part ingests
them (section 4).

*PID files.* `claim` is where an orchestrator is in its claim or release, `unfiled` the bots that
run before their file is written, `stopping` the control server between its look and its
unlink. `overlapped` records that two were about to change one file at once: no lock
keeps them apart, and nothing is claimed of the file then.

*Checkpoints.* `ReplacePrimary`, `OpenBackup`, `WriteBackup` are `write_platform_checkpoint`;
`ReadPrimary`, `OpenToRepair`, `Repair`, `SetAside` are `read_checkpoint`; either process is
killed anywhere. Contents are the session that wrote them, torn, or junk.

*Rate limiter.* `TakeLock` and `Slot` are `acquire_slot`, which sleeps with the lock held;
`CountCall`, `CallSucceeds`, `CallIsLimited` are `_update_state`. Times are milliseconds, and
pass while somebody sleeps or by `Pace`. Reading and writing the file may fail.
`unrecorded` names the models something of which was lost thereby.

## 3. The runs

| run | expects | question |
|---|---|---|
| `store_durable` | pass | with one saver and compacting saves, is any completed call ever lost? Is the store a crash-proof map? |
| `store_unlink` | pass | with a worker that appends and compacts, is the log unlinked only when the snapshot has everything? Is the merge the code's loop? |
| `store_drains` | pass | does whatever is dirty reach a save? Does a replay ever change what is served? |
| `store_two_processes` | violation | a compaction in one process, an append in another |
| `gate_slots` | pass | do slots, claims, queue and table agree under two threads and I/O errors? |
| `orch_ticks` | pass | who owns what from tick to tick, and does every claim end? |
| `lifecycle_moves` | pass | indexes, rollback, rework loop, closed states, artifacts, repairs |
| `bot_runs` | pass | does every bot end, with a bounded number of failed calls, and do its exit code, marker and scratchpad tell what it did? |
| `repairs` | pass | is there one repair of a ticket at a time, and is a repair closed only when its move was made, over races, stale results and a crash? |
| `reviews` | pass | are gates skipped only for what was paid for, and does the log keep every decision, although verifiers overwrite, tear and are killed? |
| `services` | pass | do the five services keep their promises: places in the pool and turns of the roles, one ticket of a finding and no file forgotten, PID files, checkpoints, spacing of slots? |
| `lifecycle_rejection` | violation | the first rejection of a review is refused by its contract |

Bounds, and why they are enough:

- *Store.* Two tickets, as the readers treat tickets independently and two give
  every relation between a saver's tickets and a call's. Three calls: one to be
  saved, one while the save is under way, one after it. Two faults, so that a crash may follow an I/O error.
  `FullSaveInterval` 1 makes every save compact; 3 mixes the two kinds.
- *Gate.* Three agents (two of a role) for three tickets and two slots, so slots
  run out while requests of a role queue; two threads, since a conflict of calls
  is one of two.
- *Orchestrator.* Two tickets with one bot name between them, two implementers and
  the reviewer of one of them, two slots, one crash: a second bot for a name, a
  stage that follows another, and a restart with leftovers all happen.
- *Lifecycle.* One ticket just found (one move) and one that is planned, with
  enough versions to go round the rework loop; batches of two, the least that
  can fail half way; one artifact, one crash. Destinations are those of the
  rework loop, COMPLETE and one universal exit; the table as a whole is covered
  by the proofs.

- *Bots.* A behaviour has either two bots that share a scratchpad, the least that can
  get in each other's way, or one discovery bot whose loop is followed; the two never
  share a file, so no step of one crew depends on the other. One crash of the orchestrator, which is what lets two bots
  run on one ticket. Two iterations' quarters, one nudge, and limits that differ
  (`Max429` above `MaxRetries`) reach every handler's retry and its end; the proofs cover the code's
  numbers (200 iterations, 5, 3 and 10 retries).
- *Repairs.* Two moves out of one state, so that a claim meets another's; one field, which
  both ask for; two threads, a handler and a reconciler; two versions, enough for a patch
  and a move; one crash. `MAX_REPAIR_EXECUTIONS` is the code's 2.
- *Reviews.* Two tickets that share a file, one verified twice and one in between, which
  puts its copy of the cache back; one change of the world between any two steps.
- *Services.* The first state chooses a service; the others rest in a state in which
  nothing fair is enabled, so the state graph is the sum of five, not their product, and the
  fairness of one asks nothing of another. Three roles for one place, one of them flaky: a role that waits, one that
  runs, one that is restarted. Two files with one evidence and two fingerprints, with a tool's
  twin of the second: each may refuse, suppress or outlive the other. Two process numbers,
  which are used again. Three sessions of a checkpoint. Two callers of one model at 20
  requests a minute, with a 429 that names a time and one that does not. The proofs
  cover all numbers.

Deadlock is not checked where the system may stop: the store's clients and the
gate's callers may have nothing left to do, and the lifecycle's versions are
bounded, and so are the repairs, the verifiers and the services. The runs of the orchestrator
and of the bots check it.

Fairness. `store_drains`: a saver inside `_save()`, and the worker whose loop
waits on the queue, keep running while the process does; whether `flush()` is
called is the clients' choice. `orch_ticks`: the main loop keeps ticking
(`WF(Tick)`), a bot ends (its turns are bounded in `api_runner.py`), and an
unlink does not fail for ever (`SF(Reconcile({}))`: the sweep tries in every
tick). Nothing is assumed of the bots' results. `bot_runs`: a process runs on
(`Fairness`), since a call of the API ends by its deadline if not before and so does a
tool; nothing is assumed of what the calls return. `services`: the daemon's thread runs
(`WF(DaemonStep)`), minutes pass and bots end (`CooldownEnds`, `BotEnds`); the scheduler ticks
(`WF(WalkStep)`), bots close what they took (`WF(Close)`), and an append or a move that is
tried again and again works at some time (`SF(Settles)`, which takes no help from the
quarantine of a good file). `RolesKeepRunning` and
`InboxDrains` name what they do not survive: endless drains, exceptions, crashes, reopenings.

## 4. What the runs found

Each violation is listed with its line in `PROJECT.json`:

1. `ticket_engine.py:1386` another process's append is unlinked with the log.
2. `context_contracts.py:188` a review's first rejection is refused, and the ticket stays in REVIEW.

Other disagreements met while modelling, which no run of the project shows. Those marked TLC
were found by it, with the property or the constants named:

- `ticket_engine.py:1413`: the worker's payload was taken before a later call appended, so a
  stale line becomes a ticket's last, and a crash brings the older ticket back (TLC:
  `AckedDurable` in `TicketStore` with a worker that appends, `SmallSaves` TRUE, four calls).
- `dispatch_service.py:268`: a bot without an assignment takes whatever claim of its ticket
  there is, and its exit moves a ticket another agent works on (TLC: `ExitMovesOwnTicket`).
- `orchestrator_runtime.py:157`: ignoring SIGCHLD makes `poll` answer 0 for every bot, so a failure is
  taken for a clean exit (TLC: `ReviewAfterCleanExit`).
- A second `_save()` (`flush()` while the worker compacts) empties the dirty set that
  protects the log (`ticket_engine.py:1383`), and a crash then loses a completed call:
  TLC finds it in `TicketStore` with a worker and a flusher (`AckedDurable`,
  `FullSaveInterval` 1, `SmallSaves` FALSE, no faults, two calls).
- `record_commit` keeps `updated_at`, so where the worker appends, a compaction can
  put an older ticket over a recorded commit (`store_drains` finds it when
  `record_commit` is among its calls).
- `batch_transition`'s comment promises atomicity (`ticket_engine.py:1956`), but an
  OSError is not rolled back, and a crash may leave a part of a batch in the log.
- "All ticket reads/writes go through one canonical `TicketStore`" (`docs/CODING_STANDARDS.md:98`):
  `get_ticket_store` closes the cached store and loads another whenever `tickets.json` has
  changed (`ticket_dispatcher.py:309`), the store's own compactions included, while other
  threads go on with the old one. The two are to each other as the two stores of
  `TicketStoreShared`. The fingerprint is taken after the load, so a save in between goes
  unseen, and appends to the log always do.
- `flush()` right after a save that only appended compacts nothing; a failed rename
  leaves its ids in `_pending_flush`; `restore_latest_backup` saves nothing.
- `SpawnQueue` is described as one global queue (`dispatch_gate.py:472`) and
  staggers by role; a cancel between a request's `Enqueue` and its `Record` finds nothing.
- After a restart the sweep unlinks claims of live bots
  (`SweepSparesLiveBots`), and bots are stopped while tickets in REWORK or
  TRIAGED wait for them (`StoppedOnlyIfUnneeded`): both are stated in
  `Orchestrator` and fail there.
- Terminal states still accept the universal exits, against
  `context_contracts.py:87`; DEFERRED to IMPLEMENT passes by the plan gate;
  VERIFY to REJECTED is not in the table; the approval gate of REVIEW to COMPLETE
  guards a move the table does not have.
- VERIFY to COMPLETE asks for `commit_sha`, which the dispatcher records after the
  move; TRIAGED to LATER asks for `goal_reason`, which the consumer writes after the
  move, in memory only.
- `scratchpad.py:16` promises atomic writes and `:19` that no agent clobbers
  another's history. All savers share one `.tmp` name, `finish_agent` keeps one record
  in stage IMPLEMENT, which every bot enters, and the health loop adds a record of no
  agent after a bot's own. `:9` promises that a rate-limited bot picks up where it left
  off; it leaves no record. `load_scratchpad` raises on JSON that is no object.
- `run_bot`'s docstring says it exits 0 on drain; drain is looked at before the first
  call only. The SIGTERM comment says that the stream is persisted; where the loop is
  left by an exception only the first message is. `max_tokens_per_run` is not enforced.
- The `.no_tickets` marker is never removed, though later runs may find tickets.
- `process_deferred_tickets` counts in a field tickets do not have, so no ticket is
  ever blocked for it; `gatekeeper_verify_tickets` and `route_ready_tickets` ask for
  states (`VERIFYING`, `READY`) that do not exist.

Repair:

- "only the owning repair cycle can delete its escalation" (`recovery.py:5`): completion looks whose
  the escalation is and deletes the file later, which may be another's, written in between.
- A ticket moved between the completion's look and its own move (`RetryRaises`) leaves the claim FAILED
  without an escalation, while its failure stays repairable; the claim file refuses every later claim.
- A crash leaves CLAIMED and PATCH_APPLIED claims for good: `find_stale_claims` returns
  RUNNING ones only, and both count as active. With `MAX_REPAIR_EXECUTIONS` 2, the test
  `new_attempt < 2` never allows a second execution. Nothing that runs calls the repair code,
  so no liveness is claimed.

Gatekeeper:

- `_auto_commit` and `verify_ticket` are called by tests only.
- "Cache validity requires ALL of these dimensions to match": the cache is read twice, and a
  hit may mix the contents of one run with the revisions of another (TLC: two verifiers of one
  ticket, 21 states); files are hashed after the gates, so an edit during them is cached unseen.
- "Every COMPLETE transition is logged with gate evidence" (`gatekeeper.py:21`): records appended without
  the lock between `_log_decision`'s read and its rename are lost, and a log that cannot be
  read counts as empty.
- `sync_ticket_issue` returns nothing once `gh` is authenticated (its body ends at a nested
  function, `completion_commit.py:116`), which its caller cannot unpack; pushing is off by
  default. So a ticket with files is committed and sent back. REVIEW to COMPLETE is not in the
  table in any case.

Discovery and ingestion:

- One bot more than the pool's places really runs (`PoolNearlyBounded` is tight): Tick, Prepare,
  Launch, TickEnds, Stop, Tick, Prepare, Stopped, Launch, Restart. The same race can overwrite a
  live handle. A bot launched during the shutdown outlives the orchestrator; a tick that meets a
  cleared handle raises and forgets its place.
- `finding_ingestion.py:4` "quarantines malformed inputs": a JSON array raises instead, and all files
  behind it wait for ever; an object without a title is tried again in every tick; a read
  that fails once sets a good finding aside.
- A finding whose append to the log failed is suppressed as a duplicate of the ticket in memory and put away;
  a crash then loses it (`unlogged` in `FindingsOnce`). `remove` takes another ticket's index
  entry with it; an index rebuilt after a restart may name a closed ticket, and twins follow.
- `ingest_requests` is called by nobody, and its tickets start DISCOVERED, not REQUESTED as
  `request_ingestion.py:3` says.

Processes, checkpoints, rates:

- `_claim_orchestrator_pid` checks and writes without a lock, and `write_text` empties the file first:
  two starts at once may both run. The control server unlinks a stale file whatever it holds
  by then. It sends no signal, since the path it reads does not exist, so stop, restart and pause
  leave the process running. Every `--start` launches bots its orchestrator does not know.
- A backup that two write at once, or that a kill tears, may be the only checkpoint left
  (`spoilt`); a primary that cannot be read for a moment is set aside.
- `acquire_slot` sleeps with the one lock of all models. Each call is counted twice. "Auto-recovery when limits allow"
  (`adaptive_rate_limiter.py:30`): the interval comes down only at the success that ends a
  series of limits, so after two or more 429s it stays up; where a model is configured
  slower than 20 a minute, 429s never raise it. A lock that cannot be opened lets calls pass
  without a slot.

## 5. The proofs

All eight `_proofs` modules are checked to the last leaf. They cover every safety
property of the passing runs, for any tickets, agents, threads, fields, processes,
bounds and faults, and add results that no run states: two more refinements, bounds on queues,
bots and turns, the safety halves of two liveness properties, and the order in which a log
may tell a ticket's moves.

*Store.* `TypeCorrect` has no assumption. `UnlinkSafe` assumes one saver: its
invariant `CompactInv` says that what a compaction built and what memory holds
differ only in tickets that are dirty. `CrashSafe`, `MemorySafe` and
`StoreImplementsMap` assume moreover that every save compacts and no append of a
call fails; `DurableInv` adds that a live last line of a log is also the newest, so
that the merge finds what the start-up finds. Each
assumption is needed: without either TLC finds the losses described in section 4.
All of them reason about the closed form of the merge, and `MergeLoopsAlways` shows that this is
what the code's loop computes, for logs of any length: if not there is a shortest prefix after
which they differ (`LeastNatural`, from the well-foundedness of the naturals), and the line that
ends it does to both the same. `NoWakeUpLost` is what `DirtyIsSaved` rests on: a call signals, and who takes the
signal has yet to look (`WakeUpPending`). It assumes that no append and no save fails, and TLC finds
something dirty left without a signal when either may.

*Gate.* `SlotInv` ties calls to agents: a slot has one call past its first step, or
an active dispatch, and while it lasts the claim file is the agent's. This is what
makes the unlocked owner test of `release_claim` harmless. `BalanceInv` is the
converse, and gives the absence of leaks. `GateImplementsOwnership` maps claim
files to owners. `QueueInv` follows the queue: a request
waits once, a drain hands out what waited, and the agent of each that waits has a slot, or a call at
`Withdraw`. It gives `RolesInOrder` (no
request is handed out before an older one of its role), `HandedOutOnce` and `QueueBounded` (at
most `MaxSlots` requests, and one more for each call in that window; without the window TLC
shows more).

*Orchestrator.* `TickInv` says where each agent's record stands while it waits,
starts and runs; that only the drain has requests in hand; and that only the
dispatch leaves active agents without a record. Without it a sweep might free a
live claim. `SlotsBounded` counts the active agents against the slots; as a running bot has an
active agent and no two have the same, `BotsBounded` limits the processes.
`TickImplementsOwnership` reads the owners off the active table and claim files: a dispatch
acquires, a completion releases, a crash releases what the dead orchestrator's agents owned.

*Lifecycle.* A ticket has three views: the log's, the one a batch found, and
memory's. `LifeInv` says that each is a later stage of the one before
(`Follows`), that all are `Sound` (carry what their state's contracts asked for),
and that a repair may touch no field its ticket's state rests on (`Harmless`).
A rollback or a restart then only goes back to a sound stage. `Follows` also says that legal moves
lead from the earlier stage to the later and that each raised the version, which
`LogKeepsToTheTable` states of the log. (`LeadsTo` ranges over all sets of states, too many for
TLC; the property was tried on the instance of `lifecycle_moves` with the closure computed.)

*Bots.* `LoopInv` counts failures against changes of the model (`FailuresCounted`):
between two of them at most `Max429 + 1` calls fail, and there are at most `Chain + 1`,
because `used` is set once and `hops` only grows. `BotInv` says what is known of a run's
end at each point of it (`Agree`), that a scratchpad has one process at a time while no
bot has outlived its orchestrator (`OneAtATime`), and that the record is on its way to
the file (`Keeps`). `Locality`, that a step of a bot concerns that bot and its
scratchpad, carries each of them over to the other bots. `RunnerImplementsBotRun` needs
only that a loop that has ended has a `Result` in `Outcome`. Why a bot ends is proved up to fairness: `TurnsLeft`,
the sum of the failing calls, quarters of iterations and nudges left and of the last turn, goes down with every turn
(`TurnsRunOut`), and every step of a live bot brings it further on its way (`Ahead`) or uses up a turn, while no
step of another bot, of the health loop or of the orchestrator sets it back (`BotsNearEnd`).

*Repair.* `LockInv`: a claim's lock has one holder, and the status it found still holds, which is
what a result handler and a reconciler of one claim rely on; `MovedInv`: a ticket that has made
its move since the claim has no failure of it. From these, no second claim becomes active
(`OneRepairAtATime`) and `CompletionIsEarned`. `ClaimsKeepTheRecord` refines `RepairRecord`: for a
re-execution `LockInv` is what shows that the claim judged is still RUNNING.

*Gatekeeper.* `CacheInv`: whatever is in the cache, under the temporary name or in a verifier's hands
is an honest entry or torn; after the first of the two reads a verifier has half of what it
needs (`HalfPaid`). `LogInv`: the holder of the flock has a copy of every logged decision;
`DecisionsKept` assumes that the log can be read (`"read" \notin LogFaults`).

*Services.* `CkptInv`: a completed checkpoint is in the backup unless that is being written or
spoilt, and only whole versions are written over it. `InboxInv`: this process knows every ticket
made of a file that is on disk, what it knows is on disk or in `unlogged`, and an index entry
names a ticket it knows; so a file that is no duplicate has no ticket yet, and one that is has one.
`PoolInv`: places taken, with that of the bot being restarted, and launches left of the
tick are `MaxConcurrent + 1` at most. `OrchestratorInv` and `BotInv`: one claims at a time, who
holds the file is its number, who claims beside a holder has read the holder's number and will refuse,
and a request to stop names the holder and has not found it gone. `RateInv`: who
sleeps holds the lock and wakes when the slots are far enough apart.

Only model-checked: the liveness properties (`DirtyIsSaved`, `ClaimsEnd`, `BotsEnd`,
`RolesKeepRunning`, `InboxDrains`), which rest on fairness: tlapm 1.4.5 cannot reason about ENABLED. Of
`BotsEnd` and `DirtyIsSaved` the part without fairness is proved. TLC's instances have no bot name that ends in digits
(`Numeric` is empty); the proofs cover them.

## 6. Done and left

1. Store, gate, orchestrator, lifecycle, bot runner, and their proofs.
2. Context repair, gatekeeper, the five services, and their proofs.
3. Proofs beyond the runs' properties: the order and the bounds of the queue, the tick's and the
   claims' refinements, the bounds of turns and bots, the merge as the code's loop, the log and
   the lifecycle table, wake-ups.

What a next step would add, in order of importance: the pipeline of a ticket
(`Orchestrator` and `TicketLifecycle` with the contracts computed), for the liveness of a
ticket whose agents do their work; the cache of store instances as a
composition of several `TicketStore`s; backups; the review packets'
finalisation in `dispatcher.py`; leases and the dead-letter views; the dependency graph as a pure algorithm.

Not modelled, and why:

- *`restore_latest_backup`, leases, ResolvedIndex, ActiveWorkIndex, ConflictDetector, runtime invariants, requests,
  deferred tickets*: nothing in the running program constructs or calls them.
- *The command line and the control server's views (`botop.py`, `control_server.py`)*: they
  read and show; what they change goes through the store, the PID files and the drain flag,
  which are modelled.
- *Tools (`api_tools.py`, `web_tools.py`, `tool_policy.py`)*: their effects are on a workspace no property is about.
  `create_ticket`, `write` on reviews and the agent's own write to its checkpoint are actions.
- *Which gates run and what they measure (`quality_gate.py`)*: outcomes are choices in `Gatekeeper`.
- *Planning, learning, alignment and metrics, model choice and budgets*: pure functions and statistics over
  files; they refuse or delay work, which the orchestrator's model takes as a choice.
- *Adapters, roles, bootstrap*: configuration and text.
