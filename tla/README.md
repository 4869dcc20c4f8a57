# know-Mate in TLA+

know-Mate is a desktop program that keeps a searchable index of a user's
documents and mail and answers questions from it. A worker thread
(`CollectorWorker`) scans the watched folders while the machine is idle, extracts
text (through Office for protected files), embeds it and writes it to LanceDB
tables; a Qt window changes settings, shows failures and asks questions
meanwhile. This directory holds a model of the program's core, what TLC checks
about it and what TLAPS proves.

Contents: 1 inventory, 2 the models and the code, 3 runs, 4 theorems, 5 where the
code differs from its documentation, 6 limits, 7 plan. Paths are relative to
`src/knowmate/` unless they start with `docs/`.

## 1. Inventory

### Components

| Component (files) | State it keeps | Operations | Interacts with |
|---|---|---|---|
| Document cycle (`collector/scheduler.py`, `scanner.py`, `state.py`) | `index_state.json`, the recovery marker, the cycle's `state`, `state_dirty`, `unresolved_adds`, the task queue | `_run_cycle`: load, repair, recover, retry deletions, scan (producer thread), index (consumer), checkpoint, clean up; single retry; cancel | Indexer, cleanup, purge, failure records, Office, maintenance |
| Document table (`rag/indexer.py`) | LanceDB `chunks`: document, revision, generation, miss count, deleted flag; `table_was_recreated`, `table_is_empty` | `index_file`, `recover_generation`, `recover_document_state`, `delete_chunks` (two-phase), `delete_chunks_permanently`, `delete_file_chunks` | cycle, cleanup, purge, exclusion, search |
| Orphan cleanup (`collector/cleanup.py`) | none of its own | `CleanupManager.run` after each full cycle | state, table |
| Folder purge (`collector/purge_meta.py`, `_purge_removed_folders`) | sidecar `index_state.meta.json` and its cache | `decide`, `on_success`, `on_transient_failure`, `on_blocked`, purge | settings edited by the GUI, state, table |
| Exclusions (`collector/policy_service.py`, `policy_job.py`, `app/failure_policy_controller.py`) | `collector.exclude_files`, the job command and its snapshot | request, run, publish, acknowledge, reconcile | config, table, state, mail, GUI polling |
| Settings (`config.py`, `app/bridge.py`) | `config.yaml`, the shared dict in memory | add and remove folder, save settings | read by the worker with no lock |
| Failure records (`collector/failure_state.py`, `failure_updates.py`) | failure file, baseline and deltas for the GUI | note failure or success, back-off, retry all, drain | cycle, GUI polling |
| Mail (`collector/mail_scanner.py`, `mail_scan_state.py`, `mail_exclusion.py`, `rag/email_indexer.py`) | mail scan state, cursor, queue of ids to delete, `emails` table | windowed scan, commit, delete queue, reconcile exclusions | cycle, maintenance |
| Table maintenance (`rag/lance_maintenance.py`) | deadlines, backlog flag, its sidecar | start-up, periodic, hard limit, end of cycle | cycle checkpoints |
| Office guard, COM watchdog (`secure/office_guard.py`, `collector/com_watchdog.py`) | owned processes, cooldowns, snapshot cache, armed call | ensure available, terminate and confirm, arm, fire | cycle, COM reader, shutdown |
| COM reading (`secure/com_reader.py`, `com_scope.py`, `com_stage.py`, `com_fault.py`) | stage, scope, poisoned flag | read a file through Office | cycle, watchdog |
| PowerPoint session (`app/ppt_preparation.py`, `secure/ppt_*.py`) | one pending slot, shutdown phase | prepare, operate, shut down | cycle, GUI |
| Questions (`app/query_controller.py`, `query_worker.py`, `rag/embedding*.py`, `retriever.py`, `llm/`, `agents/`) | the active query, its timeout, the bound socket | submit, cancel, late result, shut down | tables (read only), GUI |
| Lifecycle (`app/main.py`, `lifecycle.py`, `single_instance.py`) | authority lock, server name, dirty-shutdown mark | acquire, show, stop worker, finalise | everything |
| Readers, chunker, crypto, UI pages, scripts | none | pure functions, presentation, tools | |

### What is hard, and what makes each component right

* **Document cycle, table.** Three durable stores (table, state file, marker)
  are written one after the other; a crash may fall between any two. Right means: no row
  is ever out of reach, no revision is added twice, a replaced document never
  vanishes, what is skipped as unchanged can be found, and the index converges.
* **Cleanup.** It deletes on the strength of absence. An unreachable drive, a
  prefix of another folder or one bad moment must not look like a deletion.
* **Purge.** The folder list changes under a running cycle; the decision not to
  read the table is cached over cycles and restarts. Right means: success is
  recorded only when nothing is left, and a removed folder is forgotten.
* **Exclusion job.** A job crosses threads once and may end with an unknown
  result; settings, rows and entries are three writes.
* **Failure records.** A baseline and deltas cross to the GUI while the worker
  changes them; a retry must come, and not too early.
* **Mail.** The cursor must not starve old mail; an id to delete is durable
  before its rows go.
* **Maintenance.** Optimising must never run ahead of a durable state; deadlines
  survive clock changes.
* **Office, PowerPoint.** Only processes the program owns may be ended; a late
  watchdog must not hit the next call.
* **Questions, lifecycle.** A late result must not finish another query; shutdown
  ends although something hangs.

`PROJECT.json` lists each hazard at its line, with the properties that cover it
or the reason why none does.

## 2. The models and the code

### DocIndex (with DocCorpus, MCDocIndex; proofs in DocIndexProofs)

One behaviour is the life of the document index over any number of cycles,
crashes and changes to the user's files.

| In the model | In the code |
|---|---|
| `rev`, `present`, `up` | size and mtime of each path, existence, reachable roots |
| `db` | table `chunks`. A *generation* (all rows of one `index_file`, one `table.add`) is one element: its document, revision and miss count (1 is hidden, `is_deleted`) |
| `disk`, `marker` | `index_state.json`; the recovery marker file |
| `mem`, `dirty`, `unres`, `held` | `state`, `state_dirty`, `unresolved_adds`; `held` stands for a key in it that no later success removes (`previous-run`, `recovered:`) |
| `recreated`, `empty` | `Indexer.table_was_recreated`, `table_is_empty` |
| entry `[rev, chunks, pend]` | an entry's revision, `chunk_ids`, `pending_delete_chunk_ids` |
| `pc` and the loop variables | where `_run_cycle` is |

Every action that writes something durable writes one thing that the next start can tell
apart, so a `Crash` may fall between any two writes. `Replace` claims the new rows in memory and deletes the old ones:
only the deletion is durable, so a crash between the two equals a crash before
both. A cleanup that deletes and hides rows of one entry is taken as one step: the
next cycle treats what is left the same way.

* Start of a cycle: `Loaded`, `Repaired` (claims of a lost table are void),
  `Recovered` (all rows of a path, found by reading the table), `BeginFails`,
  `BeginSingle`, `RetryPending`.
* Producer: `Scan`. The producer thread reads the entry of a path that only
  the consumer's task for that same path writes, and paths are queued once, so
  scheduling the scan where the consumer waits on the queue loses no behaviour.
* Consumer: `Take` asks the table for a complete generation (`adopt`) or goes on
  to extract. `SourceMoved`, `Extract` (marker first), `IndexFile`, `Record`
  (read back, then claim, then delete the old rows), and the failing forms of each.
* Checkpoint: `BatchFlush`, `Unlink`, `FinalFlush`. The last is also the way out
  of every exception (`_flush_document_state_on_exit`).
* Cleanup: `RootGuard`, then `FindOrphans(d)` for one path after the other (each an `exists()`
  of its own, so a share may be lost between two of them), the breaker in `WeighOrphans`,
  `DeleteOrphan`. The history variable `away` keeps whose root was lost, or whose file was put
  back, since the folder's root guard.
* Exclusion between cycles: `Exclude`, `ExcludeRows`, `ExcludeState`, `Unexclude`.

Membership in the cleanup is by text prefix, in the scan by directory, so they
are two constants: `Root[d]` is the folder a document lies in, `Holds[f]` the
paths whose text starts with `f`'s. The root guard and the breaker work on `Holds`.

`DocCorpus` says what a search may rely on, in four variables: a found
revision is one the file has had, is only replaced by a newer one (or by nothing
if that one is blank), and disappears only if the file was found missing or was
excluded. `DocIndex` implements it with `shown` mapped to the newest visible
revision and `missing` to the orphans in hand.

### FolderPurge (with MCFolderPurge; proofs in PurgeAndPptProofs)

The cycle reads the folder list and `dry_run` at its start (`snap`, its `op_sig`);
the GUI thread edits them at any time. `addWatchFolder` appends to the very list
the producer iterates (`shared`), `removeWatchFolder` installs a new list. Files do
not change here, so an entry is present or absent; document indexing is one
action, because DocIndex has its steps. `decide` compares times in two places only, and
the model keeps these two answers (`waiting`, `recent`); `TimePasses` lets them
expire, `ClockSetBack` makes them true again. Each of `Blocked`, `BackingOff`,
`UpToDate`, `OnSuccess`, `OnFailure`, `OnBlocked` is one function or condition of
`purge_meta.py`. `stage` is where the cycle is. The orphan cleanup that follows the purge is left out: no file
of this model is missing.

### FailureSession (with MCFailureSession; proofs in FailureSessionProofs)

| In the model | In the code |
|---|---|
| `records`, `dirty`, `box` | `FailureUpdates`: the worker's map, `_dirty`, the mailbox (baseline, changes, terminal) |
| `view` | `FailureView`, the GUI's own copy |
| `disk` | `index_failure.json` |
| `reqs` | `_retry_requested`, `_single_retry_requested`, `_persist_only_requested` |
| `idle`, `wasLong` | the user's idle time, `IdleScheduler._was_long_idle` |
| `pc`, `target`, `queue`, `cur` | the worker: its session, the single target, the queued tasks, the task in hand |
| `asked`, `askedDisk` | history: the bypasses the user asked for |

A session is `request_start`, `Run`, `Load`, `StartCycle`, `Scan`, then for each task
`Take` and one outcome, then `Persist`, `Restored`, `Flush`, `Finish`, `Exit`. `drain`
hands the mailbox over; `PollTimer` and every start of a worker drain. The record
kinds, the escalation, the ladders and the pruning are the operators
`classify`, `escalation_state`, `backoff_seconds`, `should_defer`, `prune`. A record's age
stands for its times, so a clock that is set back is not told apart from a young record.
Two details the model keeps because the properties turn on them: the way out of a
cancelled single retry saves the records with the one-shot bypass before the wrapper
takes it back (`askedDisk`), and a `cancel` between `start` and the first line of `run` is
lost.

### PolicyJob (with MCPolicyJob; proofs in PolicyJobProofs)

`job` is `PolicyJob` (command, pending, started, unknown, uncertain, snapshot), `ctl`
the `FailurePolicyController` (lease, job id, unknown, closing, rollback), `cfg` and
`disk` the shared settings and `config.yaml`, `rows` and `entries` what the table
and the state file hold. `startFailurePolicyJob` with its refused and raising starts, `poll` and
`EditFolders` run on the GUI thread; `Settings`, `Save`, `Replace`, `Confirm`, `Delete`,
`CleanState`, `MailAndResult`, `ReadBack` are the steps of `run_policy`. A save that raises may have
happened. The mail half is one step here; MailIndex has it in detail. A folder edit of the GUI
is taken to be saved, and the publication of read-back exclusions to be atomic.

### MailIndex (with MCMailIndex; proofs in MailIndexProofs)

`table`, `disk`, `mem` are the `emails` table, `mail_scan_state.json` and the cycle's
state; `scan` holds the locals of `run_mail_scan`, `op` the `delete_captured_ids` in hand,
`snap` the discovery snapshot. The steps follow the code: `RetryPending`, `Reconcile` with
its deletion and save, `Discover` (cursor, rotation, order), `Attempt` for each candidate
(parse, `Copy`, `Check`), the window (`Embed`, `Commit`), `QueueIds` before
`DropRows` before `ClearIds`, and `Finish`. Single retries and exclusion jobs
run the same steps with another `scan.job`. A mail's chunks are one row; a back-off in `waiting` belongs to one mtime of its file, and is asked for again after the live `stat`. A saved state file that
cannot be read stops the mail half of every cycle (a strict load); an edit takes at least a
second.

### LanceMaintenance (with MCLanceMaintenance)

`state` and `sidecar` are `_state` and its file, with wall-clock times as what is left of
them; `steady`, `failure`, `budget` the monotonic deadlines and the counter of writes. `Item` is
one written item with its possible `HardLimit`, `CloseBacklog`, `FinalizeBacklog` and
`CheckSteady` the end of a cycle, `RunOptimize` with `NoteOptimize` the compaction and its
effect. `SetClock` moves the saved times only.

### OfficeGuard (with MCOfficeGuard; proofs in OfficeGuardProofs)

`proc` and `kind` are the operating system: which instance runs under a pid, and whose it
is. Instances are numbered by their start, so the number is the creation identity, and pids
come back. `owned`, `unverified`, `inflight`, `cooling`, `cache`, `moved` are the guard's
registry, gate, cleanup count, cooldown, cached listing and epoch; `app`, `kept`, `poisoned`
the thread's locals. `Ensure`/`Look`/`Judge`/`Decide` are `ensure_office_available`;
`Create` to `Publish` the shared application with its registration; `Fire` is the
ComWatchdog, `QuitFires` the quit watchdog, and `Cleanup(t)` their
`cleanup_owned_processes` on each thread, one process and one system call per step. A failed
`DispatchEx` that leaves a process is counted as the user's, since nobody knows it.
The watchdog fires once per arming even when it finds nothing to end: then a
hung call may last for ever. So the run allows a stop (`CHECK_DEADLOCK FALSE`),
and `HungCallEnds` speaks of an armed watchdog whose queries no longer fail.

### QuerySession (with MCQuerySession; proofs in QuerySessionProofs)

`ctl` is the `QueryController`; `gui` the two calls of the GUI thread that a worker may
interleave with (cancel and the wait at exit); `events` the queued signals; `thread[q]`, `flags`,
`net`, `snap` each question's worker, its two cancellation events, its request with the bound
and cut sockets, and its copy of the settings. `policy` and `excl` are the policy job of PolicyJob
as this part sees it. `BindSocket`, `BoundCheck` against `CancelFlag`, `CancelLook`,
`CancelCut` is the race of `embedding_cancel.py`.

### Lifecycle (with MCLifecycle; proofs in LifecycleProofs)

Any number of processes are started one after the other. `lock`, `endpoint` and `marker` are
shared; `pc`, `gui`, `inbox`, `worker`, `office`, `query`, `leave`, `helper` belong to one
process. The actions follow `main.py` (`TryLock`, `Listen`, `Clean`, `WriteMarker`,
`Build`, `FinishStartup`), `single_instance.py` (`Told`, `ReadShow`) and the shutdown of
`lifecycle.py` (`BeginShutdown` to `ForcedOut`, then `Quit`, `CloseServer`, `Unlock`,
`ExecReturns`, `EraseMarker`). Bounded waits may end at any time; a process that
dies frees the lock, while its endpoint may survive it until another start cleans it.

### PptPreparation and PptSession (with MCPptSession; proofs in PurgeAndPptProofs)

PptPreparation is the coordinator in front of the collector (`prep`, `policy`, the
reserved `start`, the `setup` helper). PptSession EXTENDS it and conjoins its steps: the worker it starts
starts or joins a PowerPoint, reads, asks it to quit and observes it. `hosts` are the
PowerPoints started so far, `reg` the registries of `ppt_shutdown.py` (ticket, exit watches,
yielded hosts) and of `office_guard.py` (owned, unverified), `tls` the shared application. A host number is
pid and creation identity in one; reuse of pids is in OfficeGuard. The checks of the
machine mutex and the stamp may answer "busy" or fail at any time.

## 3. Runs

All run with `tlc -config <name>.cfg <module>`; none takes more than three minutes.

| Run (module) | Properties | Bounds | States |
|---|---|---|---|
| `DocIndexCrash` (MCDocIndex) | `NoStrandedRows`, `NoDuplicateRevision`, `ImplementsCorpus`, `OutageOnlyHides` | 2 documents, 1 root, 2 revisions, 5 generations, 2 faults of 14 kinds | 406,681 (under symmetry) |
| `DocIndexLive` (MCDocIndex) | `UnchangedIsSearchable`, `PendingNeverLive`, `Converges`, `RemovedIsHidden` | 1 document, 3 revisions, one blank, 4 generations, 2 faults of 12 kinds with failing deletions, a lost table, single retries | 88,860 |
| `FolderPurge` (MCFolderPurge) | `SuccessMeansPurged`, `RemovedIsForgotten` | 2 folders with a document each, 2 versions (the older without the API), 1 fault of 8 kinds | 805,058 |
| `FailureSession` (MCFailureSession) | `ViewFollowsOwner`, `BypassWasAsked`, `RetriedEventually` | 1 protected document, 2 causes, ladder of 2 waits, 1 fault of 7 kinds | 539,046 |
| `PolicyJob` (MCPolicyJob) | `RunsUnderLease`, `FoldersKept`, `PublishedIsDurable`, `LeaseEnds` | 1 document, 1 mail, 1 folder, 3 faults of 9 kinds | 566,994 |
| `MailIndex` (MCMailIndex) | `CachedIsSearchable`, `FoundStaysFound`, `EveryMailSettles` | 3 files of 2 mails, one copy damaged, one legacy row, 2 mails per scan, 1 edit, 1 fault of 13 kinds | 811,327 |
| `LanceMaintenance` (MCLanceMaintenance) | `KeepsCompact` | thresholds 2, 3, 4 of at most 5 fragments, waits of 2, clock jumps of 1, 2 faults | 398,520 |
| `OfficeGuard` (MCOfficeGuard) | `OursAccounted`, `OnlyOwnTimeout`, `UserOfficeSafe`, `GuardTellsApart`, `HungCallEnds`, `GateOpens` | 2 pids, 2 starts, 2 tries, 1 fault | 231,984 |
| `QuerySession` (MCQuerySession) | `OneAnswerEach`, `CancelReaches`, `AnswersRespectPolicy`, `QuestionEnds` | 2 questions, 2 attempts, 1 cancel, 1 document, 1 mail | 603,809 |
| `Lifecycle` (MCLifecycle) | `PrimaryReachable`, `QuitIsClean`, `ExitEnds`, `SecondStartShows` | 2 processes, 1 cycle, 1 fault | 132,033 |
| `PptSession` (MCPptSession) | `OneQuitEach`, `OneHost`, `GateReopens`, `StartEnds` | 2 PowerPoints, reader mode auto, 1 failing preparation step, 1 fault | 426,164 |
| `DocIndexRecreated` (violated) | `UnchangedIsSearchable` | 2 documents, a recreated table and a crash | stops at the violation |

**Properties stated but not in a cfg.** Each of these was checked with the constants of the
run of its module and holds; the runs keep to the properties that are hardest to
get right: the `TypeOK` of every module, `NoCycleSkipped` (FailureSession), `CompactedAfterCheckpoint` and
`NoEarlyCompaction` (LanceMaintenance), `SingleFlight` (QuerySession), `CutShort`
(Lifecycle), `SetupUndisturbed` (PptSession), `SingleGeneration` and `RowsAccounted` (DocIndex).
Adding one to the cfg checks it again.

**Why the bounds are enough to be interesting.** *DocIndex:* two documents are needed for one
to be unresolved while another is checkpointed, and for the breaker's ratio to
have a middle; two revisions for a replacement; five generations for a lost one, a
replaced one and a new one of both documents. Two faults give crash after failure
and failure during recovery. `MaxRatio = 50` with two documents lets one orphan pass and
stops two. Removal, return and edits are not faults and are not counted, and
neither is the number of cycles. Documents and generations
are symmetric in `DocIndexCrash` only; liveness runs use no symmetry.
*FailureSession:* a document may be queued twice (scan and retry), edited between
queue and attempt, and climb the whole ladder; ages and idle time saturate, so the run is
unbounded in time. *MailIndex:* two copies of one mail with one damaged, a third file and a limit of two per
scan make the cursor skip, rotate and starve if it could; with six ids
`NewId` always finds a free one (TLC would stop if it did not).
*PolicyJob:* three faults give a raised save, an unreadable read-back and a crash after it.
*LanceMaintenance:* the thresholds are distinct and reached in turn. *OfficeGuard:* two pids and two
instances let a pid be taken again by another program between any two steps of a cleanup;
with `MaxStarts = 3` the safety properties were checked apart (2.1 million states), with two faults
as well (425 thousand). *QuerySession:* the late result of one question meets the next one;
two attempts give the retry of the embedding request. *Lifecycle:* a second start meets every phase of the
first one's life; three starts were checked apart (1.6 million states). *PptSession:* one host of ours and one of
the user, in either order; three were checked apart for safety (3.5 million states).

**What the runs leave out by their fault sets.** `NoStrandedRows` and
`RowsAccounted` hold only while deletions succeed (section 5, `cleanup.py:153`),
hence no `delete` in `DocIndexCrash`. `UnchangedIsSearchable` and `Converges` do not survive
`restore` (section 5, `scheduler.py:1243`) or, with two documents, `recreate` followed by a crash
(`DocIndexRecreated`); `DocIndexLive` has no `unmount` for the same reason. It has no `unexclude`:
an exclusion interrupted between its rows and its state entry and then taken back leaves an
entry that claims deleted rows, the same kind of torn write as that of the purge.
For the purge itself no run asks whether a folder watched again after such a crash is indexed
(section 5, `scheduler.py:819`): it need not be.

**Fairness.** No fairness is assumed of the user or of faults; failures are bounded by
`MaxFaults`, so a liveness property says what happens after the last one.

* DocIndex: weak fairness of the worker as a whole (the thread goes on, and cycles
  come again as long as the machine is idle at times, which is what `IdleScheduler` is for), and of
  `Mount` (a drive that is gone for good makes no promise).
* FolderPurge: the worker, and `TimePasses` (back-off and forced reconciliation expire).
* FailureSession: the worker, the poll timer, time; strong fairness of the
  idle triggers, whose timers are re-armed for the moment the condition comes true. `RetriedEventually` assumes
  that the user keeps leaving and is back now and then while no cycle runs, because the catch-up after a
  long absence is missed when the watcher meets a busy worker or a refused start.
* PolicyJob: the thread and the poll timer. MailIndex: the worker, and the expiry of back-offs
  and of the listing. LanceMaintenance: time, the worker, and a cycle that ends
  exhausted again and again (strong: cancelled cycles may come between).
* OfficeGuard: timers fire, threads proceed, the cooldown ends, a Word of ours exits once its
  last reference is let go, the user closes Word, the worker keeps taking files and ending cycles. A hung call has none.
* QuerySession: the GUI loop, timers, and the worker's steps, the index and the language model
  returning (their calls have timeouts); the embedding server need not answer.
* Lifecycle: only the GUI thread and its loop. The collector, the helper and the query
  may hang for ever; that is what `ExitEnds` is about.
* PptSession: local steps; calls into a PowerPoint that is gone fail, a live one may hang; the setup
  helper need not end.

Deadlock is checked except in `OfficeGuard`, `QuerySession`, `Lifecycle` and `PptSession`,
where the system does stop: a call that hangs for ever after its watchdog is spent, an application that has
exited, and questions or processes that are used up.

## 4. Theorems

Every theorem below holds for every value of the constants that its module's assumptions
allow (their shapes; sentinels are no members of what they stand beside): any number of
documents, mails, folders, pids, processes, questions, faults. The bounds of the models stay as parameters. The proofs
of a component are in a module apart, which EXTENDS the component's module and TLAPS; FolderPurge and PptSession, which
share nothing and whose names are kept apart, have one together.

| Theorem | States | Hypotheses | Module |
|---|---|---|---|
| `TypeCorrect` | `[]TypeOK` | | `DocIndexProofs` |
| `OneGenerationPerRevision` | `[]NoDuplicateRevision` | | `DocIndexProofs` |
| `PendingIsDead` | `[]PendingNeverLive` | | `DocIndexProofs` |
| `NothingStranded` | `[]NoStrandedRows` | no `delete` fault | `DocIndexProofs` |
| `ClaimedIsSearchable` | `[]UnchangedIsSearchable` | none of `recreate`, `unmount`, `restore`, `unexclude` | `DocIndexProofs` |
| `CorpusImplemented` | `ImplementsCorpus` (refinement of DocCorpus) | no `delete`, no `recreate` | `DocIndexProofs` |
| `OutagesOnlyHide` | `OutageOnlyHides` | finitely many documents | `DocIndexProofs` |
| `TypeCorrect`, `SuccessIsReal` | `[]PurgeTypeOK`, `[]SuccessMeansPurged` | | `PurgeAndPptProofs` |
| `WatchedIsKept` | no row under a folder of the cycle's list is ever deleted | | `PurgeAndPptProofs` |
| `TypeCorrect`, `WorkUnderLease` | `[]TypeOK`, `[]RunsUnderLease` | | `PolicyJobProofs` |
| `FoldersSurvive`, `DurableWhenAdmitted` | `[]FoldersKept`, `[]PublishedIsDurable` | | `PolicyJobProofs` |
| `TypeCorrect`, `WindowFollowsOwner` | `[]TypeOK`, `[]ViewFollowsOwner` | | `FailureSessionProofs` |
| `EveryEndIsSeen`, `WaitsAreKept` | `[]NoCycleSkipped`, `BypassWasAsked` | | `FailureSessionProofs` |
| `TypeCorrect`, `OneWorker` | `[]TypeOK`, `[]SingleFlight` | | `QuerySessionProofs` |
| `AnswersOnce`, `CancelIsNotLost`, `NothingExcludedShown` | `[]OneAnswerEach`, `[]CancelReaches`, `AnswersRespectPolicy` | | `QuerySessionProofs` |
| `TypeCorrect`, `PrimaryStaysReachable` | `[]TypeOK`, `[]PrimaryReachable` | | `LifecycleProofs` |
| `QuitLeavesNothing`, `CutOnlyCycles` | `[]QuitIsClean`, `[]CutShort` | | `LifecycleProofs` |
| `TypeCorrect`, `WordsAccounted` | `[]TypeOK`, `[]OursAccounted` | | `OfficeGuardProofs` |
| `UserIsSafe`, `GuardIsRight` | `UserOfficeSafe`, `GuardTellsApart` | | `OfficeGuardProofs` |
| `OwnTimeoutOnly` | `[]OnlyOwnTimeout` | | `OfficeGuardProofs` |
| `QuitOnceOurs`, `OneHostOfOurs` | `[]OneQuitEach`, `[]OneHost` | | `PurgeAndPptProofs` |
| `CacheIsHonest`, `MailsAreKept` | `[]CachedIsSearchable`, `FoundStaysFound` | | `MailIndexProofs` |

### Why the hypotheses are there

Those on faults are the divergences of section 5, not conveniences of the proofs: TLC violates each property
as soon as one of them is dropped.

* `NoStrandedRows` falls to `delete`: an entry with ids whose deletion failed may be popped by the cleanup.
* `UnchangedIsSearchable` falls to each of `restore`, `unexclude`, `unmount` and `recreate` alone. Failing
  deletions are no hypothesis here: what they leave behind are rows too many, not too few.
* `ImplementsCorpus` falls to `delete` (a row that could not be deleted shows again) and to `recreate`.
* `OutageOnlyHides` needs only a finite set of documents, to count them. It bounds the harm of a lost share and does not deny
  it: that a file which is there may be hidden is a finding (`cleanup.py:113`). Its clauses say what the guard and the
  breaker do achieve. Which folders are watched does not matter, nor what the breaker's ratio is: with `MaxRatio = 100`
  the breaker never trips, and the last clause is claimed below that only.

### The inductive invariants

None of the properties is inductive. What is added, and why:

* *DocIndex.* `TypeCorrect` needs `KeptExists`: a document about to be adopted still has the generation
  that `recover_generation` found, otherwise the winner of an empty set could be anything.
  `SingleGeneration` adds to `NoDuplicateRevision` that while an extraction or an add is under way
  the table has no complete generation of that revision, which `Take` checked and only the worker can change.
  `IdsKept` (for `PendingNeverLive`) says of the entries in memory and on disk that no id is both claimed and
  pending or held by two paths, that the rows they name are of their own path, and that what was just added is named by nobody
  yet; as a generation number is never used again, an old file read after a crash keeps this. `Ordered`: a path
  is queued once, and what is queued or in hand is at least as new as every row of its path, so that what is
  published is newer than what was shown.
* `RowsAccounted` (for `NoStrandedRows`) says where the knowledge of a row is while the state file is old: the state
  in memory names every row except those of unresolved documents; nothing is unresolved and no table is new
  without the marker; the marker goes only when file and memory agree; a document whose exclusion reaches its
  entry has no rows left. `ClaimsKept` (for `UnchangedIsSearchable`) says that every claim, in
  memory and on disk, of a document that is listed is backed by visible rows. `NamedOlder` (for the
  refinement) adds that rows besides the claimed ones are older.
  The refinement maps every step to one of `Publish`, hide or forget, or a stutter.
* `Excused` (for `OutageOnlyHides`), while a folder is cleaned up: its root is within reach or its paths are in `away`
  (`RootExcused`); a path found missing is in `away`, still gone, or back newer than every row of it (`OrphExcused`); and below 100
  percent the breaker lets nothing pass unless some path was found (`SomeSeen`), which is a count of finite sets. `OrphKept`:
  outside a cleanup nobody is an orphan. It needs `IdsKept`, or one path's entry could name another's rows.
* *FolderPurge.* `Purging`: what is left to delete are rows of unwatched folders, and unless a deletion
  failed they are all there are. With it go the types of the purge meta, which never holds two verdicts.
* *PolicyJob.* `Leased`: a command anywhere between the mailbox and its result is the one the lease is held for. `FoldersAgree`:
  the copy the job works on has the folders of the moment it is swapped in. `Published` and `UnknownSeen`: the file and the
  shared object differ only between a save and its swap, or while the result is unknown and the controller has been told.
* *FailureSession.* `Followed`: view, baseline and pending changes together are the owner's map. `Seen`:
  while no thread runs the last terminal is in the mailbox or the view has no open cycle.
  `BypassesAsked`: every bypass in a record, in memory or on disk, was asked for or is the one that a single retry takes back.
* *QuerySession.* `Leased` ties worker, controller and lease together; `Answered`: nothing is said of the question that is
  open; `Reached`: for every pair of places of the worker and of cancel, which of the two will still look at
  the other's write; `Searched` and `Filtered`: the worker's settings are in force while it runs, and what waits in the
  queue of signals excludes nothing found.
* *Lifecycle.* `OnePrimary`: the lock names its holder from `TryLock` to `Unlock`, and the endpoint from the moment it
  listens. `Leaving`: one case per place of the shutdown sequence, of what it has seen to by then.
* *OfficeGuard.* `GatesCounted`: the counter of the gate is the number of cleanups under way, one per thread, plus the quit
  watchdog's own. `Numbered`: every record, wherever it was copied, is of an instance that was started
  and is a Word of ours; numbers are never used again while pids are, so a cleanup that compares identities
  ends only ours. `Registered`: while a Word is registered, the number about to be recorded is the one that was created,
  and a kept reference has closed the gate. `Accounted` adds to `OursAccounted` that a process a cleanup did not find in its list is gone.
  `Armed`: a cleanup of the watchdog lasts within the call it was armed for. `Judged`: as long as the epoch has not moved, the listing
  the worker looks at names no Word of ours that is missing from the records; a cached listing inherits it because every change of
  the records drops the cache.
* *MailIndex.* `MailInv` follows a promise to the row behind it. A row is *solid* when its id is in no queue of deletions: not the
  saved one, not the cycle's, not the one `delete_captured_ids` has in hand. `Promises`: a mail has a solid row if it can be found
  (`FoundSolid`), if the saved or the cycle's cache vouches for one of its files (`Claims`; a lost table is excused until
  a cycle has noticed it), and if the scan has seen it current, has a generation of it that succeeded or is about to mark it
  done (`Settles`). `Phase`, `Untouched`, `Returns`, `WindowOpen` say what each stop of the scan has and has not begun,
  `Waiting` that an id leaves a queue only when its row is gone, and `IdsKnown` whose rows the ids are that the window and the
  waiting copies remember, so that their deletion takes no other mail's.
* *PptSession.* `TicketFresh`: a ticket that may still become the right to quit names a host this program started and never
  asked. `StartUnsettled` and `AskedOnce`: from the reservation to the commit the ticket is no older quit's, and at the request itself
  it is spent. No observation gives a ticket back (`Quiet`). `CreateAlone`: between the look for a PowerPoint and CreateProcess no
  host of ours appears, so `OneHost` is kept by the only steps that add one.

Each invariant was an invariant of a TLC run, with the constants of its module's run, before it was proved: `Excused` and the
invariants under it on the 406,681 states of `DocIndexCrash`, `MailInv` on the 811,327 of `MailIndex`, the others likewise, those
of DocIndex that have hypotheses under smaller fault sets.

### Only model-checked

* Liveness and everything else that needs fairness or ENABLED: `Converges`, `RemovedIsHidden`,
  `RemovedIsForgotten`, `RetriedEventually`, `LeaseEnds`, `EveryMailSettles`, `HungCallEnds`, `GateOpens`, `GateReopens`,
  `QuestionEnds`, `ExitEnds`, `SecondStartShows`, `StartEnds`, `KeepsCompact`.
* The safety properties of LanceMaintenance that no cfg lists, `CompactedAfterCheckpoint` and `NoEarlyCompaction`, and
  `SetupUndisturbed` of PptSession. Every invariant and action property of a passing run is the statement of a theorem.

## 5. Where the code and what it says of itself differ

`PROJECT.json` quotes each line. The first is shown by a run, the next seven by traces of other
configurations of DocIndex and FolderPurge (their fault sets are named), the others by
states or steps of the module that models the code.

| At | What happens | Shown by |
|---|---|---|
| `scheduler.py:1059` | After a recreated table, a crash between the first add and the first checkpoint leaves the other documents claimed and unindexed (comment at `scheduler.py:1055`) | run `DocIndexRecreated` |
| `cleanup.py:57` | With two watched folders of which one's text is a prefix of the other's, a missing file's rows are hidden and deleted in one cycle (`DESIGN.md:293`) | DocIndex with three documents, `NestedRoots`, `NestedHolds`, no faults |
| `scheduler.py:1243` | A hidden document that comes back unchanged (recycle bin) stays hidden; `docs/design/DESIGN.md:71` says its flags are reset | DocIndex, `Faults = {"restore"}` |
| `cleanup.py:153` | The cleanup pops an entry whose pending deletions have not succeeded (`DESIGN.md:90`) | DocIndex, `{"delete"}` |
| `cleanup.py:111` | `startswith` lets `C:/docs` take the documents of an unreachable `C:/docs2` for orphans (`DESIGN.md:291`) | DocIndex with `TwoRoots` and `PrefixHolds` of MCDocIndex |
| `cleanup.py:113` | A share lost after the root guard, between two `exists()` calls, makes documents that are there look deleted; within the breaker's ratio they are hidden and skipped as unchanged later (`DESIGN.md:291`) | DocIndex, the constants of `DocIndexCrash` |
| `bridge.py:407` | Folders added through the UI are stored with `/`, the state's paths have `\`: the cleanup never finds an orphan (`DESIGN.md:293`) | DocIndex with `NoHolds` |
| `scheduler.py:819` | A crash between the purge's deletions and the last flush leaves claims without rows, and nothing looks for those (`purge_meta.py:26`) | FolderPurge, a folder watched again |
| `lifecycle.py:113` | The process that quits gives its lock away before it erases the marker, and may erase the next one's | Lifecycle, `Unlock` before `EraseMarker` |
| `single_instance.py:159` | A second start that reaches a primary on its way out is answered, and no window appears (`docs/UPDATE_NOTES.md:288`) | Lifecycle, `Told` while exiting |
| `single_instance.py:41` | A start that connects but cannot write its request still takes the primary for notified, and ends (docstring at line 34) | Lifecycle, `Told` with the inbox unchanged |
| `ppt_shutdown.py:290` | A start refused at exit meant to drop its ticket, but compares with the object it has just replaced: the ticket stays pending | PptSession, `Create` |
| `ppt_preparation.py:137` | When the worker object could not be made, a later start is reserved and never taken or refused | PptPreparation, `StartEnds` without its exception |

## 6. Limits

* *DocIndex.* A generation's rows are one element: `table.add` is taken as atomic and a
  deletion by id list as all or nothing, as the code relies on. A revision is never reused by an
  edit (mtime has nanoseconds); only `Restore` and `Mount` bring an old one back.
  Back-off, DRM idleness and every reason to skip a document for a cycle are one
  fault, `skip` (FailureSession has the reasons). Overlapping folders are no configuration of
  a run (section 5 says what they change), and the scan finds a path under its own root alone. The index format version, the schema upgrade and legacy rows are not modelled.
* *FailureSession* covers documents; the failure records of mails are `waiting` in MailIndex.
* *MailIndex.* A mail is one row. Older formats of its state file, `mail.enabled = false`
  and the index version are left out. `Settled` claims the last content only for mails that never had another
  copy: an older copy may replace a newer one over cycles (a limit that
  `docs/design/EMAIL_DESIGN.md:144` names).
* *LanceMaintenance.* `note_external_optimize_success` has no caller. A table whose backlog is
  closed with few fragments sets the routine gate again every time, hence
  `KeepsCompact` is stated at `Finalize`.
* *OfficeGuard.* One quit-watchdog cleanup at a time. Word only: Excel runs the same code. `GateOpens`
  assumes that an unregistered Word of ours exits when its reference is let go.
* *QuerySession.* What a search finds is arbitrary; the wording of a status is not kept. A thread whose
  start fails without raising is not modelled.
* *Lifecycle.* Each collector has at most one Office process, and a query matters only at exit.
* *PptSession.* The installed program on Windows with the build that quits automatically: elsewhere, and with a
  plain or fake reader, `begin` makes the worker at once and no PowerPoint is read. The deadlines of single COM operations are "may fail".
* The modules meet through the variables named in section 2 (`policy` in QuerySession is
  PolicyJob's lease, `waiting` in MailIndex a failure record, `worker` in Lifecycle a cycle), not in one
  composed state space, which TLC could not search.

### Not modelled

PowerPoint capture and diagnostics, the file readers, chunker and encryption, idle
detection and memory logging, the pages of the UI, the C# add-in, build and
diagnostic scripts: they are pure functions, presentation, one system call, or tools run by
hand. What the indexing and the search rely on of them is a choice of outcomes in the modules above
(a read fails, a document yields no chunks, an idle time). Also left out: parsing, ranking,
prompts and HTTP formats.

## 7. Plan

Done: all components of section 1 that are modelled, with their runs, and the proofs of every safety property that a passing run
checks. What could follow:

1. LanceMaintenance: `CompactedAfterCheckpoint` as a theorem, with an invariant on `dirty` along the hard limit.
2. DocIndex with nested folders in all runs, and a scan that meets a path twice; the schema upgrade of the table.
3. MailIndex: `mail.enabled = false` and the older formats of the state file.
4. The C# add-in's side of the PowerPoint session, as far as the protocol with the reader goes.
