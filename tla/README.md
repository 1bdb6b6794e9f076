# TDCS in TLA+

This directory specifies and verifies the core of TDCS, a service that watches
directories, loads the files it finds into MySQL tables through a pipeline, and
keeps one row per file in the table `processed_files`. Several instances of the
service may share the table and the directories. Paths of code below are relative
to the package `src/` of the repository; `README.md` and `CONTEXT.md` are the
repository's own documents.

## 1. The system

| Component | Keeps | Operations | Hard behaviours |
|---|---|---|---|
| `infrastructure/processed_file_repo.py`, `state_tracker.py` | the table `processed_files`: status, claimed_by, claim_expires_at, retry_count, archive_path | `try_claim`, `mark_*`, `get_status` | one atomic statement each, interleaved with those of other workers and instances; leases; MySQL's left-to-right assignment |
| `core/file_processor.py` | nothing of its own | `__call__`, once per queued ref | crash or error between any two calls; dead letter decision; which breaker calls it makes |
| `infrastructure/file_archiver.py`, `TaskManager.move_to_dead_letter` | the copies of a file in the watched, archive and dead letter directory | move, delete, keep | partial failure after the row says SUCCESS |
| `infrastructure/worker_pool.py` | bounded priority queue, per-task breaker, backlog counters, paused tasks, threads | `submit`, `pause_task`, `resume_task`, `_work`, `_supervise`, `stop` | four locks taken one after the other; lost probes; dying threads; shutdown |
| `core/pipeline.py`, `etl/loader.py`, `etl/table_router.py`, `etl/transform_sandbox.py` | monthly tables and their registry, `_created`, a lock per table | `execute`: extract, transform in a subprocess, route, load; `archive_old_tables` | batches committed before a later one fails; tables created by several workers; the turn of a month; an answer lost after the commit |
| `watcher/event_handler.py`, `polling_scanner.py` | `_pending` timers, `_last_scan_mtime` | debounce, stability check, incremental and full scan | overlapping timer chains; rejected submits; scans that fail |
| `core/config.py`, `config_validator.py`, `core/task_manager.py`, `web/api/config_api.py`, `web/api/tasks.py` | `config.yaml`, the installed `AppConfig`, running watchers and scanners, `_config_lock` | load, reload, listeners; create, update, delete a task with rollback; start and stop a task | a reload covered by no lock as a whole; reload against reload; a listener cut off by an error; a rollback that fails too |
| `web/api/users.py`, `web/api/system.py`, `web/auth.py` | the table `users`, tokens | login, create, delete, change role, change password | roles believed from a token after they changed; bcrypt between check and update |
| `etl/cleaner_registry.py`, `web/api/cleaners.py` | template files, the registry that follows them, results kept for download | write, delete, rename, file events; run; redeem, purge | files read while they are written; events of files that changed again |
| `web/api/files.py` | nothing | `POST /files/<id>/retry` | operator actions at any moment |
| `infrastructure/cache.py`, `monitoring/*`, `utils/*`, front end | see section 6 | | none that the core depends on |

**Interaction.** A watcher, poller or web request builds a `FileRef` (task, path,
mtime: the key of `processed_files`) and calls `WorkerPool.submit`. A worker
thread takes the ref and calls `FileProcessor(ref, breaker)`, which claims the
row, runs the pipeline, records the outcome, archives the file or moves it to
the dead letter directory, and tells the breaker of the task about success and
failure. The breaker decides what `submit` admits. The retry endpoint and the
clock (leases) change rows from outside. `ConfigManager` replaces the
configuration as a whole and calls the listener of `TaskManager`, which starts
and stops watchers and scanners.

**What makes each part correct.**

- Claims: one processor per file; bounded attempts; SUCCESS is final; no copy of
  an unloaded file is removed; a crash does not strand a file; every claim gets
  an outcome. All of it together is the lifecycle in `FileLifecycle`.
- Pool: the counter covers the backlog; a half-open breaker sends one probe and
  never stays shut; a dead worker is noticed; after `stop()` nothing runs.
- Watchers: no version is reported before it was stable, an event for a version
  that stays is reported, scans leave no gap, polling finds what events missed.
- Pipeline: a file that succeeded is loaded completely, repeats add nothing to a
  table that has the unique key the loader asks for, and no table holds rows
  without being registered.
- Configuration: an acknowledged change stays; a failed change leaves the old
  file, unless its rollback fails too; the installed configuration is the file's;
  the watchers are those of the installed configuration.
- Accounts: an administrator is left; a password is replaced only by who has
  verified the current one.
- Templates: when all events are handled the registry shows the files; a result
  is there until it is redeemed, once.

## 2. Modules

```
FileLifecycle ───────┐ implements
ProcessedFileRepo ── FileProcessor ── MCFileProcessor         (TLC)
                          │    └───── FileProcessorProofs     (TLAPS)
HandlerVerdicts ──────────┤
CircuitBreaker ────── WorkerPool ──── MCWorkerPool            (TLC)
                          └────────── WorkerPoolProofs        (TLAPS)
                  WorkerSupervisor ── MCWorkerSupervisor      (TLC; its proofs are in the module)
WatchedFile ─┬─────── EventHandler ── (TLC) ──┐
             └─────── PollingScanner  (TLC) ──┴── WatcherProofs (TLAPS, both)
TaskSettings ──────── ConfigManager ─ MCConfigManager         (TLC)
                          └────────── ConfigManagerProofs     (TLAPS)
FileLoading ─────────┐ implements
                      Pipeline ────── MCPipeline, PipelineProofs
                      Accounts ────── MCAccounts, AccountsProofs
                      Cleaners ────── MCCleaners, CleanersProofs
```

**ProcessedFileRepo** has one operator per SQL statement, on one row.
`claim_expires_at` is `"null"`, `"future"` or `"past"`, what the statements
compare. `try_claim`'s `ON DUPLICATE KEY UPDATE` is a composition of
`SetStatus`, `SetClaimedBy`, `SetClaimExpiresAt` in the order of the columns,
because MySQL assigns from left to right and a later condition reads what an
earlier column became. `FoundRows` is the driver's choice between matched and
changed rows in `rowcount` (SQLAlchemy's MySQL dialects ask for matched rows, so
the runs use TRUE; the proofs cover both).

**FileProcessor** is `__call__` with a program counter per worker. Each
repository call and each file move is an action; `pc[w]` names the next one:

| Code (`core/file_processor.py`) | Action |
|---|---|
| 35-37 `get_task` | `Take` |
| 39-41 `try_claim` | `TryClaim` |
| 43-45 `mark_processing` | `MarkProcessing` |
| 47-49 `pipeline.execute` | `Execute` (five outcomes; a missing file is skipped) |
| 50-54 | `MarkRaised` |
| 56-74 SUCCESS | `MarkSuccess`, `ArchiveKeep/Delete/Move/Raises`, `MarkArchived` |
| 76-78 SKIPPED | `MarkSkipped` |
| 80-96 RETRY | `MarkRetry`, `MoveToDeadLetter`, `DeadLetterRaises` |
| 98-107 FAILED | `MarkFatal`, `MoveToDeadLetter`, `DeadLetterRaises` |
| an exception out of a call | `RepoRaises` (before the commit), `RepoAnswerLost` (after it) |
| return to the pool | `Return` |

The environment adds `Crash` and `Start` of an instance, `Expire` of a lease and
`RetryFile` (the endpoint). `disk[f]` is the set of directories holding a copy.
`verdict`, `taken` and `loads` are history: the breaker calls made for the
current ref, whether a lease of the file was overtaken with nobody processing
(`"orphan"`) or under a live processor (`"stolen"`), and how often the file was
loaded. Only the guards that write them read them.

The lease (`claim_timeout`) is never renewed. If it ends under a worker that is
still processing, another worker may take the file over, and the first still
writes its outcome over the row (`mark_success` and its siblings match the key
alone). Most properties therefore speak of files that were *not stolen*; that is
exactly the guarantee the code gives.

**HandlerVerdicts** is the contract between the two halves: the sequences of
breaker calls one ref can cause. FileProcessor is proved to keep it
(`VerdictContract`); WorkerPool assumes nothing else about `process_fn`.

**CircuitBreaker** has one operator per method, on a breaker record; each method
holds the breaker's lock. `cooled` and `stale` are the comparisons of
`_opened_at` and `_half_open_at` with `recovery_timeout`.

**WorkerPool** cuts `submit` where it changes locks: `Submit` (paused?), `Allow`
(breaker), `Put` (queue), `Count` (counter); and `_work` into `Get`, `Process`,
`Record`, `Finally`. The queue is its places, each free or with the task of a
ref: the rest of a ref does not matter here, and the order of the places means
nothing, since `Get` picks by priority.

**WorkerSupervisor** is the life of the threads: `_work`'s loop without the
work, `_supervise`'s passes over the slots (`Healthy`, `Disable`, `Restart`),
and `stop()` (`StopCall`, `JoinSupervisor`, `JoinWorkers`). `gaveUp` says that a
join timed out.

**WatchedFile** is the environment of the watchers: one path, its modification
time and the clock. A write stamps the file with the clock's tick; a rename into
the directory (`MoveIn`) brings any earlier time along. `Gone` is a file whose
`os.stat` raises, for whatever reason: the code treats every `OSError` alike, so a
file that cannot be reached for a while vanishes and moves in again.

**EventHandler** is one path of `watcher/event_handler.py`. Each delivered event
starts a chain of timers (`Schedule`), and each timer's thread runs
`_check_stability`, cut at the stat and at the lock: `Fire`, `Stat`, `Cleanup`,
`Count`, `Store`, `Pop`, `Emit`. `cancel()` ends a chain that waits and has no
effect on one that runs, so chains overlap and share the three entries of
`_pending`. `told`, `checks` and `reported` are history.

**PollingScanner** is `watcher/polling_scanner.py`; `_scan_lock` admits one scan
at a time (`ScanBegin`, `VisitPasses`, `VisitKnows` or `VisitFinds`,
`ScanSubmit` or `ScanRaises`, `ScanEnd`), and the file may change between any two
steps. `mode` is chosen once: polling `off` (only manual scans), `incremental`
or `full`. `offered` and `late` are history. Its specification is `ScanSpec`: the
names of its parts differ from the handler's, and one module proves about both.

**FileLifecycle** is what FileProcessor promises of a file, without rows,
leases, owners and statements: open, held by at most one worker, then loaded,
skipped or failed with one attempt more. FileProcessor implements it
(`ImplementsLifecycle`) under this mapping:

| FileLifecycle | FileProcessor |
|---|---|
| `stage[f]` | the status of the row: none is open, CLAIMED and PROCESSING are held, PENDING is set aside |
| `attempts[f]` | `retry_count` |
| `holders[f]` | the workers between `mark_processing` and the write of their outcome |
| `broken[f]` | the lease of `f` ran out under a processor |

**TaskSettings** is the data of the configuration: what the schemas of
`core/config_validator.py` admit (`validate_config`), what a missing setting
means to `core/config.py` (`AppConfig`), and what it means to the web form
(`_build_task_dict`, `_merge_task_update`). A document is a record of global
settings and of tasks, each a partial function from setting names; an instance
keeps the settings it names in `Fields`.

**ConfigManager** is the file, the installed configuration, the running watchers
and the requests at work on them. A request is cut where a lock is given up or
a call may fail:

| Code | Actions |
|---|---|
| `config_api.create_task`, `update_task`, `delete_task` | `Submit`: lock, read, change, validate |
| `_save_and_reload` | `_write_config_yaml`, `WriteFails`, `Read`, `ReadFails`, `Undo`, `UndoFails`, `Finish` |
| `PUT /reload` | `Reload`, without `_config_lock` |
| `ConfigManager.reload` | `Read` (file and validation), `Swap` (under `_lock`), then the listener |
| `TaskManager._on_config_changed` | `Listen` decides; `ApplyStop`, `ApplyChange`, then per task to start `get_task` or `TaskIsGone` or `FolderIsMissing`, and `Start` or `StartFails` |
| `tasks.enable`, `disable` | `Enable` with the steps of `start_task`; `Disable` |
| `main.bootstrap`, end of the process | `Bootstrap`, `Crash` |
| an operator's editor | `HandEdit` |

`expected` (the file that the acknowledged changes make, and with them the two
kinds of change that stay without success: one whose rollback could not write the
old file, and one that a crash cut off after its write), `unsettled` (the file
changed and was not read since), `overlapped` (reloads or starts crossed),
`synced` (the last reload ran alone and to its end) and `lagging` (tasks whose
change an interrupted listener did not come to) are history. They state exactly
when the code promises that file, configuration and watchers agree.

**Pipeline** is `ETLPipeline.execute` per worker with `TableRouter` and the
loader: `Execute`, `Transform` or `TransformFails`, per table of a batch
`TableKnown` or `LockTable`, `_create_table`, `Register`, `AddCreated`, then
`load_batch`, `LoadFails`, or `AckIsLost` (the commit happened and the answer did
not come). `Return` hands the status to FileProcessor; a file may be executed
any number of times, which covers every retry the claim protocol allows. A table
is the number of times it holds each row, counted to `MaxCopies`; the tables of
`Keyed` have a unique key over the business columns, and INSERT IGNORE
(`Insert`) absorbs repeats in those only. The key comes from the template that a
task names (`etl/loader.py:3-6` asks for it), so which tables have it is a
parameter; `MonthPasses` moves the clock; `Crash`
loses `_created` and the executions and keeps the database.

**FileLoading** is what Pipeline promises of the executions of files, without
batches in flight, table creation, registry, locks and caches: rows of the file
are kept, kept rows are stored where they belong, and an execution that succeeds
has stored all of them; what is stored stays. Pipeline implements it
(`ImplementsLoading`): `stored` is the pairs of a month and a row that `table`
counts (which rows a table holds, not how often), `file` and `kept` are the fields `file` and `valid` of `work`, and
`result` is the status of an execution at `done`.

**Accounts** is the table `users` and the tokens. A handler checks its token
first (`LoginReads`, `BeginChange`, `VerifyPassword`) and writes later
(`LoginEnds`, `delete_user`, `change_role`, `ReplacePassword`); `rowLock` is
MySQL's row lock of `SELECT ... FOR UPDATE`. `outdated` is history.

**Cleaners** is the template directory, the observer's events, the entry the
registry makes of a file as it was when the event was handled, and the download
store. A request empties a file (`OpenFile`) and writes it (`WriteFile`)
in two steps, between which the observer may read it (`Handle`, `Register`); the
write may break off (`WriteBreaksOff`) and leave the file empty or cut short.
`Found` is what a file may hold when the process starts.

## 3. Runs

| Run | Bounds | Shows |
|---|---|---|
| `file_processor` | 2 instances, 3 workers (two share an instance), 1 file, `max_retries` 2, loads counted to 2 | the safety of the claim protocol, and that it implements `FileLifecycle` |
| `file_processor_live` | 1 instance, 2 workers, 1 file, no crash and no database error | `ClaimsResolve` |
| `worker_pool` | 1 task, 2 submitters, 2 workers, queue of 2, threshold 2 | counter and breaker |
| `worker_supervisor` | 2 slots, 2 restarts per window | supervision and shutdown |
| `event_handler` | 2 chains at a time, 2 ticks, 2 undelivered events, 3 stability checks | debounce and stability against a changing file |
| `polling_scanner` | 3 ticks, all three modes | gaps between scans, refusals, failed scans |
| `config_manager` | 2 tasks, 2 requests at a time, 3 hand-written files, the settings `enabled` and `poll_interval` | file, configuration and watchers under changes, reloads, rollbacks and crashes |
| `pipeline` | 2 workers, 2 files with a common row, 3 rows, 2 months: the table of the first has a unique key, that of the second has none; copies counted to 2 | loads, repeats and table creation at the turn of a month; that it implements `FileLoading` |
| `accounts` | 3 users, 2 roles, 2 passwords, 2 requests at a time | deletions, role and password changes that cross |
| `cleaners` | 2 templates, 1 legal source, 2 requests at a time, 2 events in flight, 1 result, 2 ticks | registry against files, downloads against the purge |
| `claim_has_lease`, `unsubmitted_kept` | as `file_processor` and `config_manager` | what documents say and the code does not do (section 5) |

**Why the bounds are enough.**

- *Claims.* Rows of different files share nothing, and no action touches two, so
  one file shows every interleaving on a row. Two workers of one instance matter
  because they have the same `claimed_by`; two instances because they have not;
  three workers give a zombie, its successor and a bystander. `max_retries` 2
  has a first, a last and an exhausted attempt; `LoadsCap` 2 distinguishes "a
  second time". `archive_mode` is chosen per archive step, which covers a
  configuration that changes under a worker; `keep` is the action that a `move`
  without an `archive_dir` takes too.
- *Pool.* Two submitters are the least that race for a probe, and a queue of two
  can be full while both workers are busy. With one task the order of priorities
  is not exercised.
- *Watchers.* Two overlapping chains are the least that share `_pending`; when
  both live, a third event waits for delivery. Two ticks give an old and a new
  version, three give a scan that begins after one version and before the next.
  The handler and the scanner are checked apart: they meet only in the pool's
  queue and the table, where the claim protocol treats duplicate refs.
- *Configuration.* Two requests give a save against a reload, an enable or
  another save; with two tasks a listener can stop at the first and leave the
  second behind. One hand-written file has its task switched off, one changes
  a setting of a task and adds another, and one is not valid, so that reloads
  and rollbacks fail. An operator edits while no request is in flight
  (`EditBusy` 0); the proofs have no such bound.
- *Pipeline.* One file has a batch for two tables and a batch whose month cannot
  be read; the other repeats a row of the first. Two months are the least with a
  turn, and with one table that has the key and one that has not. Two copies
  (`MaxCopies`) are one too many.
- *Accounts.* Of three users, two can remove each other while the third acts;
  a third password would only be another wrong one.
- *Cleaners.* Two names are the least for a rename; two requests the least that
  write one file. One result shows its whole life. A file is a complete template
  or missing when the process starts (`Found`); broken ones come from writes that
  overlap or break off. The proofs have no such bound.

Symmetry is used for the two threads of one instance, for requests, for workers
of the pipeline, and for users, passwords and template names, in runs that check
safety only. Besides this table every bound is a CONSTANT with the comment "bound".

`CHECK_DEADLOCK FALSE` stands where the system may really stop: in
`worker_supervisor` (a pool that was stopped), in `event_handler` (a file that no
longer changes) and in `accounts` (everybody is disabled and all tokens have
expired, which `AdminRemains` shows to need an outdated token).

**Properties.** Claims: `ExclusiveProcessing`, `RetryBound`, `SuccessIsFinal`,
`NoFileLost`, `ExhaustedIsOurs`, `SecondLoadNeedsTakeover`,
`FirstAttemptHasLease`, `VerdictContract`, `ImplementsLifecycle`,
`ClaimsResolve`. Pool: `BacklogCovers`, `ProbeIsAlone`, `BreakerRecovers`.
Supervisor: `StoppedMeansQuiet`, `DeadWorkerIsSeen`, `StopEndsThreads`. Event
handler: `NothingLeftBehind`, `ReportedWasStable`, `EventIsReported`. Scanner:
`ScannedIsOffered`, `FullPollingFindsAll`. Configuration:
`AcknowledgedChangesStay`, `InstalledIsFile`, `WatchersFollow`. Pipeline:
`ImplementsLoading`, `NoRowTwice`, `LoadedIsRegistered`. Accounts:
`AdminRemains`, `VerifiedIsCurrent`. Templates: `RegistryFollows`,
`KeptUntilRedeemed`. Each is stated in words above its definition, and every
module has its type invariant. PROJECT.json names for every one of them a mutated
definition of the code that violates it.

**Fairness.**

- `ReliableSpec`: weak fairness of each worker's handler, that is, threads are
  scheduled and calls return. Nothing is assumed of operators, new refs or the
  clock.
- `WorkerPool.FairSpec`: weak fairness of threads and of the clock
  (`Elapse`), strong fairness of `Submit`: files of the task keep being
  detected, also when operators pause and resume it again and again. The code
  opens a breaker again only from `submit`, so without new files it stays open;
  the pollers provide them at every interval.
- `WorkerSupervisor.FairSpec`: threads are scheduled and `process_fn` returns;
  `stop()` need not be called, and `_RESTART_WINDOW` need not pass.
- `EventHandler.FairSpec`: timers fire and their threads run; nothing of files
  and events.
- `PollingScanner.ScanFairSpec`: a poller that is not off scans again, its thread
  runs, and (strong fairness) the pool does not refuse for ever, nor is the file
  unreadable for ever: pauses end, queues drain and `BreakerRecovers`. Nothing
  is assumed of manual scans and of the watcher.

## 4. Proofs

A theorem has the form `Spec => []P`, almost always for a property that a run
checks on a small instance, or says that a module implements its abstract
specification; the proof is for every value of the constants. Each follows one
argument: an inductive invariant, its initial step, one lemma per action (or
per group of actions with one effect), and a last step by PTL.

| Module | Theorems |
|---|---|
| FileProcessorProofs | the invariant and nine properties of the claim protocol; `ImplementsLifecycle` |
| WorkerPoolProofs | `TypeOK`, `BacklogCovers`, `ProbeIsAlone` |
| WorkerSupervisor | `TypeOK`, `StoppedMeansQuiet` |
| WatcherProofs | of the handler `TypeOK`, `NothingLeftBehind`, `ReportedWasStable`; of the scanner `ScanTypeOK`, `ScannedIsOffered` |
| PipelineProofs | `TypeOK`, `NoRowTwice`, `LoadedIsRegistered`; `ImplementsLoading`, and `SuccessMeansLoaded`, which says of Pipeline's own state what FileLoading demands of a success |
| ConfigManagerProofs | `TypeOK`, `AcknowledgedChangesStay`, `InstalledIsFile`, `WatchersFollow` |
| AccountsProofs | `TypeOK`, `AdminRemains`, `VerifiedIsCurrent` |
| CleanersProofs | `TypeOK`, `RegistryFollows`, `KeptUntilRedeemed` |

**Claims.** `FileProcessorProofs` proves, for any sets of instances, workers and files, any
`max_retries` and either meaning of `rowcount`:

    Spec => []IInv                          (Inductive)
    TypeOK, ExclusiveProcessing, RetryBound, SuccessIsFinal, NoFileLost,
    ExhaustedIsOurs, SecondLoadNeedsTakeover, FirstAttemptHasLease,
    VerdictContract

None of the properties is inductive alone. Exclusion needs to know that a
processor's row says PROCESSING (`LockInv`), so that neither a fresh claim nor
`mark_processing` matches it. The retry bound needs that a claimed row still has
an attempt left (`RetryInv`), which holds because only a processor counts, once,
and that needs exclusion. SUCCESS is final because a writer of an outcome is a
processor, whose row is not SUCCESS. `NoFileLost` needs that the row is still
SUCCESS while its worker archives (`ArchiveInv`). What `try_claim` does to a
FAILED row needs that such a row has no lease (`LeaseInv`); this is also where
the left-to-right assignment enters (`TryClaimCases`).

The conjuncts that relate a row to the workers on it are gathered per file
(`FileInv`). A step touches one row, so `OtherFiles` frames the others, and one
lemma per kind of call treats the file it touches: `TryClaimStep`,
`MarkProcessingStep`, `ExecuteStep`, `OutcomeStep`, `MarkArchivedStep`,
`TableStep`. A call whose answer is lost has the same effect on the row and is
treated with the call it belongs to (`ClaimCall`, `ProcessingCall`,
`ArchivedCall`, `OutcomeCall`).

**Pool.** `BacklogCovers` compares a counter with the sizes of three sets: the
places of the queue that hold a ref of the task, the workers that handle one and
the submitters that have put theirs and not counted it. Each step of `submit` and
`_work` moves one element on both sides of the comparison, except at the bound of
the counter, which no queue and no set of workers exceeds (`CountInv`), and at
zero, where the worker that uncounts leaves the set it stood in (`FinallyInv`).
That zero is why the property is an inequality. `ProbeIsAlone` needs that a
half-open breaker always has its probe marked (`ProbeOut`), which each method of
the breaker keeps (`BreakerMethods`).

**Supervisor.** For any number of workers and any restart limit; the
strengthening says that once the supervisor was joined in time it has left its
loop, and that only a pass starts threads.

**Lifecycle.** The last part of `FileProcessorProofs` shows that the initial state maps to the
lifecycle's and that every step is, for each file that is not broken, a step of
the lifecycle or none. The inductive invariant is what makes it go through: without exclusion a step of one worker could leave another holder
behind. Liveness of the lifecycle is not part of it.

**Event handler.** All chains of a path share one counter. It does not lie
because every stat is counted by the chain that made it, only later: the stats
that saw a version are at least those counted since it became `prev`, plus those
that chains have made and not counted yet (`ChecksInv`). The number of such
chains is a cardinality, so the proof uses the theorems on finite sets. That
nothing is left behind needs that an entry of `_pending` always has a chain that
will look at it, one before its drop of the entries (`EntriesInv`).

**Scanner.** `ScannedIsOffered` speaks of the time between scans. The
strengthening says what a running scan owes: up to `last` everything is offered;
up to the scan's start everything is offered or about to be submitted
(`GapInv`). A version that arrives during the scan is newer than its start.

**Pipeline.** What an execution must not forget is in `ExecutionOK`: each row
that was kept is in its table or in a group that remains, and the group's table
was created, then registered, before it is loaded. A known table (`_created`) is
registered, so a crash between any two steps leaves no unregistered rows. That
rows are not stored twice (`NoRowTwice`) is proved for the tables of `Keyed`,
whatever that set is; of the others it says only that their rows belong there. That
the pipeline implements `FileLoading` needs one thing more: what remains of a
file is of that file, and what is in the groups was kept (`OriginInv`). Each
action of a worker then maps to one of the abstract specification, and routing
and table creation to none.

**Configuration.** Four parts. `Lock`: what the holder of `_config_lock` knows of
the file from its read to its answer or rollback. `Settles`: whoever changes the
file reads it again, and what was read last is installed, unless reloads cross.
`Watch`: a task whose watcher does not agree with the configuration is one that
the listener at work has still to come to (`InStep`, `ListenOK`). `Shape`: types
and program counters. `EditBusy` is no part of the assumptions: an operator may
edit at any time.

**Accounts.** The invariant adds to the properties only that no request works on
the row of its own user. An update by an enabled administrator then leaves that
administrator.

**Templates.** `RegistryFollows` says nothing while events are in flight, and the
file may change again while one is handled. The strengthening (`Follow`) does:
the last event in flight about a name tells whether the file is there
(`LastIsTrue`), so what is read for it is the newest content; and when no event
about a name is to come, the file is as it was read or as it is registered
(`NothingToCome`). An entry made from a file that had gone is wrong until the
event that is then in flight. Events are an arbitrary sequence, which the proof
treats by position: one is added at the end (`EventAdded`), one is taken from the
head and the others move up (`HandleInv`). For the downloads, what is stored is
what was promised and not redeemed (`Kept`).

Assumptions: `RepoAssumption` (NULL is not an instance, `max_retries` a natural
number: `core/config_validator.py` admits 0..10), `ProcessorAssumption` (workers
belong to instances, NULL is not a file, the three archive modes),
`WatchedFileAssumption`, `EventHandlerAssumption` (finitely many chains at a
time, at least one stability check), `PollingAssumption` (the three modes),
`PipelineAssumption` (the months of rows and the contents of files have their
types, `Keyed` is a set of months, copies are counted to a positive number, NONE
is neither a month nor a file; no table is assumed to have a key), `ConfigAssumption` (operators' files name tasks of `Task`),
`AccountsAssumption` (there is a role `admin`), `BreakerAssumption` (a positive
threshold), `PoolAssumption` (finitely many threads; the bound of the counter is
no smaller than queue and workers together, so it hides no overflow),
`SupervisorAssumption` (the restart limit is a number), `CleanersAssumption`
(NONE is not a content, `Found` are contents or NONE; times are numbers). TLC evaluates each of them on
the instances.

**Only model-checked.** Liveness (`ClaimsResolve`, `BreakerRecovers`,
`DeadWorkerIsSeen`, `StopEndsThreads`, `EventIsReported`, `FullPollingFindsAll`)
is out of the prover's reach, as is ENABLED. Every safety property that a passing
run checks is a theorem.

## 5. Where the code and the documents disagree

Shown by a run of its own:

1. **A retried claim has no lease** (`claim_has_lease`). The condition of
   `claim_expires_at` reads the `status` assigned two columns before and is
   false for a FAILED row. The retry keeps its old owner and a NULL lease:
   another instance can never pass `mark_processing`, and a crash strands the
   file in CLAIMED or PROCESSING. ADR-2 in `CONTEXT.md` says that the conditions
   agree.
2. **An update changes settings that nobody submitted** (`unsubmitted_kept`).
   `update_task` rebuilds every section of a task from the form's defaults, which
   are not those of the configuration: a task without `poll_interval` (0, no
   polling) gets 60, `retention_months` 0 becomes 12, archive mode `move`
   becomes `keep`. `_merge_task_update`'s comment says that fields which were not
   submitted are kept.

Met while modelling, and visible in the actions:

3. **The retry endpoint strands the file.** It sets PENDING, and nothing claims a
   PENDING row (`Reset` leads to `set_aside` in FileLifecycle).
4. **A fatal file is claimed again.** Its row is FAILED with attempts left, and
   another ref of the file may be taken before the dead letter move, or after
   one that failed.
5. **The backlog counter leaks.** A worker faster than `submit`'s count leaves
   one too many for good; `BacklogCovers` holds in one direction only.
6. **An event's timer escapes the debounce.** A chain whose check runs while an
   event arrives drops the event's timer from `_pending` or puts its own there,
   and the next event does not cancel it. The glossary of `CONTEXT.md` says that
   repeated events trigger once. The duplicate ref is harmless to the table
   (`ExclusiveProcessing`, `SuccessIsFinal`).
7. **Incremental polling misses moved files.** It skips by modification time,
   which a rename keeps, although ADR-6 names lost `on_moved` events as the
   reason to poll. `FullPollingFindsAll` holds for `poll_incremental: false`.
8. **A retry across the turn of a month loads a row twice** when its partition
   field cannot be read: such a row goes to the table of the current month, and
   INSERT IGNORE does not see the other table. `README.md` and `etl/loader.py`
   call the load idempotent; of such rows `NoRowTwice` says only that each table
   with a key has them once.
9. **Racing reloads leave old settings.** `PUT /reload` does not take
   `_config_lock`; two reloads may install in one order and call the listeners
   in the other. A missing folder ends a listener before the tasks behind it,
   and the next reload sees no change in them. `WatchersFollow` excepts exactly
   these (`overlapped`, `lagging`).
10. **Two administrators can remove each other** with tokens that still say
    `admin`, and none is left (`outdated` in `AdminRemains`).
11. **The repository's own tables load rows twice.** Line 10 of `README.md`
   says that `INSERT IGNORE` keeps repeated processing from producing duplicate
   data, and `etl/loader.py:3-6` that this rests on a unique index over the
   business key, from the table's template. The two templates in the
   repository, `sql_templates/cfd_data.sql` and `sql_templates/smoke_test.sql`,
   have an AUTO_INCREMENT `id` and no other key (the example in
   `USAGE.md:176-189` has one), and nothing checks a template for it. With them
   each retry of a file that was loaded in part stores the committed rows again,
   as `Insert` does in a month that is not in `Keyed`.
12. **A change that was refused may stay.** When the reload fails and the old
   file cannot be written back, `_save_and_reload` raises
   (`web/api/config_api.py:243-247`) and leaves the new file in place, to be read
   at the next reload or start. Its docstring (line 234) says that the old
   file is restored, and the answer 500 (272, 299, 334) puts "rolled back" before
   the message that it was not. `AcknowledgedChangesStay` counts the change as one that stays
   (`UndoFails`).

## 6. Not modelled

- The cache (`infrastructure/cache.py`): no caller in the program.
- HA election and field encryption: `main.py` passes neither.
- Monitoring, dashboards, the audit log, the quality report, logging: they read
  or send; nothing in the core reads what they keep.
- The login rate window: a list under one lock.
- The front end, the API description, directory browsing and the endpoints that
  only answer; the connection pool.
- In the modelled parts: SQL errors other than a failing call; hashing; the
  environment of the sandbox and what transformers compute (a row of `Content`
  stands for all that a transformer makes of it, also where it renames columns or
  splits rows); a change of `max_retries` by a reload (`core/file_processor.py`
  takes it from the configuration at each call, lines 40 and 81; here it is one
  constant, so `RetryBound` is about a limit that stays); a dead letter move
  across devices, which copies and deletes and may leave both copies (here it is
  one step); `validate_syntax`,
  `remove_breaker`, the compress and the cleanup job, which the program never
  calls; clocks that differ between instances; the content of files (a file
  overwritten in place keeps its ref); two files of one name that race for an
  archive path; the files behind one that cannot be read in a scan.

## 7. What could follow

1. A directory of several files for the scanner, to show which files a failing
   scan passes over, and for the archiver, to show the race for one name.
2. Watchers, pool and handler composed: a detected file is eventually handled,
   across a restart.
