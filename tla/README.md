# Excubitor: a verification development

TLA+ models of Excubitor's own core logic, TLC instances that model-check them,
and theorems about them that TLAPS proves. Paths are relative to the
repository (`src/src/...` is its TypeScript source, `src/spec/...` its
documents); `PROJECT.json` maps every definition to the lines it stands for.

## 1. The system

Excubitor watches and operates the services of a site. Two long-lived processes
share one SQLite database and a socket:

* the **supervisor** (`src/src/local-control/`), started by the operating
  system's service manager. It owns every lifecycle: that of the backend and
  those of the catalog's services. It also runs the daily update.
* the **backend** (`src/src/server.ts` and what it wires up): HTTP API, scanner,
  logs, federation with other sites, manual updates. It is spawned detached, it
  survives the supervisor, and it asks the supervisor over the socket for every
  start, stop and restart, its own included.

Both are single-threaded; what interleaves are promise continuations, timers,
child-process events and the other process. Everything hard comes from there: a
check whose answer arrives after the state it was about, and a process that
dies between two commits.

### 1.1 Inventory

For each component: its state, its operations, what it talks to, what is hard
about it, and the properties that make it correct.

| Component | State | Operations and interactions | Hard behaviour | What makes it correct |
|---|---|---|---|---|
| Backend controller (`local-control/excubitor-backend.ts`) | child or adopted pid, instance token, state, desired state, monitor generation, restart timer, `lifecycleTail`, `statusTail` | recover, start, stop, restart, preserve; owned and adopted monitors; exit and error events; restart timer. Writes the durable slot through the state store, acts on the operating system | supervisor crash around a spawn; stale monitor answers; refused stops; failed writes and kills; a timer racing an operator | never two backends; a live one can always be found again; a durable stop is true; the durable intent is reached |
| State store (`local-control/state-store.ts`) | supervisor record, backend slot, operation journal (bounded) | recordAccepted, recordCompleted, recordExcubitor, initialize; one write at a time, each an atomic rename | failed write whose value stays in memory; journal eviction | what was accepted is settled once; the slot is the last word |
| Supervisor dispatch (`local-control/supervisor.ts`, `target-queue.ts`) | ready and catalogReady latches, inflight map, per-target queues, claimed commits, closing | dispatch, prepare, commit, close, start; called by the CLI and the backend | duplicate operation ids, close during a commit, checks before an await | an operation id has one effect; a queue per target; nothing runs after ownership is released |
| Local-control transport (`server.ts`, `client.ts`, `cli.ts`, `ensure-supervisor.ts`) | sockets, frames | framing, roundtrip, bootstrap of a missing supervisor | two CLIs that both start a supervisor; lost replies | one owner of the endpoint |
| Operation runner (`federation/operations/runner.ts`, `store.ts`) | `federation_operations` rows, active drain, stopped flag, retry timer | enqueue, kick, drain, runOne, recover, stop | crash between two commits; deferral during a daily run; self restart in the middle of the queue | run once, one at a time, in order, each gets its turn |
| Self update and recovery (`self-operation.ts`, `self-recovery.ts`, `self-viewer.ts`) | `meta.service_recovery` phases | build, mark restarting, ask for the restart; after boot restart the supervisor's OS service, then ExView | the backend dies around a restart whose effect is unknown | never reissue an ambiguous restart; success means both are renewed |
| Update exclusion (`update/apply.ts`, `update/daily/store.ts`) | `daily_manual_updates`, `daily_update_runs`, settings | begin and end of a manual update, begin of a daily run, retry of a recovery | two processes that exclude each other through rows one of them clears at boot | a daily run and a manual change never overlap |
| Daily scheduler and transaction (`update/daily/`) | the run, its checkpoint, phases | tick, update, rollback, recover, failRecovery | crash in every phase; failed rollback; close in the middle | a run ends, a checkpoint is rolled back or kept, a broken site stays off |
| Process manager and reaper (`process/manager.ts`, `control/manager.ts`, `local-control/adopted-process-reaper.ts`) | managed instances, spawn generations, restart timers, retry counts | start, stop, restart, autorestart, adopt, reap | stop during spawn; restart during build; adopted processes that die | one process per service; a stopped service stays stopped; the retry limit is honoured |
| Boot reconciliation and ports (`process/reconcile.ts`, `port-ownership.ts`) | instance table, listening pids | adopt, discard, take back a port | a pid that is not what the record says | only own processes are adopted or killed |
| Health scanner (`scanner/`) | per service counters, open downtime | poll, thresholds, open and close a downtime, alert | late answers, restarts of the scanner | one downtime per outage, one alert |
| Log pipeline (`log/`) | cursors and saved offsets of the tail, ring buffers, parquet files | append, rotate, tail, publish on the bus, compact, query | rotation between two reads; a crash between a publish and the saved offset; compaction beside a query | no offset beyond an unpublished line; whole lines, in order |
| Error tasks and automatic fixing (`log/error-detector.ts`, `auto_fix/`) | `error_tasks` rows, the retry loop, Concordia's runs | open a task, delegate it, reconcile, retry, built-in repair, triage | a request carried out after its time-out; two processes that mark one row; death before the answer | one repair per crash; no fatal crash left alone |
| Federation (`federation/`) | peers, nonces, payload and peer caches, permits | poll, sign, verify, accept, alert | replay window against expiry, answers out of order | a nonce counts once; a cache never goes back |
| Release and launch orchestrators (`release/`, `launch/`) | step lists, progress | ordered steps with rollback, dependency waves | failure of one step, cancellation | order respected, partial effects undone |
| Network watch, DNS filter (`netwatch/`, `dnsfilter/`) | capture child, rules, registry | capture restarts, rule sync, reload | child death, write of a rule file in use | rules on disk and in force agree |
| Secrets, vault (`secrets/`, `vault/`) | encrypted stores, unlock state | read, write, unlock, inject | lock while in use | a secret leaves only when unlocked |
| Catalog, discovery, bootstrap, docker, tunnel, intrusion, security reports, memory, terminal, viewer, MCP, hub, overview, frontend, scripts | parsed files, caches, sessions | parsing, I/O, presentation | little shared state | outside the models |

`PROJECT.json` lists all of them with their status.

## 2. Plan

In the order of what matters most to a site. Done so far: 1 to 7.

1. `BackendController` (with `BackendPromise`, the abstract specification it
   implements): the backend's lifecycle. Everything else runs inside that
   process, so it comes first.
2. `UpdateExclusion`: who may change the repositories and services of a site;
   it composes the runner, self recovery, manual updates, the daily scheduler
   and the lives of both processes over the tables they share.
3. `SupervisorDispatch`: accept, prepare, commit, per-target queues, inflight
   map and the bounded journal, with lost replies, retries, failed writes and
   replaced supervisors.
4. `DailyTransaction`: the phases of one repository after the other, a crash or a
   failure in each, rollback from each, recovery and its retry.
5. `ProcessManager`: spawn generations, restart policy, both spawn strategies,
   adoption, the reaper, and the part of the boot reconciliation that concerns
   one service.
6. `LogTail`: the tail of a log file over rotations, failed publishes, stops and
   crashes.
7. `CrashDispatch`: from an error task to the repair run Concordia starts for it,
   with time-outs, retries and two processes that write one row.
8. `HealthState`: thresholds and downtimes. `Topology`: start order as a pure
   algorithm. `PeerCache` and nonces; release and launch orchestrators; the capture
   supervisor and rule synchronisation.

Of modules 1 to 7 every invariant and every safety action property that a run checks is
proved, of module 1 also that it implements `BackendPromise` (section 6). Liveness stays
with TLC. Still to state and prove are the invariants of step 8.

## 3. Modules

### 3.1 `BackendController`

One action is one uninterrupted segment of the code, from one `await` to the
next. The running lifecycle operation is the record `op` (what it is, where it
is suspended, what it is about, what its awaited call returned); `lq` is
`lifecycleTail`, `sq` is `statusTail`.

| State | Code |
|---|---|
| `child`, `adopted`, `token`, `state`, `desired`, `timer`, `preserving` | the fields of `ExcubitorBackendController` |
| `mon`, `ochk`, `achk`, `misses` | the monitor whose generation is current, a health check in flight (`fresh` is that it still holds the current generation), the failure counter |
| `disk`, `unsaved` | the slot of `supervisor-state.json`, and the slot in memory after a failed write |
| `up`, `closing`, `prev` | the supervisor process, its shutdown, the snapshot recovery starts from |
| `os`, `last` | the processes and the launch tokens drawn |
| `published` | history: the instances whose pid has been in the slot |

The actions are grouped as the code is: `RecoverNext` (recover, adoptInternal,
waitForPersistedIdentity, recoverStopped), `StartNext` (startInternal with its
reservation, spawn, publication and readiness wait), `StopNext` (stopInternal,
restart, preserve), `MonitorNext` (both monitors), `EventNext` (exit events, the
restart timer, the queues, status writes, commands), `Crash`, `Exit`, `Boot`, and
`HostNext` (the processes themselves). An instance number stands for the random
token and the pid of one launch; pids are not reused. A health probe answers
with what is true when it is sent; the answer is used in a later action, so it
can be stale.

`BackendPromise` is what a reader of the slot may rely on: at most one backend,
a new one only while the intent is "running" and none is alive, no instance
twice. `KeepsPromise` maps the published live instance to its `cur`.

### 3.2 `UpdateExclusion`

One action is one commit of the database with the code around it. The runner's
program point and operation are `run`; where it awaits (`Waiting`), other
callbacks of the backend run, elsewhere only a crash can intervene ("torn").

| State | Code |
|---|---|
| `status`, `phase` | `federation_operations.status`, `meta.service_recovery.phase` |
| `manual`, `daily`, `kept`, `enabled` | `daily_manual_updates`, `daily_update_runs` and whether the run holds a checkpoint, the setting |
| `run`, `stopped`, `todo`, `retry` | the active drain or recovery, `stopped`, the snapshot recover() iterates over, the retry timer |
| `apply` | calls of applyUpdate |
| `sup`, `ask`, `ctl` | the supervisor, a backend restart it accepted, control requests |
| `sched` | the daily scheduler: draining, updating, rolling back, failing a recovery |
| `renewed`, `effects` | whether the supervisor has been replaced since a recovery noted it, and the restarts carried out (history) |

`RunnerNext` is runner.ts, `RecoveryNext` self-recovery.ts, `BackendNext` the other
changes of the backend process, `SupervisorNext` its counterpart, `DailyNext` the
scheduler with the two HTTP handlers that touch its tables. What an executor
does inside an operation is abstracted; the phases of a repository transaction are
in `DailyTransaction`, the idempotency of control requests in `SupervisorDispatch`.

### 3.3 `SupervisorDispatch`

One supervisor at a time, replaced any number of times. A client names its operation
by an id; an id and a kind ("service", "excubitor", or "deferred" for a prepared stop
or restart of the backend) stand for a request's id, target, action and dispatch mode.

| State | Code |
|---|---|
| `phase` | `started`, `closing`, and how far `closeInternal` is: "held" after a drain that timed out, "leaving" after the endpoint and the database were given up |
| `mem`, `writes`, `disk` | `state.operations` in memory, the updates chained on `writeTail`, the state file |
| `inflight`, `queue`, `stage` | the inflight map, the queue of each target and how far its head is |
| `claimed`, `calls` | `committedDeferredOperations`, replies of commits whose callback has not run |
| `runs`, `drops`, `told`, `unsaved` | history: executions, evictions, final answers, results a failed write lost |

`Retry` is a request the journal knows; a request that joins the promise of one in
flight changes nothing and has no action. `Request` is `beginDispatch` up to the wait
for the acceptance, `AcceptWritten` and `AcceptFails` its two continuations, `Completion`
the write of a result, whose value stays in memory when the write fails. `StatusWrite`
is the save of the backend's slot, which writes the same file and so repairs a lost
result. `Gone` is the end of the process: what is in memory is lost.

### 3.4 `ProcessManager`

One service of a local runtime; all maps of `process/manager.ts` are its entry in them.
One action is the code between two awaits that give up the event loop (a statement of
SQLite runs at once and does not).

| State | Code |
|---|---|
| `processes`, `adopted` | the spawned child with its restart count, the process managed by pid |
| `desired`, `holder`, `timer` | `desiredStates`: the wish and who was given its current generation; the restart timer |
| `spawn`, `auto` | the reservation and the step of `spawnReservedService`; `autoRestartService` |
| `cmd`, `retry` | the operation in the service's queue (request, reaper, autostart) and its step; `retryCounts` |
| `row` | `service_instances`: state and pid |
| `live`, `up` | the processes of the service, the supervisor |
| `answer`, `lost`, `autos` | history: the last answer, processes given up with an error, automatic spawns |

A generation number is abstracted to its holder: `Current(who)` is true for the one who
was given the latest. `outside` chooses the strategy for a whole behaviour: on win32 the
process comes out of an external launcher and is managed by pid (`Launched`, `LaunchEnds`,
identity check, `adopted`), on POSIX it is a child (`wait`, `processes`, `ChildExit`, timer).
`Identity` answers verified, unreadable (a fault) or exited. `Boot` is the reconciliation
from the row or from the declared port, and autostart.

### 3.5 `DailyTransaction`

The run of one day. `pc` is the step, `dir` whether it goes to the new version or back,
`mode` whether the scheduler's loop or a recovery drives it. A repository is the version of
its HEAD (`head`, with `dirty` for local edits), of its submodules (`sub`), of its last build
(`dist`), and its services (`proc`: off or the build they run). `checkpoint` and `status` are
the run's row; its phase is left out because no code reads it. Every step can fail, and the
supervisor, alone or with the machine, can die between any two. `External` is somebody else's
commit or edit. The update and the rollback share their steps; `To`, `Checked` and `Fails`
say how they differ. `SelfRepos` are the repositories that hold Excubitor itself: their update
adds the event "supervisor-restart-required", which like a rollback makes the scheduler record
the run as failed (`blemish`), so that somebody restarts the supervisor.

### 3.6 `LogTail`

One log file of one service. A byte of line k is k and its newline is -k, so that what is
published tells which line it came from. One action is the code between two awaits of
`tick`; the offsets refer to a file whose identity nobody keeps, and the ghost `sure` says
whether the file they refer to is still the present one.

| State | Code |
|---|---|
| `file`, `lineLen` | the bytes of the file, and the lengths of the complete lines written so far |
| `cursor` | the entry of `cursors`: `readOffset`, `committedOffset`, `pending`, `discardUntilNewline` |
| `offsets`, `dirty`, `disk` | `offsets[path]`, `offsetsDirty`, the state file |
| `pc`, `d`, `own`, `want`, `buf`, `nxt` | the step of `drain`, the cursor object it holds and whether that is still in the map, its locals |
| `stream`, `ingested`, `floor` | history: lines published since the last start or failure, lines published whole, the line the bounded backfill cut |

`Rotate` is the supervisor's `rotateIfOversized`, at any moment; `Uncatalog` and `Catalog`
are the two loops of `refresh`, which do not wait for a tick; `Reject` is a publish that
fails after others of the chunk went out. A save whose write or rename fails leaves `offsetsDirty`
set and is repeated; one that fails at its mkdir, outside the `try`, leaves it cleared.

### 3.7 `CrashDispatch`

The error tasks of the one service whose crashes are delegated. A statement of SQLite
is a step and so is the code between two awaits. The backend (detector, retry loop,
built-in repair) and the supervisor (`raiseRestartLimitError`, `raiseRestartBuildError`)
share only the table.

| State | Code |
|---|---|
| `state`, `fix`, `fatal` | `error_tasks.state` (open, ack and snoozed are one), `auto_fix_state`, rows of severity fatal never marked |
| `ripe` | time: `issue_dispatch_next_at` has come, or a "dispatching" row is a minute old |
| `direct`, `origin` | the dispatch beside an insertion, and the process it runs in |
| `loop` | `retryPendingConcordiaDispatches`: its rows, the row it is at, its await |
| `fixer`, `listed` | `inFlight` of the built-in repair, whether the service is in the catalog |
| `runs`, `stray` | Concordia's runs per task; requests whose caller has gone and that may still be carried out |
| `overtaken`, `raced` | history: strays carried out after another request or answer, rows the loop read before they were marked |

A time-out is shorter than the retry delay and the age of a stuck row (`Ripen` waits
for the request's end), as the defaults of the code have it.

## 4. Runs

The `MC` modules only extend their module; an
instance is a `.cfg`. `Faults` is the set of fault kinds that may happen,
`MaxFaults` bounds their number; the bounds are guards of the actions that
consume them (launches in `StartReserve`, commands in `Command`, faults in `Fault`).
The runs of the backend controller and of update exclusion have `CHECK_DEADLOCK FALSE`: a
supervisor and a backend at rest have nothing left to do, and when an instance's requests,
days and faults are used up nothing more happens; so has that of `CrashDispatch`, where
every task may be delegated or closed. That nothing hangs before is what the
liveness properties say. The runs of the other four modules check for deadlock: requests
for a status, retries, polls and the restart of a supervisor are never used up.

### 4.1 What holds

| Run | Instance | Shows |
|---|---|---|
| `backend_safety` | 2 launches, threshold 2, 2 commands, 2 faults of all kinds; 720 000 states | types; never two published backends; a live one is named by the slot; a durable "stopped" is true; a spawn is reserved before it happens and recovery keeps a stopped intent; the controller implements `BackendPromise` |
| `backend_converges` | 5 launches, 2 commands, 2 faults (supervisor crash, backend death); liveness | a durable "running" is served and a durable "stopped" leaves no backend |
| `update_safety` | 2 operations, 1 manual update, 2 days, 2 faults of all kinds; 2.2 million states | daily runs and operations never overlap; one active run; operations are started once, settled once and run alone; a recovered self update restarts the supervisor and ExView at most once, and success means the viewer was refreshed |
| `update_progress` | 2 operations, 1 day, 1 control request, 1 fault (either crash, lost reply); liveness | a queued operation gets its turn |
| `process_manager` | 1 service, 5 process slots, `max_restart` 1, 4 faults of all kinds, both strategies, unbounded requests; liveness | never two processes; a live one is always known to somebody and what is managed is in the row; a stop sticks; automatic spawns are bounded; requests end; a death is answered |
| `supervisor_dispatch` | 2 ids, 2 kinds, a journal of 1 record, 3 acceptances, 1 outstanding commit per id, 2 faults, any number of restarts; 270 000 states; liveness | an id is executed once per record; the record is on disk before the effect, and nothing is queued beside itself; nothing is left to run when the endpoint is given up; answers never disagree; what was accepted and asked to run settles, and the inflight map empties |
| `daily_transaction` | 2 repositories of 2 services, any of them running, one of them Excubitor's own, 3 faults, 1 retried recovery; 1.2 million states; liveness | a finished run leaves every repository whole or under a checkpoint; a succeeded one has no checkpoint and has not updated Excubitor's own repository; a foreign commit is kept; a run ends |
| `log_tail` | 1 file of 4 bytes, 3 lines, chunks of 2, lines of 1 publishable, rotation above 3, 2 faults of all kinds; 1.8 million states; liveness | no offset is beyond an unpublished line; whole lines are published in order, once between two failures; every line that can be published is |
| `crash_dispatch` | 2 tasks, 1 act of a person, 2 faults; 1.4 million states; liveness | a crash has one repair run; a delegation stays known; an open fatal crash is delegated, repaired or closed |

Why the bounds are enough for the interesting cases. Two launches are a backend
and its replacement, which is where duplicates come from; five let the liveness
run use a launch for each fault and command and still have one left
(`DurableIntentReached` excuses only a behaviour whose launches are used up). A
threshold of two lets a health check fail without consequence. Two faults give a
crash in the recovery from a crash, or a failed write beside one. Two operations
give a queue with something behind its head; two days give a daily run after a
daily run, so a leftover of the first is seen by the second. In `process_manager`
four faults give a death, a failed termination and a crash around one spawn, and five slots
are more than can be alive or named at once. A journal of one record makes every further
acceptance an eviction, also of an operation that still runs, and with three acceptances an
evicted id is used again. Two repositories give one that was finished before the failing
one; three faults give a failed step, a failed step of its rollback, and a crash in the
recovery. In `log_tail` a chunk is shorter than a line with its newline can be, so lines lie
across chunks, chunks hold two lines, and a line of two bytes is oversized; a file of four
bytes can be rotated and outgrow the old offset. In `crash_dispatch` two faults give a
request that is lost and a retry of it that comes late. The theorems of
section 6 remove the bounds for the safety properties they state.

What the liveness properties leave out, on purpose:

* `OpGetsItsTurn` is conditional on no operation being "restarting": when the
  supervisor accepts the restart and dies before it carries it out, the operation
  stays "restarting" until something else restarts the backend, and the queue
  does not move unless a new request arrives.
* `update_progress` has no fault "torn" (a crash between two commits of one
  synchronous segment). A crash between the row of `daily_manual_updates` and the
  status leaves a row whose second insert throws; the operation then waits for the
  next supervisor boot, which clears the table. The step is an action of the model
  and `update_safety` explores it.
* `backend_converges` has no hangs and no failed writes. With a hang TLC refutes
  `DurableIntentReached`: `stopInternal` advances the monitor generation that both
  monitors share before it finds that the adopted backend cannot be verified; the stop
  is refused, and the adopted monitor, which would carry it out later, is stale.
* `DeathIsAnswered` counts an error in the log, a raised task, and a dead process that a
  status request found first as answers; the last is `process_status` below.
* `ExecutedOnce` allows one more execution per eviction of the record, and
  `AnswersAgree` excuses an evicted record and a result whose write failed before a
  crash: a client that was told "completed" is then told INTERRUPTED.
* `NothingSkipped` and `LinesArrive` leave out oversized lines, those before the bounded
  backfill, and those of a rotation the offset has not noticed (`ResumesAfterDown`, 4.3);
  `WholeLinesInOrder` allows the tail of an oversized line as the first line after a start.
* `OneDelegation` counts the requests that Concordia carried out after it had been asked
  again, and the rows the loop read between the supervisor's two statements: each allows
  one more run. `CrashIsHandled` has finitely many hits: an error that recurs within
  every minute renews `updated_at`, and a row left "dispatching" by a dead process is then
  never old enough to be retried. An unfatal task opened while the service is missing from
  the catalog is not sent and not in the loop's selection.
* `FinishedIsWhole` looks only at repositories nobody else changed during the run, and
  `ForeignKept` excepts a commit that falls between the check and the reset. It is about
  commits: local edits are left to `git reset --keep`, which keeps them or fails.
* `NothingLeaks` gives up a process whose identity could not be read, and `OneAtATime` does
  not count an operation that waits for its restart; `UnreadableIsKept` and
  `QueueWaitsForRestart` (4.3) do.

### 4.2 Where a document and the code disagree

Each of these runs checks one statement of a document or comment and TLC finds
a behaviour of the code against it. The quotations are in `PROJECT.json`.

* `backend_duplicate` (one supervisor crash, one slow start): the supervisor dies
  after the spawn and before the pid is published; recovery waits one readiness
  timeout for the reserved token, gives up, and spawns a second backend beside the
  first, which is alive and slow. The second loses the port when the first comes up.
  Among published backends there are never two (`AtMostOnePublished`).
* `update_apply_overlap` (one supervisor crash): the booting supervisor clears the
  row of a manual update that the surviving backend is still carrying out, and a
  daily run begins beside it.
* `process_status` (one death): the reaper, in charge of crash restarts of adopted
  processes, looks at the adoptions; a status request that comes first drops the dead
  adoption, so the reaper never sees it and the service stays down although it is wanted.

### 4.3 Stated, refuted, and kept without a run

These properties are in the modules; TLC refutes each of them when it is added to a
run. They describe windows a team should know of.

* `StopBeatsRestartPolicy` (`BackendController`): a restart timer that fires while a stop
  waits in `lifecycleTail` queues its start behind the stop, which undoes it.
* `QueueWaitsForRestart` (`UpdateExclusion`): the drain ends after it has handed off a self
  restart, and a request enqueued before the backend is stopped starts a new drain, so
  the next operation starts in a backend that is about to be stopped.
* `NoControlOverlap` (`UpdateExclusion`): a control request checks for a daily run, then
  awaits the catalog; the segment that resolves the catalog starts the scheduler, which
  sees no request in flight and begins the run.
* `BrokenSiteStaysOff` (`UpdateExclusion`): `failRecovery` commits `enabled = false` and the
  failed run separately; a settings save between the two switches the daily update on again.
* `UnreadableIsKept` (`ProcessManager`): a stop whose identity check cannot be read, and a
  boot whose check cannot, drop a process that is alive from memory and from its row.
  `NothingLeaks` counts such a process among those given up (`lost`).
* `AutostartHappens` (`DailyTransaction`): after a restart of the machine during a daily run
  the boot skips autostart (`supervisor.ts:171`), the recovery starts only the services of its
  checkpoint, and nothing starts the others, although `README.md:46` and
  `spec/plan/v0.1-design.md:205` say an autostart service is started with the supervisor.
* `ResumesAfterDown` (`LogTail`): a test of `process-log-tail.ts` is named "resumes from a persisted
  offset and ingests lines written while Ex was down". When the file was archived since the
  offset was saved, `Math.min(saved, size)` (line 139) passes over every line of the
  new file. The same happens to a running tail whose file has been archived and
  has outgrown the cursor between two polls.
* `NoTwoRepairs` (`CrashDispatch`): the built-in repair may be started while a delegation of
  the same task waits for its answer; both write `auto_fix_state` and neither looks at it.
* `ClosedStaysQuiet` (`CrashDispatch`): a task closed after the loop has read its row, or before the
  supervisor's second statement, is delegated all the same.

## 5. Fairness

Weak fairness is assumed of what the runtime and the operating system do by
themselves: promise continuations and queued operations (`RecoverNext`, `StartNext`,
`StopNext`, `Begin`, `Settle`; `RunnerNext`, `RecoveryNext`), completing writes, fired
timers and intervals (`TimerFires`, the ticks of both monitors, `TickRecovers`,
`DrainControls`), delivered child-process events (`ExitEvent`), the boot of the
supervisor by the OS service manager and of the backend by the supervisor, and the
end of requests that have begun (`ApplyEnd`, `ControlDone`). A signalled process dies
(`Killed`), one that starts comes up or finds its port taken (`Listen`, `PortTaken`), and
a hang passes (`Unhang`): the hang modelled is a backend that misses health
checks for a while. Fairness is stated per process or per kind of event, never for the
whole next-state relation, so that no process is kept alive by another's steps.

In `ProcessManager` the awaits of a spawn and of a queued operation end, exits are delivered,
timers fire, the reaper's interval runs and the service manager starts the supervisor again;
in `SupervisorDispatch` promises settle, callbacks of written replies run, and the service
manager also kills a supervisor whose close failed; in `DailyTransaction` a step ends by its
command or by that command's time limit. In `LogTail` the poll is scheduled again after every
tick, failed ones included (`schedule`), and a dead backend is started again. In
`CrashDispatch` the loop arms its timer after every tick, time passes, and an HTTP request
ends by its answer or its time-out; that a late request is ever carried out is not assumed.

Strong fairness is assumed twice. Of `Recover` in `DailyTransaction`: a close waits for the
startup it arrives in, which includes the recovery, so closes cannot keep a recovery away
for ever. And of `Finish \/ DisableDaily` in `UpdateExclusion`: a run works through
finitely many repositories, each of which sets and clears a checkpoint, and with each
checkpoint the action is disabled for a while. No fairness is assumed of operators,
faults, requests or days.

## 6. Proofs

The proofs assume the named assumption of their module only (`BoundsAssumption`,
`SupervisorAssumption`, `ProcessAssumption`, `DailyAssumption`, `LogTailAssumption`,
`CrashDispatchAssumption`: the bounds are natural numbers, sizes, the threshold and the
number of tasks are positive, sets that stand for processes are finite, the faults are known
kinds), so they hold for every number of launches, commands, operations, ids, days,
repositories, lines, tasks and faults, every journal size, chunk and line limit, and every
restart policy.

Each has the same shape. An inductive invariant `IInv` says of every program point what the
code relies on there; `Init => IInv` and one lemma per action, or per group of actions of
one shape, give `Spec => []IInv`; the properties of the runs follow from it, action
properties from `IInv` and the step. TLC checked each `IInv` on the run's instance before it
was proved, those of `DailyTransaction` and `ProcessManager` also for one step from every
state of a small instance that satisfies them, which finds a missing conjunct that no
reachable state shows.

### 6.1 The backend controller

`BackendControllerProofs` proves `TypeCorrect`. `BackendSafetyProofs` proves that `IInv` is
inductive (`Invariant`) and derives `NoSecondPublished`, `SlotFindsBackend` and
`StoppedIsTrue`. None of the three is inductive alone: whether a step keeps the slot
true depends on what the suspended operation is about to write. `IInv` has

* `OwnInv`: at most one of child and adopted pid is set, the token is its token, and a
  controller that says "stopped" has no live backend;
* `SuspendInv`: what the suspended operation relies on across its await (which of the
  two fields may be set, and whom it names), and that a dead supervisor holds nothing;
* `LaunchInv`: instances are numbered in the order of their reservations, and what a
  snapshot or the slot names by pid was spawned and has its own token;
* `MonitorInv`: a health check of the current generation belongs to the current monitor;
* `QueueInv`: a queued snapshot that names a live backend names the current one, and so do
  all snapshots behind it; none says "stopped" of a live one;
* `TrackedInv`: a live published backend is named by the slot, by the value a failed write
  left in memory and by every queued snapshot, so neither a write nor a crash loses it.

Most steps of the code have one shape, which `Segment` states: the processes and the slot
stay, at most one snapshot of the fields is queued, and a live backend is not let go of.
`SegmentKeeps` proves once that such a step keeps the invariant; the action groups are
then shown to be segments, and spawns, writes, crashes, boots and the steps of the
processes are proved one by one.

The second part of `BackendSafetyProofs` concerns the intent. `IInv` does not say what the
snapshots still to be written say of it, so `StartsAreIntended` needs more (`PromiseInv`):

* `AwaitInv`: the running operation waits for at most one of the queued snapshots;
* `ReserveInv`: a reservation is the last snapshot queued, and once it is written there is
  nothing else to write. So the spawn happens on a slot that nobody changes under it;
* `WishInv`: an operation that starts a backend has the wish "running", and a recovery from a
  durable "stopped" stays in the branch that stops;
* `IntentInv`: a recovery writes nothing before it has decided, and only its intent then;
* `FreshInv`: a live backend whose pid no slot has had was launched on a durable "running",
  and everything that is still to be written names it.

`IntentStep` is the shape of a segment for these, and `Touches` says that only a spawn, a
write and the processes themselves change what a reader of the slot could see.
`StartsIntended` is then a matter of these four, and so is `Refinement`: with `cur` the
published live backend, the write of an unpublished live pid is `Launch` of the promise,
any other write `Record`, the death of `cur` `End`; a spawn is a stutter, since nothing of it
is in the slot yet.

### 6.2 Update exclusion

`UpdateExclusionProofs` proves that `IInv` is inductive (`UpdateInvariant`) and from it
every safety property that `update_safety` checks. `IInv` has

* `RunInv`: the status of the runner's operation at each program point, and that no other
  operation is "running"; a dead backend holds nothing;
* `TodoInv`: what recovery has still to settle is "restarting" and not in hand;
* `ExclInv`: while an operation is in hand, running or restarting, no daily run is active.
  This is why the clearing of the rows at a supervisor boot is harmless for
  operations: `beginDailyRun` also looks at their status, and the status of an
  operation whose backend has died is settled before another begins;
* `OneActiveRun`;
* `EffectInv`: the restarts carried out follow the recorded phase, which is written before
  the restart is issued.

The action properties (`OperationsRunOnce`, `OperationsRunAlone`,
`SuccessRefreshedViewer`) follow from `IInv` and the lemma that every step changes the
statuses by one of a few moves (`StatusStep`): enqueue, start, hand off, settle, interrupt at
boot, or nothing.

### 6.3 The dispatch and its journal

`SupervisorDispatchProofs` proves that `IInv` is inductive (`InductiveInvariant`) and derives
`TypesHold`, `ExecutesOnce`, `WritesAhead`, `QuietWhenReleased` and `AnswersStay`.

* `JournalInv`: memory and file hold one record per id, the same ids in the same order;
* `AcceptWriteInv`, `FinalWriteInv`: an acceptance that waits for the store is in the
  inflight map and nowhere else; a result that waits is that of the head of its queue;
* `QueueInv`, `ClaimInv`, `MemInv`: what is queued is queued once, is held by the inflight
  map or by a claim, and its record says "accepted" unless it was evicted; nothing else is
  claimed, and every accepted record is in flight or waits for its commit;
* `CallInv`, `OffInv`, `StageInv`, `LeftInv`: callbacks, the end of a process, heads, and the
  moment the endpoint is given up;
* `RunInv`, the count behind `ExecutedOnce`: for an id and a kind, the executions begun, the
  one that waits in a queue and the one that a callback of a commit could still queue are
  together no more than the evictions of the record and the record itself. The bound on the
  executions alone would be broken by the next step of a queue;
* `ToldInv`: what a client was told is what the journal says, unless the record was evicted
  or the write of the result failed.

The journal is bounded, so an acceptance can evict any record; `JournalAccepts` says once
what that leaves. `QueueGrows`, `QueueShrinks`, `LeavesKeeps` and `RepliesKeep` are the shapes
of the other steps.

### 6.4 The process manager

`ProcessManagerProofs` proves `IInv` inductive for any finite set of processes, both spawn
strategies and every policy, and derives `TypesHold`, `RunsOnce` (`NoTwin`), `KeepsTrack`
(`NothingLeaks`), `StopsForGood` (`StopSticks`) and `RestartsEnd`
(`AutomaticSpawnsBounded`). It has two halves.

`SafeInv` names one `Owner` at every step: the child or adopted process, else the one being
spawned, and while there is no supervisor the one in the row. Every other live process is
among those given up with an error (`LiveInv`). That this is kept rests on `SpawnInv` (a
spawn excludes a managed process, and the row knows its process from the moment the pid is
known), `ManageInv`, `AutoInv` (a timer or an automatic restart goes on only while it is
wanted and nothing else runs), `KillInv` and `StopInv`. `BootInv` (when autostart runs,
nothing else has happened since the boot) was found by TLC's one-step check.

`LimitInv` is a budget: automatic spawns so far (`autos`), what the child of today has left
(`Left`), what the reaper has counted and not yet spawned (`Pending`) and what its remaining
restarts would allow never exceed what `max_restart` gives. Two cases do not fit and are
stated: a start that will be refused since a process is there (`Refused`), and an
automatic restart that a start has overtaken (`OvertakenInv`). Proving the budget showed
that the bound has to count from the spawn a request makes itself, not from the request: with
`max_restart` 2, a start that overtakes a pending automatic restart while the reaper's count
is positive is followed by one more automatic spawn.

### 6.5 The daily transaction

`DailyTransactionProofs` proves `IInv` inductive for any number of repositories and any set of
services in each, and derives `TypesHold`, `EndsWhole` (`FinishedIsWhole`) and
`OthersWorkStays` (`ForeignKept`).

* `RunInv`: the checkpoint names exactly the services of its repository that ran before the
  run, nothing runs that did not, and before the first crash of a run nothing is missing;
* `PhaseInv`: at each step HEAD, submodules, build and the started services of the
  repository in work are at the version the step goes to;
* `WholeInv`: a repository that is not whole is that of the checkpoint;
* `LateInv`: a foreign commit that a reset would discard came after the check of the branch;
* `EventInv`: Excubitor's own repository is at its new version only when an event of the run
  says so, or while the run is still at it, and a run recorded as succeeded has no such event.

That the checkpoint names no service that did not run, and that what is still to start is in
the checkpoint, were missing at first; TLC's one-step check showed both.

### 6.6 The log tail

`LogTailProofs` proves `IInv` inductive for every chunk size, line limit, backfill window and
rotation size, and derives `TypesHold`, `NeverSkips` (`NothingSkipped`) and `InOrder`
(`WholeLinesInOrder`).

* `FileInv`: how a log file looks: the bytes of its lines are in order and contiguous, before
  a newline stand as many bytes of its line as were written, and what has no newline is the
  line being written. `FloorInv`: the backfill window has only moved forward;
* `Boundary(p)`, `Done(p)`: position p is at the beginning of a line (`Clean`) or inside one
  that need not be published because the window cut it or it is oversized (`Exempt`); all that
  is before p was published or need not be. `OffsetInv` says both of every offset that
  refers to the present file;
* `Held`, `Follows`: the bytes a cursor or a tick holds come before the rest of the file, and
  after what was published. Both survive a rotation: what was held comes before all that
  will be written. For bytes of the present file they also say where these stand;
* `CursorInv`, `TickInv`: the cursor in the map and the locals of a tick at each of its steps,
  also of a tick whose cursor the catalog has replaced meanwhile;
* `StreamInv`: what was published are whole lines, except that the first may be the rest of a
  line that need not be published.

`Extends` is what a longer file leaves true, and `PlacesKeep`, `HeldKeeps`, `OffsetKeeps`,
`CursorKeeps`, `FollowsKeeps` say it of each part; `RotateFacts` and its companions do so
for a rotation. `LineFacts` and `LineDone` are about the line between a boundary and the next
newline: its length is the recorded one when it begins at the boundary, and after it all is
done again. Reading, publishing and finishing a chunk are built from these (`HeldReads`,
`HeldDrop`, `FollowsDrop`, `CompleteKeeps`, `LeaveKeeps`).

### 6.7 From a crash to its repair

`CrashDispatchProofs` proves that `IInv` is inductive (`DispatchInductive`), and from it
`DispatchTypes`, `CrashRepairedOnce` and `DelegationSticks`. `IInv` has

* `RunInv`: the runs of a task and the requests that will start one (`Sending` beside the
  insertion, `Asking` by the loop once it was told that there is no run) are at most one,
  and one more for each overtaken stray and for a row that was read too early. The bound on
  the runs alone is not inductive: two requests under way would break it later;
* `OwnInv`, `RipeInv`: the loop has a row only when the dispatch beside its insertion has
  ended, because a row becomes due no earlier than that request has timed out. The
  exception is a row that the loop reads before it is marked (`raced`);
* `FreshInv`, `InsertInv`, `SentInv`: a request, a stray and a run belong to a row that was
  marked before, so a first dispatch finds none of them;
* `LoopInv`: a row is taken once in a tick, and "not_found" is the last thing the loop hears
  before it sends, which makes a stray that comes after it an overtaken one;
* `KnownInv`: nobody is about to write a row that is known to be delegated. The code's
  unconditional UPDATEs are safe for this reason only.

`LoopMoves`, `LoopMarks`, `RowOpens`, `RowMarked`, `AsideKeeps` and `RequestFails` state the
shapes of a step once; the actions are shown to have one of them.

### 6.8 What is only model-checked

The liveness properties, on the instances of section 4: `DurableIntentReached`,
`OpGetsItsTurn`, `RequestAnswered`, `DeathIsAnswered`, `Settles`, `RunEnds`, `LinesArrive` and
`CrashIsHandled`. They rest on fairness, hence on ENABLED, which the prover does not
handle. The three runs that expect a violation have counterexamples and nothing to
prove. Every other property of a run is a theorem.

## 7. Not modelled

* In the backend controller: log capture, event emission to the UI, environment and
  command line of the spawn; the operating system reuses no pid (identity is
  checked by token where the code can check it).
* In update exclusion: what executors and preflight do inside an operation (one result, ok
  or not); permits of remote requests; deletion of old operation rows.
* In the dispatch: status requests, the text of answers, and two supervisors at once. The
  endpoint lets one in; a closing supervisor that has given it up writes its status once
  more, which a supervisor started by hand in between could suffer from (a hazard without a
  property).
* In the process manager: log files, command resolution, failed writes of a row, and ports
  that several services declare; which process holds the port is left open.
* In the daily transaction: settings and schedule, safe mode, notifications, the commands of
  a build one by one. An exit of the supervisor leaves the services running.
* In the log pipeline: everything behind `publish` (bus, ring buffer, parquet compaction,
  queries), several files, carriage returns and the decoding of bytes.
* In the crash dispatch: the detector's patterns, the wording of requests, the steps of the
  built-in repair and the investigation, Concordia's listing of no more than its 500 latest runs
  (an older run counts as not found), and time-outs configured longer than the retry delay.
* SQLite and the rename of the state file are atomic steps; torn files are not modelled.
* All components `PROJECT.json` lists as `not_modelled`, with the reason: most are
  planned (section 2), the rest is I/O, parsing or presentation.
