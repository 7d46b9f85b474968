# A verification of the LTE element manager

TLA+ models of the element manager in this repository, their TLC runs, and
TLAPS proofs. File names are relative to `src/internal/ems/` unless they start
with `src/`.

## 1. The system

The agent (`src/cmd/ems-agent`) manages one srsRAN eNB that runs in a
container. It reads the eNB's metrics, derives performance reports, health and
alarms, and lets operators edit the eNB's configuration files. A separate
process, the NETCONF server (`src/cmd/netconf-server`, C), speaks NETCONF and
turns each RPC into a call of the agent's control API.

| Part | State | Operations | What is hard | What should hold |
|---|---|---|---|---|
| Lock manager `netconfcm/locks.go` | locks, sessions, last-seen times | lock, unlock, ensure, release, reset, keepalive, sweep | leases that run out inside any call; two tables renewed differently; a sweep with an old time | no lease is taken early, none is left behind |
| Manager `netconfcm/manager.go` | last editor; everything below | edit, discard, commit, lock, unlock, close, reset, sweep | several mutexes one after the other, a commit that waits minutes for a restart | files, memory and eNB agree; only the holder works on a locked candidate |
| Store `configuration/store.go` | running, candidate, dirty marks, files | edit, reset, persist, finalize, rollback | several files, no transaction; crashes; marks that decide what is restored | commit is all or nothing; nothing invalid gets in |
| Renderer and parsers `configuration/renderer.go`, `srsranconf/` | none | patch a leaf into a file, parse a file | what is written is not always read back the same | read-back values are valid |
| Control API `services/config_control.go` | restart mutex | HTTP handlers | a goroutine for each request | as for the manager |
| Collector `services/netconf_session_gc.go` | ticker | sweep | late ticks | dead sessions lose their locks |
| Restart `worker/lifecycle.go` | containers | stop, start, wait, dependents | overlapping restarts, timeouts with unknown outcome | a restart ends with the eNB on its files |
| NETCONF server (C) | 64 session slots | RPCs, keepalives, notifications | keepalives wait for RPCs; duplicate close; notifications are fetched at most once | a connected session stays alive |
| Alarms `fcaps/alarms/`, `services/fault_service.go`, `alarm_log_reader.go` | active alarms, bounded queue | raise, clear, drain | store and queue updated apart; oldest dropped | the last notification tells the state |
| Health `health/health.go` | component states, subscribers | up, down, subscribe | sends after the mutex is released; closed channels | subscribers learn the last state |
| Threshold alerts `fcaps/tca/` | state per rule and object | evaluate a report | hysteresis, hold times, objects that disappear | an alert is raised and cleared once |
| Performance `fcaps/pm/` | accumulators of a window | ingest, flush | deltas over a window boundary | sums are conserved |
| Bus `bus/bus.go` | subscriber channels | publish, subscribe | drops, close | never blocks, never sends on a closed channel |
| Supervisors `worker/supervisor.go`, `backoff.go`, `netconf/process.go` | back-off | run, restart | clean exits, kill on shutdown | a crashed worker comes back |
| Runner and pipeline `service/`, `wiring/`, `services/metrics_*`, `raw_*` | channels | run, shut down | blocking sends during shutdown | shutdown ends |

The remaining packages (mediation, domain, telemetry, netconf snapshots,
config, logging, errors) convert or hold data. What mediation and the registry of
names decide about a measurement is part of `PmWindows`.

The parts meet like this. The eNB sends samples to a socket and lines to an alarm
log. The reader of the socket hands the samples over channels to a fanout, and from
there they go to the snapshot and, over the bus, to the cache and the PM engine,
whose reports the threshold alerts evaluate. These alerts, the alarm log and the
health tracker raise and clear alarms; the NETCONF server fetches the changes from a
queue.

The NETCONF server handles its sessions in one thread, so *its* requests come one
after the other; the HTTP control API and the collector run beside it. Every request runs in a goroutine of its own and
takes the mutex of the lock manager, of the store and of the manager in turn,
never two at a time. A commit writes the files, restarts the eNB while it holds
no mutex, and only then makes the candidate the running configuration.

## 2. The modules

### The configuration path

    LeaseLock  <--implements--  LockManager        CandidateDatastore
        ^                                            ^            ^
        | extends                        implements  |            | implements
    ConfigManager  --extends-->  ConfigStore  <--extends--  FileCommit

**`LockManager`** is `locks.go`. `locks` and `sessions` are its two maps. A
last-seen time is kept as an age, so the clock needs no bound: `Tick` makes
every entry one unit older, up to `MaxAge = TTL + MaxLag + 1`, beyond which no
comparison of the code tells ages apart. `KeepAlive` and `Sweep` use a time read
before the mutex was taken, at most `MaxLag` units old. There is one action for
each method; user names and error texts are left out.

**`LeaseLock`** is what `manager.go` relies on: the same operations without
time. Which leases run out in a step is left open, except that a session never
runs out before the locks it holds.

**`ConfigStore`** holds the state and the methods of the store as operators. A
configuration is a function from leaves to values. `validate` is a conjunction
of tests of single leaves, and `applyChange`, `markDirtyLocked` and the renderer
know the same 62 keys; so a leaf needs no more than its file (`FileOf`), and a
value no more than its class: accepted (`Good`), stored and then refused by
`validate` (`OutOfRange`), refused by `applyChange` (`IllTyped`). `disk[k]` is
leaf `k` as it would be parsed from its file. Writing is not the identity:
`ReadBack[v]` is what `NewStore` reads of a written `v`, because `trimFloat`
keeps three decimals and because `#` in a text starts a comment when the file is
read. `EditRefused` keeps the marks that `editLocked` sets before it fails.

**`FileCommit`** takes `PersistCandidate` and `RollbackPersist` apart into their
renames. Any rename or restore may fail, and the agent may die between any two
steps (`Crash`), after which `NewStore` reads the files.

**`CandidateDatastore`** is what a client is promised: two valid
configurations, edit, discard, commit, and a reload when the agent restarts.

**`ConfigManager`** is `manager.go` with the handlers of `config_control.go`, the
collector and the restart. A slot holds one request in progress: `pc` is its
next step, `req` its arguments, `mem` what it has read. One step is what happens
under one mutex, or one container operation, or the writing of one artifact.
`PersistCandidate` is one step, since the store's mutex is held throughout. The
eNB is the configuration it was started with, or `Down`; a failed stop or start
may have worked. `history` records incidents, which properties name as their
exceptions; it changes no behaviour, and `Recorded` selects what a run keeps.

### Around the configuration path

**`RestartPlan`** is `TriggerRestart` (`worker/lifecycle.go`), Docker request by
Docker request: stop, kill, start with its retries, the polls until the primary is
ready, the delay before the dependents. Each request may fail with or without an
effect, and the inspect request may never be answered (`hung`). Several callers run
their plans at a time. A restart request of the control API takes the server's mutex
with `TryLock`; a commit takes none. Containers may end by themselves.

**`NetconfServer`** is the thread of `server.c` on top of `LockManager`: accept a
session, poll, serve one request or the end of a session, send the keepalive. While
it waits for an answer of the agent it does nothing else, and time passes. Any
control request may be lost. The process may end at any time; the next one resets the
agent's sessions, if that request arrives, and counts session ids from 1 again.
`slots` is `g_sessions`; a session beyond `MAX_TRACKED_SESSIONS` is served but not
tracked. `clean`, `asked` and `firm` are history.

**`IniOverlay`** and **`LibconfigOverlay`** are the renderer against the parsers.
A file is the sequence of its lines, or of its assignments with their blocks. A
commit patches a leaf where the renderer looks for it, adds it where the renderer
adds it, or is refused; `Read` takes it where the parser does. The two look in
different ways, which is the point. Numbers go through `trimFloat`.

### Alarms

**`HealthFaults`** is the tracker and the fault service. A report changes the
tracker under the mutex and is sent to the subscriber's channel after it. `Subscribe`
registers, copies the statuses, releases the mutex and then sends the copies. The
close of the channel races with both. A send on a closed channel ends the process
(`panicked`).

**`AlarmLog`** is the reader of the alarm log. The eNB writes each line in two
halves, so a poll may find half a line. The reader keeps its offset in memory,
starts again from 0 when the log is shorter than the offset, and gives up a poll at a
line too long for its scanner. The log may be truncated and the agent restarted.
**`AlarmSources`** puts the two side by side.

**`AlarmList`** is the list with its file and the queue. A change of the list and its
save are one step, under the store's mutex; the hand-over to the queue is a later
one. The save may fail, the queue may be full, a reply may be lost after the queue
was drained for it, and the agent may die. **`AlarmFeed`** is what the queue promises
its reader: consecutive numbers, each at most once, of which only the oldest are ever
discarded.

**`ThresholdAlerts`** is `fcaps/tca`: the merge of the rules with the configuration
file, the value and the comparison of each kind of rule, and `transition` with its
two hold times. Reports may be lost, and two may arrive at the same time. A restart
forgets the engine's state but not the list. `trail` records the verdicts, and the
property computes from it, without the code's timers, what should be listed.

### Measurements

**`MetricsPipeline`** is the reader of the socket, the optional forwarding reader,
the fanout with its two branches, and `Runner.Run`. A sample is its number. Sends to
the fanout wait; sends of the fanout do not.

**`EventBus`** is the bus with the metrics consumer, the telemetry cache, the PM
engine and the snapshot. `Publish` serves one subscription per step under the read
lock; `Subscribe` and the close need the write lock.

**`PmWindows`** is the PM engine: the samples that the mapper makes of a report,
their resolution to an object by the registry, the accumulators with their limit, and
the report at the end of a window. The counters of the eNB are part of the model, so
that the properties can compare a report with what really happened.

**`ServerSupervisor`** is `Supervisor.Run` with its back-off, `ProcessServer.Run` as
its worker, and the health that follows from them. A process may fail to start, end
cleanly, crash at once or after long, and ignore SIGTERM.

### Side by side

`MCOverlay`, `MCAlarms`, `MCShutdown` and `MCMeasurements` check several of these
modules in one run. A variable `part` (`kind` in `MCOverlay`), chosen at the start,
says which of them moves; the others stutter. This is not a composition. It
loses nothing, because these modules have no variable in common: what one hands to
another enters the other as a free choice of any input, any loss included.
`NetconfServer` with `LockManager`, and `ConfigManager` with `ConfigStore` and
`LeaseLock`, are compositions.

A definition introduced by "Fault:" is a plausible error in the definition that
follows it. The specifications do not use them: each shows that a property is
violated when the code has that error.

## 3. The runs

| Run | Module | Configuration | Distinct states |
|---|---|---|---|
| `lock_manager` | `MCLockManager` | `LockManager.cfg` | 2853 |
| `file_commit` | `MCFileCommit` | `FileCommit.cfg` | 177588 |
| `file_commit_marks` | `MCFileCommit` | `FileCommitDirty.cfg` | stops at the violation |
| `manager_files` | `MCConfigManager` | `ConfigManagerFiles.cfg` | 782894 |
| `manager_admission` | `MCConfigManager` | `ConfigManagerAdmission.cfg` | 1370768 |
| `manager_serial` | `MCConfigManager` | `ConfigManagerSerial.cfg` | 634208 |
| `restart_plan` | `RestartPlan` | `RestartPlan.cfg` | 48896 |
| `netconf_server` | `NetconfServer` | `NetconfServer.cfg` | 387577 |
| `overlay` | `MCOverlay` | `Overlay.cfg` | 110332 |
| `alarms` | `MCAlarms` | `Alarms.cfg` | 1247554 |
| `shutdown` | `MCShutdown` | `Shutdown.cfg` | 94141 |
| `measurements` | `MCMeasurements` | `Measurements.cfg` | 900432 |

`lock_manager`: two sessions and requests without a session; a lease of two
units and a sweep up to one unit late, so that leases of all ages, renewals and
late sweeps meet. A lock seen within the lease time is lost only by its owner's
unlock or close, or by a reset of all sessions (`FreshLockIsKept`); a session is
never forgotten before its locks (`SessionOutlivesItsLocks`); the manager is a
`LeaseLock` (`ImplementsLease`); a lease that ages is renewed or
ends (`AgingLeaseEnds`). Fairness: time passes, and the collector runs again and
again, which its ticker loop (`netconf_session_gc.go:34-44`) provides as long as the
agent runs. Nothing is assumed of the sessions. No symmetry is used, because of the
liveness property.

`file_commit`: two leaves in two files, so that a commit can stop between them;
four accepted values, one of which reads back as another accepted value and one
as a rejected one. `NothingInvalid`, `EditsAreMarked`, `CommitIsAllOrNothing` (a
failed commit has put every file back, unless a backup could not be written
either), `RunningIsOnDisk` (no leaf becomes running before it is on disk) and
`ImplementsDatastore`.

`file_commit_marks` expects a violation. The comment at
`configuration/store.go:127-128` says that the marks prevent unrelated files
from being touched. An edit that is refused leaves its marks, so the next commit
writes a file in which nothing was edited, and restarts the eNB for it.

`manager_files` and `manager_admission`: two requests of any kind at a time, one
session and requests without a session, one leaf in one file (several files are
the subject of `file_commit`), no artifacts. Each property names the incidents
that it takes to break it. `FilesMatchRunning`: another request changed the
store while a commit waited for its restart, or a restore failed.
`ENBRunsFiles`: a restore that failed, or a restart that failed or found no
target. What follows a failed restore is excused by both, as is what follows a
disturbed commit together with a failed restart, and `manager_files` does not
explore it (`FilesUnexcused`). `OnlyHolderProceeds`: a
lock granted between a request's test and its use of the candidate.
`ConfigIsValid` and `ImplementsDatastore`: none. `manager_admission` explores
everything; refused edits are out of range there, ill-typed ones are left to
the other runs.

`manager_serial`: one request at a time, which is what the single thread of the
NETCONF server provides when nothing else uses the control API; two sessions,
with artifacts. `EditsHaveALiveOwner` (pending edits belong to a session that
the lock manager tracks, unless they were made without a session or a lease was
dropped inside lock, unlock or ensure), `ArtifactsFollowStore`,
`HolderIsTracked`, `EditsAreMarked`.

`restart_plan`: two restart requests and a commit, a primary and one dependent, two
attempts and two polls instead of five and many, which is enough for a retry that
succeeds and for one that runs out. `QuietMeansUp`: when no restart is in progress,
every container runs, except those that ended by themselves or that a restart left
down when it failed. `PlanIsCarriedOut`: a restart that reports success has every
container of its plan started since it began, even if another plan did it; and a
dependent is started only while the primary runs, unless the primary is lost or a
commit restarts at the same time. `RestartsEnd`: every restart returns, unless its
inspect request is never answered. Fairness: each goroutine goes on. Without the
exception for a commit the order is violated (section 5).

`netconf_server`: two sessions for one slot, so that one of them is not tracked. The
unit is five seconds: a lease of six units and a keepalive every two are the 30 and
10 seconds of the code. Requests take up to five seconds, and of two keepalives in a
row at most one is lost. `LockIsOwn`: a lock is held by a session that got it from
this process, if the reset at the start arrived. `SlotsAreConnected`: the table holds
connected sessions, each once. `ConnectedKeepsLock`: a tracked session does not lose
its lock while it is connected. `EndedIsNotRenewed`: the lock of a
session that ended only grows older, whatever was lost, so that the collector takes it
(`AgingLeaseEnds`). These bounds are also limits of the claim: with requests of ten
seconds, for which the thread that sends the keepalives waits, or with two keepalives
lost in a row, `ConnectedKeepsLock` is violated.

`overlay`: every `enb.conf` of up to five lines over two sections and two keys, each
of which may also stand, unmanaged, in the other section; every `rr.conf` and
`rb.conf` of up to four assignments; two commits. A second section with a key of the
same name, a repeated key and a missing section all occur. `OverlayIsFaithful`: what
was committed is read back, all other lines stay, and a commit is refused only for a
leaf that the file does not have. The inputs leave out what section 5 lists about the
overlay.

`alarms`: two services with one alarm each, one service with two alarms of two
severities, two components of the health tracker, a log of six writes (the three
lines it takes to poll two, truncate, and find a shorter log with a new one), and one
of five writes with every kind of line; a queue of two instead of 1024. `ListIsKnown`: the file holds the list unless the store knows
that the save failed, and once nothing is on its way the NETCONF server knows every
alarm whose latest change was not lost. `AlarmsFollowSources`: once everything is
handled, the alarms are those of the components that are down, and those of the whole
lines of the log, and no line is handled twice unless one behind it is too long for
the scanner; the exceptions (a full channel, a
replay that came late, half a line, a truncation before the poll) are history
variables. `ImplementsFeed`: the queue is an `AlarmFeed`.

`shutdown`: the supervisor with delays of 1, 2, 4, 5, the fault service, the pipeline
with and without the forwarding reader, and the bus. `OneServer`, `UpMeansServing`;
`CrashIsRestarted`: a crash is followed by a restart and the delays double up to the
limit; `ShutdownCompletes`: after the context is cancelled the supervisor with its
process, the fault service, the runner with its services and the services on the bus
end, but for the two waits for a channel that section 5 describes. Fairness: every
goroutine goes on when it can, a select does not neglect the context for ever, and a
killed process dies. Nothing makes the eNB send, a component report, a process end or
the operator stop the agent.

`measurements`: the bus with a buffer of one, so that every publish may meet a full
subscription; windows of three reports with the counters of the node and of a cell
with one UE, and room for one object less than there are; windows with the gauges of
two UEs of one cell, listed in any order and number; four sets of rules, each with
reports of its metrics. `NoSendOnClosed`: no publisher
is about to send to a closed subscription. `SnapshotFollows`: when nothing is on its
way and nothing was dropped, the file shows the last sample and the last report; it
never goes back. `ReportsAreReal`: a counter is not reported to have grown by more
than it grew, a negative difference means a counter that started again, a mean lies
within its window. `AlarmsMatchReports`: an alarm is listed exactly when the verdicts
call for it, or when it is inherited from an earlier life of the agent.

Symmetry is over sessions, slots, the accepted values and the two components of the
health tracker, which are interchangeable wherever it is used (there `ReadBack` is the
identity), and only in runs without liveness.

Deadlock is checked where there is always something to do. It is not checked in
`restart_plan`, where all callers may wait for answers that never come, in `shutdown`,
where everything ends, and in `overlay`, `alarms` and `measurements`, whose bounds on
the number of commits, writes, samples and reports end a behaviour.

## 4. The proofs

Everything in this section holds for every set of sessions, slots, leaves,
files and values that satisfies the named assumptions (`LockManagerConstants`,
`SessionIds`, `StoreConstants`, `RankAssumption`, `ManagerConstants`,
`BackoffAssumption`, `ServerAssumption`, `IdAssumption`, `BusAssumption`,
`PlanAssumption`, `PmAssumption`, `AlertAssumption`): the ids are distinct, the classes
of values are disjoint, every leaf has a file, a file has a place in the order, the
lease time is positive, an accepted value reads back as some value, cells and UEs have
names of their own and a UE is in one of the cells, thresholds are numbers, and no
duration is negative.

**`LockManagerProofs`**: `TypeCorrect`, `SessionsOutliveLocks`,
`FreshLocksAreKept`, `ImplementsLeaseLock`. `SessionOutlivesItsLocks` is
inductive together with the types. It is also what the refinement needs:
`expireLocked` can forget a session only with its locks because the session's
age is never greater than theirs.

**`CommitProofs`** is about the files of a commit and the restart it leads to. On
`FileCommit`: `TypeCorrect`, `NothingInvalidGetsIn`, `EditsStayMarked`,
`CommitsAreAllOrNothing`, `RunningFollowsDisk`, `ImplementsCandidateDatastore`.
It begins with lemmas on the store's methods: each keeps `StoreOK`, which says that
configurations are valid and differences are marked. `CommitIsAllOrNothing` says
nothing about the middle of a commit, so it is not inductive. `LoopInvariant` adds
what the two loops have done so far: the files no longer in `todo` hold the
candidate's edited leaves, or the backup again, and the backup is what was running.

On `RestartPlan`: `QuietIsUp` (`QuietMeansUp`) and `PlansAreCarriedOut`
(`PlanIsCarriedOut`), for any number of callers, containers, attempts and polls.
`PlanInv`: for every container that is down and not lost some caller has yet to start
it; a container that a caller has stopped and that runs was started since; and the
mutex lets one restart request in.

**`ConfigManagerProofs`**: `TypeCorrect`, `ConfigsStayValid`, `EditsStayMarked`,
`HoldersAreTracked`, `ImplementsCandidateDatastore`, for any number of requests
at a time. The invariant `Inv` joins `StoreOK`, the invariant of the lock service,
and `ControlOK`: a request only uses what it has read. The other theorems build on
it. Their properties name incidents as exceptions, so each assumes that `Recorded`
contains those incidents.

- `FilesFollowRunning` (`FilesMatchRunning`), any number of requests. `FilesInv` says
  what an open commit knows (`OpenCommit`): its backup agrees with running or is
  what the files hold, and what it has written are edits of the candidate. Of
  two overlapping commits one may roll back to the files of the other; the
  invariant therefore asks only that the files or the backup of some open commit
  agree with running.
- `ENBFollowsFiles` (`ENBRunsFiles`), any number of requests. `ENBInv`: the eNB runs
  the files, or is down with a start to come, or a commit has yet to stop it.
  The proof needs no exception for a disturbed commit, which the property had at
  first; it was dropped from the property.
- `HoldersAreAlone` (`OnlyHolderProceeds`), any number of requests; inductive once it
  is known that only commits reach the steps after `ensure` (`CommitOnly`).
- `EditsKeepTheirOwner` (`EditsHaveALiveOwner`) and `ArtifactsAreCurrent`
  (`ArtifactsFollowStore`), one request at a time (one slot), the second with
  artifacts switched on. `Owned` and `Shown` follow a request through its steps: which
  of owner and candidate, or of artifacts and store, may be ahead at each.

**`NetconfServerProofs`**, for any number of slots and sessions, with lemmas on what
`track_session` and `untrack_session` do to the table and on what the methods of the
lock manager do to the locks and their ages.

- `TableIsTrue` (`SlotsAreConnected`). `TableInv` adds that connected sessions have ids
  already given out, so a new session is not in the table yet.
- `LocksAreOwn` (`LockIsOwn`). `OwnInv` adds that after a reset that arrived every lock
  is of an id already given out, so that no session to come finds a lock of its id.
- `EndedAreNotRenewed` (`EndedIsNotRenewed`), from `TableInv` and `OwnInv`: only
  sessions in the table are renewed.
- `ConnectedKeepLocks` (`ConnectedKeepsLock`), for any lease, period and request time
  with `LeaseLasts`: `(Period + MaxBusy) * (MaxMissed + 1) <= TTL`. `ClockInv` bounds the
  time between two keepalives by a period and one request, and `KeepsInv` the age of a
  lock by that time and the keepalives missed. The values of the run, 30 seconds
  against twice 10 and 5, satisfy `LeaseLasts` with nothing to spare, and one unit
  less violates the property in TLC.
- `NeverTwoServers` (`OneServer`) and `UpIsTrue` (`UpMeansServing`) are about the
  supervisor of the server process (`ServerSupervisor`), for any delays. `OneServer`
  alone is not inductive: `SupInv` adds that, while the worker runs, `cmd.Wait` has told
  of the end of the process exactly if there is none, and that a process is left behind
  only in a shutdown.

**`MeasurementProofs`** is about the bus and the PM engine.

- `NeverSendsOnClosed` (`NoSendOnClosed`) and `SnapshotIsFollowed` (`SnapshotFollows`),
  for any capacity and number of messages. `BusInv` adds that what a publisher has left
  to serve is registered, because the lock keeps subscriptions in place while it is
  busy, and that no registered subscription is closed. `OrderInv`: the samples waiting
  for the cache are in order and not older than what it has. `CurrentInv`: unless
  something was dropped, the file shows the last report or an event for it is on its
  way.
- `ReportsAreTrue` (`ReportsAreReal`), for any cells, UEs, limit of objects, lost reports
  and counters that start again. `PmInv` says what an accumulator knows of its counter
  in the middle of a window (`CounterOk`: its last sample is at most its first plus what
  the counter grew in between, or the counter started again and the last sample is no
  more than it grew) and of its gauges (`MeanOk`). A report of the eNB brings any number
  of samples for any objects: `SampleAgrees` is one of them, and `ReportAgrees` goes
  through them by induction on their number.

**`ThresholdAlertProofs`**: `AlarmsFollowVerdicts` (`AlarmsMatchReports`), for any of the
seventeen rules, any objects, reports, durations, lost or repeated reports and restarts.
It assumes `ThresholdsInOrder`: no value both crosses a threshold and is clear of it. The
code does not check this for the thresholds of a file; a value that is both starts the
two timers in turn, and the property is then not what the code does. The engine keeps no
history, the property is about all of it. `AlertInv` joins the two for each alarm: a
timer that runs holds the time of the first verdict of the stretch that ends with the
last one (`CrossedSince`, `ClearSince`), one that does not run means that the last verdict
is not of that kind, an active state means that an alarm is called for, and an alarm that
is listed without one is left over from before a restart. `StepFollows` is one
verdict, `TakenFollows` the verdicts that one report brings for an alarm, of which the
bearers of an object may bring several.

**`AlarmProofs`**: `ListIsWellKnown` (`ListIsKnown`) and `QueueIsFeed`
(`ImplementsFeed`), for any alarms, any capacity of the queue and any length of a reply
(`ListConstants`). `ListInv` says that the queue is the notifications up to the last
without a gap and a reply holds earlier ones; that a change still to be announced is the
present state of its alarm; and that for an alarm of which nothing was lost the latest
notification is on its way, or has arrived and told the present state.

**`AlarmSourcesProofs`**: `AlarmsAreOfTheirSources` (`AlarmsFollowSources`), which joins
three theorems.

- `FaultsFollowHealth` (`AlarmsFollowHealth`), for any number of components and any room
  in the channel (`HealthConstants`: no component is called `all`, the name under which
  the overall state is sent). `WillFollow` says where the event is that will decide the
  alarm: still to be sent, in the replay, or the last of its component in the channel.
- `LinesAreHandledOnce` (`HandledOnce`), for a log of any length and any number of
  truncations and restarts. `OnceInv` adds that what was handled lies before the offset,
  and is nothing when the log is shorter than the offset, where the reader starts again.
- `AlarmsAreOfTheLog` (`AlarmsFollowLog`), for the same. A poll is a recursive function on
  the positions of the log. `ScannedIsHeard` says what it computes without recursion:
  `Heard`, the alarms of the lines after the last one that clears, and the earlier ones
  if none does. This makes it plain that lines heard twice change nothing
  (`HeardAgain`), and neither do some of them heard before (`HeardBefore`), which is what
  a restart and a poll that fails halfway need. `LogInv` says that the alarms will be
  right if the log is read from the end of any line up to where it has been read
  (`Caught`), the beginning included.

Only model-checked: everything about liveness, which is out of the prover's reach
(`AgingLeaseEnds`, `RestartsEnd`, `CrashIsRestarted`, `ShutdownCompletes`); and
`OverlayIsFaithful`, whose renderer and parsers are recursive operators on the text of a
file.

## 5. Where the code and its documentation differ

`file_commit_marks` shows one difference in a run of its own. The following were met
while modelling. The models contain the behaviour, and the properties name it as an
exception, or the inputs of the run leave it out. No run shows them as violations.

- `worker/lifecycle.go:120`: a commit may stop the primary while a restart request is
  about to start the dependents; the comment at lines 96-101 gives another order.
  Exception of `PlanIsCarriedOut`.
- `health/health.go:86`: the replay of a status may arrive after a newer event, and the
  alarm then says the opposite of the tracker until the next report. Exception of
  `AlarmsFollowSources`. If reports fill the channel before the service reads, the
  replay waits for ever; exception of `ShutdownCompletes`.
- `health/health.go:186`: a report that has copied the subscribers before one is closed
  sends on a closed channel, which panics. Exception of both.
- `fcaps/tca/engine.go:163`: the low throughput rule keeps its state per object and
  picks the object anew for each report, so the alarm of one object may not be cleared
  by a report about another. `AlarmsMatchReports` speaks of the verdicts that reached
  the object.
- `adapters/srsran/enb_metrics.go:67`: once the fanout has returned, a reader that still
  receives fills the channel and waits for ever, and the runner with it. Exception of
  `ShutdownCompletes` (`Stuck`).
- `fcaps/pm/engine.go:203`: the UEs of a cell share one accumulator, so counters of
  different UEs are subtracted from each other. Exception of `ReportsAreReal`
  (`Single`).
- `configuration/renderer.go`: a key added to a last line without newline joins it
  (line 300); a section header with a comment behind it is overlooked (683); a `//`
  comment behind a patched value is lost (712); `q_rx_lev_min` of `sib3` is patched if
  `sib1` has none (313); a file with `rs_power` alone is refused (227). The inputs of
  `overlay` leave these out; the modules can express them (`Ends`, `HeaderNotes`,
  `Notes`, `Leaves`).

## 6. What is not modelled

In the configuration path: the XML and JSON of payloads (a payload is the leaves it
changes; a bad one ends its request in `Diff`), the texts of errors, HTTP status
codes, requests that only read, and a container operation that takes effect after its
timeout was reported. `ConfigManager` restarts the primary alone; the dependents are
in `RestartPlan`, which has no files. With the NETCONF manager switched off
`handleCommit` falls back to `Store.Commit`; that path is not modelled.
`PersistCandidate` may leave any proper subset of the files unrestored in
`ConfigManager`, which allows more than the order of the code does; `FileCommit` has
the exact order. The scanners of the renderer and the parsers are modelled by what
they find, not byte by byte.

Around it: a control request of the NETCONF server that is given up and still takes
effect later; the filtering and conversion of YANG data by libyang, here and in the
bridge, which keep no state; texts, counts and times of alarms; of the seventeen
threshold rules one of each kind is enumerated; the escalation of a severity; the PM
engine's update of its configuration, which nothing sends; the JSON of the snapshot
and the legacy XML.

Not modelled at all: the NETCONF client (a test tool without state), the notification
forwarding service (no code constructs it; the alarm manager appends to the queue
itself), the gateway, the configuration file, logging and errors (input and output, or
static data), and the agent's command line.
