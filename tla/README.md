# Verification of the newdomofon Hikvision video node

TLA+ models of the node's concurrent core, the TLC runs that check them on small
instances, and TLAPS proofs of the theorems that hold for every instance.
File and line references are to the repository root.

## 1. What program is modelled

`package.json` runs some thirty `scripts/patch-*.py` in `prebuild`. They
rewrite `src/**/*.ts` and `native-sdk/*.cpp` before `tsc` and `make` see them, so
the program that is deployed is the base source *plus* the patches: the single
archive worker of the base `deviceRuntime.ts`, for instance, is a pool of
workers in the build. The models translate the **patched** program. A definition is
mapped to the base file where no patch touches its code, and to the lines of the
patch script that supply the text where one does. The chain of patches is itself a
program with state, the files it rewrites, and has a model of its own (`PatchPipeline`).

## 2. Inventory

The node is one Node.js process. It talks to DVRs through child processes linked
with Hikvision's HCNetSDK (native mode) or over ISAPI and RTSP (legacy mode), keeps
`ffmpeg` children for recording and archive playback, serves HLS and archive HTTP
routes, and is driven by a master through polling.

| component | state it keeps | operations | hard behaviour |
|---|---|---|---|
| `src/nativeSdk/deviceRuntime.ts` archive pool | live runtime, one archive worker per index, restart timers, session -> worker assignments, pending acknowledgements, a promise chain per worker | register, unregister, start, stop, status line, ack timer, exit, restart | microtask order against events; late, stale and lost answers; capacity |
| `native-sdk/hik_sdk_device_worker.cpp` | live sinks, open playbacks, stdio buffer | PLAYBACK, STOP_PLAYBACK, EVENT_SCAN lines, signals | blocking SDK calls, poll against buffered input, capacity, live paused during playback |
| `src/nativeSdk/recorderManager.ts` | device map; per device the worker, its generation, registration, timers; per channel an ffmpeg | reconcile, startDevice, spawnDevice, spawnFfmpeg, stopDevice, exits, timers | awaits between check and use, overlapping reconciles, restarts against stops |
| `src/nativeSdk/archiveSessions.ts` | sessions by deterministic id, viewers and leases, a queue per device | getOrCreate, spawn, waitReady, retire, cleanup, stop | coalescing, seeks, eviction, start pending while retired |
| `src/archive/deviceArchiveSessions.ts` | legacy RTSP sessions | the same without a pool | replacing the last good session |
| `src/media/recorderManager.ts` | ffmpeg per channel, URL candidates | reconcile, rotate, stop | stop during an await |
| `src/service.ts`, `src/state/encryptedStore.ts` | devices, channels, encrypted file | sync, upsert, remove, reconcile with the master's list, save, load | snapshots replaced during an await, loops over an array that is sorted or replaced, overlapping saves, crash between change and rename |
| `src/master/nodeClient.ts` | busy flags | heartbeat, config, commands | requests that fail in the middle of a pass, repeated commands |
| events (`nativeSdk/eventCollector.ts`, `events/*`) | SQLite events, sync and backfill cursors | realtime scan, reconciliation, backfill, insert | windows, overlaps, duplicates, a failed scan |
| `src/http/mediaRoutes.ts` | virtual archive bursts and their waiters | segment request, burst, abort | waiters, aborts, shared bursts |
| `src/archive/localArchive.ts`, `mediaToken.ts` and other pure code | none | range merge, retention, token check | boundaries |
| `src/index.ts`, `src/config.ts` | none | start, shutdown | order |
| `prebuild` scripts, installer, updater | the source files of a checkout or an installation | check, build, install, update, rebuild of the worker | order of the scripts, prepared trees, kills between two files |
| parsers and clients | none | | I/O and text |

How they interact: the service's state drives the recorder manager's `reconcile`;
the recorder manager spawns the live worker of a DVR and registers it, with a factory
for archive workers, in `deviceRuntime.ts`; archive sessions, SmartYard bursts and
archive export call `startGroupedPlayback` and `stopGroupedPlayback`, which write
lines to a worker's stdin and wait for a status line on its stderr; the worker
writes media to a FIFO that the session's ffmpeg reads.

What makes each component correct is stated with its model below; for the
components not modelled: legacy sessions -- the last good session of a viewer is only
replaced by one that plays; legacy recorder -- one ffmpeg per channel, none after a stop.

## 3. Modules

| module | models |
|---|---|
| `SlotPool` | what the archive pool promises: bounded slots, sharded over workers |
| `SlotPoolProofs` | its capacity, proved |
| `ArchivePool` | `deviceRuntime.ts` with its worker processes; refines `SlotPool` |
| `ArchivePoolProofs` | type correctness, timers, refinement and capacity; that no call is forgotten or settled twice; for fresh ids, what relates Node to the workers: proved |
| `GroupedRecorder` | one DVR in `nativeSdk/recorderManager.ts`: map entry, runtimes, worker, ffmpegs, timers |
| `GroupedRecorderProofs` | its type, one driver, registrations, stops, and what overlapping calls leave in the map, proved |
| `ArchiveSessions` | the archive sessions of one DVR in `nativeSdk/archiveSessions.ts`, over a reduced pool |
| `ArchiveSessionsProofs` | its type, the owners of slots and the leases of viewers, proved |
| `EventScans` | the events of one DVR: alarms, realtime scans, backfill, the store and its cursors |
| `EventScansProofs` | its type, cursors and store, proved |
| `SmartYardBursts` | the SmartYard archive of one channel in `http/mediaRoutes.ts`: requests, bursts, waiters, files |
| `SmartYardBurstsProofs` | its type and all its safety properties, proved |
| `NodeService` | the devices of the node: `service.ts`, its encrypted file, the device routes, the timer and the master's agent |
| `NodeServiceProofs` | its invariant, the file and what the recorders were told, proved |
| `PatchPipeline` | the 32 patch scripts over 19 files, and the commands that run them |
| `PatchDiscipline` | the rules that the scripts and plans respect, and the inductive invariant of the pipeline |
| `PatchPipelineProofs` | its invariant and its three properties, for any number of kills, proved |
| `MCLiveness` | `ArchivePool`, `GroupedRecorder`, `ArchiveSessions` and `NodeService` under their fairness, one at a time |
| `MCArchivePool`, `MCGroupedRecorder`, `MCArchiveSessions`, `MCEventScans`, `MCSmartYardBursts` | small instances |

### ArchivePool

*State.* The module-level maps of `deviceRuntime.ts` for one device (they are all
keyed by device and no operation touches two), plus, for each worker process, its
playback map, its unread stdin, the lines it holds in its stdio buffer and the status
lines Node has not read.

*Interleaving.* Node runs one callback at a time and drains its microtasks before the
next event. `continuations` is that microtask queue: it holds the chains of
`groupedPlaybackCommandQueues` whose next command is due, in the order they became
due, and every event action waits until it is empty. A chain is kept with the command
it waits for, in that command's waiter record (`rest`); `linked` tells whether the
queue map still points at it, so that a chain cut loose by a re-registration goes on
beside the new one, as promises do.

*Actions.* One per handler: the two registrations, the staggered initial timers, the
restart timer, a factory that throws, a crash and the exit event it leads to, the two
calls, the write of the next command (or its rejection when the worker is not usable),
the status line, the acknowledgement timer for each kind of command, the write
error, and the worker's own step: read a line, run it, answer.

*Worker.* A PLAYBACK may be refused at any SDK call and at the capacity check; a
STOP_PLAYBACK of an unknown session is answered OK. `poll()` looks at the
descriptor, while `std::getline` takes its lines from the stdio buffer; `lineBuffer`
keeps that difference. SDK calls may block, so a worker step may be as late as it likes.

*Left out.* A killed child is forgotten with its map entry (Node never hears from it
again). Alarm and event-scan lines are another component's. Fields of a command other
than its session and kind are not told apart. `error` events without a listener (a
spawn that fails asynchronously) are not modelled. Microtasks are drained after each status
line, though the lines of one chunk are handled in one callback
(`src/nativeSdk/deviceRuntime.ts:74-82`); and a late write error rejects the waiter it
belongs to, while the code looks it up by its key, which a later call of the same id may
have by then (`scripts/patch-native-archive-worker-pool.py:451-458`): a difference for ids
that are used again only.

*Fairness.* `FairSpec` only asks that microtasks run and acknowledgement timers fire;
workers may hang for ever. `FairWorkersSpec` adds that workers return from the SDK
and that exit events, status lines and the other timers are delivered. Timers and events
compete with everything else the loop does, hence strong fairness for them. No
fairness makes a caller call, a worker crash or a registration happen.

### GroupedRecorder

*State.* The device map's entry for one DVR, the runtime objects made for it (one that
was stopped lives on while a call or a child refers to it), the `spawnDevice` and
`spawnFfmpeg` calls that are at an await, the `reconcile` calls, and whose worker
`deviceRuntime.ts` has registered. `current` stands for the generation test: the worker,
or the call, belongs to the runtime's present generation. `asked` is a history variable: the
configurations asked for since a call last began with no other under way.

*Overlapping calls.* Nothing serialises `reconcile`, whose callers are the routes, the timer
and the agent. A call that was overtaken at an await goes on with what it wanted and may put
it back over a later configuration. `NothingOlderThanBurst` says how far that goes: what is
in the map was asked for in the present burst of overlapping calls, so that nothing older
returns, and a call with no other beside it leaves what it wanted, whatever was there.

*Actions.* Each async function is cut at its awaits: `Reconcile` is the stop loop of
`reconcile()` up to the first start, `RestartRecorders` is `stopAll()` and `reconcile()`,
`StartDevice` the test of the map, `DirectoryMade` the `devices.set` after `mkdir`,
`FifoMade`, `FfmpegSpawned` and `WorkerSpawned` the steps of `spawnDevice`. Exits and
timers are actions of their own, and any await may be rejected (`SpawnsFail`).

*Assumed.* An ffmpeg restart timer (three seconds or more) does not fire while a
`spawnDevice` call of its runtime is under way (milliseconds per channel). An ffmpeg
that lost its reference in the runtime is dropped from the model: the manager cannot see
it either. `FairSpec`: awaits settle, timers fire, exit events are delivered; no child
has to exit and nobody has to call `reconcile`.

### ArchiveSessions

*State.* The session map by window (a session id is the hash of channel and window, so a
window asked for again has the same id), the session objects, each named for the call that
creates it, the calls, the promise chain of `withDeviceQueue`, the `stopRuntime` calls
by whoever awaits them, and the cleanup's remaining list. Of `deviceRuntime.ts`
only what one id sees is kept: whether it has a slot, the commands not settled, in order,
and whether the DVR plays. `ArchivePool` shows what that rests on. Of the files only
whether a playlist with a segment is there.

*Actions.* `Enter`, `RetireLeft`, `Released`, `Evict`, `PoolFull`, `HasRoom`,
`DirectoryMade` are the stretches of `getOrCreate` and `releaseViewer` between awaits in
the device's queue; `Spawn` to `NotReady` those outside of it. `BeginStop` is `stopRuntime`
up to its first await, `StopEnds` its return. `FfmpegExit` is the exit handler,
`CleanupNext` one turn of the cleanup's loop.

*Assumed.* Time is the `age` of a session; a session does not reach
`deviceArchiveSessionKeepMs` (15 minutes) while it is being created. Commands of one id
are settled in order and those of different ids are independent. One cleanup pass runs at
a time (its interval is 10 s, a stop takes at most about that). `stop()` at shutdown is left out. `FairSpec`: promises, file operations
and commands settle; `waitReady` reaches its deadline however often it polls (strong
fairness, since between polls it is enabled again and again). Which of the sessions that
are left comes first when the map is full is open (`PoolFull`: the code sorts them by their
last use and answers 429 at the first that is too young, `scripts/patch-native-archive-concurrency.py:227-234`).

*Seen but not a run.* `cleanup()` deletes a map entry by session id after awaiting the
stop. If the window is asked for meanwhile, the new session loses its entry, and then its
directory, while it plays (`archiveSessions.ts:232-233`). And slots are released by
session id: a start that fails after its session is already in `error` releases the slot
that the window's next session counts on
(`scripts/patch-native-archive-worker-pool.py:515`), whose playback `stopGroupedPlayback`
then cannot stop. The model has these steps. Of the same class in `ArchivePool`: a status
line is matched by session and operation only (`src/nativeSdk/deviceRuntime.ts:45`), so
that with the deterministic ids of `archiveSessions.ts` a retry can be rejected by the late
ERR of the start before it; its slot is released while the worker opens the retried
playback, and no STOP follows. This is why `NoLeakedPlayback` is checked for fresh ids only.

### EventScans

*State.* `wire` and `out` are the live worker's stdin and stdout; `pending` is
`pendingByDevice`, `sync` and `backfill` the two cursors in SQLite, `store` the rows,
`lastEventAt` the filter of alarms in memory. `happened` and `log` are the DVR: an event is
found by a search up to `Lag` ticks after it happened. `covered` and `unwritten` are history
variables: the times that accepted scans stand for, and the events that a scan brought and
SQLite refused.

*Names.* An event has a name in each source: what the alarm callback calls `vca_rule`
(`native-sdk/hik_sdk_device_worker.cpp:122`) is `line_crossing` or `intrusion` in the DVR's log
(`scripts/patch-native-event-reconciliation.py:541-585`). Rows are compared only with rows of
the same name (`:143-149`), so that such an event has two, one of each name; motion has one
name everywhere. An alarm is dated by the worker's clock when it arrives, a record by the
DVR's: `Skew` is the greatest distance, and the rows of one name become one if it is within
the dedupe window of 5 seconds. With clocks further apart, or a DVR whose local time, which the
worker writes as UTC, is not UTC, also an event of one name has two rows. So `OneRowPerName`
claims one row of each name, under `Skew <= DedupeWindow`, and no more. The test 'historical
events are persisted to the existing SQLite store with cross-source dedupe'
(`test/nativeSdk/eventReconciliation.test.ts:36`) looks for texts in the source and says
nothing about names.

*Actions.* `ReconcileHistory` and `ReconcileBackfill` are the two loops for one DVR (their
`now` may be `MaxStale` ticks old, as the loops go from DVR to DVR), `ScanTimeout` and
`WriteFails` the two ways a request is given up, `Alarm` the callback of the SDK, which may
come again for one event, `Scan` the worker's answer with its
fallback to the recording index, `WorkerDies` an exit at any point of a scan, `ReadLine`
the consumption of one line, `Cleanup` the retention, `Restart` a crash of the node: what
is in SQLite stays.

*Seen but not a run.* With `SearchFails = TRUE` a search that fails with any error but 23
counts as supported (`scripts/patch-native-event-reconciliation.py:696`): the scan's status
is ok and its cursor moves over what it did not return, and `CoveredCollected` does not
hold. A search cut off at 2000 records (`:730`) is the same step. A record whose row SQLite
refuses is lost the same way: the error ends in the log of the line alone
(`src/nativeSdk/recorderManager.ts:214`), and the status behind it moves the cursor. The run
has this (`StoreFails`), and `CoveredCollected` excepts these events by name. An alarm whose
row is refused leaves its time in the filter
(`scripts/patch-native-event-reconciliation.py:365`), which drops its repetition, too: only a
scan makes up for it. No text of the repository promises otherwise.

*Left out.* The legacy alertStream collector, the migration of JSONL files, event queries.
Channels, as rows of two of them are never compared; and with them the records and alarms of a
channel that the node does not know, or of a device that was removed, which are dropped
(`scripts/patch-native-event-reconciliation.py:394-395`).

### SmartYardBursts

*State.* `request` holds the requests of the route `virtual-segment.ts`, each at one of its
awaits; `burst[r]` the burst that request `r` started; `listed` the channel's entry in
`virtualArchiveBursts`, whose order decides which of two overlapping bursts is found;
`cache` the `.ts` files. Of ffmpeg's numbered parts only how many were opened and how many
have been renamed is kept: both go up in order.

*Actions.* `FirstStat`, `JoinBurst`, `startVirtualArchiveBurst` and `TooManyBursts` are
`ensureVirtualArchiveSegment` between its awaits, `PollFile` to `LastPoll` the rounds of
`waitForBurstSegment` (its look at the file may be older than its look at the job),
`ClientLeaves` the two events 'aborted' and 'close', each of which calls `cancel()`.
`CheckPart`, `ClearOutput` and `RenamePart` are the three awaits of `promoteBurstParts`.
mkdir, mkfifo and the start of the playback are one step, since nobody looks at a burst's
progress between them, and so are the stop and the `rm` at its end.

*Fairness.* Only that something that is due happens, ffmpeg's 60 second timeout included:
no step of a request or a burst repeats, so that weak fairness of all of them together
is enough.

*Left out.* Parts of at most 188 bytes, which are skipped, and renames that fail
(`scripts/patch-smartyard-virtual-archive-burst.py:123-128`).

*Seen but not a run.* Waiters are a set of files. Two viewers of one segment have one entry
in it: if one of them leaves or times out, the entry is gone, and where nobody watches another
segment the burst is cancelled at once under the other
(`scripts/patch-smartyard-virtual-archive-multiviewer.py:168` says "A second viewer no longer
aborts the first viewer burst", of bursts of different windows). `ViewerKept` says that it
takes that much. A client that leaves before its request
has looked for a burst still starts one, which runs to its end for nobody, although
"SmartYard virtual archive producers now stop when their HTTP request is aborted"
(`scripts/patch-smartyard-virtual-archive-request-abort.py:199`). The last part of a killed
ffmpeg is cut short and is cached for 15 minutes like any other
(`scripts/patch-smartyard-virtual-archive-burst.py:206`). A request for a segment beside the
grid of the burst it falls into joins that burst and never gets its file. A job that is
rejected just after the file was renamed answers with an error, as only a job that is
resolved makes the waiter look once more (`:291-297`).

### NodeService

*State.* `snapshots` and `order` are the array `state.devices`, `file` what the encrypted
file holds, `calls` the service calls under way, each at one of its awaits: a save, a
`reconcile()`, a discovery, a request to the master. A snapshot has its configuration, the
configuration its channels were discovered under, and whether the last synchronisation
failed. Objects matter here: a poll of the master replaces every snapshot object and the
array, a removal the array. A call whose object has left the state has no `dev` any more,
so that its result is lost, and a loop that runs over an old array keeps it in `list`, with
the configurations of the objects in it; a loop over `state.devices` itself sees it sorted in
place by every save. `recorders` is what `GroupedRecorder`'s `reconcile` was last given:
the two models meet there.

*Actions.* `Settle` ends every stretch between two awaits: a save takes its content at once
and sorts, a `reconcile()` tells the recorders at once. `upsertDevice`, `removeDevice`,
`syncDevice` are the routes, `syncAll` the timer, whose passes may overlap, `LoadConfig` to
`PassEnds` the agent's loop; `SaveRenames` and `SaveReturns` the two halves of a save,
`DiscoveryEnds` the next of the helpers, which run one after the other, `Rejected` a save or
`reconcile()` that fails, `Restart` a kill and `initialize()` on the file as it is, `Assign`
a change at the master.

*Assumed.* The native mode; the names of devices differ and do not change. `FairSpec`: awaits
settle, the agent's timer fires; the master answers now and then, and it has at most twenty
commands at a time (one strong fairness for both: a pass only gets to its commands through
an answer).

*Seen but not a run.* Saves are not serialised: an older one whose rename comes last leaves
the file behind the memory until something changes again (`FileCurrent` makes this
exception by name), and two saves within one millisecond share a temporary file
(`src/state/encryptedStore.ts:76`). A save rejected in `reconcileMasterDevices` is not tried
again, as the next poll finds nothing changed: a device the master took away is there again
after a restart until the first poll, although the file is "cache for restarts"
(`docs/MANUAL_MASTER_PAIRING.md:170`). A discovery that is under way when the poll replaces its
snapshot is lost; where the poll saw the new configuration already, channels discovered under
the old one stay until the timer's next pass. That pass may skip a device: the array has the
order of the master's answer, and the first save of the pass sorts it by name under the loop.
`initialize()` discovers "before starting any live recorder processes"
(`scripts/patch-native-sdk-media-runtime.py:76`), but the first device's `reconcileRecorders()`
starts the recorders of all the others with their old channels.

*Left out.* The ISAPI fallback (off by default), `refreshStreamSettings` without the SDK,
retention, the heartbeat, and what the master makes of a command's result.

### PatchPipeline

*State.* `tree[f]` is the content of a source file as far as the scripts can tell it apart:
which patch functions are in it and whose text a later function has rewritten, or that it is
empty, cut off in the middle of `write_text`. A command (`npm run check`, `install.sh`,
`update-installed-project.sh`, the worker's rebuild) is a list of scripts, which are lists
of edits, one per file a script writes. The table of what each edit needs, what stops it
and what it rewrites was written down from the scripts; every script was run on trees in
random histories of edits, to see that the table tells how it ends.

*Actions.* `Begin` a command on fresh, prepared or its own sources, `CopyFile` the copy of
one file, `PatchFile` one edit (done before, done now, or the script stops), `Kill` at any
point, `Finish`.

*Seen but not a run.* An update from a prepared checkout stops:
`patch-native-archive-concurrency.py` finds the block it looks for in the text it has
itself put in and adds its line a second time, and the next script fails. The workflow's
step is called "Apply concurrency patch and verify idempotence"
(`.github/workflows/archive-concurrency.yml:16`). After a failed patch the updater's trap
restarts the service over the old `dist/`, with the new sources beside it.

## 4. Runs

| run | question | bounds |
|---|---|---|
| `ArchivePool` | fresh ids, as `mediaRoutes.ts` and `archive.ts` make them: one command in flight per worker, no leaked playback, no PLAYBACK for a full worker, a caller told of success has its playback | 3 sessions, 2 workers of 2: a worker can be full, and another session can be chained behind a command |
| `ArchivePoolShared` | ids used again and calls that overlap on one, registration over a registration: refinement of `SlotPool`, capacity, every promise accounted for, timers find no worker | 2 sessions, 2 workers of 1, two overlapping calls: enough for supersession, loose chains and a moved session |
| `ArchivePoolLateStart` | violated: a late start is not always cleaned up | |
| `GroupedRecorder` | two overlapping reconciles, rejected spawns, exits at any await: one driver per runtime, no registration without its worker, a stopped runtime stays stopped, and no configuration returns that was replaced before the calls that overlap | 1 channel, 2 configurations, 2 reconciles, 2 runtimes: a call can be overtaken by one that wants another configuration, or none |
| `GroupedRecorderOverlap` | violated: overlapping reconciles start a DVR twice | |
| `ArchiveSessions` | a viewer is counted in one session at most, and no slot is forgotten | 2 calls, 2 viewers, 3 windows of which two coalesce, 1 slot: sharing, seeking, eviction and 429 all occur, with every failure |
| `ArchiveSessionsSeek` | violated: a session its viewer left plays on | no failure at all |
| `Liveness` | every start and stop settles though workers hang for ever; a DVR and its channels get their processes back after every exit; every archive call is answered; the node comes to have the master's devices, its file is its memory and the recorders were told of it | pool: 2 sessions, 1 worker of 2; recorder: 2 configurations, one reconcile at a time; sessions: 2 calls, 2 windows, failing starts and directories; service: 1 device, enabled or not, synchronised or new at the start, one request or pass of the timer beside the agent, and 2 requests, changes at the master, rejections or restarts: enough for a discovery, a save or a removal under a poll, and for a change during each |
| `EventScans` | what an accepted scan stands for is in the store unless SQLite refused it, an event has one row of each of its names, and both cursors move without a hole | 2 ticks from tick 5, in them or before one event of one name or of two, or two of one name near each other (`OneEventOrTwoMotions`), 2 request ids, overlap 1, lag 2, windows and skew 1: repeated and late alarms, some of them dropped, failing inserts, late records, repeated scans, both loops and a restart fit in |
| `EventScansSeam` | violated: between the two cursors a stretch is in no scan | |
| `SmartYardBursts` | one producer per start, no viewer cancelled by viewers of other segments, no stale waiter, no half-written file, no unfounded 404, everything ends | 2 requests and 2 bursts, on one grid or beside it, overlapping or not, with room for both or one; 3 requests of one burst; 2 parts of 2 units, so that a part with and one without a successor exist; 2 clients leave |
| `PatchPipeline` | a command that succeeds always leaves the same sources, one that starts from clean sources always can, a script run again at once changes nothing; and the rules of `PatchDiscipline` | all 32 scripts and 19 files, 2 kills; any number in the proofs |

`Runtimes` bounds the runtime objects that are alive at a time: a start waits in the model
until one is free, which drops behaviours with three generations of orphans and no
others. `Requests` is the number of calls ever made; `Faults` selects what may fail.
`MaxLines` bounds the unread lines of a worker before callers make another call;
`MaxOverlap` the calls one id has outstanding. Commands, answers, crashes and
restarts are not bounded otherwise.

### Findings

* **Late starts stay** (`ArchivePoolLateStart`). On a start's timeout the code writes
  a STOP_PLAYBACK behind the delayed PLAYBACK "so a late native start cannot leak a
  playback slot" (`scripts/patch-grouped-playback-ack-queue.py:41`). If both lines are
  in the pipe when the worker reads, stdio takes both, `getline` returns the first, and
  `poll` then sees an empty descriptor: the STOP waits until some other command for that
  worker arrives. With no such command the playback stays open.
* **Two workers for one DVR** (`GroupedRecorderOverlap`). `startDevice` awaits `mkdir`
  between `reconcile`'s test of the map and `devices.set`
  (`src/nativeSdk/recorderManager.ts:138-172`), and nothing serialises `reconcile`. Two
  calls both start the DVR, against "persistent live/alarm uses one grouped process
  per DVR" (`src/nativeSdk/client.ts:74`). With one `reconcile` at a time the model still
  reaches two workers: `spawnDevice` does not look at `stopping` or the generation after
  its awaits (`:198`), so a `stopDevice` during a timer's respawn is followed by a worker
  nobody stops.
* **A left session plays on** (`ArchiveSessionsSeek`). `spawn` awaits `mkfifo`
  (`src/nativeSdk/archiveSessions.ts:141`); retired during that await, the session has
  nothing to stop, starts all the same, and `waitReady` turns `retired` into `ready`
  (`:193`). It plays until ffmpeg has its `-t` seconds (`:147`) or the cleanup finds it old.
The test 'one viewer can seek without consuming an extra DVR playback slot'
  (`test/nativeSdk/archiveConcurrency.test.ts:39`) looks at the source text only.
* **A seam between the cursors** (`EventScansSeam`). `reconcileBackfill` initialises its
  cursor at `now - lookback` when it first runs, whether a realtime scan has succeeded or not
  (`scripts/patch-native-event-backfill.py:508`). A realtime scan that first succeeds later
  begins at its own `now - lookback`; what lies between is in no scan, although "historical
  scan fills SQLite gaps for every DVR/channel"
  (`scripts/patch-native-event-reconciliation.py:971`).

## 5. Proofs

Each theorem holds for all values of the constants that satisfy the named assumption of
its module. Leaves are proved by Z3, Zenon and LS4.

* `SlotPoolProofs!CapacityKept`: capacity is inductive together with the type of the
  map; a slot step adds at most one holder, and only below both limits.
  (`SlotPoolAssumption` is a hypothesis of the lemmas, so that the refinement can be used
  without assuming it again.)
* `ArchivePoolProofs!TypeCorrect`: the type invariant is inductive as it stands because
  it says that a due chain is never empty (`DueChains`), which every action that takes
  its head needs.
* `TimersFindNothing`: `TimersFindNoWorker` is inductive with `TypeOK`. Its conjunct
  about waiters is the strengthening: without it a stop timeout could make a worker
  "doomed" that has a timer due.
* `PoolImplemented`: under the identity map on `assignments` each step is a `SlotPool`
  step or leaves the map alone. A start needs `Candidates` (the limit per worker) and the
  DVR test in `SelectArchiveWorker`; everything else releases.
* `CallsAreAccounted` needs that the queue map has one chain a worker
  (`OneLinked`): otherwise a queued command would be put behind two. Counting the
  commands of a session is the rest: `Heads` that wait for an ack, those `Behind` them, and
  those in due chains; each action adds a command, takes one out, or moves a chain (`SettleCount`,
  `QueueCount`, `WriteCount`, `RejectCount`). Ids may be used again and calls overlap.
* The theorems from `CommandsTakeTurns` on have two hypotheses on the callers: `Reusable = {}` (an id
  is used for one playback, as `mediaRoutes.ts` and `archive.ts` make them) and `~AllowReplace` (a
  runtime is registered when none is). The configuration `ArchivePool.cfg` satisfies both;
  "Seen but not a run" above says what fails without the first. The invariant has two halves.
  - `FreshNode`, Node's: a session has one call and hence, by `Accounted`, one command; every
    command in a chain is for the worker its session is assigned to (`WaiterFits`,
    `ChainFits`), and the chain of a worker that has gone holds released sessions only.
    `CommandsTakeTurns` follows: a worker has one command in flight, which the timers and
    superseded waiters alone do not give.
  - `FreshWorkers`, the workers': where a session is assigned (`Owned`), the worker's lines,
    playbacks and unread replies are what the command under way says of them, and
    elsewhere there are none of its (`SessionInv`); what a worker plays without a slot has
    its stop in the unread lines, behind its start (`InOrder`); and before each
    unread start the worker will have closed enough to have room (`Roomy`, a count over the
    prefix of the lines, which a start's own slot in `Capacity` keeps when it is written).
    `PlaybacksStoppable`, `HeldPlays` and `StartsHaveRoom` follow. There is one lemma per
    action (`WorkersStart` to `WorkersCommand`). That the worker reads the stop in the end is not among
    them: `ArchivePoolLateStart` shows that it may not.
* `ArchivePoolProofs!CapacityKept` carries the capacity of `SlotPool` through that
  refinement.
* `GroupedRecorderProofs`: `OneDriver` for any number of overlapping reconciles, runtimes and
  channels. A runtime has at most one of: a call that drives it, a restart timer, a worker.
  The invariant needs that at most one spawn of a runtime is under way (`SingleSpawn`), that
  these ways exclude each other (`Exclusive`) and that only the runtime in the map has a timer
  (`InMap`). `RegistrationWithdrawn` and `StaysStopped` follow from the same invariant.
  `BurstIsAllThatReturns` proves `NothingOlderThanBurst` for any number of calls that overlap:
  its invariant `FromBurst` says that every call under way, too, asked for its configuration in
  this burst. That the map has the *latest* configuration is not claimed: with two calls it
  does not hold.
* `ArchiveSessionsProofs`: the shapes of calls, stops and commands come first (`Shape`: a stop
  or a command belongs to a session that was made, a caller has one command at a time, the
  device's queue holds its callers once), then `SlotHasOwner`, inductive with it, and the
  leases. `OneLeasePerViewer` is not inductive: while a call takes a viewer out of one session
  after another, the viewer may be in several. `LeaseInv` says in which: those the loop has still
  to look at and the window it keeps, and after the loop that window alone (`Releasing`); a
  viewer whom no call is releasing has one at most (`SingleLeases`).
* `NodeServiceProofs`: the arrays and maps of snapshots go together (`Objects`); what the file lacks is in
  the save that was begun last (`FileInv`); until `initialize` is through nobody else is at work and
  the array is the sorted one of the file (`StartInv`, which needs that a finite set has a sorted
  enumeration: `LeastNat` and `SortsExist` prove it from the well-foundedness of the numbers);
  whatever the recorders were not told, some call under way will tell them, or the device's
  last synchronisation failed (`RecordersInv`). `ServiceAssumption` is a hypothesis: finitely
  many devices, whose ranks (their order in the array) differ, and callers that are told apart.
* `EventScansProofs`: `NoHoleLeft` and `BackfillContiguous` rest on `Cursors` (the one scan a
  pending entry, the wire or the output may still name asks from where the cursor
  is). `EventsHaveOneRowPerName` needs that rows of one name are further apart than the window
  (`RowsApart`) and that the window is not shorter than the skew of the clocks. `CoveredIsCollected` needs that what has settled at the DVR is past the lag (`Settled`) and
  that the answer on its way has all of it (`Collected`). It is proved for
  `Lag <= Overlap + Delay`, `Lag <= Lookback` and searches that do not fail, with statements of SQLite that may; the run with these
  bounds shows that it holds, "Seen but not a run" above what happens without the last.
* `SmartYardBurstsProofs`: starts are apart (`OneProducerPerStart`), only complete parts become
  files (`NothingHalfWritten`), a waiter is waited for (`NoStaleWaiter`), and a burst is
  cancelled only when its waiters are gone (`ViewerKept`), for any number of
  requests, clients that leave and parts. The strengthenings are the shapes of requests, bursts and of
  the channel's list in its type invariant, and `Viewers`. `NoSegmentMissed` proves the action
  property `MissingSegment`: a file that was there once is there or is being replaced
  (`Present`, which every step keeps), so that every part a burst has promoted, or dropped
  for a file that was there, is (`PartsThere`), and so is what a request is about to be
  served (`ServedThere`); a request that looks for the last time waits for a burst that
  starts at or before its segment and has ended well (`WaitsAhead`).

* `PatchPipelineProofs`: what the run shows for 2 kills holds for every number of them and every
  choice of `Sources` (TLC meets 0.9 million states with 2 kills and 12.8 million with 3).
  The scripts and plans are data, 70 edits in all, which a prover cannot unfold. What the proofs need of
  them is named in `PatchDiscipline` as rules: closed formulas without variables or free constants, which TLC
  evaluates before the run of `PatchPipeline`; a script added out of order
  breaks one of them before it breaks a build.
  - *Files.* An edit that is not refused keeps the rules of its file (`PatchedOK`): what is
    stale is what a present edit rewrites, whatever an edit needs is there, and no two
    that exclude each other are. Done again it is kept (`PatchedKept`); with the files of an item
    being distinct (`ItemKept`) this is `RepeatableHolds`.
  - *What was passed is there* (`PassedInFile`): the text of each slot behind the command is in its
    file, or a later slot has removed it (`UndoneStep`). Skipping the event stack is
    the hard step, since its four markers speak of four of the seven files: `SkipDone` needs that where
    backfill is in the configuration, the reconciliation is in the other files too (`SkipOK`, and
    `HalfOK` for what kills and copies leave in between), as rsync copies the configuration
    before them and the stack writes the configuration first.
  - `OneResultHolds`: all slots are passed, so every edit of the prepared sources is in its file; any other
    excludes one of those; no edit is in twice (`ConfigInPass`: the retention refuses
    a configuration that has the pool); what is stale follows.
  - `CleanSourcesSuffice`: from clean sources a file has exactly the edits of the slots passed
    (`CleanTree`), and by `OrderRule` the next edit then finds its text.

Only model-checked: liveness, which the prover does not reach.

## 6. Done, left, and not modelled

Done: `ArchivePool` over `SlotPool`, `GroupedRecorder`, `ArchiveSessions`, `EventScans`,
`SmartYardBursts`, `PatchPipeline`, `NodeService`, and proofs for each.

Left, in this order:

1. The live half of `hik_sdk_device_worker.cpp`: live handles paused and resumed around
   playbacks, beside the playback map that `ArchivePool` has.
2. The legacy mode: `archive/deviceArchiveSessions.ts` and `media/recorderManager.ts`.
   They are not modelled because the deployed node runs with the SDK, where neither is made.
3. Pure algorithms: range merge and retention of `archive/localArchive.ts`, media tokens,
   `resolveChannelOnlineStatus`. They have unit tests and no interleaving.

Not modelled, as there is no state to check: parsers and clients, `index.ts` and `config.ts`
(their limits are constants of the models), control and event routes beyond the device
routes, the one-channel helper and the probe, compilers, services and environment files of
the installers.
