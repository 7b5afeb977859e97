--------------------------- MODULE GroupedRecorder ---------------------------
(***************************************************************************)
(* The life of one DVR in NativeSdkRecorderManager, the native recorder    *)
(* manager of src/nativeSdk/recorderManager.ts: the entry of its device    *)
(* map, the runtime objects reconcile() makes, the live worker and the     *)
(* ffmpeg processes they spawn, and the registration of the worker in      *)
(* deviceRuntime.ts.                                                       *)
(*                                                                         *)
(* An async function is cut at its awaits.  A runtime object lives on      *)
(* after it has left the map, as long as a spawnDevice() call or a child   *)
(* process refers to it; its id is used again when nothing does.           *)
(***************************************************************************)
EXTENDS Integers, FiniteSets

CONSTANTS
    Channels,       \* how many channels the DVR has: they are 1 .. Channels
    DeviceKeys,     \* values of deviceKey(): distinct configurations
    Reconciles,     \* concurrent reconcile() calls
    Runtimes,       \* bound: runtime objects alive at a time, 1 .. Runtimes
    SpawnsFail      \* may a spawnDevice() or spawnFfmpeg() call be rejected

ASSUME RecorderAssumption ==
    /\ Channels \in Nat \ {0}
    /\ IsFiniteSet(DeviceKeys)
    /\ Runtimes \in Nat \ {0}
    /\ SpawnsFail \in BOOLEAN

Chans == 1 .. Channels
Ids   == 1 .. Runtimes
None  == 0
NotWanted == "not wanted"   \* disabled, removed, or every channel offline

VARIABLES
    devices,        \* the runtime in the device map, or None
    runtimes,       \* the runtime objects
    spawns,         \* spawnDevice() calls under way
    ffmpegSpawns,   \* spawnFfmpeg() calls of ffmpeg restart timers under way
    reconciles,     \* where each reconcile() call is
    registered,     \* the runtime whose worker deviceRuntime.ts has, or None
    asked           \* what reconcile() calls wanted since none was under way
                    \* (history variable)

vars == <<devices, runtimes, spawns, ffmpegSpawns, reconciles, registered, asked>>

\* `worker': "none", "running", "dying" (dead, exit event not in) or "terminating"
\* (sent SIGTERM).  `current': it was spawned in the runtime's generation.
Blank ==
    [key |-> NotWanted, stopping |-> FALSE, failed |-> FALSE,
     worker |-> "none", current |-> FALSE, registration |-> FALSE, restartTimer |-> FALSE,
     ffmpeg |-> [c \in Chans |-> FALSE], ffmpegTimer |-> [c \in Chans |-> FALSE]]

RuntimeStates ==
    [key : DeviceKeys \cup {NotWanted}, stopping : BOOLEAN, failed : BOOLEAN,
     worker : {"none", "running", "dying", "terminating"}, current : BOOLEAN,
     registration : BOOLEAN, restartTimer : BOOLEAN,
     ffmpeg : [Chans -> BOOLEAN], ffmpegTimer : [Chans -> BOOLEAN]]

\* A spawnDevice() call awaits makeFifo(), the directories of spawnFfmpeg(), or
\* the configuration files.  `by' is the reconcile() that awaits it, if any.
Spawns == [rt : Ids, at : {"fifo", "dir", "files"}, ch : Chans, current : BOOLEAN,
           by : Reconciles \cup {None}]
FfmpegSpawns == [rt : Ids, ch : Chans]

Calls == [at : {"idle", "start", "mkdir", "spawn"}, key : DeviceKeys \cup {NotWanted}]
Done  == [at |-> "idle", key |-> NotWanted]

SpawnsOf(r) == {sp \in spawns : sp.rt = r}

\* Nothing refers to the runtime object any more.
Garbage(r) ==
    /\ devices # r /\ registered # r
    /\ SpawnsOf(r) = {} /\ \A f \in ffmpegSpawns : f.rt # r
    /\ runtimes[r].worker = "none"
    /\ ~runtimes[r].restartTimer
    /\ \A c \in Chans : ~runtimes[r].ffmpeg[c] /\ ~runtimes[r].ffmpegTimer[c]

-----------------------------------------------------------------------------
(* stopDevice and the calls of it.                                         *)

Stopped(r) ==
    [runtimes[r] EXCEPT !.stopping = TRUE,
                        !.current = FALSE,
                        !.registration = FALSE,
                        !.restartTimer = FALSE,
                        !.worker = IF @ = "running" THEN "terminating" ELSE @,
                        !.ffmpeg = [c \in Chans |-> FALSE],
                        !.ffmpegTimer = [c \in Chans |-> FALSE]]

\* Mutant: the restart timer of a stopped runtime is left set.
StopDeviceKeepsTimer(r) ==
    /\ runtimes' = [runtimes EXCEPT ![r] =
                      [Stopped(r) EXCEPT !.restartTimer = runtimes[r].restartTimer]]
    /\ spawns' = {[sp EXCEPT !.current = @ /\ sp.rt # r] : sp \in spawns}
    /\ registered' = IF runtimes[r].registration /\ registered = r THEN None ELSE registered
    /\ devices' = None

\* The generation is advanced, the registration withdrawn if it is still the one
\* deviceRuntime.ts has, children are sent SIGTERM and timers cleared.
StopDevice(r) ==
    /\ runtimes' = [runtimes EXCEPT ![r] = Stopped(r)]
    /\ spawns' = {[sp EXCEPT !.current = @ /\ sp.rt # r] : sp \in spawns}
    /\ registered' = IF runtimes[r].registration /\ registered = r THEN None ELSE registered
    /\ devices' = None

NothingToStop == UNCHANGED <<devices, runtimes, spawns, registered>>

\* Mutant: a device that is still wanted is left alone although its key changed.
StopUnwantedIgnoresKey(key) ==
    IF devices # None /\ key = NotWanted THEN StopDevice(devices) ELSE NothingToStop

\* The first loop of reconcile().
StopUnwanted(key) ==
    IF devices # None /\ (key = NotWanted \/ runtimes[devices].key # key)
    THEN StopDevice(devices)
    ELSE NothingToStop

Undisturbed(p) == \A q \in Reconciles \ {p} : reconciles[q].at = "idle"

\* What remains of the call is the second loop, if the device is wanted.
BeginCall(p, key) ==
    /\ reconciles[p].at = "idle"
    /\ reconciles' = [reconciles EXCEPT ![p] =
                        IF key = NotWanted THEN Done ELSE [at |-> "start", key |-> key]]
    /\ asked' = {key} \cup (IF Undisturbed(p) THEN {} ELSE asked)

Reconcile(p, key) ==
    /\ BeginCall(p, key)
    /\ StopUnwanted(key)
    /\ UNCHANGED ffmpegSpawns

\* service.restartRecorders(): stopAll() and reconcile().
RestartRecorders(p, key) ==
    /\ BeginCall(p, key)
    /\ IF devices # None THEN StopDevice(devices) ELSE NothingToStop
    /\ UNCHANGED ffmpegSpawns

-----------------------------------------------------------------------------
(* Starting a device.                                                      *)

\* The second loop reaches the device, maybe after it awaited others.
StartDevice(p) ==
    /\ reconciles[p].at = "start"
    /\ reconciles' = [reconciles EXCEPT ![p] = IF devices = None THEN [@ EXCEPT !.at = "mkdir"]
                                               ELSE Done]
    /\ UNCHANGED <<devices, runtimes, spawns, ffmpegSpawns, registered, asked>>

\* A runtime goes into the map, whatever is there by now, and spawnDevice() runs to
\* its first await.
DirectoryMade(p) ==
    /\ reconciles[p].at = "mkdir"
    /\ \E r \in Ids :
         /\ Garbage(r) /\ \A q \in Ids : Garbage(q) => r <= q
         /\ runtimes' = [runtimes EXCEPT ![r] = [Blank EXCEPT !.key = reconciles[p].key]]
         /\ devices' = r
         /\ spawns' = spawns \cup
              {[rt |-> r, at |-> "fifo", ch |-> 1, current |-> TRUE, by |-> p]}
    /\ reconciles' = [reconciles EXCEPT ![p].at = "spawn"]
    /\ UNCHANGED <<ffmpegSpawns, registered, asked>>

\* The directory cannot be made: reconcile() rejects, and the next one tries again.
DirectoryFails(p) ==
    /\ SpawnsFail
    /\ reconciles[p].at = "mkdir"
    /\ reconciles' = [reconciles EXCEPT ![p] = Done]
    /\ UNCHANGED <<devices, runtimes, spawns, ffmpegSpawns, registered, asked>>

\* The restart timer of a runtime calls spawnDevice(): a new generation.
RestartTimer(r) ==
    /\ runtimes[r].restartTimer
    /\ runtimes' = [runtimes EXCEPT ![r].restartTimer = FALSE,
                                    ![r].stopping = FALSE,
                                    ![r].current = FALSE]
    /\ spawns' = {[sp EXCEPT !.current = @ /\ sp.rt # r] : sp \in spawns} \cup
                 {[rt |-> r, at |-> "fifo", ch |-> 1, current |-> TRUE, by |-> None]}
    /\ UNCHANGED <<devices, ffmpegSpawns, reconciles, registered, asked>>

Move(sp, next) == spawns' = (spawns \ {sp}) \cup {next}

\* The FIFO is there: spawnFfmpeg() clears the channel's timer and awaits mkdir().
FifoMade(sp) ==
    /\ sp.at = "fifo"
    /\ runtimes' = [runtimes EXCEPT ![sp.rt].ffmpegTimer[sp.ch] = FALSE]
    /\ Move(sp, [sp EXCEPT !.at = "dir"])
    /\ UNCHANGED <<devices, ffmpegSpawns, reconciles, registered, asked>>

\* Mutant: the loop of prepareRuntime() goes one past the last channel.
FfmpegSpawnedOnePast(sp) ==
    /\ sp.at = "dir"
    /\ runtimes' = [runtimes EXCEPT ![sp.rt].ffmpeg[sp.ch] = TRUE]
    /\ Move(sp, IF sp.ch <= Channels THEN [sp EXCEPT !.at = "fifo", !.ch = @ + 1]
                ELSE [sp EXCEPT !.at = "files"])
    /\ UNCHANGED <<devices, ffmpegSpawns, reconciles, registered, asked>>

FfmpegSpawned(sp) ==
    /\ sp.at = "dir"
    /\ runtimes' = [runtimes EXCEPT ![sp.rt].ffmpeg[sp.ch] = TRUE]
    /\ Move(sp, IF sp.ch < Channels THEN [sp EXCEPT !.at = "fifo", !.ch = @ + 1]
                ELSE [sp EXCEPT !.at = "files"])
    /\ UNCHANGED <<devices, ffmpegSpawns, reconciles, registered, asked>>

Return(sp) ==
    reconciles' = [p \in Reconciles |-> IF p = sp.by THEN Done ELSE reconciles[p]]

\* live.tsv and archive.tsv are written: the worker is spawned and registered,
\* whatever has happened to the runtime since.
WorkerSpawned(sp) ==
    /\ sp.at = "files"
    /\ runtimes' = [runtimes EXCEPT ![sp.rt].worker = "running",
                                    ![sp.rt].current = sp.current,
                                    ![sp.rt].registration = TRUE]
    /\ registered' = sp.rt
    /\ spawns' = spawns \ {sp}
    /\ Return(sp)
    /\ UNCHANGED <<devices, ffmpegSpawns, asked>>

\* An await is rejected, or the worker's files are missing: reconcile() rejects,
\* the restart timer's call only notes the error.
SpawnFails(sp) ==
    /\ SpawnsFail
    /\ runtimes' = [runtimes EXCEPT ![sp.rt].failed = TRUE]
    /\ spawns' = spawns \ {sp}
    /\ Return(sp)
    /\ UNCHANGED <<devices, ffmpegSpawns, registered, asked>>

-----------------------------------------------------------------------------
(* Children that exit.                                                     *)

WorkerDies(r) ==
    /\ runtimes[r].worker = "running"
    /\ runtimes' = [runtimes EXCEPT ![r].worker = "dying"]
    /\ UNCHANGED <<devices, spawns, ffmpegSpawns, reconciles, registered, asked>>

\* Mutant: the exit of a worker sets no restart timer.
WorkerExitNoTimer(r) ==
    /\ runtimes[r].worker \in {"dying", "terminating"}
    /\ registered' = IF runtimes[r].registration /\ registered = r THEN None ELSE registered
    /\ runtimes' = [runtimes EXCEPT ![r].worker = "none", ![r].current = FALSE,
                                    ![r].registration = FALSE]
    /\ UNCHANGED <<devices, spawns, ffmpegSpawns, reconciles, asked>>

\* Mutant: a worker of a stopped runtime is not unregistered when it exits.
WorkerExitLeavesRegistration(r) ==
    /\ runtimes[r].worker \in {"dying", "terminating"}
    /\ registered' = IF /\ runtimes[r].registration /\ registered = r
                        /\ ~runtimes[r].stopping
                     THEN None ELSE registered
    /\ LET ignored == runtimes[r].stopping \/ ~runtimes[r].current \/ devices = None
       IN runtimes' = [runtimes EXCEPT ![r] =
            [runtimes[r] EXCEPT !.worker = "none",
                                !.current = FALSE,
                                !.registration = @ /\ runtimes[r].stopping,
                                !.restartTimer = @ \/ ~ignored,
                                !.ffmpeg = [c \in Chans |-> ignored /\ @[c]]]]
    /\ UNCHANGED <<devices, spawns, ffmpegSpawns, reconciles, asked>>

\* The worker's exit handler: whatever registration the runtime has is withdrawn;
\* a current worker of a device in the map has its ffmpegs killed and a timer set.
WorkerExit(r) ==
    /\ runtimes[r].worker \in {"dying", "terminating"}
    /\ registered' = IF runtimes[r].registration /\ registered = r THEN None ELSE registered
    /\ LET ignored == runtimes[r].stopping \/ ~runtimes[r].current \/ devices = None
       IN runtimes' = [runtimes EXCEPT ![r] =
            [runtimes[r] EXCEPT !.worker = "none",
                                !.current = FALSE,
                                !.registration = FALSE,
                                !.restartTimer = @ \/ ~ignored,
                                !.ffmpeg = [c \in Chans |-> ignored /\ @[c]]]]
    /\ UNCHANGED <<devices, spawns, ffmpegSpawns, reconciles, asked>>

\* Mutant: an ffmpeg that exits has no timer set.
FfmpegExitNoTimer(r, c) ==
    /\ runtimes[r].ffmpeg[c]
    /\ runtimes' = [runtimes EXCEPT ![r].ffmpeg[c] = FALSE]
    /\ UNCHANGED <<devices, spawns, ffmpegSpawns, reconciles, registered, asked>>

\* The exit handler of a channel's ffmpeg.
FfmpegExit(r, c) ==
    /\ runtimes[r].ffmpeg[c]
    /\ runtimes' = [runtimes EXCEPT
                      ![r].ffmpeg[c] = FALSE,
                      ![r].ffmpegTimer[c] = @ \/ (~runtimes[r].stopping /\ devices # None)]
    /\ UNCHANGED <<devices, spawns, ffmpegSpawns, reconciles, registered, asked>>

\* The timer of a channel: spawnFfmpeg() is called if the worker still runs as far
\* as Node knows.  The timer takes three seconds at least, a spawnDevice() call
\* some milliseconds per channel: it does not fire while one is under way.
FfmpegTimer(r, c) ==
    /\ runtimes[r].ffmpegTimer[c]
    /\ SpawnsOf(r) = {}
    /\ runtimes' = [runtimes EXCEPT ![r].ffmpegTimer[c] = FALSE]
    /\ ffmpegSpawns' =
         IF ~runtimes[r].stopping /\ runtimes[r].worker # "none"
         THEN ffmpegSpawns \cup {[rt |-> r, ch |-> c]} ELSE ffmpegSpawns
    /\ UNCHANGED <<devices, spawns, reconciles, registered, asked>>

FfmpegRespawned(f) ==
    /\ ffmpegSpawns' = ffmpegSpawns \ {f}
    /\ runtimes' = [runtimes EXCEPT ![f.rt].ffmpeg[f.ch] = TRUE]
    /\ UNCHANGED <<devices, spawns, reconciles, registered, asked>>

\* Only the error is noted.
FfmpegSpawnFails(f) ==
    /\ SpawnsFail
    /\ ffmpegSpawns' = ffmpegSpawns \ {f}
    /\ UNCHANGED <<devices, runtimes, spawns, reconciles, registered, asked>>

-----------------------------------------------------------------------------

Init ==
    /\ devices = None
    /\ runtimes = [r \in Ids |-> Blank]
    /\ spawns = {}
    /\ ffmpegSpawns = {}
    /\ reconciles = [p \in Reconciles |-> Done]
    /\ registered = None
    /\ asked = {NotWanted}

Next ==
    \/ \E p \in Reconciles :
         \/ \E key \in DeviceKeys \cup {NotWanted} : Reconcile(p, key) \/ RestartRecorders(p, key)
         \/ StartDevice(p)
         \/ DirectoryMade(p)
         \/ DirectoryFails(p)
    \/ \E sp \in spawns : FifoMade(sp) \/ FfmpegSpawned(sp) \/ WorkerSpawned(sp) \/ SpawnFails(sp)
    \/ \E f \in ffmpegSpawns : FfmpegRespawned(f) \/ FfmpegSpawnFails(f)
    \/ \E r \in Ids :
         \/ RestartTimer(r)
         \/ WorkerDies(r)
         \/ WorkerExit(r)
         \/ \E c \in Chans : FfmpegExit(r, c) \/ FfmpegTimer(r, c)

Spec == Init /\ [][Next]_vars

\* Awaits settle, timers fire and exit events are delivered.
Fairness ==
    /\ \A p \in Reconciles : WF_vars(StartDevice(p)) /\ WF_vars(DirectoryMade(p))
    /\ \A r \in Ids :
         /\ WF_vars(\E sp \in SpawnsOf(r) :
                       FifoMade(sp) \/ FfmpegSpawned(sp) \/ WorkerSpawned(sp))
         /\ WF_vars(RestartTimer(r))
         /\ WF_vars(WorkerExit(r))
         /\ \A c \in Chans :
              /\ WF_vars(FfmpegTimer(r, c))
              /\ WF_vars(\E f \in ffmpegSpawns : f.rt = r /\ f.ch = c /\ FfmpegRespawned(f))

FairSpec == Spec /\ Fairness

-----------------------------------------------------------------------------
(* Properties.                                                             *)

TypeOK ==
    /\ devices \in Ids \cup {None}
    /\ runtimes \in [Ids -> RuntimeStates]
    /\ spawns \in SUBSET Spawns
    /\ ffmpegSpawns \in SUBSET FfmpegSpawns
    /\ reconciles \in [Reconciles -> Calls]
    /\ registered \in Ids \cup {None}
    /\ asked \subseteq DeviceKeys \cup {NotWanted}

Drivers(r) ==
    Cardinality(SpawnsOf(r)) + (IF runtimes[r].worker # "none" THEN 1 ELSE 0)
                             + (IF runtimes[r].restartTimer THEN 1 ELSE 0)

\* A runtime object is driven by one thing at a time: a spawnDevice() call, the
\* worker whose exit handler will act, or the restart timer.  In the map it is never
\* without one, unless a spawn was rejected: no exit or timer is lost or doubled
\* however stops, restarts and overlapping reconcile() calls fall between awaits.
OneDriver ==
    \A r \in Ids :
        /\ Drivers(r) <= 1
        /\ r = devices /\ ~runtimes[r].failed => Drivers(r) = 1

\* The registration deviceRuntime.ts has is one that a runtime still remembers, and
\* its worker's exit handler is yet to run: a registration never outlives its worker.
RegistrationWithdrawn ==
    /\ registered # None => runtimes[registered].registration
    /\ \A r \in Ids : runtimes[r].registration => runtimes[r].worker # "none"

\* A runtime that was stopped is never started again, by a timer left over or by the
\* exit of what it had running (generation, stopping and the cleared timers).
StaysStopped ==
    [][\A r \in Ids : runtimes[r].stopping /\ ~Garbage(r) => runtimes'[r].stopping]_vars

\* The map never holds a configuration older than the burst of overlapping reconcile()
\* calls it comes from.  A call that is overtaken at an await may set the map back to
\* what it wanted itself (nothing serialises the calls), but what had been replaced
\* before the burst began never returns, and a call without others leaves what it wanted.
NothingOlderThanBurst == devices # None => runtimes[devices].key \in asked

\* A device in the map gets a worker, and gets it back when it exits: it is never for
\* ever there without one, unless a spawn was rejected.
DeviceServed ==
    \A r \in Ids : []<>(devices = r => runtimes[r].failed \/ runtimes[r].worker = "running")

\* While its worker runs, a channel without ffmpeg gets one.
ChannelServed ==
    \A r \in Ids, c \in Chans :
        []<>(devices = r /\ runtimes[r].worker = "running" => runtimes[r].ffmpeg[c])

\* "persistent live/alarm uses one grouped process per DVR" (nativeSdk/client.ts):
\* of its workers one at most runs and has not been told to stop.
OneGroupedWorker == Cardinality({r \in Ids : runtimes[r].worker = "running"}) <= 1
=============================================================================
