----------------------------- MODULE MCLiveness -----------------------------
(***************************************************************************)
(* What must eventually happen in the pool, the recorder, the sessions and *)
(* the node service, and the invariants of the service: one of the four    *)
(* runs, on an instance of its own, while the others rest in an initial    *)
(* state.                                                                  *)
(***************************************************************************)
EXTENDS NodeService

CONSTANTS
    Sessions, Reusable, WorkerCount, MaxPerDvr, MaxPerWorker, MaxOverlap, MaxLines,
    AllowReplace,
    Channels, DeviceKeys, Reconciles, Runtimes, SpawnsFail,
    Windows, Near, Viewers, NoViewer, ArchiveRequests, MaxActive, Faults,
    s1, s2, p1, k1, k2, w1, w2, v1, q1, q2, d1, c1, c2

VARIABLES
    part,
    factory, archiveRuntimes, restartTimers, initialTimers, assignments, pendingAcks,
    continuations, poolCalls, held, playbacks, stdin, lineBuffer, stderr,
    devices, runtimes, spawns, ffmpegSpawns, reconciles, registered, asked,
    sessions, objects, requests, lockQueue, stops, sweep, slots, commands, playing, media

poolVars == <<factory, archiveRuntimes, restartTimers, initialTimers, assignments,
              pendingAcks, continuations, poolCalls, held, playbacks, stdin, lineBuffer, stderr>>
recorderVars == <<devices, runtimes, spawns, ffmpegSpawns, reconciles, registered, asked>>
archiveVars == <<sessions, objects, requests, lockQueue, stops, sweep, slots, commands,
                 playing, media>>
allVars == <<part, poolVars, recorderVars, archiveVars, vars>>

Pool == INSTANCE ArchivePool WITH calls <- poolCalls
Recorder == INSTANCE GroupedRecorder
Archive == INSTANCE ArchiveSessions WITH Requests <- ArchiveRequests

\* The service has one device, and one call at a time, of the control API or the timer,
\* beside the agent.
OneRank == [d \in {d1} |-> 0]

ASSUME ServiceInstance == ServiceAssumption

SystemInit ==
    /\ part \in {"pool", "recorder", "sessions", "service"}
    /\ Pool!Init /\ Recorder!Init /\ Archive!Init /\ Init
    /\ part # "service" => /\ file = [d \in {d1} |-> Nil]
                           /\ assigned = file

PoolMoves == part = "pool" /\ UNCHANGED <<part, recorderVars, archiveVars, vars>>
RecorderMoves == part = "recorder" /\ UNCHANGED <<part, poolVars, archiveVars, vars>>
SessionsMove == part = "sessions" /\ UNCHANGED <<part, poolVars, recorderVars, vars>>
ServiceMoves == part = "service" /\ UNCHANGED <<part, poolVars, recorderVars, archiveVars>>

SystemNext ==
    \/ PoolMoves /\ Pool!Next
    \/ RecorderMoves /\ Recorder!Next
    \/ SessionsMove /\ Archive!Next
    \/ ServiceMoves /\ Next

\* Of the timers of the pool that are set again and again, some fire (weaker than
\* Pool!AckTimersFire); so does the deadline of waitReady(), and the master answers.
TimersFire ==
    SF_allVars(\/ /\ PoolMoves
                  /\ \E k \in Pool!Keys : Pool!StartAckTimeout(k) \/ Pool!StopAckTimeout(k)
               \/ SessionsMove /\ Archive!Deadline
               \/ ServiceMoves /\ Answers)

\* The rest of Fairness; in the other parts its agent rests.
ServiceSettles ==
    /\ \A p \in Callers : WF_vars(part = "service" /\ Awaited(p))
    /\ WF_vars(part = "service" /\ LoadConfig)

SystemSpec ==
    /\ SystemInit /\ [][SystemNext]_allVars
    /\ Pool!MicrotasksRun /\ Recorder!Fairness /\ Archive!Settles /\ ServiceSettles
    /\ TimersFire

\* Every start and stop settles, though workers may hang for ever.
EveryCallSettles == Pool!EveryCallSettles

\* A device in the recorder's map gets its worker back.
DeviceServed == Recorder!DeviceServed

\* A channel gets its ffmpeg back.
ChannelServed == Recorder!ChannelServed

\* Every call of getOrCreate and releaseViewer is answered.
CallsEnd == Archive!CallsEnd
=============================================================================
