----------------------------- MODULE ArchivePool -----------------------------
(***************************************************************************)
(* The grouped-playback command pool of one DVR: the module state of       *)
(* src/nativeSdk/deviceRuntime.ts as the prebuild patches leave it (the    *)
(* text of scripts/patch-native-archive-worker-pool.py over the base       *)
(* file), and the playback map and command loop of the archive worker      *)
(* processes of native-sdk/hik_sdk_device_worker.cpp it talks to over      *)
(* stdin and stderr.                                                       *)
(*                                                                         *)
(* All state of deviceRuntime.ts is keyed by device id and no operation    *)
(* touches two devices, so one device is modelled.  Node runs a callback   *)
(* to completion and then drains its microtask queue before the next       *)
(* timer, exit event or stderr line: `continuations' is that queue, and    *)
(* the events wait for it to be empty.                                     *)
(*                                                                         *)
(* A promise chain of groupedPlaybackCommandQueues is kept with the        *)
(* command it is waiting for: the record of an in-flight command carries   *)
(* the commands chained behind it (`rest') and says whether the queue map  *)
(* still points at the chain (`linked').                                   *)
(***************************************************************************)
EXTENDS Integers, Sequences, FiniteSets

CONSTANTS
    Sessions,       \* playback session ids
    Reusable,       \* those whose id a caller may use again at any time (the
                    \* hashed ids of archiveSessions.ts); the others stand for
                    \* the fresh ids of mediaRoutes.ts and archive.ts
    WorkerCount,    \* config.deviceArchiveWorkerCount
    MaxPerDvr,      \* config.deviceArchiveMaxActivePerDvr
    MaxPerWorker,   \* config.deviceArchiveMaxActivePerWorker, which is also
                    \* HIK_SDK_MAX_PLAYBACKS of every archive worker
    MaxOverlap,     \* bound: concurrent calls a caller makes on one reusable id
    MaxLines,       \* bound: no new call while a worker has this many unread lines
    AllowReplace    \* may a runtime be registered over a registered one

ASSUME PoolAssumption ==
    /\ IsFiniteSet(Sessions)
    /\ Reusable \subseteq Sessions
    /\ WorkerCount \in Nat \ {0}
    /\ MaxPerDvr \in Nat
    /\ MaxPerWorker \in Nat
    /\ MaxOverlap \in Nat \ {0}
    /\ MaxLines \in Nat \ {0}
    /\ AllowReplace \in BOOLEAN

Workers  == 0 .. WorkerCount - 1
NoWorker == -1
Ops      == {"start", "stop"}
Cmds     == [s : Sessions, op : Ops]    \* PLAYBACK and STOP_PLAYBACK lines
Keys     == Cmds                        \* ackKey(device, session, operation)
Replies  == [s : Sessions, op : Ops, ok : BOOLEAN]   \* PLAYBACK_STATUS lines

VARIABLES
    factory,        \* runtimes and archiveRuntimeFactories hold the device
    archiveRuntimes,\* per worker: no entry, or the state of the child in it
    restartTimers,  \* archiveRestartTimers
    initialTimers,  \* the staggered start timers of the current registration
    assignments,    \* groupedPlaybackAssignments
    pendingAcks,    \* pendingAcks, with the chain behind each command
    continuations,  \* chains whose next command is a due microtask
    calls,          \* per session: calls whose promise is not settled
    held,           \* sessions whose caller was told the playback started
    playbacks,      \* per worker process: its map of open playbacks
    stdin,          \* per worker process: command lines not yet read
    lineBuffer,     \* per worker process: lines read into the stdio buffer of stdin
    stderr          \* per worker process: status lines Node has not read

nodeVars == <<factory, archiveRuntimes, restartTimers, initialTimers,
              assignments, pendingAcks, continuations, calls, held>>
procVars == <<playbacks, stdin, lineBuffer, stderr>>
vars     == <<nodeVars, procVars>>

\* "none"  : no entry in the map
\* "ready" : the child runs
\* "dying" : the child is gone, Node has not noticed
\* "doomed": Node knows the child is unusable, its exit event is not in yet
ChildStates == {"none", "ready", "dying", "doomed"}

\* A waiter's `at' says where its command went: into the stdin of a child that
\* ran, of one that was gone, or of a child whose entry was removed since.
Chains  == [wk : Workers, rest : Seq(Cmds), linked : BOOLEAN]
DueChains == {c \in Chains : c.rest # <<>>}
Waiters == [at : {"sent", "lost", "removed"}, wk : Workers,
            rest : Seq(Cmds), linked : BOOLEAN]
Idle    == [at |-> "idle", wk |-> NoWorker, rest |-> <<>>, linked |-> FALSE]

Waiting == {k \in Keys : pendingAcks[k].at # "idle"}

\* archiveRuntime(): the entry passes its exitCode, killed and writable tests
Usable(w) == archiveRuntimes[w] \in {"ready", "dying"}

-----------------------------------------------------------------------------
(* The pieces of state several operations change together.                 *)

\* releaseGroupedPlaybackAssignment
Release(s) == assignments' = [assignments EXCEPT ![s] = NoWorker]

Orders(K) == {q \in [1 .. Cardinality(K) -> K] :
                 \A i, j \in DOMAIN q : q[i] = q[j] => i = j}

\* Mutant: the commands chained behind a settled one are dropped with it.
SettleAcksDropsChain(K, W) ==
    /\ pendingAcks' =
         [k \in Keys |->
            IF k \in K THEN Idle
            ELSE IF pendingAcks[k].wk \in W
                 THEN [pendingAcks[k] EXCEPT !.at = "removed", !.linked = FALSE]
                 ELSE pendingAcks[k]]
    /\ UNCHANGED continuations
    /\ calls' = [s \in Sessions |-> calls[s] - Cardinality({k \in K : k.s = s})]

\* The waiters K are settled: their promises resolve or reject, and the chains
\* behind them are due.  W are workers whose map entry was deleted, and with it
\* the entry of groupedPlaybackCommandQueues.
SettleAcks(K, W) ==
    /\ pendingAcks' =
         [k \in Keys |->
            IF k \in K THEN Idle
            ELSE IF pendingAcks[k].wk \in W
                 THEN [pendingAcks[k] EXCEPT !.at = "removed", !.linked = FALSE]
                 ELSE pendingAcks[k]]
    /\ \E q \in Orders({k \in K : pendingAcks[k].rest # <<>>}) :
         LET due == [i \in DOMAIN q |->
                       [wk     |-> pendingAcks[q[i]].wk,
                        rest   |-> pendingAcks[q[i]].rest,
                        linked |-> pendingAcks[q[i]].linked]]
         IN continuations' =
              [i \in 1 .. Len(continuations \o due) |->
                 LET c == (continuations \o due)[i]
                 IN [c EXCEPT !.linked = @ /\ c.wk \notin W]]
    /\ calls' = [s \in Sessions |-> calls[s] - Cardinality({k \in K : k.s = s})]

\* A process that has just been spawned (or is gone): nothing open, nothing unread.
BlankProcesses(W) ==
    /\ playbacks'  = [w \in Workers |-> IF w \in W THEN {} ELSE playbacks[w]]
    /\ stdin'      = [w \in Workers |-> IF w \in W THEN <<>> ELSE stdin[w]]
    /\ lineBuffer' = [w \in Workers |-> IF w \in W THEN <<>> ELSE lineBuffer[w]]
    /\ stderr'     = [w \in Workers |-> IF w \in W THEN <<>> ELSE stderr[w]]

\* The process of w dies: what it wrote to stderr can still be read.
ProcessDies(w) ==
    /\ playbacks'  = [playbacks EXCEPT ![w] = {}]
    /\ stdin'      = [stdin EXCEPT ![w] = <<>>]
    /\ lineBuffer' = [lineBuffer EXCEPT ![w] = <<>>]

\* child.stdin.write(): the line reaches a child that runs and no other.
WriteLine(w, cmd) ==
    stdin' = IF archiveRuntimes[w] = "ready"
             THEN [stdin EXCEPT ![w] = Append(@, cmd)] ELSE stdin

-----------------------------------------------------------------------------
(* Registration and the life of the archive worker processes.              *)

Init ==
    /\ factory = FALSE
    /\ archiveRuntimes = [w \in Workers |-> "none"]
    /\ restartTimers = [w \in Workers |-> FALSE]
    /\ initialTimers = [w \in Workers |-> FALSE]
    /\ assignments = [s \in Sessions |-> NoWorker]
    /\ pendingAcks = [k \in Keys |-> Idle]
    /\ continuations = <<>>
    /\ calls = [s \in Sessions |-> 0]
    /\ held = {}
    /\ playbacks = [w \in Workers |-> {}]
    /\ stdin = [w \in Workers |-> <<>>]
    /\ lineBuffer = [w \in Workers |-> <<>>]
    /\ stderr = [w \in Workers |-> <<>>]

\* Mutant: clearArchivePool leaves the restart timers set.
ClearArchivePoolKeepsTimers ==
    /\ assignments' = [s \in Sessions |-> NoWorker]
    /\ SettleAcks(Waiting, {w \in Workers : archiveRuntimes[w] # "none"})
    /\ BlankProcesses(Workers)
    /\ UNCHANGED <<restartTimers, held>>

\* clearArchivePool(kill) and rejectPendingForDevice: every child is forgotten
\* (and sent SIGTERM), every slot released, every waiting command rejected.
ClearArchivePool ==
    /\ assignments' = [s \in Sessions |-> NoWorker]
    /\ SettleAcks(Waiting, {w \in Workers : archiveRuntimes[w] # "none"})
    /\ restartTimers' = [w \in Workers |-> FALSE]
    /\ BlankProcesses(Workers)
    /\ UNCHANGED held

\* Worker 0 is spawned at once, the others by timers 300 ms apart; a factory that
\* throws for worker 0 ends the call there, with no worker and no timer.
RegisterNativeDeviceRuntime ==
    /\ AllowReplace \/ ~factory
    /\ continuations = <<>>
    /\ ClearArchivePool
    /\ factory' = TRUE
    /\ \E spawned \in BOOLEAN :
         /\ archiveRuntimes' = [w \in Workers |-> IF w = 0 /\ spawned THEN "ready" ELSE "none"]
         /\ initialTimers' = [w \in Workers |-> w # 0 /\ spawned]

\* The timers of the old registration find another factory and do nothing.
UnregisterNativeDeviceRuntime ==
    /\ factory
    /\ continuations = <<>>
    /\ ClearArchivePool
    /\ factory' = FALSE
    /\ archiveRuntimes' = [w \in Workers |-> "none"]
    /\ initialTimers' = [w \in Workers |-> FALSE]

\* A usable child is kept; without a factory nothing is started.
StartArchiveRuntime(w) ==
    IF Usable(w) \/ ~factory
    THEN UNCHANGED <<archiveRuntimes, procVars>>
    ELSE /\ archiveRuntimes' = [archiveRuntimes EXCEPT ![w] = "ready"]
         /\ BlankProcesses({w})

InitialStart(w) ==
    /\ initialTimers[w]
    /\ continuations = <<>>
    /\ initialTimers' = [initialTimers EXCEPT ![w] = FALSE]
    /\ StartArchiveRuntime(w)
    /\ UNCHANGED <<factory, restartTimers, assignments, pendingAcks,
                   continuations, calls, held>>

Restart(w) ==
    /\ restartTimers[w]
    /\ continuations = <<>>
    /\ restartTimers' = [restartTimers EXCEPT ![w] = FALSE]
    /\ StartArchiveRuntime(w)
    /\ UNCHANGED <<factory, initialTimers, assignments, pendingAcks,
                   continuations, calls, held>>

\* The factory throws in either timer (the SDK files are not all there): the
\* error is logged, and nothing tries this index again.
StartFails(w) ==
    /\ initialTimers[w] \/ restartTimers[w]
    /\ continuations = <<>>
    /\ initialTimers' = [initialTimers EXCEPT ![w] = FALSE]
    /\ restartTimers' = [restartTimers EXCEPT ![w] = FALSE]
    /\ UNCHANGED <<factory, archiveRuntimes, assignments, pendingAcks,
                   continuations, calls, held, procVars>>

WorkerCrashes(w) ==
    /\ archiveRuntimes[w] = "ready"
    /\ archiveRuntimes' = [archiveRuntimes EXCEPT ![w] = "dying"]
    /\ ProcessDies(w)
    /\ UNCHANGED <<factory, restartTimers, initialTimers, assignments,
                   pendingAcks, continuations, calls, held, stderr>>

\* The child.once('exit') handler of startArchiveRuntime.  A waiter is found by
\* the worker its session is assigned to now, not by the one it was sent to.
ArchiveWorkerExit(w) ==
    /\ archiveRuntimes[w] \in {"dying", "doomed"}
    /\ continuations = <<>>
    /\ archiveRuntimes' = [archiveRuntimes EXCEPT ![w] = "none"]
    /\ SettleAcks({k \in Waiting : assignments[k.s] = w}, {w})
    /\ assignments' = [s \in Sessions |->
                         IF assignments[s] = w THEN NoWorker ELSE assignments[s]]
    /\ restartTimers' = [restartTimers EXCEPT ![w] = @ \/ factory]
    /\ BlankProcesses({w})
    /\ UNCHANGED <<factory, initialTimers, held>>

-----------------------------------------------------------------------------
(* Calls: startGroupedPlayback and stopGroupedPlayback.                    *)

Load(w)    == Cardinality({s \in Sessions : assignments[s] = w})
ActiveSessions == {s \in Sessions : assignments[s] # NoWorker}

\* Mutant: a worker at its limit is still a candidate.
CandidatesOneTooMany == {w \in Workers : Usable(w) /\ Load(w) <= MaxPerWorker}

Candidates == {w \in Workers : Usable(w) /\ Load(w) < MaxPerWorker}

\* The least loaded candidate, the lowest index among equals.
BestCandidate(w) ==
    /\ w \in Candidates
    /\ \A v \in Candidates : Load(w) < Load(v) \/ (Load(w) = Load(v) /\ w <= v)

\* Mutant: a session whose worker is not usable is moved to another.
SelectArchiveWorkerMoves(s, w) ==
    \/ assignments[s] = w /\ Usable(w)
    \/ /\ \A v \in Workers : assignments[s] = v => ~Usable(v)
       /\ Cardinality(ActiveSessions) < MaxPerDvr
       /\ BestCandidate(w)

\* Without a candidate, or with the DVR full, the call throws and changes nothing.
SelectArchiveWorker(s, w) ==
    \/ assignments[s] = w
    \/ /\ assignments[s] = NoWorker
       /\ Cardinality(ActiveSessions) < MaxPerDvr
       /\ BestCandidate(w)

\* Mutant: every command begins a chain of its own.
QueueGroupedPlaybackCommandUnchained(w, cmd) ==
    /\ continuations' = Append(continuations, [wk |-> w, rest |-> <<cmd>>, linked |-> TRUE])
    /\ UNCHANGED pendingAcks

\* Append to the chain the queue map holds for w, or begin one.
QueueGroupedPlaybackCommand(w, cmd) ==
    LET waiters == {k \in Keys : pendingAcks[k].linked /\ pendingAcks[k].wk = w}
        due     == {i \in DOMAIN continuations :
                       continuations[i].linked /\ continuations[i].wk = w}
    IN /\ pendingAcks' = [k \in Keys |->
              IF k \in waiters THEN [pendingAcks[k] EXCEPT !.rest = Append(@, cmd)]
                               ELSE pendingAcks[k]]
       /\ continuations' =
              IF waiters # {} THEN continuations
              ELSE IF due # {}
              THEN [i \in DOMAIN continuations |->
                      IF i \in due
                      THEN [continuations[i] EXCEPT !.rest = Append(@, cmd)]
                      ELSE continuations[i]]
              ELSE Append(continuations, [wk |-> w, rest |-> <<cmd>>, linked |-> TRUE])

\* Nothing in the pool or on a worker mentions s: as good as a fresh id.
Unused(s) ==
    /\ assignments[s] = NoWorker /\ calls[s] = 0 /\ s \notin held
    /\ \A w \in Workers :
         /\ s \notin playbacks[w]
         /\ \A i \in DOMAIN stdin[w] : stdin[w][i].s # s
         /\ \A i \in DOMAIN lineBuffer[w] : lineBuffer[w][i].s # s
         /\ \A i \in DOMAIN stderr[w] : stderr[w][i].s # s

\* Bound: callers hold back while a worker has MaxLines unread lines.
RoomForLines ==
    \A w \in Workers :
        Len(stdin[w]) + Len(lineBuffer[w]) + Len(stderr[w]) < MaxLines

StartGroupedPlayback(s) ==
    /\ RoomForLines
    /\ IF s \in Reusable THEN calls[s] < MaxOverlap ELSE Unused(s)
    /\ \E w \in Workers :
         /\ SelectArchiveWorker(s, w)
         /\ assignments' = [assignments EXCEPT ![s] = w]
         /\ QueueGroupedPlaybackCommand(w, [s |-> s, op |-> "start"])
    /\ calls' = [calls EXCEPT ![s] = @ + 1]
    /\ UNCHANGED <<factory, archiveRuntimes, restartTimers, initialTimers, held,
                   procVars>>

\* Callers of a fresh id stop it once, after its start has settled.
StopGroupedPlayback(s) ==
    /\ RoomForLines
    /\ calls[s] < IF s \in Reusable THEN MaxOverlap ELSE 1
    /\ assignments[s] # NoWorker
    /\ QueueGroupedPlaybackCommand(assignments[s], [s |-> s, op |-> "stop"])
    /\ calls' = [calls EXCEPT ![s] = @ + 1]
    /\ held' = held \ {s}
    /\ UNCHANGED <<factory, archiveRuntimes, restartTimers, initialTimers,
                   assignments, procVars>>

\* A session that has lost its slot: the call resolves and sends nothing.
StopUnassigned(s) ==
    /\ s \in held
    /\ assignments[s] = NoWorker
    /\ held' = held \ {s}
    /\ UNCHANGED <<factory, archiveRuntimes, restartTimers, initialTimers,
                   assignments, pendingAcks, continuations, calls, procVars>>

-----------------------------------------------------------------------------
(* Commands: writeCommandWithAck, and the ways a command settles.          *)

NextChain == Head(continuations)
NextCmd   == Head(NextChain.rest)
ChainAfter(chain) == [chain EXCEPT !.rest = Tail(@)]

\* Mutant: a command that waits under the same key is overwritten, not rejected.
WriteCommandWithAckOverwrites ==
    /\ continuations # <<>>
    /\ Usable(NextChain.wk)
    /\ pendingAcks' = [pendingAcks EXCEPT ![NextCmd] =
           [at     |-> IF archiveRuntimes[NextChain.wk] = "ready" THEN "sent" ELSE "lost",
            wk     |-> NextChain.wk,
            rest   |-> Tail(NextChain.rest),
            linked |-> NextChain.linked]]
    /\ continuations' = Tail(continuations)
    /\ WriteLine(NextChain.wk, NextCmd)
    /\ UNCHANGED <<factory, archiveRuntimes, restartTimers, initialTimers,
                   assignments, calls, held, playbacks, lineBuffer, stderr>>

\* The next command of the first due chain finds its worker usable: it is
\* written, and a command that waits under the same key is rejected, which
\* releases its session and makes its own chain due.
WriteCommandWithAck ==
    /\ continuations # <<>>
    /\ Usable(NextChain.wk)
    /\ pendingAcks' = [pendingAcks EXCEPT ![NextCmd] =
           [at     |-> IF archiveRuntimes[NextChain.wk] = "ready" THEN "sent" ELSE "lost",
            wk     |-> NextChain.wk,
            rest   |-> Tail(NextChain.rest),
            linked |-> NextChain.linked]]
    /\ LET old == pendingAcks[NextCmd]
       IN /\ continuations' =
               IF old.rest = <<>> THEN Tail(continuations)
               ELSE Append(Tail(continuations),
                           [wk |-> old.wk, rest |-> old.rest, linked |-> old.linked])
          /\ IF old.at = "idle"
             THEN UNCHANGED <<assignments, calls>>
             ELSE /\ Release(NextCmd.s)
                  /\ calls' = [calls EXCEPT ![NextCmd.s] = @ - 1]
    /\ WriteLine(NextChain.wk, NextCmd)
    /\ UNCHANGED <<factory, archiveRuntimes, restartTimers, initialTimers, held,
                   playbacks, lineBuffer, stderr>>

\* Mutant: the chain of a rejected command stays although nothing is left of it.
CommandRejectedKeepsChain ==
    /\ continuations # <<>>
    /\ ~Usable(NextChain.wk)
    /\ continuations' = <<ChainAfter(NextChain)>> \o Tail(continuations)
    /\ Release(NextCmd.s)
    /\ calls' = [calls EXCEPT ![NextCmd.s] = @ - 1]
    /\ UNCHANGED <<factory, archiveRuntimes, restartTimers, initialTimers, held,
                   pendingAcks, procVars>>

\* It finds no usable worker: archiveRuntime() throws, the command is rejected,
\* and both its kinds release the session.
CommandRejected ==
    /\ continuations # <<>>
    /\ ~Usable(NextChain.wk)
    /\ continuations' =
           IF Tail(NextChain.rest) = <<>> THEN Tail(continuations)
           ELSE <<ChainAfter(NextChain)>> \o Tail(continuations)
    /\ Release(NextCmd.s)
    /\ calls' = [calls EXCEPT ![NextCmd.s] = @ - 1]
    /\ UNCHANGED <<factory, archiveRuntimes, restartTimers, initialTimers, held,
                   pendingAcks, procVars>>

\* The promise of k settles.  A failed start and every stop release the slot.
Settle(k, ok) ==
    /\ SettleAcks({k}, {})
    /\ IF k.op = "start" /\ ok
       THEN /\ held' = held \cup {k.s}
            /\ UNCHANGED assignments
       ELSE /\ Release(k.s)
            /\ UNCHANGED held

\* One PLAYBACK_STATUS line of any worker: matched by session and operation only.
HandleStatusLine(w) ==
    /\ archiveRuntimes[w] # "none"
    /\ continuations = <<>>
    /\ stderr[w] # <<>>
    /\ stderr' = [stderr EXCEPT ![w] = Tail(@)]
    /\ LET reply == Head(stderr[w])
           k     == [s |-> reply.s, op |-> reply.op]
       IN IF k \in Waiting
          THEN Settle(k, reply.ok)
          ELSE UNCHANGED <<assignments, pendingAcks, continuations, calls, held>>
    /\ UNCHANGED <<factory, archiveRuntimes, restartTimers, initialTimers,
                   playbacks, stdin, lineBuffer>>

\* Mutant: no STOP_PLAYBACK is written behind a start that timed out.
StartAckTimeoutNoCleanup(k) ==
    /\ k \in Waiting /\ k.op = "start"
    /\ continuations = <<>>
    /\ Settle(k, FALSE)
    /\ UNCHANGED <<factory, archiveRuntimes, restartTimers, initialTimers,
                   playbacks, stdin, lineBuffer, stderr>>

\* The ten-second timer.  A late start has a STOP written behind it; a late stop
\* means a wedged worker, which is killed.
StartAckTimeout(k) ==
    /\ k \in Waiting /\ k.op = "start"
    /\ continuations = <<>>
    /\ Settle(k, FALSE)
    /\ IF pendingAcks[k].at = "removed"
       THEN UNCHANGED stdin
       ELSE WriteLine(pendingAcks[k].wk, [s |-> k.s, op |-> "stop"])
    /\ UNCHANGED <<factory, archiveRuntimes, restartTimers, initialTimers,
                   playbacks, lineBuffer, stderr>>

StopAckTimeout(k) ==
    /\ k \in Waiting /\ k.op = "stop"
    /\ continuations = <<>>
    /\ Settle(k, FALSE)
    /\ IF pendingAcks[k].at = "removed"
       THEN UNCHANGED <<archiveRuntimes, playbacks, stdin, lineBuffer>>
       ELSE /\ archiveRuntimes' = [archiveRuntimes EXCEPT ![pendingAcks[k].wk] = "doomed"]
            /\ ProcessDies(pendingAcks[k].wk)
    /\ UNCHANGED <<factory, restartTimers, initialTimers, stderr>>

\* The write callback reports EPIPE; the stream is not writable any more.
WriteError(k) ==
    /\ k \in Waiting /\ pendingAcks[k].at = "lost"
    /\ continuations = <<>>
    /\ Settle(k, FALSE)
    /\ archiveRuntimes' = [archiveRuntimes EXCEPT ![pendingAcks[k].wk] = "doomed"]
    /\ UNCHANGED <<factory, restartTimers, initialTimers, procVars>>

-----------------------------------------------------------------------------
(* The command loop of hik_sdk_device_worker.cpp.                          *)

\* poll() looks at the descriptor, std::getline() at the stdio buffer first:
\* a line read along with an earlier one is handled only when more input comes.
InputLines(w) == lineBuffer[w] \o stdin[w]

ReadLine(w) ==
    /\ stdin[w] # <<>>
    /\ IF lineBuffer[w] # <<>>
       THEN /\ lineBuffer' = [lineBuffer EXCEPT ![w] = Tail(@)]
            /\ UNCHANGED stdin
       ELSE /\ lineBuffer' = [lineBuffer EXCEPT ![w] = Tail(stdin[w])]
            /\ stdin' = [stdin EXCEPT ![w] = <<>>]

EmitPlaybackStatus(w, cmd, ok) ==
    stderr' = [stderr EXCEPT ![w] = Append(@, [s |-> cmd.s, op |-> cmd.op, ok |-> ok])]

\* The capacity check of start_playback.
BelowCapacity(others) == Cardinality(others) < MaxPerWorker

\* Mutant: a start the SDK refused is acknowledged as started.
StartPlaybackAlwaysOk(w, cmd) ==
    LET others == playbacks[w] \ {cmd.s}
    IN /\ \/ /\ BelowCapacity(others)
             /\ playbacks' = [playbacks EXCEPT ![w] = others \cup {cmd.s}]
          \/ playbacks' = [playbacks EXCEPT ![w] = others]
       /\ EmitPlaybackStatus(w, cmd, TRUE)

\* start_playback: an open playback of the same session is closed first; the
\* SDK may refuse the new one at any of its calls.
StartPlayback(w, cmd) ==
    LET others == playbacks[w] \ {cmd.s}
    IN \/ /\ BelowCapacity(others)
          /\ playbacks' = [playbacks EXCEPT ![w] = others \cup {cmd.s}]
          /\ EmitPlaybackStatus(w, cmd, TRUE)
       \/ /\ playbacks' = [playbacks EXCEPT ![w] = others]
          /\ EmitPlaybackStatus(w, cmd, FALSE)

\* stop_playback: an unknown session is acknowledged too.
StopPlayback(w, cmd) ==
    /\ playbacks' = [playbacks EXCEPT ![w] = @ \ {cmd.s}]
    /\ EmitPlaybackStatus(w, cmd, TRUE)

WorkerCommand(w) ==
    /\ archiveRuntimes[w] = "ready"
    /\ ReadLine(w)
    /\ LET cmd == Head(InputLines(w))
       IN IF cmd.op = "start" THEN StartPlayback(w, cmd) ELSE StopPlayback(w, cmd)
    /\ UNCHANGED nodeVars

-----------------------------------------------------------------------------

Next ==
    \/ RegisterNativeDeviceRuntime
    \/ UnregisterNativeDeviceRuntime
    \/ \E w \in Workers :
         \/ InitialStart(w)
         \/ Restart(w)
         \/ StartFails(w)
         \/ WorkerCrashes(w)
         \/ ArchiveWorkerExit(w)
         \/ HandleStatusLine(w)
         \/ WorkerCommand(w)
    \/ \E s \in Sessions :
         \/ StartGroupedPlayback(s)
         \/ StopGroupedPlayback(s)
         \/ StopUnassigned(s)
    \/ WriteCommandWithAck
    \/ CommandRejected
    \/ \E k \in Keys :
         \/ StartAckTimeout(k)
         \/ StopAckTimeout(k)
         \/ WriteError(k)

Spec == Init /\ [][Next]_vars

(***************************************************************************)
(* Microtasks run.  A timer fires once due, whatever else the event loop   *)
(* has to do meanwhile, hence strong fairness.  Nothing makes a caller     *)
(* call, a worker crash, or a registration happen.                         *)
(***************************************************************************)
MicrotasksRun ==
    /\ WF_vars(WriteCommandWithAck)
    /\ WF_vars(CommandRejected)
AckTimersFire == \A k \in Keys : SF_vars(StartAckTimeout(k) \/ StopAckTimeout(k))

\* Workers may hang in an SDK call for ever, and be late to die.
Fairness == MicrotasksRun /\ AckTimersFire
FairSpec == Spec /\ Fairness

\* The SDK calls return, so that a worker goes on to its next line; the other
\* timers fire, and exit events and stderr lines are delivered.
WorkersRespond ==
    \A w \in Workers :
        /\ WF_vars(WorkerCommand(w))
        /\ SF_vars(InitialStart(w))
        /\ SF_vars(Restart(w))
        /\ SF_vars(ArchiveWorkerExit(w))
        /\ SF_vars(HandleStatusLine(w))

FairWorkersSpec == FairSpec /\ WorkersRespond

-----------------------------------------------------------------------------
(* Properties.                                                             *)

\* Every variable has its type; in particular every worker an ack waits on, or a
\* chain is queued for, is a worker index.
TypeOK ==
    /\ factory \in BOOLEAN
    /\ archiveRuntimes \in [Workers -> ChildStates]
    /\ restartTimers \in [Workers -> BOOLEAN]
    /\ initialTimers \in [Workers -> BOOLEAN]
    /\ assignments \in [Sessions -> Workers \cup {NoWorker}]
    /\ pendingAcks \in [Keys -> Waiters \cup {Idle}]
    /\ continuations \in Seq(DueChains)
    /\ calls \in [Sessions -> Int]
    /\ held \in SUBSET Sessions
    /\ playbacks \in [Workers -> SUBSET Sessions]
    /\ stdin \in [Workers -> Seq(Cmds)]
    /\ lineBuffer \in [Workers -> Seq(Cmds)]
    /\ stderr \in [Workers -> Seq(Replies)]

\* The pool is a slot pool: no worker and no DVR over its limit, a session's
\* slot never moves between workers (selectArchiveWorker and every release).
Pool == INSTANCE SlotPool WITH assigned <- assignments
PoolSpec == Pool!Spec
Capacity == Pool!Capacity

\* A timer that will start worker w means there is no entry for w: a start never
\* meets a child that is there, and never overlooks its sessions or a command in
\* its hands (startArchiveRuntime calls clearArchiveRuntime, which releases none).
TimersFindNoWorker ==
    \A w \in Workers :
        restartTimers[w] \/ initialTimers[w] =>
            /\ archiveRuntimes[w] = "none"
            /\ ~(restartTimers[w] /\ initialTimers[w])
            /\ \A s \in Sessions : assignments[s] # w
            /\ \A k \in Waiting : pendingAcks[k].wk = w => pendingAcks[k].at = "removed"

\* "START/STOP command queues are isolated per archive worker": a worker that
\* Node still uses is never sent a command while Node waits for the answer to
\* another.  (A start that has timed out is not waited for any more, though the
\* worker may still be at it.)
OneCommandInFlight ==
    \A w \in Workers :
        LET inFlight == {k \in Waiting : /\ pendingAcks[k].wk = w
                                         /\ pendingAcks[k].at # "removed"}
            due      == {i \in DOMAIN continuations : continuations[i].wk = w}
        IN Usable(w) => Cardinality(inFlight) + Cardinality(due) <= 1

\* No promise of a caller is forgotten or settled twice: the calls a session waits
\* for are exactly its commands in the chains (supersession, exits, replacement).
QueuedBy(s) ==
    UNION {{k} \X {i \in 0 .. Len(pendingAcks[k].rest) :
                      IF i = 0 THEN k.s = s ELSE pendingAcks[k].rest[i].s = s}
             : k \in Waiting}
DueBy(s) ==
    UNION {{i} \X {j \in DOMAIN continuations[i].rest : continuations[i].rest[j].s = s}
             : i \in DOMAIN continuations}
CallsAccounted ==
    \A s \in Sessions : calls[s] = Cardinality(QueuedBy(s)) + Cardinality(DueBy(s))

\* A playback a worker has open is either in the assignment map, and so counted
\* and stoppable, or has its STOP_PLAYBACK among the worker's unread lines.
NoLeakedPlayback ==
    \A w \in Workers : \A s \in playbacks[w] :
        \/ assignments[s] = w
        \/ \E i \in DOMAIN InputLines(w) : InputLines(w)[i] = [s |-> s, op |-> "stop"]

\* When a worker gets to a PLAYBACK line it has room: the count the pool keeps is
\* never behind the count the worker refuses by (stage=capacity).
RoomForStart ==
    \A w \in Workers :
        /\ archiveRuntimes[w] = "ready"
        /\ InputLines(w) # <<>>
        /\ Head(InputLines(w)).op = "start"
        => Cardinality(playbacks[w] \ {Head(InputLines(w)).s}) < MaxPerWorker

\* A caller that was told its playback started has it open on the worker it is
\* assigned to, for as long as that worker lives.
HeldIsPlaying ==
    \A s \in held :
        LET w == assignments[s]
        IN w # NoWorker /\ archiveRuntimes[w] = "ready" => s \in playbacks[w]

\* Every call settles: no queue, lost line or dead worker keeps a caller waiting
\* for ever (the timers of writeCommandWithAck and the queue behind them), so that a
\* session is without an open call again and again.
EveryCallSettles == \A s \in Sessions : []<>(calls[s] = 0)

\* A late native start is cleaned up: a playback its session holds no slot for
\* is closed, or its worker goes.
LateStartCleanedUp ==
    \A s \in Sessions, w \in Workers :
        s \in playbacks[w] /\ assignments[s] # w ~> s \notin playbacks[w] \/ assignments[s] = w
=============================================================================
