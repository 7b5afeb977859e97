--------------------------- MODULE ArchiveSessions ---------------------------
(***************************************************************************)
(* The archive sessions of one DVR: NativeSdkArchiveSessionManager of      *)
(* src/nativeSdk/archiveSessions.ts as the prebuild patches leave it, over *)
(* what deviceRuntime.ts does for one session id (ArchivePool has the      *)
(* whole of it).                                                           *)
(*                                                                         *)
(* A session id is the hash of a channel and a time window, so the same id *)
(* is made again when its window is asked for again: `sessions' maps a     *)
(* window to a session object, and the calls under way for an earlier      *)
(* object of the window go on beside the new one.  Async functions are cut *)
(* at their awaits; files and FIFOs are reduced to whether a playlist with *)
(* a segment is there.                                                     *)
(***************************************************************************)
EXTENDS Integers, Sequences, FiniteSets

CONSTANTS
    Windows,    \* session ids: channel and time window
    Near,       \* pairs of windows close enough to share a session
    Viewers,    \* viewer ids, NoViewer included if a request may come without
    NoViewer,
    Requests,   \* the calls of getOrCreate() and releaseViewer(): each is made once, and
                \* the session object it creates goes by its name
    MaxActive,  \* config.deviceArchiveMaxActivePerDvr
    Faults      \* what may fail: see AllFaults

\* "directory": rm or mkdir fails; "start": no worker takes the playback, or it is not
\* acknowledged; "worker": an archive worker exits; "ffmpeg": ffmpeg ends by itself.
AllFaults == {"directory", "start", "worker", "ffmpeg"}

None     == "none"
Cleanup  == "cleanup"       \* the cleanup timer's call
Nobody   == "nobody"        \* nobody awaits a stop

ASSUME SessionsAssumption ==
    /\ IsFiniteSet(Windows) /\ IsFiniteSet(Requests)
    /\ None \notin Windows \cup Requests
    /\ Cleanup \notin Requests /\ Nobody \notin Requests
    /\ Near \subseteq Windows \X Windows
    /\ MaxActive \in Nat \ {0}
    /\ Faults \subseteq AllFaults

Stoppers == Requests \cup {Cleanup}

VARIABLES
    sessions,   \* the session map: window -> object, or None
    objects,    \* the session objects
    requests,   \* where each call is
    lockQueue,  \* deviceQueues: the calls that hold or await the device's queue
    stops,      \* stopRuntime() calls, by who awaits them
    sweep,      \* objects the cleanup under way has still to look at
    slots,      \* windows with an assignment in deviceRuntime.ts
    commands,   \* per window: start and stop calls not settled, in order
    playing,    \* windows whose playback the DVR's worker has open
    media       \* windows whose directory has a playable playlist

vars == <<sessions, objects, requests, lockQueue, stops, sweep,
          slots, commands, playing, media>>
poolVars == <<slots, commands, playing>>

\* A session that is not made yet has status "none".  `age' is the time since
\* lastAccessAt: ARCHIVE_SLOT_IDLE_MS or RETIRED_GRACE_MS, whichever is asked, is "stale",
\* deviceArchiveSessionKeepMs is "expired".  `grace': RETIRED_GRACE_MS has not passed since
\* the session was retired.
SessionStates ==
    [win : Windows \cup {None},
     status : {None, "preparing", "ready", "error", "retired", "cancelled"},
     started : BOOLEAN, ffmpeg : {"none", "running", "killed"},
     viewers : SUBSET (Viewers \ {NoViewer}), age : {"fresh", "stale", "expired"},
     grace : BOOLEAN]

Session(w, v) ==
    [win |-> w, status |-> "preparing", started |-> FALSE, ffmpeg |-> "none",
     viewers |-> {v} \ {NoViewer}, age |-> "fresh", grace |-> FALSE]

Points == {"idle", "done", "lock", "release", "capacity", "dir", "spawn", "starting", "wait",
           "poll", "failing"}

\* `obj' is the session the call is about: itself, if it makes a new one.
RequestStates ==
    [pc : Points, viewer : Viewers \cup {NoViewer}, win : Windows \cup {None}, obj : Requests \cup {None},
     todo : SUBSET Requests]

Idle == [pc |-> "idle", viewer |-> NoViewer, win |-> None, obj |-> None, todo |-> {}]
Done == [Idle EXCEPT !.pc = "done"]

Mapped    == {o \in Requests : \E w \in Windows : sessions[w] = o}
Live(o)   == objects[o].status \in {"preparing", "ready"}
Occupies(o) == objects[o].status = "preparing" \/ objects[o].started
Holds(q)  == lockQueue # <<>> /\ Head(lockQueue) = q
NotStopping(c) == stops[c] = [obj |-> None, at |-> "none"]

-----------------------------------------------------------------------------
(* deviceRuntime.ts for one window.                                        *)

\* stopGroupedPlayback(): without an assignment it resolves and sends nothing.
SendStop(w, by) ==
    commands' = IF w \in slots
                THEN [commands EXCEPT ![w] = Append(@, [op |-> "stop", by |-> by])]
                ELSE commands

\* stopRuntime(o): a playback that started is stopped first; then, at once if there is
\* no answer to await, ffmpeg gets SIGTERM and 250 ms.
AwaitsAck(o) == objects[o].started /\ objects[o].win \in slots

Kill(child) == IF child = "running" THEN "killed" ELSE child

Ended(o, status) ==
    [objects[o] EXCEPT !.status = status, !.started = FALSE,
                       !.ffmpeg = IF AwaitsAck(o) THEN @ ELSE Kill(@)]

\* The stop itself, awaited by c; `objects' changes to Ended() along with it.
BeginStop(c, o) ==
    /\ stops' = [stops EXCEPT ![c] = [obj |-> o, at |-> IF AwaitsAck(o) THEN "ack" ELSE "child"]]
    /\ IF objects[o].started THEN SendStop(objects[o].win, c) ELSE UNCHANGED commands

\* getOrCreate() catches an error of the session it creates.
Fail(q) ==
    /\ objects' = [objects EXCEPT ![q] = Ended(q, "error")]
    /\ requests' = [requests EXCEPT ![q].pc = "failing"]
    /\ BeginStop(q, q)

-----------------------------------------------------------------------------
(* Calls, and what they do in the device's queue.                          *)

Request(q, v, w) ==
    /\ requests[q] = Idle
    /\ requests' = [requests EXCEPT ![q] = [Idle EXCEPT !.pc = "lock", !.viewer = v, !.win = w]]
    /\ lockQueue' = Append(lockQueue, q)
    /\ UNCHANGED <<sessions, objects, stops, sweep, poolVars, media>>

\* The player of v is closed: releaseViewer() is the call without a window.
ReleaseViewer(q, v) ==
    /\ v # NoViewer
    /\ requests[q] = Idle
    /\ requests' = [requests EXCEPT ![q] = [Idle EXCEPT !.pc = "lock", !.viewer = v]]
    /\ lockQueue' = Append(lockQueue, q)
    /\ UNCHANGED <<sessions, objects, stops, sweep, poolVars, media>>

\* What the loop of releaseViewerFromOtherSessions() will look at.
LoopOver(v) == IF v = NoViewer THEN {} ELSE Mapped

\* Mutant: releaseViewer() goes on like a request.
LookupCreates(q, v, w) ==
    /\ requests' = [requests EXCEPT ![q] =
                      [@ EXCEPT !.pc = "release", !.obj = q, !.todo = LoopOver(v)]]
    /\ UNCHANGED objects

\* The session of the very window, or one of the channel that is close to it.
Existing(w) ==
    IF sessions[w] # None /\ Live(sessions[w]) THEN {sessions[w]}
    ELSE {o \in Mapped : Live(o) /\ <<objects[o].win, w>> \in Near}

Seen(o, v) ==
    [objects[o] EXCEPT !.age = "fresh", !.viewers = @ \cup ({v} \ {NoViewer})]

Lookup(q, v, w) ==
    \/ /\ w # None
       /\ \E o \in Existing(w) :
            /\ objects' = [objects EXCEPT ![o] = Seen(o, v)]
            /\ requests' = [requests EXCEPT ![q] =
                  [@ EXCEPT !.pc = "release", !.obj = o, !.todo = LoopOver(v)]]
    \/ /\ w # None => Existing(w) = {}
       /\ requests' = [requests EXCEPT ![q] =
             [@ EXCEPT !.pc = "release", !.obj = IF w = None THEN None ELSE q,
                       !.todo = LoopOver(v)]]
       /\ UNCHANGED objects

Enter(q) ==
    /\ requests[q].pc = "lock"
    /\ Holds(q)
    /\ Lookup(q, requests[q].viewer, requests[q].win)
    /\ UNCHANGED <<sessions, lockQueue, stops, sweep, poolVars, media>>

Creates(q) == requests[q].obj = q
Shares(q)  == requests[q].obj \notin {q, None}

\* releaseViewerFromOtherSessions(): the sessions to keep are those of this window.
Kept(q) == IF Shares(q) THEN objects[requests[q].obj].win ELSE requests[q].win

Others(q) == {o \in requests[q].todo : /\ requests[q].viewer \in objects[o].viewers
                                       /\ objects[o].win # Kept(q)}

\* ... and those whose last viewer leaves are retired.
Left(q) == {o \in Others(q) : objects[o].viewers = {requests[q].viewer} /\ Live(o)}

WithoutViewer(q, S) ==
    [o \in Requests |-> IF o \in S
                   THEN [objects[o] EXCEPT !.viewers = @ \ {requests[q].viewer}]
                   ELSE objects[o]]

Retired(o) == [Ended(o, "retired") EXCEPT !.grace = TRUE]

RetireLeft(q) ==
    /\ requests[q].pc = "release" /\ NotStopping(q)
    /\ \E o \in Left(q) :
         /\ objects' = [WithoutViewer(q, Others(q) \ Left(q)) EXCEPT
                          ![o] = [Retired(o) EXCEPT !.viewers = {}]]
         /\ requests' = [requests EXCEPT ![q].todo = Left(q) \ {o}]
         /\ BeginStop(q, o)
    /\ UNCHANGED <<sessions, lockQueue, sweep, slots, playing, media>>

Active(q) == {o \in Mapped : objects[o].win # requests[q].win /\ Occupies(o)}

\* Mutant: the viewer's other sessions are left as they are.
ReleasedNothing(q) ==
    /\ requests[q].pc = "release" /\ NotStopping(q)
    /\ IF Creates(q)
       THEN /\ requests' = [requests EXCEPT ![q] = [@ EXCEPT !.pc = "capacity", !.todo = Active(q)]]
            /\ UNCHANGED lockQueue
       ELSE /\ requests' = [requests EXCEPT ![q] =
                              IF @.obj = None THEN Done ELSE [@ EXCEPT !.pc = "wait", !.todo = {}]]
            /\ lockQueue' = Tail(lockQueue)
    /\ UNCHANGED <<sessions, objects, stops, sweep, poolVars, media>>

\* The loop is over: a call that found a session, or only released its viewer, leaves
\* the queue; one that creates goes on to ensureDeviceCapacity().
Released(q) ==
    /\ requests[q].pc = "release" /\ NotStopping(q)
    /\ Left(q) = {}
    /\ objects' = WithoutViewer(q, Others(q))
    /\ IF Creates(q)
       THEN /\ requests' = [requests EXCEPT ![q] = [@ EXCEPT !.pc = "capacity", !.todo = Active(q)]]
            /\ UNCHANGED lockQueue
       ELSE /\ requests' = [requests EXCEPT ![q] =
                              IF @.obj = None THEN Done ELSE [@ EXCEPT !.pc = "wait", !.todo = {}]]
            /\ lockQueue' = Tail(lockQueue)
    /\ UNCHANGED <<sessions, stops, sweep, poolVars, media>>

\* While the pool is full an idle session is retired; one that has ended already
\* only counts no more.
Evict(q) ==
    /\ requests[q].pc = "capacity" /\ NotStopping(q)
    /\ Cardinality(requests[q].todo) >= MaxActive
    /\ \E o \in requests[q].todo :
         /\ objects[o].age # "fresh"
         /\ requests' = [requests EXCEPT ![q].todo = @ \ {o}]
         /\ IF Live(o)
            THEN objects' = [objects EXCEPT ![o] = Retired(o)] /\ BeginStop(q, o)
            ELSE UNCHANGED <<objects, stops, commands>>
    /\ UNCHANGED <<sessions, lockQueue, sweep, slots, playing, media>>

\* The pool is full, and the session that was accessed longest ago when the list was made
\* is in use by now: 429.  (The order of the list is left open.)
PoolFull(q) ==
    /\ requests[q].pc = "capacity" /\ NotStopping(q)
    /\ Cardinality(requests[q].todo) >= MaxActive
    /\ \E o \in requests[q].todo : objects[o].age = "fresh"
    /\ requests' = [requests EXCEPT ![q] = Done]
    /\ lockQueue' = Tail(lockQueue)
    /\ UNCHANGED <<sessions, objects, stops, sweep, poolVars, media>>

HasRoom(q) ==
    /\ requests[q].pc = "capacity" /\ NotStopping(q)
    /\ Cardinality(requests[q].todo) < MaxActive
    /\ requests' = [requests EXCEPT ![q] = [@ EXCEPT !.pc = "dir", !.todo = {}]]
    /\ UNCHANGED <<sessions, objects, lockQueue, stops, sweep, poolVars, media>>

\* The directory is emptied and made, and the new object goes into the map.
DirectoryMade(q) ==
    /\ requests[q].pc = "dir"
    /\ objects' = [objects EXCEPT ![q] = Session(requests[q].win, requests[q].viewer)]
    /\ sessions' = [sessions EXCEPT ![requests[q].win] = q]
    /\ requests' = [requests EXCEPT ![q].pc = "spawn"]
    /\ media' = media \ {requests[q].win}
    /\ lockQueue' = Tail(lockQueue)
    /\ UNCHANGED <<stops, sweep, poolVars>>

\* Mutant: the device's queue is not released when its task throws.
DirectoryFailsInQueue(q) ==
    /\ "directory" \in Faults
    /\ requests[q].pc = "dir"
    /\ requests' = [requests EXCEPT ![q] = Done]
    /\ media' = media \ {requests[q].win}
    /\ UNCHANGED <<sessions, objects, lockQueue, stops, sweep, poolVars>>

DirectoryFails(q) ==
    /\ "directory" \in Faults
    /\ requests[q].pc = "dir"
    /\ requests' = [requests EXCEPT ![q] = Done]
    /\ media' = media \ {requests[q].win}
    /\ lockQueue' = Tail(lockQueue)
    /\ UNCHANGED <<sessions, objects, stops, sweep, poolVars>>

-----------------------------------------------------------------------------
(* Outside the queue: the playback is started and awaited.                 *)

\* The FIFO is made, ffmpeg spawned and startGroupedPlayback() called.
Spawn(q) ==
    LET w == objects[q].win
    IN /\ requests[q].pc = "spawn"
       /\ w \in slots \/ Cardinality(slots) < MaxActive
       /\ objects' = [objects EXCEPT ![q].ffmpeg = "running"]
       /\ slots' = slots \cup {w}
       /\ commands' = [commands EXCEPT ![w] = Append(@, [op |-> "start", by |-> q])]
       /\ requests' = [requests EXCEPT ![q].pc = "starting"]
       /\ UNCHANGED <<sessions, lockQueue, stops, sweep, playing, media>>

\* The FIFO cannot be made, or no archive worker takes the session.
SpawnRefused(q) ==
    LET w    == objects[q].win
        full == w \notin slots /\ Cardinality(slots) >= MaxActive
    IN /\ requests[q].pc = "spawn"
       /\ \E ffmpeg \in {"none", "running"} :
            /\ full \/ "start" \in Faults
            /\ ffmpeg = "none" => "start" \in Faults
            /\ ffmpeg = "running" => w \notin slots
            /\ objects' = [objects EXCEPT ![q] = [Ended(q, "error") EXCEPT !.ffmpeg = Kill(ffmpeg)]]
       /\ requests' = [requests EXCEPT ![q].pc = "failing"]
       /\ BeginStop(q, q)
       /\ UNCHANGED <<sessions, lockQueue, sweep, slots, playing, media>>

Due(w, op) == commands[w] # <<>> /\ Head(commands[w]).op = op

PlaybackStarted(w) ==
    LET q == Head(commands[w]).by
    IN /\ Due(w, "start")
       /\ commands' = [commands EXCEPT ![w] = Tail(@)]
       /\ playing' = playing \cup {w}
       /\ objects' = [objects EXCEPT ![q].started = TRUE]
       /\ requests' = [requests EXCEPT ![q].pc = "wait"]
       /\ UNCHANGED <<sessions, lockQueue, stops, sweep, slots, media>>

\* Refused, or the acknowledgement timed out: the slot is released.
StartFailed(w) ==
    LET q == Head(commands[w]).by
    IN /\ Due(w, "start")
       /\ "start" \in Faults
       /\ commands' = [commands EXCEPT ![w] = Tail(@)]
       /\ slots' = slots \ {w}
       /\ playing' = playing \ {w}
       /\ objects' = [objects EXCEPT ![q] = Ended(q, "error")]
       /\ requests' = [requests EXCEPT ![q].pc = "failing"]
       /\ stops' = [stops EXCEPT ![q] = [obj |-> q, at |-> "child"]]
       /\ UNCHANGED <<sessions, lockQueue, sweep, media>>

StopSettled(w) ==
    LET c == Head(commands[w]).by
    IN /\ Due(w, "stop")
       /\ commands' = [commands EXCEPT ![w] = Tail(@)]
       /\ slots' = slots \ {w}
       /\ playing' = playing \ {w}
       /\ IF c = Nobody
          THEN UNCHANGED <<objects, stops>>
          ELSE /\ objects' = [objects EXCEPT ![stops[c].obj].ffmpeg = Kill(@)]
               /\ stops' = [stops EXCEPT ![c].at = "child"]
       /\ UNCHANGED <<sessions, requests, lockQueue, sweep, media>>

\* The archive worker of the window exits: its slot is lost and every call rejected.
WorkerLost(w) ==
    LET starting == {q \in Requests : requests[q].pc = "starting" /\ objects[q].win = w}
        stopping == {c \in Stoppers : stops[c].at = "ack" /\ objects[stops[c].obj].win = w}
    IN /\ "worker" \in Faults
       /\ w \in slots
       /\ slots' = slots \ {w}
       /\ playing' = playing \ {w}
       /\ commands' = [commands EXCEPT ![w] = <<>>]
       /\ objects' = [o \in Requests |->
            IF o \in starting THEN Ended(o, "error")
            ELSE IF \E c \in stopping : stops[c].obj = o
                 THEN [objects[o] EXCEPT !.ffmpeg = Kill(@)] ELSE objects[o]]
       /\ requests' = [q \in Requests |-> IF q \in starting
                                          THEN [requests[q] EXCEPT !.pc = "failing"]
                                          ELSE requests[q]]
       /\ stops' = [c \in Stoppers |->
            IF c \in starting THEN [obj |-> c, at |-> "child"]
            ELSE IF c \in stopping THEN [stops[c] EXCEPT !.at = "child"] ELSE stops[c]]
       /\ UNCHANGED <<sessions, lockQueue, sweep, media>>

\* waitReady(): an error ends it; otherwise the playlist is looked at, and by the time
\* that is known the status may have changed.
Poll(q) ==
    /\ requests[q].pc = "wait"
    /\ objects[requests[q].obj].status # "error"
    /\ requests' = [requests EXCEPT ![q].pc = "poll"]
    /\ UNCHANGED <<sessions, objects, lockQueue, stops, sweep, poolVars, media>>

NotPlayable(q) ==
    /\ requests[q].pc = "poll"
    /\ objects[requests[q].obj].win \notin media
    /\ requests' = [requests EXCEPT ![q].pc = "wait"]
    /\ UNCHANGED <<sessions, objects, lockQueue, stops, sweep, poolVars, media>>

Playable(q) ==
    /\ requests[q].pc = "poll"
    /\ objects[requests[q].obj].win \in media
    /\ objects' = [objects EXCEPT ![requests[q].obj].status = "ready"]
    /\ requests' = [requests EXCEPT ![q] = Done]
    /\ UNCHANGED <<sessions, lockQueue, stops, sweep, poolVars, media>>

\* The session has failed, or READY_TIMEOUT_MS is over: who created it stops it, and
\* who shares it only gets the error.
NotReady(q) ==
    /\ requests[q].pc = "wait"
    /\ IF Creates(q)
       THEN Fail(q)
       ELSE /\ requests' = [requests EXCEPT ![q] = Done]
            /\ UNCHANGED <<objects, stops, commands>>
    /\ UNCHANGED <<sessions, lockQueue, sweep, slots, playing, media>>

-----------------------------------------------------------------------------
(* ffmpeg, time, and the cleanup.                                          *)

\* stopRuntime() returns.  The cleanup then deletes the map's entry for the session id,
\* and after that the directory.
StopEnds(c) ==
    /\ stops[c].at = "child"
    /\ IF c = Cleanup
       THEN /\ stops' = [stops EXCEPT ![c].at = "rm"]
            /\ sessions' = [sessions EXCEPT ![objects[stops[c].obj].win] = None]
            /\ UNCHANGED requests
       ELSE /\ stops' = [stops EXCEPT ![c] = [obj |-> None, at |-> "none"]]
            /\ requests' = [requests EXCEPT ![c] = IF @.pc = "failing" THEN Done ELSE @]
            /\ UNCHANGED sessions
    /\ UNCHANGED <<objects, lockQueue, sweep, poolVars, media>>

DirectoryRemoved ==
    /\ stops[Cleanup].at = "rm"
    /\ media' = media \ {objects[stops[Cleanup].obj].win}
    /\ stops' = [stops EXCEPT ![Cleanup] = [obj |-> None, at |-> "none"]]
    /\ UNCHANGED <<sessions, objects, requests, lockQueue, sweep, poolVars>>

Exited(o) ==
    [objects[o] EXCEPT !.ffmpeg = "none", !.started = FALSE,
                       !.status = IF @ = "preparing" THEN "error" ELSE @]

\* Mutant: a playback whose ffmpeg has exited is not stopped.
FfmpegExitNoStop(o) ==
    /\ objects[o].ffmpeg = "killed" \/ (objects[o].ffmpeg = "running" /\ "ffmpeg" \in Faults)
    /\ objects' = [objects EXCEPT ![o] = Exited(o)]
    /\ UNCHANGED <<sessions, requests, lockQueue, stops, sweep, poolVars, media>>

\* The exit handler of the session's ffmpeg: the playback it read is stopped, and
\* nobody waits for that.
FfmpegExit(o) ==
    /\ objects[o].ffmpeg = "killed" \/ (objects[o].ffmpeg = "running" /\ "ffmpeg" \in Faults)
    /\ objects' = [objects EXCEPT ![o] = Exited(o)]
    /\ IF objects[o].started THEN SendStop(objects[o].win, Nobody) ELSE UNCHANGED commands
    /\ UNCHANGED <<sessions, requests, lockQueue, stops, sweep, slots, playing, media>>

\* A segment is written.
Produce(o) ==
    /\ objects[o].ffmpeg = "running"
    /\ objects[o].win \in playing
    /\ media' = media \cup {objects[o].win}
    /\ UNCHANGED <<sessions, objects, requests, lockQueue, stops, sweep, poolVars>>

\* A player asks for the playlist or a segment: get().
Access(o) ==
    /\ o \in Mapped
    /\ objects[o].status \notin {"error", "cancelled"}
    /\ objects[o].age # "fresh"
    /\ objects' = [objects EXCEPT ![o].age = "fresh"]
    /\ UNCHANGED <<sessions, requests, lockQueue, stops, sweep, poolVars, media>>

\* A session's creator is done long before deviceArchiveSessionKeepMs (15 min).
InCreation(o) == requests[o].pc # "done"

TimePasses(o) ==
    /\ o \in Mapped
    /\ objects[o].age = "fresh" \/ (objects[o].age = "stale" /\ ~InCreation(o))
    /\ objects' = [objects EXCEPT ![o].age = IF @ = "fresh" THEN "stale" ELSE "expired",
                                  ![o].grace = FALSE]
    /\ UNCHANGED <<sessions, requests, lockQueue, stops, sweep, poolVars, media>>

CleanupBegins ==
    /\ sweep = {} /\ NotStopping(Cleanup)
    /\ sweep' = Mapped
    /\ UNCHANGED <<sessions, objects, requests, lockQueue, stops, poolVars, media>>

Expired(o) ==
    IF objects[o].status = "retired"
    THEN ~objects[o].grace /\ objects[o].age # "fresh"
    ELSE objects[o].age = "expired"

CleanupNext(o) ==
    /\ o \in sweep /\ NotStopping(Cleanup)
    /\ sweep' = sweep \ {o}
    /\ IF Expired(o)
       THEN /\ objects' = [objects EXCEPT ![o] = Ended(o, "cancelled")]
            /\ BeginStop(Cleanup, o)
       ELSE UNCHANGED <<objects, stops, commands>>
    /\ UNCHANGED <<sessions, requests, lockQueue, slots, playing, media>>

-----------------------------------------------------------------------------

Init ==
    /\ sessions = [w \in Windows |-> None]
    /\ objects = [o \in Requests |-> [win |-> None, status |-> None,
                                 started |-> FALSE, ffmpeg |-> "none", viewers |-> {},
                                 age |-> "fresh", grace |-> FALSE]]
    /\ requests = [q \in Requests |-> Idle]
    /\ lockQueue = <<>>
    /\ stops = [c \in Stoppers |-> [obj |-> None, at |-> "none"]]
    /\ sweep = {}
    /\ slots = {}
    /\ commands = [w \in Windows |-> <<>>]
    /\ playing = {}
    /\ media = {}

InQueue(q) ==
    Enter(q) \/ RetireLeft(q) \/ Released(q) \/ Evict(q) \/ PoolFull(q) \/ HasRoom(q)
    \/ DirectoryMade(q) \/ DirectoryFails(q)

Next ==
    \/ \E q \in Requests :
         \/ \E v \in Viewers : ReleaseViewer(q, v) \/ \E w \in Windows : Request(q, v, w)
         \/ InQueue(q)
         \/ Spawn(q) \/ SpawnRefused(q)
         \/ Poll(q) \/ NotPlayable(q) \/ Playable(q) \/ NotReady(q)
    \/ \E w \in Windows :
         PlaybackStarted(w) \/ StartFailed(w) \/ StopSettled(w) \/ WorkerLost(w)
    \/ \E c \in Stoppers : StopEnds(c)
    \/ \E o \in Requests :
         FfmpegExit(o) \/ Produce(o) \/ Access(o) \/ TimePasses(o) \/ CleanupNext(o)
    \/ CleanupBegins \/ DirectoryRemoved

Spec == Init /\ [][Next]_vars

\* Promises and file operations settle, the commands of the pool are acknowledged or
\* time out, and the deadline of waitReady() is reached however often it polls.
Settles ==
    /\ \A q \in Requests :
         WF_vars(InQueue(q) \/ Spawn(q) \/ SpawnRefused(q) \/ NotPlayable(q) \/ Playable(q))
    /\ \A w \in Windows : WF_vars(PlaybackStarted(w) \/ StartFailed(w) \/ StopSettled(w))
    /\ \A c \in Stoppers : WF_vars(StopEnds(c))
Deadline == \E q \in Requests : NotReady(q) \/ Playable(q)
Fairness == Settles /\ SF_vars(Deadline)

FairSpec == Spec /\ Fairness

-----------------------------------------------------------------------------
(* Properties.                                                             *)

\* Every variable has its type; in particular only a request with a window makes a
\* session: releaseViewer() ends in releaseViewerFromOtherSessions().
TypeOK ==
    /\ sessions \in [Windows -> Requests \cup {None}]
    /\ objects \in [Requests -> SessionStates]
    /\ \A w \in Windows : sessions[w] # None => objects[sessions[w]].win = w
    /\ requests \in [Requests -> RequestStates]
    /\ lockQueue \in Seq(Requests)
    /\ stops \in [Stoppers -> [obj : Requests \cup {None}, at : {"none", "ack", "child", "rm"}]]
    /\ sweep \in SUBSET Requests
    /\ slots \in SUBSET Windows
    /\ commands \in [Windows -> Seq([op : {"start", "stop"}, by : Stoppers \cup {Nobody}])]
    /\ playing \in SUBSET Windows
    /\ media \in SUBSET Windows

\* "one viewer can seek without consuming an extra DVR playback slot": whenever no call
\* is at work in the device's queue, a viewer is counted in one session at most,
\* whatever failed or was retired, cleaned up or made again in between.
OneLeasePerViewer ==
    \A v \in Viewers \ {NoViewer} :
        (\A q \in Requests : Holds(q) => requests[q].pc = "lock")
          => Cardinality({o \in Mapped : v \in objects[o].viewers}) <= 1

\* No slot of the DVR is forgotten: a window that has one has a command on its way, or
\* a session that believes its playback started and will stop it.  (A slot nobody
\* remembers lowers the DVR's capacity until the service restarts.)
SlotHasOwner ==
    \A w \in slots :
        \/ commands[w] # <<>>
        \/ \E o \in Requests : objects[o].win = w /\ objects[o].started

\* A seek frees the slot: if every request names its viewer, a playback that stays open
\* behind a ready session has a viewer left.
SeekFreesSlot ==
    NoViewer \notin Viewers =>
        \A o \in Requests :
            objects[o].status = "ready" /\ objects[o].started => objects[o].viewers # {}

\* Every call is answered: the queue of the device is always released, every stop and
\* start is settled, and READY_TIMEOUT_MS ends the wait for a playlist.
CallsEnd == <>[](\A q \in Requests : requests[q].pc \in {"idle", "done"})
=============================================================================
