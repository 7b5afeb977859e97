------------------------ MODULE ArchiveSessionsProofs ------------------------
(***************************************************************************)
(* Theorems of ArchiveSessions, for every set of windows, viewers and      *)
(* calls, every `Near' and MaxActive, and whatever may fail: the types,    *)
(* that no slot of the DVR is forgotten, and that a viewer has one lease.  *)
(***************************************************************************)
EXTENDS ArchiveSessions, FiniteSetTheorems, SequenceTheorems, TLAPS

-----------------------------------------------------------------------------
(* The inductive invariant.                                                *)

\* The object has been made; an object never leaves this state.
Made(o) == o # None /\ objects[o].win # None

\* Where a call is, and what it may rely on there.
PlaceOf(q) ==
    LET r == requests[q]
    IN /\ r.pc \in {"idle", "lock", "release", "capacity", "dir"} => objects[q].win = None
       /\ r.pc = "release" => \/ r.obj = None
                              \/ r.obj = q /\ r.win # None
                              \/ Made(r.obj)
       /\ r.pc \in {"capacity", "dir"} => r.obj = q /\ r.win # None
       /\ r.pc \in {"spawn", "starting", "failing"} => r.obj = q
       /\ r.pc \in {"spawn", "starting", "wait", "poll", "failing"} => Made(r.obj)
       /\ \A o \in r.todo : Made(o)
       /\ r.pc \notin {"release", "capacity", "failing"} => NotStopping(q)

\* A stop under way is of an object that was made.
StopOf(c) == IF stops[c].at = "none" THEN NotStopping(c) ELSE Made(stops[c].obj)

\* The command e of window w is one that somebody waits for, or nobody.
CommandOf(w, e) ==
    /\ e.op = "start" => /\ e.by \in Requests
                         /\ requests[e.by].pc = "starting" /\ objects[e.by].win = w
    /\ e.op = "stop" /\ e.by # Nobody => /\ stops[e.by].at = "ack"
                                         /\ objects[stops[e.by].obj].win = w

Places   == \A q \in Requests : PlaceOf(q)
Stopping == \A c \in Stoppers : StopOf(c)
Commands == \A w \in Windows : \A i \in DOMAIN commands[w] : CommandOf(w, commands[w][i])

\* Who awaits a command awaits that one only.
OneCommandEach ==
    \A w, v \in Windows : \A i \in DOMAIN commands[w], j \in DOMAIN commands[v] :
        commands[w][i].by = commands[v][j].by /\ commands[w][i].by # Nobody => w = v /\ i = j

Swept == \A o \in sweep : Made(o)

\* The device's queue: who is past the lock is at its head, the others wait for it.
InTheQueue == {"release", "capacity", "dir"}
Queue ==
    /\ \A q \in Requests : requests[q].pc \in InTheQueue => Holds(q)
    /\ \A i \in DOMAIN lockQueue : requests[lockQueue[i]].pc \in {"lock"} \cup InTheQueue
    /\ \A i, j \in DOMAIN lockQueue : lockQueue[i] = lockQueue[j] => i = j

\* A viewer's leases.
Leases(v) == {o \in Mapped : v \in objects[o].viewers}
Single(S) == \A o, p \in S : o = p

\* While a call releases its viewer, every lease of it is one the loop has still to
\* look at, or one of the window that is kept; after that only the latter is left.
ReleasingOf(q) ==
    requests[q].viewer # NoViewer =>
        \A o \in Mapped : requests[q].viewer \in objects[o].viewers =>
            /\ requests[q].pc = "release" => o \in requests[q].todo \/ objects[o].win = Kept(q)
            /\ requests[q].pc \in {"capacity", "dir"} => objects[o].win = requests[q].win

SingleOf(v) ==
    \/ \E q \in Requests : requests[q].pc = "release" /\ requests[q].viewer = v
    \/ Single(Leases(v))

Releasing    == \A q \in Requests : ReleasingOf(q)
SingleLeases == \A v \in Viewers \ {NoViewer} : SingleOf(v)

Shape == TypeOK /\ Places /\ Stopping /\ Commands /\ OneCommandEach /\ Swept /\ Queue
LeaseInv == Releasing /\ SingleLeases
IInv == Shape /\ SlotHasOwner /\ LeaseInv
-----------------------------------------------------------------------------
(* Facts about the data.                                                   *)

\* Who may await a command, and what a command and a stop look like.
CommandTypes == [op : {"start", "stop"}, by : Stoppers \cup {Nobody}]
StopTypes == [obj : Requests \cup {None}, at : {"none", "ack", "child", "rm"}]

\* A call that goes on: elsewhere, with another list to look at, about an object.
LEMMA CallMoves ==
    ASSUME NEW r \in RequestStates, NEW p \in Points
    PROVE  [r EXCEPT !.pc = p] \in RequestStates
BY DEF RequestStates

LEMMA CallGoesOn ==
    ASSUME NEW r \in RequestStates, NEW p \in Points, NEW T \in SUBSET Requests
    PROVE  [r EXCEPT !.pc = p, !.todo = T] \in RequestStates
BY DEF RequestStates

LEMMA CallAbout ==
    ASSUME NEW r \in RequestStates, NEW p \in Points, NEW T \in SUBSET Requests,
           NEW o \in Requests \cup {None}
    PROVE  [r EXCEPT !.pc = p, !.obj = o, !.todo = T] \in RequestStates
BY DEF RequestStates

LEMMA CallLooksAt ==
    ASSUME NEW r \in RequestStates, NEW T \in SUBSET Requests
    PROVE  [r EXCEPT !.todo = T] \in RequestStates
BY DEF RequestStates

LEMMA CallIdleOrDone == Idle \in RequestStates /\ Done \in RequestStates
BY DEF Idle, Done, RequestStates, Points

\* An object that is seen by a viewer, or grows old, or whose ffmpeg exits.
LEMMA SeenFields ==
    ASSUME TypeOK, NEW o \in Requests, NEW v \in Viewers \cup {NoViewer}
    PROVE  /\ Seen(o, v) \in SessionStates
           /\ Seen(o, v).win = objects[o].win
           /\ Seen(o, v).status = objects[o].status
           /\ Seen(o, v).started = objects[o].started
           /\ Seen(o, v).viewers = objects[o].viewers \cup ({v} \ {NoViewer})
<1>1. objects[o] \in SessionStates
  BY DEF TypeOK
<1>2. QED
  BY <1>1 DEF Seen, SessionStates

LEMMA ObjectAges ==
    ASSUME NEW r \in SessionStates, NEW a \in {"fresh", "stale", "expired"}
    PROVE  [r EXCEPT !.age = a, !.grace = FALSE] \in SessionStates
BY DEF SessionStates

LEMMA ExitedFields ==
    ASSUME TypeOK, NEW o \in Requests
    PROVE  /\ Exited(o) \in SessionStates
           /\ Exited(o).win = objects[o].win
           /\ ~Exited(o).started
           /\ Exited(o).viewers = objects[o].viewers
<1>1. objects[o] \in SessionStates
  BY DEF TypeOK
<1>2. QED
  BY <1>1 DEF Exited, SessionStates

\* Names of nobody and nothing are no names of calls.
LEMMA Names ==
    /\ None \notin Windows /\ None \notin Requests
    /\ Cleanup \notin Requests /\ Nobody \notin Requests /\ Nobody \notin Stoppers
    /\ Requests \subseteq Stoppers /\ Cleanup \in Stoppers
BY SessionsAssumption DEF Stoppers, Cleanup, Nobody

\* What stopRuntime() makes of an object.
LEMMA EndedFields ==
    ASSUME TypeOK, NEW o \in Requests, NEW status \in {"error", "retired", "cancelled"}
    PROVE  /\ Ended(o, status) \in SessionStates
           /\ Ended(o, status).win = objects[o].win
           /\ Ended(o, status).status = status
           /\ ~Ended(o, status).started
           /\ Ended(o, status).viewers = objects[o].viewers
<1>1. objects[o] \in SessionStates
  BY DEF TypeOK
<1>2. Kill(objects[o].ffmpeg) \in {"none", "running", "killed"}
  BY <1>1 DEF Kill, SessionStates
<1>3. QED
  BY <1>1, <1>2 DEF Ended, SessionStates

LEMMA RetiredFields ==
    ASSUME TypeOK, NEW o \in Requests
    PROVE  /\ Retired(o) \in SessionStates
           /\ Retired(o).win = objects[o].win
           /\ Retired(o).status = "retired"
           /\ ~Retired(o).started
           /\ Retired(o).viewers = objects[o].viewers
<1>1. /\ Ended(o, "retired") \in SessionStates
      /\ Ended(o, "retired").win = objects[o].win
      /\ Ended(o, "retired").status = "retired"
      /\ ~Ended(o, "retired").started
      /\ Ended(o, "retired").viewers = objects[o].viewers
  BY EndedFields
<1>2. QED
  BY <1>1 DEF Retired, SessionStates

LEMMA KilledFields ==
    ASSUME TypeOK, NEW o \in Requests
    PROVE  /\ [objects[o] EXCEPT !.ffmpeg = Kill(@)] \in SessionStates
           /\ [objects[o] EXCEPT !.ffmpeg = Kill(@)].win = objects[o].win
           /\ [objects[o] EXCEPT !.ffmpeg = Kill(@)].status = objects[o].status
           /\ [objects[o] EXCEPT !.ffmpeg = Kill(@)].started = objects[o].started
           /\ [objects[o] EXCEPT !.ffmpeg = Kill(@)].viewers = objects[o].viewers
<1>1. objects[o] \in SessionStates
  BY DEF TypeOK
<1>2. QED
  BY <1>1 DEF Kill, SessionStates

\* A viewer leaving sessions leaves all else of them.
LEMMA WithoutViewerTypes ==
    ASSUME TypeOK, NEW q \in Requests, NEW S \in SUBSET Requests
    PROVE  WithoutViewer(q, S) \in [Requests -> SessionStates]
<1>1. \A o \in Requests : objects[o] \in SessionStates
  BY DEF TypeOK
<1>2. QED
  BY <1>1 DEF WithoutViewer, SessionStates

LEMMA WithoutViewerWin ==
    ASSUME TypeOK, NEW q \in Requests, NEW S \in SUBSET Requests, NEW o \in Requests
    PROVE  WithoutViewer(q, S)[o].win = objects[o].win
BY DEF WithoutViewer, SessionStates, TypeOK

LEMMA WithoutViewerStarted ==
    ASSUME TypeOK, NEW q \in Requests, NEW S \in SUBSET Requests, NEW o \in Requests
    PROVE  WithoutViewer(q, S)[o].started = objects[o].started
BY DEF WithoutViewer, SessionStates, TypeOK

LEMMA WithoutViewerViewers ==
    ASSUME TypeOK, NEW q \in Requests, NEW S \in SUBSET Requests, NEW o \in Requests
    PROVE  WithoutViewer(q, S)[o].viewers =
                IF o \in S THEN objects[o].viewers \ {requests[q].viewer}
                           ELSE objects[o].viewers
BY DEF WithoutViewer, SessionStates, TypeOK

\* The mapped objects are the objects made for a window, one for each.
LEMMA MappedMade ==
    ASSUME TypeOK, NEW o \in Mapped
    PROVE  /\ o \in Requests /\ Made(o) /\ objects[o].win \in Windows
           /\ sessions[objects[o].win] = o
BY Names DEF TypeOK, Mapped, Made

LEMMA MadeWindow ==
    ASSUME TypeOK, NEW o \in Requests, Made(o)
    PROVE  objects[o].win \in Windows
BY DEF TypeOK, Made, SessionStates

\* A stop that is begun keeps the types of stops and commands, and is of an object made.
LEMMA BeginStopTypes ==
    ASSUME TypeOK, NEW c \in Stoppers, NEW o \in Requests, Made(o), BeginStop(c, o)
    PROVE  /\ stops' \in [Stoppers -> StopTypes]
           /\ commands' \in [Windows -> Seq(CommandTypes)]
<1>1. objects[o].win \in Windows
  BY MadeWindow
<1>2. [op |-> "stop", by |-> c] \in CommandTypes
  BY DEF CommandTypes
<1>3. \A s \in Seq(CommandTypes) : Append(s, [op |-> "stop", by |-> c]) \in Seq(CommandTypes)
  BY <1>2, AppendProperties
<1>4. commands \in [Windows -> Seq(CommandTypes)]
  BY DEF TypeOK, CommandTypes
<1>5. commands' \in [Windows -> Seq(CommandTypes)]
  BY <1>1, <1>3, <1>4 DEF BeginStop, SendStop
<1>6. stops' \in [Stoppers -> StopTypes]
  BY DEF BeginStop, TypeOK, StopTypes
<1>7. QED
  BY <1>5, <1>6

\* The command at the head of a window's calls.
LEMMA HeadCommand ==
    ASSUME TypeOK, Commands, Stopping, NEW w \in Windows, commands[w] # <<>>
    PROVE  /\ Head(commands[w]) \in CommandTypes
           /\ Tail(commands[w]) \in Seq(CommandTypes)
           /\ CommandOf(w, Head(commands[w]))
<1>1. commands[w] \in Seq(CommandTypes)
  BY DEF TypeOK, CommandTypes
<1>2. 1 \in DOMAIN commands[w] /\ Head(commands[w]) = commands[w][1]
  BY <1>1, EmptySeq, LenProperties
<1>3. QED
  BY <1>1, <1>2, HeadTailProperties DEF Commands


-----------------------------------------------------------------------------
(* Types.                                                                  *)

\* Objects of their type, each of the window it was made for.
ObjectsKept ==
    /\ objects' \in [Requests -> SessionStates]
    /\ \A o \in Requests : objects'[o].win = objects[o].win

\* A step that makes no object and puts none into the map.
LEMMA TypesKept ==
    ASSUME TypeOK, ObjectsKept,
           \A w \in Windows : sessions'[w] \in {sessions[w], None},
           sessions' \in [Windows -> Requests \cup {None}],
           requests' \in [Requests -> RequestStates],
           lockQueue' \in Seq(Requests),
           stops' \in [Stoppers -> StopTypes],
           sweep' \in SUBSET Requests, slots' \in SUBSET Windows,
           commands' \in [Windows -> Seq(CommandTypes)],
           playing' \in SUBSET Windows, media' \in SUBSET Windows
    PROVE  TypeOK'
BY DEF TypeOK, ObjectsKept, StopTypes, CommandTypes
\* One object, or one call, changes.
LEMMA PutObject ==
    ASSUME TypeOK, NEW o \in Requests, NEW r \in SessionStates, r.win = objects[o].win,
           objects' = [objects EXCEPT ![o] = r]
    PROVE  ObjectsKept
BY DEF TypeOK, ObjectsKept

LEMMA PutCall ==
    ASSUME TypeOK, NEW q \in Requests, NEW r \in RequestStates,
           requests' = [requests EXCEPT ![q] = r]
    PROVE  requests' \in [Requests -> RequestStates]
BY DEF TypeOK

LEMMA KeptObjects ==
    ASSUME TypeOK, UNCHANGED objects
    PROVE  ObjectsKept
BY DEF TypeOK, ObjectsKept

LEMMA CallTypes ==
    ASSUME TypeOK, NEW q \in Requests
    PROVE  /\ requests[q] \in RequestStates
           /\ requests[q].pc \in Points /\ requests[q].viewer \in Viewers \cup {NoViewer}
           /\ requests[q].win \in Windows \cup {None} /\ requests[q].obj \in Requests \cup {None}
           /\ requests[q].todo \in SUBSET Requests
BY DEF TypeOK, RequestStates

LEMMA ObjectTypes ==
    ASSUME TypeOK, NEW o \in Requests
    PROVE  /\ objects[o] \in SessionStates
           /\ objects[o].win \in Windows \cup {None} /\ objects[o].started \in BOOLEAN
           /\ objects[o].viewers \in SUBSET (Viewers \ {NoViewer})
           /\ objects[o].ffmpeg \in {"none", "running", "killed"}
BY DEF TypeOK, SessionStates

\* A call finds the session it asked for, or is to create one.
LEMMA EnterKeeps ==
    ASSUME TypeOK, NEW q \in Requests, Enter(q)
    PROVE  ObjectsKept /\ requests' \in [Requests -> RequestStates]
<1> DEFINE r(o) == [requests[q] EXCEPT !.pc = "release", !.obj = o,
                                       !.todo = LoopOver(requests[q].viewer)]
<1>1. ASSUME NEW o \in Requests \cup {None}
      PROVE  r(o) \in RequestStates
  <2>1. requests[q] \in RequestStates /\ LoopOver(requests[q].viewer) \in SUBSET Requests
        /\ "release" \in Points
    BY CallTypes DEF LoopOver, Mapped, Points
  <2>2. QED
    BY <2>1, CallAbout
<1>2. requests[q].viewer \in Viewers \cup {NoViewer} /\ requests[q].win \in Windows \cup {None}
  BY CallTypes
<1>3. ASSUME NEW o \in Existing(requests[q].win), requests[q].win # None,
             objects' = [objects EXCEPT ![o] = Seen(o, requests[q].viewer)],
             requests' = [requests EXCEPT ![q] = r(o)]
      PROVE  ObjectsKept /\ requests' \in [Requests -> RequestStates]
  <2>1. o \in Requests
    BY <1>2, <1>3 DEF Existing, Mapped, TypeOK
  <2> HIDE DEF r
  <2>2. QED
    BY <1>1, <1>2, <1>3, <2>1, SeenFields, PutObject, PutCall
<1>4. ASSUME NEW o \in {None, q}, UNCHANGED objects,
             requests' = [requests EXCEPT ![q] = r(o)]
      PROVE  ObjectsKept /\ requests' \in [Requests -> RequestStates]
  <2> HIDE DEF r
  <2>1. QED
    BY <1>1, <1>4, PutCall, KeptObjects
<1>5. \/ /\ requests[q].win # None
         /\ \E o \in Existing(requests[q].win) :
              /\ objects' = [objects EXCEPT ![o] = Seen(o, requests[q].viewer)]
              /\ requests' = [requests EXCEPT ![q] = r(o)]
      \/ /\ UNCHANGED objects
         /\ \E o \in {None, q} : requests' = [requests EXCEPT ![q] = r(o)]
  BY Zenon DEF Enter, Lookup
<1> HIDE DEF r
<1>6. QED
  BY <1>3, <1>4, <1>5

\* The viewer's other sessions lose it, and one that has no other is retired.
LEMMA RetireLeftKeeps ==
    ASSUME Shape, NEW q \in Requests, RetireLeft(q)
    PROVE  /\ ObjectsKept /\ requests' \in [Requests -> RequestStates]
           /\ \E o \in Left(q) : Made(o) /\ o \in Requests /\ BeginStop(q, o)
<1>0. TypeOK
  BY DEF Shape
<1>1. PICK o \in Left(q) :
         /\ objects' = [WithoutViewer(q, Others(q) \ Left(q)) EXCEPT
                          ![o] = [Retired(o) EXCEPT !.viewers = {}]]
         /\ requests' = [requests EXCEPT ![q].todo = Left(q) \ {o}]
         /\ BeginStop(q, o)
  BY DEF RetireLeft
<1>2. Left(q) \in SUBSET Requests /\ o \in Requests /\ o \in requests[q].todo
  BY <1>0, CallTypes DEF Left, Others
<1>3. Made(o)
  BY <1>2 DEF Shape, Places, PlaceOf
<1>4. [requests[q] EXCEPT !.todo = Left(q) \ {o}] \in RequestStates
  BY <1>0, <1>2, CallTypes, CallLooksAt
<1>5. requests' \in [Requests -> RequestStates]
  BY <1>0, <1>1, <1>4 DEF TypeOK
<1>6. Retired(o) \in SessionStates /\ Retired(o).win = objects[o].win
  BY <1>0, <1>2, RetiredFields
<1>7. [Retired(o) EXCEPT !.viewers = {}] \in SessionStates
      /\ [Retired(o) EXCEPT !.viewers = {}].win = objects[o].win
  BY <1>6 DEF SessionStates
<1> DEFINE W == WithoutViewer(q, Others(q) \ Left(q))
           r == [Retired(o) EXCEPT !.viewers = {}]
<1>8. W \in [Requests -> SessionStates] /\ \A p \in Requests : W[p].win = objects[p].win
  <2>1. Others(q) \ Left(q) \in SUBSET Requests
    BY <1>0, CallTypes DEF Others
  <2>2. W \in [Requests -> SessionStates]
    BY <1>0, <2>1, WithoutViewerTypes
  <2>3. QED
    BY <1>0, <2>1, <2>2, WithoutViewerWin
<1>9. r \in SessionStates /\ r.win = objects[o].win /\ objects' = [W EXCEPT ![o] = r]
  BY <1>1, <1>7
<1> HIDE DEF W, r
<1>10. ObjectsKept
  BY <1>2, <1>8, <1>9 DEF ObjectsKept
<1>11. QED
  BY <1>1, <1>2, <1>3, <1>5, <1>10

LEMMA ReleasedKeeps ==
    ASSUME TypeOK, NEW q \in Requests, Released(q)
    PROVE  ObjectsKept /\ requests' \in [Requests -> RequestStates]
<1>1. ObjectsKept
  <2>1. objects' = WithoutViewer(q, Others(q))
    BY DEF Released
  <2>2. Others(q) \in SUBSET Requests
    BY CallTypes DEF Others
  <2>3. objects' \in [Requests -> SessionStates]
    BY <2>1, <2>2, WithoutViewerTypes
  <2>4. ASSUME NEW o \in Requests
        PROVE  objects'[o].win = objects[o].win
    <3>1. WithoutViewer(q, Others(q))[o].win = objects[o].win
      BY <2>2, WithoutViewerWin
    <3>2. QED
      BY <2>1, <3>1
  <2>5. QED
    BY <2>3, <2>4 DEF ObjectsKept
<1>2. Active(q) \in SUBSET Requests /\ "capacity" \in Points /\ "wait" \in Points
  BY DEF Active, Mapped, Points
<1> DEFINE c == [requests[q] EXCEPT !.pc = "capacity", !.todo = Active(q)]
           w == [requests[q] EXCEPT !.pc = "wait", !.todo = {}]
<1>3. c \in RequestStates /\ w \in RequestStates
  BY <1>2, CallTypes, CallGoesOn
<1>4. requests' \in {[requests EXCEPT ![q] = c], [requests EXCEPT ![q] = w],
                     [requests EXCEPT ![q] = Done]}
  BY DEF Released
<1> HIDE DEF c, w
<1>5. QED
  BY <1>1, <1>3, <1>4, CallIdleOrDone, PutCall

LEMMA EvictKeeps ==
    ASSUME Shape, NEW q \in Requests, Evict(q)
    PROVE  /\ ObjectsKept /\ requests' \in [Requests -> RequestStates]
           /\ \/ UNCHANGED <<stops, commands>>
              \/ \E o \in Requests : Made(o) /\ BeginStop(q, o)
<1>0. TypeOK
  BY DEF Shape
<1>1. PICK o \in requests[q].todo :
         /\ requests' = [requests EXCEPT ![q].todo = @ \ {o}]
         /\ \/ objects' = [objects EXCEPT ![o] = Retired(o)] /\ BeginStop(q, o)
            \/ UNCHANGED <<objects, stops, commands>>
  BY DEF Evict
<1>2. o \in Requests /\ requests[q].todo \in SUBSET Requests
  BY <1>0, CallTypes
<1>3. Made(o)
  BY <1>2 DEF Shape, Places, PlaceOf
<1>4. [requests[q] EXCEPT !.todo = requests[q].todo \ {o}] \in RequestStates
  BY <1>0, <1>2, CallTypes, CallLooksAt
<1>5. requests' \in [Requests -> RequestStates]
  BY <1>0, <1>1, <1>4 DEF TypeOK
<1>6. ObjectsKept
  BY <1>0, <1>1, <1>2, RetiredFields, PutObject, KeptObjects
<1>7. QED
  BY <1>1, <1>2, <1>3, <1>5, <1>6

\* A call of RequestStates that only moves on, and one that is done.
LEMMA MovesOn ==
    ASSUME TypeOK, NEW q \in Requests, NEW p \in Points,
           requests' = [requests EXCEPT ![q].pc = p]
    PROVE  requests' \in [Requests -> RequestStates]
<1>1. [requests[q] EXCEPT !.pc = p] \in RequestStates
  BY CallTypes, CallMoves
<1>2. QED
  BY <1>1 DEF TypeOK

\* An object made, by name, in the states of a call that starts it or waits for it.
LEMMA AboutMade ==
    ASSUME Shape, NEW q \in Requests,
           requests[q].pc \in {"spawn", "starting", "wait", "poll", "failing"}
    PROVE  /\ requests[q].obj \in Requests /\ Made(requests[q].obj)
           /\ requests[q].pc \in {"spawn", "starting", "failing"} => requests[q].obj = q
BY CallTypes DEF Shape, Places, PlaceOf, Made

LEMMA SpawnKeeps ==
    ASSUME Shape, NEW q \in Requests, Spawn(q)
    PROVE  /\ ObjectsKept /\ requests' \in [Requests -> RequestStates]
           /\ objects[q].win \in Windows /\ Made(q)
           /\ commands' \in [Windows -> Seq(CommandTypes)]
<1>0. TypeOK
  BY DEF Shape
<1>1. Made(q) /\ objects[q].win \in Windows
  BY <1>0, AboutMade, MadeWindow DEF Spawn
<1>2. requests' \in [Requests -> RequestStates]
  BY <1>0, MovesOn DEF Spawn, Points
<1>3. [objects[q] EXCEPT !.ffmpeg = "running"] \in SessionStates
      /\ [objects[q] EXCEPT !.ffmpeg = "running"].win = objects[q].win
  BY <1>0, ObjectTypes DEF SessionStates
<1>4. ObjectsKept
  BY <1>0, <1>3, PutObject DEF Spawn
<1>5. [op |-> "start", by |-> q] \in CommandTypes
  BY DEF CommandTypes, Stoppers
<1>6. commands \in [Windows -> Seq(CommandTypes)]
  BY <1>0 DEF TypeOK, CommandTypes
<1>7. \A s \in Seq(CommandTypes) : Append(s, [op |-> "start", by |-> q]) \in Seq(CommandTypes)
  BY <1>5, AppendProperties
<1>8. commands' \in [Windows -> Seq(CommandTypes)]
  BY <1>1, <1>6, <1>7 DEF Spawn
<1>9. QED
  BY <1>1, <1>2, <1>4, <1>8

LEMMA SpawnRefusedKeeps ==
    ASSUME Shape, NEW q \in Requests, SpawnRefused(q)
    PROVE  /\ ObjectsKept /\ requests' \in [Requests -> RequestStates]
           /\ Made(q) /\ BeginStop(q, q)
<1>0. TypeOK
  BY DEF Shape
<1>1. Made(q)
  BY <1>0, AboutMade DEF SpawnRefused
<1>2. requests' \in [Requests -> RequestStates]
  BY <1>0, MovesOn DEF SpawnRefused, Points
<1>3. PICK ffmpeg \in {"none", "running"} :
         objects' = [objects EXCEPT ![q] = [Ended(q, "error") EXCEPT !.ffmpeg = Kill(ffmpeg)]]
  BY DEF SpawnRefused
<1>4. Ended(q, "error") \in SessionStates /\ Ended(q, "error").win = objects[q].win
  BY <1>0, EndedFields
<1>5. Kill(ffmpeg) \in {"none", "running", "killed"}
  BY <1>3 DEF Kill
<1>6. [Ended(q, "error") EXCEPT !.ffmpeg = Kill(ffmpeg)] \in SessionStates
      /\ [Ended(q, "error") EXCEPT !.ffmpeg = Kill(ffmpeg)].win = objects[q].win
  BY <1>4, <1>5 DEF SessionStates
<1>7. ObjectsKept
  BY <1>0, <1>3, <1>6, PutObject
<1>8. QED
  BY <1>1, <1>2, <1>7 DEF SpawnRefused

LEMMA NotReadyKeeps ==
    ASSUME Shape, NEW q \in Requests, NotReady(q)
    PROVE  /\ ObjectsKept /\ requests' \in [Requests -> RequestStates]
           /\ Made(requests[q].obj)
           /\ UNCHANGED <<stops, commands>> \/ (requests[q].obj = q /\ BeginStop(q, q))
<1>0. TypeOK
  BY DEF Shape
<1>1. Made(requests[q].obj)
  BY AboutMade DEF NotReady
<1>2. CASE Creates(q)
  <2>1. Fail(q)
    BY <1>2 DEF NotReady
  <2>2. requests' \in [Requests -> RequestStates]
    BY <1>0, <2>1, MovesOn DEF Fail, Points
  <2>3. ObjectsKept
    BY <1>0, <2>1, EndedFields, PutObject DEF Fail
  <2>4. QED
    BY <1>1, <1>2, <2>1, <2>2, <2>3 DEF Fail, Creates
<1>3. CASE ~Creates(q)
  BY <1>0, <1>1, <1>3, CallIdleOrDone, PutCall, KeptObjects DEF NotReady
<1>4. QED
  BY <1>2, <1>3

\* A window's first command has settled.
LEMMA SettledCommands ==
    ASSUME TypeOK, Commands, Stopping, NEW w \in Windows, commands[w] # <<>>,
           commands' = [commands EXCEPT ![w] = Tail(commands[w])]
    PROVE  commands' \in [Windows -> Seq(CommandTypes)]
<1>1. Tail(commands[w]) \in Seq(CommandTypes)
  BY HeadCommand
<1>2. QED
  BY <1>1 DEF TypeOK, CommandTypes

\* Who waits for a start is the object that is started, and for a stop, who stops one.
LEMMA StartDue ==
    ASSUME Shape, NEW w \in Windows, Due(w, "start")
    PROVE  /\ commands[w] # <<>> /\ Head(commands[w]).by \in Requests
           /\ requests[Head(commands[w]).by].pc = "starting"
           /\ objects[Head(commands[w]).by].win = w
BY HeadCommand DEF Shape, Due, CommandOf

LEMMA StopDue ==
    ASSUME Shape, NEW w \in Windows, Due(w, "stop"), Head(commands[w]).by # Nobody
    PROVE  /\ commands[w] # <<>> /\ Head(commands[w]).by \in Stoppers
           /\ stops[Head(commands[w]).by].at = "ack"
           /\ stops[Head(commands[w]).by].obj \in Requests
           /\ Made(stops[Head(commands[w]).by].obj)
<1>1. /\ commands[w] # <<>> /\ Head(commands[w]) \in CommandTypes
      /\ CommandOf(w, Head(commands[w])) /\ Head(commands[w]).op = "stop"
  BY HeadCommand DEF Shape, Due
<1>2. Head(commands[w]).by \in Stoppers /\ stops[Head(commands[w]).by].at = "ack"
  BY <1>1 DEF CommandTypes, CommandOf
<1>3. Made(stops[Head(commands[w]).by].obj)
  BY <1>2 DEF Shape, Stopping, StopOf
<1>4. QED
  BY <1>1, <1>2, <1>3 DEF Shape, TypeOK, Made

LEMMA PlaybackStartedKeeps ==
    ASSUME Shape, NEW w \in Windows, PlaybackStarted(w)
    PROVE  /\ ObjectsKept /\ requests' \in [Requests -> RequestStates]
           /\ commands' \in [Windows -> Seq(CommandTypes)]
<1>0. TypeOK /\ Commands /\ Stopping
  BY DEF Shape
<1> DEFINE q == Head(commands[w]).by
<1>1. q \in Requests /\ commands[w] # <<>>
  BY StartDue DEF PlaybackStarted
<1>2. commands' \in [Windows -> Seq(CommandTypes)]
  BY <1>0, <1>1, SettledCommands DEF PlaybackStarted
<1>3. /\ objects' = [objects EXCEPT ![q].started = TRUE]
      /\ requests' = [requests EXCEPT ![q].pc = "wait"]
  BY DEF PlaybackStarted
<1> HIDE DEF q
<1>4. requests' \in [Requests -> RequestStates]
  BY <1>0, <1>1, <1>3, MovesOn DEF Points
<1>5. [objects[q] EXCEPT !.started = TRUE] \in SessionStates
      /\ [objects[q] EXCEPT !.started = TRUE].win = objects[q].win
  BY <1>0, <1>1, ObjectTypes DEF SessionStates
<1>6. ObjectsKept
  BY <1>0, <1>1, <1>3, <1>5, PutObject
<1>7. QED
  BY <1>2, <1>4, <1>6

LEMMA StartFailedKeeps ==
    ASSUME Shape, NEW w \in Windows, StartFailed(w)
    PROVE  /\ ObjectsKept /\ requests' \in [Requests -> RequestStates]
           /\ stops' \in [Stoppers -> StopTypes]
           /\ commands' \in [Windows -> Seq(CommandTypes)]
<1>0. TypeOK /\ Commands /\ Stopping
  BY DEF Shape
<1> DEFINE q == Head(commands[w]).by
<1>1. q \in Requests /\ commands[w] # <<>>
  BY StartDue DEF StartFailed
<1>2. commands' \in [Windows -> Seq(CommandTypes)]
  BY <1>0, <1>1, SettledCommands DEF StartFailed
<1>3. /\ objects' = [objects EXCEPT ![q] = Ended(q, "error")]
      /\ requests' = [requests EXCEPT ![q].pc = "failing"]
      /\ stops' = [stops EXCEPT ![q] = [obj |-> q, at |-> "child"]]
  BY DEF StartFailed
<1> HIDE DEF q
<1>4. requests' \in [Requests -> RequestStates]
  BY <1>0, <1>1, <1>3, MovesOn DEF Points
<1>5. ObjectsKept
  BY <1>0, <1>1, <1>3, EndedFields, PutObject
<1>6. stops' \in [Stoppers -> StopTypes]
  BY <1>0, <1>1, <1>3 DEF TypeOK, StopTypes
<1>7. QED
  BY <1>2, <1>4, <1>5, <1>6

LEMMA StopSettledKeeps ==
    ASSUME Shape, NEW w \in Windows, StopSettled(w)
    PROVE  /\ ObjectsKept /\ stops' \in [Stoppers -> StopTypes]
           /\ commands' \in [Windows -> Seq(CommandTypes)]
           /\ \A o \in Requests : objects'[o].started = objects[o].started
           /\ \A o \in Requests : objects'[o].viewers = objects[o].viewers
<1>0. TypeOK /\ Commands /\ Stopping
  BY DEF Shape
<1> DEFINE c == Head(commands[w]).by
<1>1. commands[w] # <<>> /\ Due(w, "stop")
  BY DEF StopSettled, Due
<1>2. commands' \in [Windows -> Seq(CommandTypes)]
  BY <1>0, <1>1, SettledCommands DEF StopSettled
<1>3. CASE c = Nobody
  BY <1>0, <1>2, <1>3, KeptObjects DEF StopSettled, TypeOK, StopTypes
<1>4. CASE c # Nobody
  <2>1. c \in Stoppers /\ stops[c].obj \in Requests
    BY <1>1, <1>4, StopDue
  <2>2. /\ objects' = [objects EXCEPT ![stops[c].obj].ffmpeg = Kill(@)]
        /\ stops' = [stops EXCEPT ![c].at = "child"]
    BY <1>4 DEF StopSettled
  <2> HIDE DEF c
  <2> DEFINE o == stops[c].obj
  <2>3. /\ [objects[o] EXCEPT !.ffmpeg = Kill(@)] \in SessionStates
        /\ [objects[o] EXCEPT !.ffmpeg = Kill(@)].win = objects[o].win
        /\ [objects[o] EXCEPT !.ffmpeg = Kill(@)].started = objects[o].started
        /\ [objects[o] EXCEPT !.ffmpeg = Kill(@)].viewers = objects[o].viewers
    BY <1>0, <2>1, KilledFields
  <2>4. stops' \in [Stoppers -> StopTypes]
    <3>1. stops \in [Stoppers -> StopTypes]
      BY <1>0 DEF TypeOK, StopTypes
    <3>2. [stops[c] EXCEPT !.at = "child"] \in StopTypes
      BY <2>1, <3>1 DEF StopTypes
    <3>3. QED
      BY <2>1, <2>2, <3>1, <3>2
  <2> HIDE DEF o
  <2>5. objects' = [objects EXCEPT ![o] = [objects[o] EXCEPT !.ffmpeg = Kill(@)]]
    BY <2>2 DEF o
  <2>6. o \in Requests /\ objects \in [Requests -> SessionStates]
    BY <1>0, <2>1 DEF o, TypeOK
  <2> DEFINE r == [objects[o] EXCEPT !.ffmpeg = Kill(@)]
  <2>7. /\ r \in SessionStates /\ r.win = objects[o].win /\ r.started = objects[o].started
        /\ r.viewers = objects[o].viewers /\ objects' = [objects EXCEPT ![o] = r]
    BY <2>3, <2>5
  <2> HIDE DEF r
  <2>8. ObjectsKept
    BY <1>0, <2>6, <2>7, PutObject
  <2>9. QED
    BY <1>2, <2>4, <2>6, <2>7, <2>8
<1>5. QED
  BY <1>3, <1>4

\* A lost worker: the objects stopped or starting on it end.
LEMMA WorkerLostKeeps ==
    ASSUME Shape, NEW w \in Windows, WorkerLost(w)
    PROVE  /\ ObjectsKept /\ requests' \in [Requests -> RequestStates]
           /\ stops' \in [Stoppers -> StopTypes]
           /\ commands' \in [Windows -> Seq(CommandTypes)]
<1>0. TypeOK
  BY DEF Shape
<1> DEFINE starting == {q \in Requests : requests[q].pc = "starting" /\ objects[q].win = w}
           stopping == {c \in Stoppers : stops[c].at = "ack" /\ objects[stops[c].obj].win = w}
           killed(o) == [objects[o] EXCEPT !.ffmpeg = Kill(@)]
<1>1. commands' \in [Windows -> Seq(CommandTypes)]
  <2>1. commands \in [Windows -> Seq(CommandTypes)]
    BY <1>0 DEF TypeOK, CommandTypes
  <2>2. <<>> \in Seq(CommandTypes)
    BY EmptySeq
  <2>3. commands' = [commands EXCEPT ![w] = <<>>]
    BY DEF WorkerLost
  <2>4. QED
    BY <2>1, <2>2, <2>3
<1>2. objects' = [o \in Requests |->
            IF o \in starting THEN Ended(o, "error")
            ELSE IF \E c \in stopping : stops[c].obj = o THEN killed(o) ELSE objects[o]]
  BY DEF WorkerLost
<1>3. requests' = [q \in Requests |-> IF q \in starting
                                      THEN [requests[q] EXCEPT !.pc = "failing"]
                                      ELSE requests[q]]
  BY DEF WorkerLost
<1>4. stops' = [c \in Stoppers |->
            IF c \in starting THEN [obj |-> c, at |-> "child"]
            ELSE IF c \in stopping THEN [stops[c] EXCEPT !.at = "child"] ELSE stops[c]]
  BY DEF WorkerLost
<1>5. starting \subseteq Requests
  OBVIOUS
<1>6. ASSUME NEW o \in Requests
      PROVE  /\ Ended(o, "error") \in SessionStates /\ Ended(o, "error").win = objects[o].win
             /\ killed(o) \in SessionStates /\ killed(o).win = objects[o].win
             /\ objects[o] \in SessionStates
  BY <1>0, EndedFields, KilledFields, ObjectTypes
<1>7. ASSUME NEW q \in Requests
      PROVE  [requests[q] EXCEPT !.pc = "failing"] \in RequestStates /\ requests[q] \in RequestStates
  BY <1>0, CallMoves, CallTypes DEF Points
<1>8. ASSUME NEW c \in Stoppers
      PROVE  [stops[c] EXCEPT !.at = "child"] \in StopTypes /\ stops[c] \in StopTypes
  <2>1. stops[c] \in StopTypes
    BY <1>0 DEF TypeOK, StopTypes
  <2>2. QED
    BY <2>1 DEF StopTypes
<1> HIDE DEF killed, starting, stopping
<1>9. ObjectsKept
  BY <1>2, <1>6 DEF ObjectsKept
<1>10. requests' \in [Requests -> RequestStates]
  BY <1>3, <1>7
<1>11. stops' \in [Stoppers -> StopTypes]
  <2>1. \A c \in starting : [obj |-> c, at |-> "child"] \in StopTypes
    BY <1>5 DEF StopTypes
  <2>2. QED
    BY <1>4, <1>8, <2>1
<1>12. QED
  BY <1>1, <1>9, <1>10, <1>11

LEMMA PlayableKeeps ==
    ASSUME Shape, NEW q \in Requests, Playable(q)
    PROVE  /\ ObjectsKept /\ requests' \in [Requests -> RequestStates]
           /\ \A o \in Requests : objects'[o].started = objects[o].started
           /\ \A o \in Requests : objects'[o].viewers = objects[o].viewers
<1>0. TypeOK
  BY DEF Shape
<1> DEFINE o == requests[q].obj
           r == [objects[o] EXCEPT !.status = "ready"]
<1>1. o \in Requests /\ objects \in [Requests -> SessionStates]
  BY <1>0, AboutMade DEF Playable, TypeOK
<1>2. requests' \in [Requests -> RequestStates]
  BY <1>0, CallIdleOrDone, PutCall DEF Playable
<1>3. objects' = [objects EXCEPT ![o] = r]
  BY DEF Playable
<1>4. /\ r \in SessionStates /\ r.win = objects[o].win /\ r.started = objects[o].started
      /\ r.viewers = objects[o].viewers
  BY <1>1 DEF SessionStates
<1> HIDE DEF o, r
<1>5. ObjectsKept
  BY <1>0, <1>1, <1>3, <1>4, PutObject
<1>6. QED
  BY <1>1, <1>2, <1>3, <1>4, <1>5

LEMMA StopEndsKeeps ==
    ASSUME Shape, NEW c \in Stoppers, StopEnds(c)
    PROVE  /\ requests' \in [Requests -> RequestStates]
           /\ stops' \in [Stoppers -> StopTypes]
           /\ sessions' \in [Windows -> Requests \cup {None}]
           /\ \A w \in Windows : sessions'[w] \in {sessions[w], None}
<1>0. TypeOK /\ stops \in [Stoppers -> StopTypes]
  BY DEF Shape, TypeOK, StopTypes
<1>1. CASE c = Cleanup
  <2>1. stops' = [stops EXCEPT ![c].at = "rm"] /\ UNCHANGED requests
    BY <1>1 DEF StopEnds
  <2>2. [stops[c] EXCEPT !.at = "rm"] \in StopTypes
    BY <1>0 DEF StopTypes
  <2>3. stops' \in [Stoppers -> StopTypes]
    BY <1>0, <2>1, <2>2
  <2>4. sessions' = [sessions EXCEPT ![objects[stops[c].obj].win] = None]
    BY <1>1 DEF StopEnds
  <2>5. QED
    BY <1>0, <2>1, <2>3, <2>4 DEF TypeOK
<1>2. CASE c # Cleanup
  <2>1. /\ stops' = [stops EXCEPT ![c] = [obj |-> None, at |-> "none"]]
        /\ requests' = [requests EXCEPT ![c] = IF requests[c].pc = "failing" THEN Done ELSE requests[c]]
        /\ UNCHANGED sessions
    BY <1>2 DEF StopEnds
  <2>2. stops' \in [Stoppers -> StopTypes]
    BY <1>0, <2>1 DEF StopTypes
  <2>3. c \in Requests
    BY <1>2 DEF Stoppers
  <2>4. requests[c] \in RequestStates /\ Done \in RequestStates
    BY <1>0, <2>3, CallTypes, CallIdleOrDone
  <2>5. requests' \in [Requests -> RequestStates]
    BY <1>0, <2>1, <2>4 DEF TypeOK
  <2>6. QED
    BY <1>0, <2>1, <2>2, <2>5 DEF TypeOK
<1>3. QED
  BY <1>1, <1>2

LEMMA AccessKeeps ==
    ASSUME TypeOK, NEW o \in Requests, Access(o)
    PROVE  /\ ObjectsKept
           /\ \A p \in Requests : objects'[p].started = objects[p].started
           /\ \A p \in Requests : objects'[p].viewers = objects[p].viewers
<1> DEFINE r == [objects[o] EXCEPT !.age = "fresh"]
<1>1. objects' = [objects EXCEPT ![o] = r] /\ objects \in [Requests -> SessionStates]
  BY DEF Access, TypeOK
<1>2. /\ r \in SessionStates /\ r.win = objects[o].win /\ r.started = objects[o].started
      /\ r.viewers = objects[o].viewers
  BY <1>1 DEF SessionStates
<1> HIDE DEF r
<1>3. QED
  BY <1>1, <1>2 DEF ObjectsKept

LEMMA TimePassesKeeps ==
    ASSUME TypeOK, NEW o \in Requests, TimePasses(o)
    PROVE  /\ ObjectsKept
           /\ \A p \in Requests : objects'[p].started = objects[p].started
           /\ \A p \in Requests : objects'[p].viewers = objects[p].viewers
<1> DEFINE a == IF objects[o].age = "fresh" THEN "stale" ELSE "expired"
           r == [objects[o] EXCEPT !.age = a, !.grace = FALSE]
<1>1. objects' = [objects EXCEPT ![o] = r] /\ objects \in [Requests -> SessionStates]
  BY DEF TimePasses, TypeOK
<1>2. /\ r \in SessionStates /\ r.win = objects[o].win /\ r.started = objects[o].started
      /\ r.viewers = objects[o].viewers
  BY <1>1 DEF SessionStates
<1> HIDE DEF r
<1>3. QED
  BY <1>1, <1>2 DEF ObjectsKept

\* The call that made the directory makes its object, which had no window before.
LEMMA DirectoryMadeMakes ==
    ASSUME Shape, NEW q \in Requests, DirectoryMade(q)
    PROVE  /\ objects' \in [Requests -> SessionStates]
           /\ requests' \in [Requests -> RequestStates]
           /\ objects[q].win = None /\ requests[q].obj = q /\ requests[q].win \in Windows
           /\ objects'[q] = Session(requests[q].win, requests[q].viewer)
           /\ \A o \in Requests \ {q} : objects'[o] = objects[o]
           /\ \A w \in Windows : sessions[w] # q
           /\ TypeOK'
<1>0. TypeOK
  BY DEF Shape
<1>1. objects[q].win = None /\ requests[q].obj = q /\ requests[q].win \in Windows
  BY <1>0, CallTypes DEF DirectoryMade, Shape, Places, PlaceOf
<1>2. Session(requests[q].win, requests[q].viewer) \in SessionStates
  BY <1>0, <1>1, CallTypes DEF Session, SessionStates
<1>3. objects' \in [Requests -> SessionStates]
  BY <1>0, <1>2 DEF DirectoryMade, TypeOK
<1>4. requests' \in [Requests -> RequestStates]
  BY <1>0, MovesOn DEF DirectoryMade, Points
<1>5. /\ objects'[q] = Session(requests[q].win, requests[q].viewer)
      /\ \A o \in Requests \ {q} : objects'[o] = objects[o]
  BY <1>0 DEF DirectoryMade, TypeOK
<1>6. \A w \in Windows : sessions[w] # q
  BY <1>0, <1>1, Names DEF TypeOK
<1>7. sessions' = [sessions EXCEPT ![requests[q].win] = q] /\ media' \in SUBSET Windows
  BY <1>0 DEF DirectoryMade, TypeOK
<1>8. lockQueue' \in Seq(Requests)
  <2>1. lockQueue # <<>>
    BY DEF DirectoryMade, Shape, Queue, InTheQueue, Holds
  <2>2. QED
    BY <1>0, <2>1, HeadTailProperties DEF DirectoryMade, TypeOK
<1>9. \A w \in Windows : sessions'[w] # None => objects'[sessions'[w]].win = w
  <2>1. objects'[q].win = requests[q].win
    BY <1>5 DEF Session
  <2>2. ASSUME NEW w \in Windows, sessions'[w] # None, w # requests[q].win
        PROVE  objects'[sessions'[w]].win = w
    <3>1. sessions'[w] = sessions[w] /\ sessions[w] \in Requests \ {q}
      BY <1>0, <1>6, <1>7, <2>2 DEF TypeOK
    <3>2. QED
      BY <1>0, <1>5, <2>2, <3>1 DEF TypeOK
  <2>3. QED
    BY <1>0, <1>1, <1>7, <2>1, <2>2 DEF TypeOK
<1>10. TypeOK'
  <2>1. sessions' \in [Windows -> Requests \cup {None}]
    BY <1>0, <1>7 DEF TypeOK
  <2>2. UNCHANGED <<stops, sweep, slots, commands, playing>>
    BY DEF DirectoryMade, poolVars
  <2>3. QED
    BY <1>0, <1>3, <1>4, <1>7, <1>8, <1>9, <2>1, <2>2 DEF TypeOK
<1>11. QED
  BY <1>1, <1>3, <1>4, <1>5, <1>6, <1>10

LEMMA TypesOf ==
    ASSUME TypeOK
    PROVE  /\ sessions \in [Windows -> Requests \cup {None}]
           /\ objects \in [Requests -> SessionStates]
           /\ requests \in [Requests -> RequestStates]
           /\ lockQueue \in Seq(Requests)
           /\ stops \in [Stoppers -> StopTypes]
           /\ sweep \in SUBSET Requests /\ slots \in SUBSET Windows
           /\ commands \in [Windows -> Seq(CommandTypes)]
           /\ playing \in SUBSET Windows /\ media \in SUBSET Windows
BY DEF TypeOK, StopTypes, CommandTypes

\* A step that leaves the map and keeps the types of all that is hard to see.
LEMMA TypesKeptHere ==
    ASSUME TypeOK, ObjectsKept, UNCHANGED sessions,
           requests' \in [Requests -> RequestStates], lockQueue' \in Seq(Requests),
           stops' \in [Stoppers -> StopTypes], commands' \in [Windows -> Seq(CommandTypes)],
           sweep' \in SUBSET Requests, slots' \in SUBSET Windows,
           playing' \in SUBSET Windows, media' \in SUBSET Windows
    PROVE  TypeOK'
<1>1. sessions' \in [Windows -> Requests \cup {None}] /\ \A w \in Windows : sessions'[w] = sessions[w]
  BY DEF TypeOK
<1>2. QED
  BY <1>1, TypesKept

LEMMA QueueTail ==
    ASSUME Shape, NEW q \in Requests, requests[q].pc \in InTheQueue
    PROVE  Tail(lockQueue) \in Seq(Requests) /\ lockQueue # <<>> /\ Head(lockQueue) = q
<1>1. lockQueue # <<>> /\ Head(lockQueue) = q
  BY DEF Shape, Queue, Holds
<1>2. QED
  BY <1>1, HeadTailProperties DEF Shape, TypeOK

\* Every step keeps the types.
LEMMA TypePreserved == Shape /\ [Next]_vars => TypeOK'
<1> SUFFICES ASSUME Shape, [Next]_vars
             PROVE  TypeOK'
  OBVIOUS
<1>0. TypeOK
  BY DEF Shape
<1>q. /\ sessions \in [Windows -> Requests \cup {None}]
      /\ requests \in [Requests -> RequestStates]
      /\ lockQueue \in Seq(Requests)
      /\ stops \in [Stoppers -> StopTypes]
      /\ sweep \in SUBSET Requests /\ slots \in SUBSET Windows
      /\ commands \in [Windows -> Seq(CommandTypes)]
      /\ playing \in SUBSET Windows /\ media \in SUBSET Windows
  BY <1>0, TypesOf
<1>1. ASSUME NEW q \in Requests, NEW v \in Viewers, ReleaseViewer(q, v)
      PROVE  TypeOK'
  <2>1. [Idle EXCEPT !.pc = "lock", !.viewer = v] \in RequestStates
    BY DEF Idle, RequestStates, Points
  <2>2. Append(lockQueue, q) \in Seq(Requests)
    BY <1>q, AppendProperties
  <2>3. requests' \in [Requests -> RequestStates]
    BY <1>0, <1>1, <2>1, PutCall DEF ReleaseViewer
  <2>4. QED
    BY <1>0, <1>q, <1>1, <2>2, <2>3, TypesKeptHere, KeptObjects DEF ReleaseViewer, poolVars
<1>2. ASSUME NEW q \in Requests, NEW v \in Viewers, NEW w \in Windows, Request(q, v, w)
      PROVE  TypeOK'
  <2>1. [Idle EXCEPT !.pc = "lock", !.viewer = v, !.win = w] \in RequestStates
    BY DEF Idle, RequestStates, Points
  <2>2. Append(lockQueue, q) \in Seq(Requests)
    BY <1>q, AppendProperties
  <2>3. requests' \in [Requests -> RequestStates]
    BY <1>0, <1>2, <2>1, PutCall DEF Request
  <2>4. QED
    BY <1>0, <1>q, <1>2, <2>2, <2>3, TypesKeptHere, KeptObjects DEF Request, poolVars
<1>3. ASSUME NEW q \in Requests, Enter(q)
      PROVE  TypeOK'
  BY <1>0, <1>q, <1>3, EnterKeeps, TypesKeptHere DEF Enter, poolVars
<1>4. ASSUME NEW q \in Requests, RetireLeft(q)
      PROVE  TypeOK'
  <2>1. stops' \in [Stoppers -> StopTypes] /\ commands' \in [Windows -> Seq(CommandTypes)]
    BY <1>0, <1>4, RetireLeftKeeps, BeginStopTypes DEF Stoppers
  <2>2. QED
    BY <1>0, <1>q, <1>4, <2>1, RetireLeftKeeps, TypesKeptHere DEF RetireLeft
<1>5. ASSUME NEW q \in Requests, Released(q)
      PROVE  TypeOK'
  <2>1. lockQueue' \in Seq(Requests)
    BY <1>q, <1>5, QueueTail DEF Released, InTheQueue
  <2>2. QED
    BY <1>0, <1>q, <1>5, <2>1, ReleasedKeeps, TypesKeptHere DEF Released, poolVars
<1>6. ASSUME NEW q \in Requests, Evict(q)
      PROVE  TypeOK'
  <2>1. stops' \in [Stoppers -> StopTypes] /\ commands' \in [Windows -> Seq(CommandTypes)]
    BY <1>0, <1>q, <1>6, EvictKeeps, BeginStopTypes DEF Stoppers
  <2>2. QED
    BY <1>0, <1>q, <1>6, <2>1, EvictKeeps, TypesKeptHere DEF Evict
<1>7. ASSUME NEW q \in Requests, PoolFull(q)
      PROVE  TypeOK'
  <2>1. lockQueue' \in Seq(Requests)
    BY <1>q, <1>7, QueueTail DEF PoolFull, InTheQueue
  <2>2. requests' \in [Requests -> RequestStates]
    BY <1>0, <1>7, PutCall, CallIdleOrDone DEF PoolFull
  <2>3. QED
    BY <1>0, <1>q, <1>7, <2>1, <2>2, TypesKeptHere, KeptObjects DEF PoolFull, poolVars
<1>8. ASSUME NEW q \in Requests, HasRoom(q)
      PROVE  TypeOK'
  <2>1. [requests[q] EXCEPT !.pc = "dir", !.todo = {}] \in RequestStates
    <3>1. requests[q] \in RequestStates /\ "dir" \in Points /\ {} \in SUBSET Requests
      BY <1>0, CallTypes DEF Points
    <3>2. QED
      BY <3>1, CallGoesOn
  <2>2. requests' \in [Requests -> RequestStates]
    BY <1>0, <1>8, <2>1 DEF HasRoom, TypeOK
  <2>3. QED
    BY <1>0, <1>q, <1>8, <2>2, TypesKeptHere, KeptObjects DEF HasRoom, poolVars
<1>9. ASSUME NEW q \in Requests, DirectoryFails(q)
      PROVE  TypeOK'
  <2>1. lockQueue' \in Seq(Requests)
    BY <1>q, <1>9, QueueTail DEF DirectoryFails, InTheQueue
  <2>2. requests' \in [Requests -> RequestStates]
    BY <1>0, <1>9, PutCall, CallIdleOrDone DEF DirectoryFails
  <2>3. QED
    BY <1>0, <1>q, <1>9, <2>1, <2>2, TypesKeptHere, KeptObjects DEF DirectoryFails, poolVars
<1>10. ASSUME NEW q \in Requests, Spawn(q)
       PROVE  TypeOK'
  <2>1. slots' \in SUBSET Windows
    BY <1>q, <1>10, SpawnKeeps DEF Spawn
  <2>2. QED
    BY <1>0, <1>q, <1>10, <2>1, SpawnKeeps, TypesKeptHere DEF Spawn
<1>11. ASSUME NEW q \in Requests, SpawnRefused(q)
       PROVE  TypeOK'
  <2>1. stops' \in [Stoppers -> StopTypes] /\ commands' \in [Windows -> Seq(CommandTypes)]
    BY <1>0, <1>11, SpawnRefusedKeeps, BeginStopTypes DEF Stoppers
  <2>2. QED
    BY <1>0, <1>q, <1>11, <2>1, SpawnRefusedKeeps, TypesKeptHere DEF SpawnRefused
<1>12. ASSUME NEW q \in Requests, Poll(q) \/ NotPlayable(q)
       PROVE  TypeOK'
  <2>1. requests' \in [Requests -> RequestStates]
    BY <1>0, <1>12, MovesOn DEF Poll, NotPlayable, Points
  <2>2. QED
    BY <1>0, <1>q, <1>12, <2>1, TypesKeptHere, KeptObjects DEF Poll, NotPlayable, poolVars
<1>13. ASSUME NEW q \in Requests, Playable(q)
       PROVE  TypeOK'
  BY <1>0, <1>q, <1>13, PlayableKeeps, TypesKeptHere DEF Playable, poolVars
<1>14. ASSUME NEW q \in Requests, NotReady(q)
       PROVE  TypeOK'
  <2>1. stops' \in [Stoppers -> StopTypes] /\ commands' \in [Windows -> Seq(CommandTypes)]
    <3>1. CASE UNCHANGED <<stops, commands>>
      BY <1>q, <3>1
    <3>2. CASE requests[q].obj = q /\ BeginStop(q, q)
      BY <1>0, <1>14, <3>2, NotReadyKeeps, BeginStopTypes DEF Stoppers
    <3>3. QED
      BY <1>14, <3>1, <3>2, NotReadyKeeps
  <2>2. QED
    BY <1>0, <1>q, <1>14, <2>1, NotReadyKeeps, TypesKeptHere DEF NotReady
<1>15. ASSUME NEW w \in Windows, PlaybackStarted(w)
       PROVE  TypeOK'
  <2>1. playing' \in SUBSET Windows
    BY <1>q, <1>15 DEF PlaybackStarted
  <2>2. QED
    BY <1>0, <1>q, <1>15, <2>1, PlaybackStartedKeeps, TypesKeptHere DEF PlaybackStarted
<1>16. ASSUME NEW w \in Windows, StartFailed(w)
       PROVE  TypeOK'
  <2>1. slots' \in SUBSET Windows /\ playing' \in SUBSET Windows
    BY <1>q, <1>16 DEF StartFailed
  <2>2. QED
    BY <1>0, <1>q, <1>16, <2>1, StartFailedKeeps, TypesKeptHere DEF StartFailed
<1>17. ASSUME NEW w \in Windows, StopSettled(w)
       PROVE  TypeOK'
  <2>1. slots' \in SUBSET Windows /\ playing' \in SUBSET Windows
    BY <1>q, <1>17 DEF StopSettled
  <2>2. QED
    BY <1>0, <1>q, <1>17, <2>1, StopSettledKeeps, TypesKeptHere DEF StopSettled
<1>18. ASSUME NEW w \in Windows, WorkerLost(w)
       PROVE  TypeOK'
  <2>1. slots' \in SUBSET Windows /\ playing' \in SUBSET Windows
    BY <1>q, <1>18 DEF WorkerLost
  <2>2. QED
    BY <1>0, <1>q, <1>18, <2>1, WorkerLostKeeps, TypesKeptHere DEF WorkerLost
<1>19. ASSUME NEW c \in Stoppers, StopEnds(c)
       PROVE  TypeOK'
  BY <1>0, <1>q, <1>19, StopEndsKeeps, TypesKept, KeptObjects DEF StopEnds, poolVars
<1>20. ASSUME NEW o \in Requests, FfmpegExit(o)
       PROVE  TypeOK'
  <2>1. ObjectsKept
    BY <1>0, <1>20, ExitedFields, PutObject DEF FfmpegExit
  <2>2. commands' \in [Windows -> Seq(CommandTypes)]
    <3>1. [op |-> "stop", by |-> Nobody] \in CommandTypes
      BY DEF CommandTypes
    <3>3. QED
      <4> DEFINE e == [op |-> "stop", by |-> Nobody]
                 w == objects[o].win
      <4>1. \/ UNCHANGED commands
            \/ commands' = [commands EXCEPT ![w] = Append(commands[w], e)]
        BY <1>20 DEF FfmpegExit, SendStop
      <4> HIDE DEF e, w
      <4>2. CASE w \in Windows
        <5>1. e \in CommandTypes
          BY <3>1 DEF e
        <5>2. commands[w] \in Seq(CommandTypes)
          BY <1>q, <4>2
        <5>3. Append(commands[w], e) \in Seq(CommandTypes)
          BY <5>1, <5>2, AppendProperties
        <5>4. QED
          BY <1>q, <4>1, <4>2, <5>3
      <4>3. CASE w \notin Windows
        BY <1>q, <4>1, <4>3
      <4>4. QED
        BY <4>2, <4>3
  <2>3. QED
    BY <1>0, <1>q, <1>20, <2>1, <2>2, TypesKeptHere DEF FfmpegExit
<1>21. ASSUME NEW o \in Requests, Produce(o)
       PROVE  TypeOK'
  <2>1. media' \in SUBSET Windows
    BY <1>q, <1>21 DEF Produce
  <2>2. QED
    BY <1>0, <1>q, <1>21, <2>1, TypesKeptHere, KeptObjects DEF Produce, poolVars
<1>22. ASSUME NEW o \in Requests, Access(o)
       PROVE  TypeOK'
  BY <1>0, <1>q, <1>22, AccessKeeps, TypesKeptHere DEF Access, poolVars
<1>23. ASSUME NEW o \in Requests, TimePasses(o)
       PROVE  TypeOK'
  BY <1>0, <1>q, <1>23, TimePassesKeeps, TypesKeptHere DEF TimePasses, poolVars
<1>24. ASSUME NEW o \in Requests, CleanupNext(o)
       PROVE  TypeOK'
  <2>1. sweep' \in SUBSET Requests
    BY <1>q, <1>24 DEF CleanupNext
  <2>2. CASE Expired(o)
    <3>1. objects' = [objects EXCEPT ![o] = Ended(o, "cancelled")] /\ BeginStop(Cleanup, o)
      BY <1>24, <2>2 DEF CleanupNext
    <3>2. Made(o)
      BY <1>24 DEF CleanupNext, Shape, Swept
    <3>3. stops' \in [Stoppers -> StopTypes] /\ commands' \in [Windows -> Seq(CommandTypes)]
      BY <1>0, <3>1, <3>2, BeginStopTypes DEF Stoppers
    <3>4. ObjectsKept
      BY <1>0, <3>1, EndedFields, PutObject
    <3>5. QED
      BY <1>0, <1>q, <1>24, <2>1, <3>3, <3>4, TypesKeptHere DEF CleanupNext
  <2>3. CASE ~Expired(o)
    BY <1>0, <1>q, <1>24, <2>1, <2>3, TypesKeptHere, KeptObjects DEF CleanupNext
  <2>4. QED
    BY <2>2, <2>3
<1>25. ASSUME CleanupBegins
       PROVE  TypeOK'
  <2>1. sweep' \in SUBSET Requests
    BY <1>25 DEF CleanupBegins, Mapped
  <2>2. QED
    BY <1>0, <1>q, <1>25, <2>1, TypesKeptHere, KeptObjects DEF CleanupBegins, poolVars
<1>26. ASSUME DirectoryRemoved
       PROVE  TypeOK'
  <2>1. stops' \in [Stoppers -> StopTypes] /\ media' \in SUBSET Windows
    BY <1>q, <1>26 DEF DirectoryRemoved, StopTypes
  <2>2. QED
    BY <1>0, <1>q, <1>26, <2>1, TypesKeptHere, KeptObjects DEF DirectoryRemoved, poolVars
<1>27. CASE UNCHANGED vars
  BY <1>0, <1>q, <1>27, TypesKeptHere, KeptObjects DEF vars
<1>28. QED
  BY <1>1, <1>2, <1>3, <1>4, <1>5, <1>6, <1>7, <1>8, <1>9, <1>10, <1>11, <1>12, <1>13, <1>14,
     <1>15, <1>16, <1>17, <1>18, <1>19, <1>20, <1>21, <1>22, <1>23, <1>24, <1>25, <1>26, <1>27,
     DirectoryMadeMakes DEF Next, InQueue

-----------------------------------------------------------------------------
(* What a step does to the calls.                                          *)

\* The calls but q's, and what of q's only a new call sets.
OthersKept(q) == \A p \in Requests \ {q} : requests'[p] = requests[p]
SameCall(q) == requests'[q].viewer = requests[q].viewer /\ requests'[q].win = requests[q].win

LEMMA Moved ==
    ASSUME TypeOK, NEW q \in Requests, NEW p \in Points,
           requests' = [requests EXCEPT ![q].pc = p]
    PROVE  /\ OthersKept(q) /\ SameCall(q)
           /\ requests'[q].pc = p /\ requests'[q].obj = requests[q].obj
           /\ requests'[q].todo = requests[q].todo
<1>1. requests \in [Requests -> RequestStates]
  BY DEF TypeOK
<1>2. requests[q] \in RequestStates
  BY <1>1
<1>3. requests'[q] = [requests[q] EXCEPT !.pc = p]
  BY <1>1
<1>4. OthersKept(q)
  BY <1>1 DEF OthersKept
<1>5. QED
  BY <1>2, <1>3, <1>4 DEF RequestStates, SameCall

LEMMA Looked ==
    ASSUME TypeOK, NEW q \in Requests, NEW T,
           requests' = [requests EXCEPT ![q].todo = T]
    PROVE  /\ OthersKept(q) /\ SameCall(q)
           /\ requests'[q].pc = requests[q].pc /\ requests'[q].obj = requests[q].obj
           /\ requests'[q].todo = T
<1>1. requests \in [Requests -> RequestStates]
  BY DEF TypeOK
<1>2. requests[q] \in RequestStates
  BY <1>1
<1>3. requests'[q] = [requests[q] EXCEPT !.todo = T]
  BY <1>1
<1>4. OthersKept(q)
  BY <1>1 DEF OthersKept
<1>5. QED
  BY <1>2, <1>3, <1>4 DEF RequestStates, SameCall

\* The call q goes on to p, with a loop over T.
Went(q, p, T) ==
    /\ OthersKept(q) /\ SameCall(q)
    /\ requests'[q].pc = p /\ requests'[q].obj = requests[q].obj
    /\ requests'[q].todo = T

LEMMA WentOn ==
    ASSUME TypeOK, NEW q \in Requests, NEW p \in Points, NEW T,
           requests' = [requests EXCEPT ![q] = [requests[q] EXCEPT !.pc = p, !.todo = T]]
    PROVE  Went(q, p, T)
<1>1. requests \in [Requests -> RequestStates]
  BY DEF TypeOK
<1>2. requests[q] \in RequestStates
  BY <1>1
<1>3. requests'[q] = [requests[q] EXCEPT !.pc = p, !.todo = T]
  BY <1>1
<1>4. OthersKept(q)
  BY <1>1 DEF OthersKept
<1>5. /\ requests'[q].pc = p /\ requests'[q].obj = requests[q].obj
      /\ requests'[q].todo = T
  BY <1>2, <1>3 DEF RequestStates
<1>6. SameCall(q)
  BY <1>2, <1>3 DEF RequestStates, SameCall
<1>7. QED
  BY <1>4, <1>5, <1>6 DEF Went

LEMMA IsDone ==
    ASSUME TypeOK, NEW q \in Requests, requests' = [requests EXCEPT ![q] = Done]
    PROVE  /\ OthersKept(q)
           /\ requests'[q].pc = "done" /\ requests'[q].viewer = NoViewer
           /\ requests'[q].todo = {}
<1>1. requests \in [Requests -> RequestStates]
  BY DEF TypeOK
<1>2. requests'[q] = Done
  BY <1>1
<1>3. Done.pc = "done" /\ Done.viewer = NoViewer /\ Done.todo = {}
  BY DEF Done, Idle
<1>4. QED
  BY <1>1, <1>2, <1>3 DEF OthersKept

\* A new call: with a window, or releaseViewer().
LEMMA Begun ==
    ASSUME TypeOK, NEW q \in Requests, NEW v \in Viewers,
           ReleaseViewer(q, v) \/ \E w \in Windows : Request(q, v, w)
    PROVE  /\ OthersKept(q)
           /\ requests[q].pc = "idle" /\ requests'[q].pc = "lock"
           /\ requests'[q].todo = {} /\ requests'[q].viewer = v
<1>1. requests \in [Requests -> RequestStates]
  BY DEF TypeOK
<1>2. ASSUME NEW c, requests' = [requests EXCEPT ![q] = c]
      PROVE  requests'[q] = c /\ OthersKept(q)
  BY <1>1, <1>2 DEF OthersKept
<1>3. requests[q].pc = "idle"
  <2>1. requests[q] = Idle
    BY DEF ReleaseViewer, Request
  <2>2. QED
    BY <2>1 DEF Idle
<1>4. CASE ReleaseViewer(q, v)
  <2> DEFINE c == [Idle EXCEPT !.pc = "lock", !.viewer = v]
  <2>1. c.pc = "lock" /\ c.todo = {} /\ c.viewer = v
    BY DEF Idle
  <2>2. requests' = [requests EXCEPT ![q] = c]
    BY <1>4 DEF ReleaseViewer
  <2> HIDE DEF c
  <2>3. QED
    BY <1>2, <1>3, <2>1, <2>2
<1>5. ASSUME NEW w \in Windows, Request(q, v, w)
      PROVE  /\ OthersKept(q) /\ requests'[q].pc = "lock"
             /\ requests'[q].todo = {} /\ requests'[q].viewer = v
  <2> DEFINE c == [Idle EXCEPT !.pc = "lock", !.viewer = v, !.win = w]
  <2>1. c.pc = "lock" /\ c.todo = {} /\ c.viewer = v
    BY DEF Idle
  <2>2. requests' = [requests EXCEPT ![q] = c]
    BY <1>5 DEF Request
  <2> HIDE DEF c
  <2>3. QED
    BY <1>2, <2>1, <2>2
<1>6. QED
  BY <1>3, <1>4, <1>5

\* Enter: the call is about the session it found, or about its own, or is only to
\* release its viewer.
LEMMA Entered ==
    ASSUME TypeOK, NEW q \in Requests, Enter(q)
    PROVE  /\ OthersKept(q) /\ SameCall(q)
           /\ requests[q].pc = "lock" /\ Holds(q)
           /\ requests'[q].pc = "release"
           /\ requests'[q].todo = LoopOver(requests[q].viewer)
           /\ \/ /\ requests[q].win \in Windows
                 /\ requests'[q].obj \in Existing(requests[q].win)
                 /\ objects' = [objects EXCEPT ![requests'[q].obj] =
                                  Seen(requests'[q].obj, requests[q].viewer)]
              \/ /\ UNCHANGED objects
                 /\ requests'[q].obj = IF requests[q].win = None THEN None ELSE q
<1> DEFINE r(o) == [requests[q] EXCEPT !.pc = "release", !.obj = o,
                                       !.todo = LoopOver(requests[q].viewer)]
<1>1. ASSUME NEW o
      PROVE  /\ r(o).pc = "release" /\ r(o).obj = o /\ r(o).todo = LoopOver(requests[q].viewer)
             /\ r(o).viewer = requests[q].viewer /\ r(o).win = requests[q].win
  <2>1. requests[q] \in RequestStates
    BY CallTypes
  <2>2. QED
    BY <2>1 DEF RequestStates
<1>2. \/ /\ requests[q].win # None
         /\ \E o \in Existing(requests[q].win) :
              /\ objects' = [objects EXCEPT ![o] = Seen(o, requests[q].viewer)]
              /\ requests' = [requests EXCEPT ![q] = r(o)]
      \/ /\ UNCHANGED objects
         /\ requests' = [requests EXCEPT ![q] = r(IF requests[q].win = None THEN None ELSE q)]
  BY Zenon DEF Enter, Lookup
<1>3. requests \in [Requests -> RequestStates] /\ requests[q].win \in Windows \cup {None}
  BY CallTypes DEF TypeOK
<1>4. requests[q].pc = "lock" /\ Holds(q)
  BY DEF Enter
<1> HIDE DEF r
<1>5. ASSUME NEW o, requests' = [requests EXCEPT ![q] = r(o)]
      PROVE  /\ OthersKept(q) /\ SameCall(q) /\ requests'[q].pc = "release"
             /\ requests'[q].todo = LoopOver(requests[q].viewer) /\ requests'[q].obj = o
  <2>1. requests'[q] = r(o) /\ OthersKept(q)
    BY <1>3, <1>5 DEF OthersKept
  <2>2. QED
    BY <1>1, <2>1 DEF SameCall
<1>6. CASE /\ requests[q].win # None
           /\ \E o \in Existing(requests[q].win) :
              /\ objects' = [objects EXCEPT ![o] = Seen(o, requests[q].viewer)]
              /\ requests' = [requests EXCEPT ![q] = r(o)]
  BY <1>3, <1>4, <1>5, <1>6
<1>7. CASE /\ UNCHANGED objects
           /\ requests' = [requests EXCEPT ![q] = r(IF requests[q].win = None THEN None ELSE q)]
  BY <1>4, <1>5, <1>7
<1>8. QED
  BY <1>2, <1>6, <1>7

\* The release loop is over.
LEMMA WasReleased ==
    ASSUME TypeOK, NEW q \in Requests, Released(q)
    PROVE  /\ OthersKept(q)
           /\ \/ /\ Creates(q) /\ SameCall(q) /\ requests'[q].pc = "capacity"
                 /\ requests'[q].todo = Active(q) /\ requests'[q].obj = q
                 /\ UNCHANGED lockQueue
              \/ /\ requests[q].obj = None /\ lockQueue' = Tail(lockQueue)
                 /\ requests'[q].pc = "done" /\ requests'[q].viewer = NoViewer
                 /\ requests'[q].todo = {}
              \/ /\ Shares(q) /\ SameCall(q) /\ requests'[q].pc = "wait"
                 /\ requests'[q].todo = {} /\ requests'[q].obj = requests[q].obj
                 /\ lockQueue' = Tail(lockQueue)
<1>1. CASE Creates(q)
  <2>1. requests' = [requests EXCEPT ![q] = [requests[q] EXCEPT !.pc = "capacity", !.todo = Active(q)]]
        /\ UNCHANGED lockQueue
    BY <1>1 DEF Released
  <2>2. "capacity" \in Points
    BY DEF Points
  <2>3. Went(q, "capacity", Active(q))
    BY <2>1, <2>2, WentOn
  <2>4. QED
    BY <1>1, <2>1, <2>3 DEF Creates, Went
<1>2. CASE ~Creates(q) /\ requests[q].obj = None
  <2>1. requests' = [requests EXCEPT ![q] = Done] /\ lockQueue' = Tail(lockQueue)
    BY <1>2 DEF Released
  <2>2. QED
    BY <1>2, <2>1, IsDone
<1>3. CASE ~Creates(q) /\ requests[q].obj # None
  <2>1. requests' = [requests EXCEPT ![q] = [requests[q] EXCEPT !.pc = "wait", !.todo = {}]]
        /\ lockQueue' = Tail(lockQueue)
    BY <1>3 DEF Released
  <2>2. "wait" \in Points
    BY DEF Points
  <2>3. Went(q, "wait", {})
    BY <2>1, <2>2, WentOn
  <2>4. QED
    BY <1>3, <2>1, <2>3 DEF Creates, Shares, Went
<1>4. QED
  BY <1>1, <1>2, <1>3

-----------------------------------------------------------------------------
(* An object that is made keeps its window.                                *)

LEMMA StepWins ==
    ASSUME Shape, [Next]_vars
    PROVE  ObjectsKept \/ \E q \in Requests : DirectoryMade(q)
<1>0. TypeOK
  BY DEF Shape
<1>1. ASSUME NEW q \in Requests, NEW v \in Viewers,
             ReleaseViewer(q, v) \/ \E w \in Windows : Request(q, v, w)
      PROVE  ObjectsKept
  BY <1>0, <1>1, KeptObjects DEF ReleaseViewer, Request
<1>2. ASSUME NEW q \in Requests, InQueue(q)
      PROVE  ObjectsKept \/ DirectoryMade(q)
  <2>1. CASE PoolFull(q) \/ HasRoom(q) \/ DirectoryFails(q)
    BY <1>0, <2>1, KeptObjects DEF PoolFull, HasRoom, DirectoryFails
  <2>2. QED
    BY <1>0, <1>2, <2>1, EnterKeeps, RetireLeftKeeps, ReleasedKeeps, EvictKeeps DEF InQueue
<1>3. ASSUME NEW q \in Requests, Spawn(q) \/ SpawnRefused(q) \/ Poll(q) \/ NotPlayable(q)
                                 \/ Playable(q) \/ NotReady(q)
      PROVE  ObjectsKept
  <2>1. CASE Poll(q) \/ NotPlayable(q)
    BY <1>0, <2>1, KeptObjects DEF Poll, NotPlayable
  <2>2. QED
    BY <1>3, <2>1, SpawnKeeps, SpawnRefusedKeeps, PlayableKeeps, NotReadyKeeps
<1>4. ASSUME NEW w \in Windows,
             PlaybackStarted(w) \/ StartFailed(w) \/ StopSettled(w) \/ WorkerLost(w)
      PROVE  ObjectsKept
  BY <1>4, PlaybackStartedKeeps, StartFailedKeeps, StopSettledKeeps, WorkerLostKeeps
<1>5. ASSUME NEW c \in Stoppers, StopEnds(c)
      PROVE  ObjectsKept
  BY <1>0, <1>5, KeptObjects DEF StopEnds
<1>6. ASSUME NEW o \in Requests, FfmpegExit(o)
      PROVE  ObjectsKept
  BY <1>0, <1>6, ExitedFields, PutObject DEF FfmpegExit
<1>7. ASSUME NEW o \in Requests, Produce(o) \/ Access(o) \/ TimePasses(o)
      PROVE  ObjectsKept
  <2>1. CASE Produce(o)
    BY <1>0, <2>1, KeptObjects DEF Produce
  <2>2. QED
    BY <1>0, <1>7, <2>1, AccessKeeps, TimePassesKeeps
<1>8. ASSUME NEW o \in Requests, CleanupNext(o)
      PROVE  ObjectsKept
  BY <1>0, <1>8, EndedFields, PutObject, KeptObjects DEF CleanupNext
<1>9. CASE CleanupBegins \/ DirectoryRemoved \/ UNCHANGED vars
  BY <1>0, <1>9, KeptObjects DEF CleanupBegins, DirectoryRemoved, vars
<1>10. QED
  BY <1>1, <1>2, <1>3, <1>4, <1>5, <1>6, <1>7, <1>8, <1>9 DEF Next

LEMMA MadeGrows ==
    ASSUME Shape, [Next]_vars, NEW o \in Requests, Made(o)
    PROVE  objects'[o].win = objects[o].win
<1>1. CASE ObjectsKept
  BY <1>1 DEF ObjectsKept
<1>2. ASSUME NEW q \in Requests, DirectoryMade(q)
      PROVE  objects'[o].win = objects[o].win
  BY <1>2, DirectoryMadeMakes DEF Made
<1>3. QED
  BY <1>1, <1>2, StepWins

LEMMA MadeStays ==
    ASSUME Shape, [Next]_vars, NEW o, o \in Requests \cup {None}, Made(o)
    PROVE  Made(o)'
<1>1. o \in Requests
  BY DEF Made
<1>2. QED
  BY <1>1, MadeGrows DEF Made

\* The sweep is of objects that were made.
LEMMA SweptPreserved ==
    ASSUME Shape, [Next]_vars
    PROVE  Swept'
<1>0. TypeOK
  BY DEF Shape
<1>1. sweep' \subseteq sweep \cup Mapped
  BY DEF Next, vars, ReleaseViewer, Request, InQueue, Enter, RetireLeft, Released, Evict, PoolFull,
         HasRoom, DirectoryMade, DirectoryFails, Spawn, SpawnRefused, Poll, NotPlayable, Playable,
         NotReady, PlaybackStarted, StartFailed, StopSettled, WorkerLost, StopEnds, FfmpegExit,
         Produce, Access, TimePasses, CleanupNext, CleanupBegins, DirectoryRemoved
<1>2. \A o \in sweep \cup Mapped : o \in Requests /\ Made(o)
  BY <1>0, MappedMade, TypesOf DEF Shape, Swept
<1>3. QED
  BY <1>1, <1>2, MadeStays DEF Swept

-----------------------------------------------------------------------------
(* Where the calls are.                                                    *)

\* A call that does not move, and begins no stop, is where it was.
LEMMA PlaceKept ==
    ASSUME Shape, [Next]_vars, NEW p \in Requests, requests'[p] = requests[p],
           NotStopping(p) => NotStopping(p)',
           ObjectsKept \/ requests[p].pc \notin {"idle", "lock", "release", "capacity", "dir"}
    PROVE  PlaceOf(p)'
<1>1. PlaceOf(p) /\ requests[p].obj \in Requests \cup {None} /\ requests[p].todo \in SUBSET Requests
  BY CallTypes DEF Shape, Places
<1>2. Made(requests[p].obj) => Made(requests[p].obj)'
  BY <1>1, MadeStays
<1>3. \A o \in requests[p].todo : Made(o)'
  BY <1>1, MadeStays DEF PlaceOf
<1>4. ObjectsKept => objects'[p].win = objects[p].win
  BY DEF ObjectsKept
<1>5. QED
  BY <1>1, <1>2, <1>3, <1>4 DEF PlaceOf

\* A step that leaves all calls and stops where they were.
LEMMA PlacesKept ==
    ASSUME Shape, [Next]_vars, ObjectsKept, UNCHANGED requests,
           \A p \in Requests : NotStopping(p) => NotStopping(p)'
    PROVE  Places'
<1>1. ASSUME NEW p \in Requests
      PROVE  PlaceOf(p)'
  BY PlaceKept
<1>2. QED
  BY <1>1 DEF Places

\* A step of q's call leaves the others where they were.
LEMMA PlacesButOne ==
    ASSUME Shape, [Next]_vars, NEW q \in Requests, ObjectsKept, OthersKept(q), PlaceOf(q)',
           \A p \in Requests \ {q} : NotStopping(p) => NotStopping(p)'
    PROVE  Places'
<1>1. ASSUME NEW p \in Requests \ {q}
      PROVE  PlaceOf(p)'
  BY PlaceKept DEF OthersKept
<1>2. QED
  BY <1>1 DEF Places

LEMMA StopsOfOthers ==
    ASSUME TypeOK, NEW c \in Stoppers, NEW o, BeginStop(c, o)
    PROVE  /\ \A d \in Stoppers \ {c} : stops'[d] = stops[d]
           /\ stops'[c].at \in {"ack", "child"} /\ stops'[c].obj = o
           /\ stops'[c].at = "ack" <=> AwaitsAck(o)
BY TypesOf DEF BeginStop

\* Calls in the queue.
LEMMA PlacesInQueue ==
    ASSUME Shape, [Next]_vars, NEW q \in Requests, InQueue(q), ~DirectoryMade(q)
    PROVE  Places'
<1>0. TypeOK /\ PlaceOf(q) /\ Requests \subseteq Stoppers
  BY Names DEF Shape, Places
<1>1. CASE Enter(q)
  <2>1. ObjectsKept /\ UNCHANGED stops
    BY <1>0, <1>1, EnterKeeps DEF Enter
  <2>2. \A o \in LoopOver(requests[q].viewer) : Made(o)'
    BY <1>0, MappedMade, MadeStays DEF LoopOver
  <2>3. objects'[q].win = None
    BY <1>0, <1>1, <2>1 DEF Enter, PlaceOf, ObjectsKept
  <2>4. requests[q].win \in Windows => \A o \in Existing(requests[q].win) : Made(o)'
    <3>1. ASSUME NEW o \in Existing(requests[q].win), requests[q].win \in Windows
          PROVE  o \in Mapped
      BY <1>0, <3>1 DEF Existing, Mapped, TypeOK
    <3>2. QED
      BY <1>0, <3>1, MappedMade, MadeStays
  <2>5. requests'[q].obj = None \/ (requests'[q].obj = q /\ requests[q].win # None) \/ Made(requests[q].obj)'
    BY <1>0, <1>1, <2>4, Entered DEF Made
  <2>6. PlaceOf(q)'
    BY <1>0, <1>1, <2>1, <2>2, <2>3, <2>5, Entered DEF PlaceOf, SameCall, Made
  <2>7. QED
    BY <1>0, <1>1, <2>1, <2>6, Entered, PlacesButOne DEF NotStopping
<1>2. CASE RetireLeft(q)
  <2>1. PICK o \in Left(q) :
          /\ requests' = [requests EXCEPT ![q].todo = Left(q) \ {o}]
          /\ BeginStop(q, o)
    BY <1>2 DEF RetireLeft
  <2>2. /\ OthersKept(q) /\ SameCall(q)
        /\ requests'[q].pc = "release" /\ requests'[q].obj = requests[q].obj
        /\ requests'[q].todo \subseteq requests[q].todo
    BY <1>0, <1>2, <2>1, Looked DEF RetireLeft, Left, Others
  <2>3. ObjectsKept
    BY <1>2, RetireLeftKeeps
  <2>4. \A p \in Requests \ {q} : stops'[p] = stops[p]
    BY <1>0, <2>1, StopsOfOthers
  <2>5. \A p \in requests[q].todo : Made(p)'
    BY <1>0, CallTypes, MadeStays DEF PlaceOf
  <2>6. Made(requests[q].obj) => Made(requests[q].obj)'
    BY <1>0, <2>2, <2>3, CallTypes DEF Made, ObjectsKept
  <2>7. PlaceOf(q)'
    BY <1>0, <1>2, <2>2, <2>3, <2>5, <2>6 DEF PlaceOf, RetireLeft, ObjectsKept, SameCall
  <2>8. QED
    BY <2>2, <2>3, <2>4, <2>7, PlacesButOne DEF NotStopping
<1>3. CASE Released(q)
  <2>1. ObjectsKept /\ UNCHANGED stops
    BY <1>0, <1>3, ReleasedKeeps DEF Released
  <2>2. \A o \in Active(q) : Made(o)'
    BY <1>0, MappedMade, MadeStays DEF Active
  <2>3. Made(requests[q].obj) => (requests'[q].obj = requests[q].obj => Made(requests[q].obj)')
    BY <1>0, <2>1, CallTypes DEF Made, ObjectsKept
  <2>4. requests[q].pc = "release" /\ NotStopping(q) /\ NotStopping(q)'
    BY <1>3, <2>1 DEF Released, NotStopping
  <2>5. ASSUME Creates(q) /\ SameCall(q) /\ requests'[q].pc = "capacity"
               /\ requests'[q].todo = Active(q) /\ requests'[q].obj = q
        PROVE  PlaceOf(q)'
    <3>1. objects[q].win = None /\ requests[q].win # None
      BY <1>0, <2>4, <2>5, Names DEF PlaceOf, Creates, Made
    <3>2. objects'[q].win = None
      BY <2>1, <3>1 DEF ObjectsKept
    <3>3. \A o \in requests'[q].todo : Made(o)'
      BY <2>2, <2>5
    <3>4. QED
      BY <2>5, <3>1, <3>2, <3>3 DEF PlaceOf, SameCall
  <2>6. ASSUME requests'[q].pc = "done" /\ requests'[q].todo = {}
        PROVE  PlaceOf(q)'
    BY <1>0, <2>4, <2>6 DEF PlaceOf
  <2>7. ASSUME Shares(q) /\ SameCall(q) /\ requests'[q].pc = "wait"
               /\ requests'[q].todo = {} /\ requests'[q].obj = requests[q].obj
        PROVE  PlaceOf(q)'
    BY <1>0, <2>1, <2>3, <2>4, <2>7 DEF PlaceOf, Shares
  <2>8. OthersKept(q)
    BY <1>0, <1>3, WasReleased
  <2>9. \A p \in Requests \ {q} : NotStopping(p) => NotStopping(p)'
    BY <2>1 DEF NotStopping
  <2>10. PlaceOf(q)' => Places'
    BY <2>1, <2>8, <2>9, PlacesButOne
  <2>11. QED
    BY <1>0, <1>3, <2>5, <2>6, <2>7, <2>10, WasReleased
<1>4. CASE Evict(q)
  <2>1. PICK o \in requests[q].todo :
          /\ requests' = [requests EXCEPT ![q].todo = requests[q].todo \ {o}]
          /\ BeginStop(q, o) \/ UNCHANGED stops
    BY <1>4 DEF Evict
  <2>2. /\ OthersKept(q) /\ SameCall(q)
        /\ requests'[q].pc = "capacity" /\ requests'[q].obj = requests[q].obj
        /\ requests'[q].todo \subseteq requests[q].todo
    <3> DEFINE T == requests[q].todo \ {o}
    <3>1. requests' = [requests EXCEPT ![q].todo = T] /\ T \subseteq requests[q].todo
      BY <2>1
    <3>2. requests[q].pc = "capacity"
      BY <1>4 DEF Evict
    <3> HIDE DEF T
    <3>3. QED
      BY <1>0, <3>1, <3>2, Looked
  <2>3. ObjectsKept
    BY <1>4, EvictKeeps
  <2>4. \A p \in Requests \ {q} : stops'[p] = stops[p]
    BY <1>0, <2>1, StopsOfOthers
  <2>5. \A p \in requests[q].todo : Made(p)'
    BY <1>0, CallTypes, MadeStays DEF PlaceOf
  <2>6. PlaceOf(q)'
    BY <1>0, <1>4, <2>2, <2>3, <2>5 DEF PlaceOf, Evict, ObjectsKept, SameCall
  <2>7. QED
    BY <2>2, <2>3, <2>4, <2>6, PlacesButOne DEF NotStopping
<1>5. CASE PoolFull(q) \/ DirectoryFails(q)
  <2>1. requests' = [requests EXCEPT ![q] = Done] /\ UNCHANGED <<objects, stops>>
    BY <1>5 DEF PoolFull, DirectoryFails
  <2>2. NotStopping(q)
    BY <1>0, <1>5 DEF PoolFull, DirectoryFails, PlaceOf
  <2>3. PlaceOf(q)'
    BY <1>0, <2>1, <2>2, IsDone DEF PlaceOf, NotStopping
  <2>4. QED
    BY <1>0, <2>1, <2>3, IsDone, KeptObjects, PlacesButOne DEF NotStopping
<1>6. CASE HasRoom(q)
  <2>1. requests' = [requests EXCEPT ![q] = [requests[q] EXCEPT !.pc = "dir", !.todo = {}]]
        /\ UNCHANGED <<objects, stops>>
    BY <1>6 DEF HasRoom
  <2>2. /\ OthersKept(q) /\ SameCall(q) /\ requests'[q].pc = "dir"
        /\ requests'[q].obj = requests[q].obj /\ requests'[q].todo = {}
    <3>1. "dir" \in Points
      BY DEF Points
    <3>2. Went(q, "dir", {})
      BY <1>0, <2>1, <3>1, WentOn
    <3>3. QED
      BY <3>2 DEF Went
  <2>3. PlaceOf(q)'
    BY <1>0, <1>6, <2>1, <2>2 DEF PlaceOf, SameCall, HasRoom, NotStopping
  <2>4. QED
    BY <1>0, <2>1, <2>2, <2>3, KeptObjects, PlacesButOne DEF NotStopping
<1>7. QED
  BY <1>1, <1>2, <1>3, <1>4, <1>5, <1>6 DEF InQueue

\* Calls past the queue.
LEMMA PlaceMoved ==
    ASSUME Shape, [Next]_vars, ObjectsKept, NEW q \in Requests,
           OthersKept(q), SameCall(q), requests'[q].obj = requests[q].obj,
           requests'[q].todo = requests[q].todo,
           requests[q].pc \in {"spawn", "starting", "wait", "poll"},
           \/ requests'[q].pc \in {"starting", "wait", "poll"} /\ NotStopping(q)'
           \/ requests'[q].pc = "failing" /\ requests[q].obj = q,
           requests'[q].pc = "starting" => requests[q].obj = q,
           \A p \in Requests \ {q} : NotStopping(p) => NotStopping(p)'
    PROVE  Places'
<1>1. PlaceOf(q) /\ requests[q].obj \in Requests \cup {None} /\ requests[q].todo \in SUBSET Requests
  BY CallTypes DEF Shape, Places
<1>2. Made(requests[q].obj)'
  <2>1. Made(requests[q].obj)
    BY <1>1 DEF PlaceOf
  <2>2. objects'[requests[q].obj].win = objects[requests[q].obj].win /\ requests[q].obj # None
    BY <1>1, <2>1 DEF ObjectsKept, Made
  <2>3. QED
    BY <2>1, <2>2 DEF Made
<1>3. \A o \in requests[q].todo : Made(o)'
  BY <1>1, MadeStays DEF PlaceOf
<1>4. PlaceOf(q)'
  BY <1>1, <1>2, <1>3 DEF PlaceOf
<1>5. QED
  BY <1>4, PlacesButOne

LEMMA PlaceDone ==
    ASSUME Shape, [Next]_vars, ObjectsKept, NEW q \in Requests,
           requests' = [requests EXCEPT ![q] = Done], NotStopping(q)',
           \A p \in Requests \ {q} : NotStopping(p) => NotStopping(p)'
    PROVE  Places'
<1>1. TypeOK
  BY DEF Shape
<1>2. OthersKept(q) /\ requests'[q].pc = "done" /\ requests'[q].todo = {}
  BY <1>1, IsDone
<1>3. PlaceOf(q)'
  BY <1>2 DEF PlaceOf
<1>4. QED
  BY <1>2, <1>3, PlacesButOne

LEMMA PlacesOfMovers ==
    ASSUME Shape, [Next]_vars, NEW q \in Requests,
           Spawn(q) \/ SpawnRefused(q) \/ Poll(q) \/ NotPlayable(q) \/ Playable(q) \/ NotReady(q)
    PROVE  Places'
<1>0. TypeOK /\ PlaceOf(q) /\ Requests \subseteq Stoppers
  BY Names DEF Shape, Places
<1>1. ASSUME requests[q].pc \in {"spawn", "starting", "wait", "poll"}
      PROVE  NotStopping(q) /\ (requests[q].pc = "spawn" => requests[q].obj = q)
  BY <1>0, <1>1 DEF PlaceOf
<1>2. CASE Spawn(q)
  <2>1. /\ requests' = [requests EXCEPT ![q].pc = "starting"] /\ UNCHANGED stops
        /\ requests[q].pc = "spawn" /\ "starting" \in Points
    BY <1>2 DEF Spawn, Points
  <2>2. ObjectsKept
    BY <1>2, SpawnKeeps
  <2>3. QED
    BY <1>0, <1>1, <2>1, <2>2, Moved, PlaceMoved DEF NotStopping
<1>3. CASE SpawnRefused(q)
  <2>1. /\ requests' = [requests EXCEPT ![q].pc = "failing"]
        /\ requests[q].pc = "spawn" /\ "failing" \in Points
    BY <1>3 DEF SpawnRefused, Points
  <2>2. ObjectsKept /\ BeginStop(q, q)
    BY <1>3, SpawnRefusedKeeps
  <2>3. \A p \in Requests \ {q} : stops'[p] = stops[p]
    BY <1>0, <2>2, StopsOfOthers
  <2>4. QED
    BY <1>0, <1>1, <2>1, <2>2, <2>3, Moved, PlaceMoved DEF NotStopping
<1>4. CASE Poll(q) \/ NotPlayable(q)
  <2>1. PICK p \in {"poll", "wait"} :
             /\ requests' = [requests EXCEPT ![q].pc = p] /\ UNCHANGED <<objects, stops>>
             /\ requests[q].pc \in {"wait", "poll"}
    BY <1>4 DEF Poll, NotPlayable
  <2>2. p \in Points
    BY DEF Points
  <2>3. QED
    BY <1>0, <1>1, <2>1, <2>2, Moved, KeptObjects, PlaceMoved DEF NotStopping
<1>5. CASE Playable(q)
  <2>1. ObjectsKept
    BY <1>5, PlayableKeeps
  <2>2. UNCHANGED stops /\ requests' = [requests EXCEPT ![q] = Done] /\ requests[q].pc = "poll"
    BY <1>5 DEF Playable
  <2>3. NotStopping(q)'
    BY <1>1, <2>2 DEF NotStopping
  <2>4. QED
    BY <2>1, <2>2, <2>3, PlaceDone DEF NotStopping
<1>6. CASE NotReady(q) /\ Creates(q)
  <2>1. /\ requests' = [requests EXCEPT ![q].pc = "failing"] /\ BeginStop(q, q)
        /\ requests[q].pc = "wait" /\ "failing" \in Points /\ requests[q].obj = q
    BY <1>6 DEF NotReady, Fail, Points, Creates
  <2>2. ObjectsKept
    BY <1>6, NotReadyKeeps
  <2>3. \A p \in Requests \ {q} : stops'[p] = stops[p]
    BY <1>0, <2>1, StopsOfOthers
  <2>4. QED
    BY <1>0, <1>1, <2>1, <2>2, <2>3, Moved, PlaceMoved DEF NotStopping
<1>7. CASE NotReady(q) /\ ~Creates(q)
  <2>1. /\ UNCHANGED <<objects, stops>> /\ requests' = [requests EXCEPT ![q] = Done]
        /\ requests[q].pc = "wait"
    BY <1>7 DEF NotReady
  <2>2. NotStopping(q)'
    BY <1>1, <2>1 DEF NotStopping
  <2>3. QED
    BY <1>0, <2>1, <2>2, KeptObjects, PlaceDone DEF NotStopping
<1>8. QED
  BY <1>2, <1>3, <1>4, <1>5, <1>6, <1>7

LEMMA PlacesOfPool ==
    ASSUME Shape, [Next]_vars, NEW w \in Windows,
           PlaybackStarted(w) \/ StartFailed(w) \/ StopSettled(w) \/ WorkerLost(w)
    PROVE  Places'
<1>0. TypeOK /\ Places /\ stops \in [Stoppers -> StopTypes] /\ Requests \subseteq Stoppers
  BY Names, TypesOf DEF Shape
<1>1. CASE PlaybackStarted(w)
  <2>1. PICK q \in Requests : q = Head(commands[w]).by /\ requests[q].pc = "starting"
    BY <1>1, StartDue DEF PlaybackStarted
  <2>2. requests' = [requests EXCEPT ![q].pc = "wait"] /\ UNCHANGED stops
    BY <1>1, <2>1 DEF PlaybackStarted
  <2>3. ObjectsKept
    BY <1>1, PlaybackStartedKeeps
  <2>4. NotStopping(q)'
    BY <1>0, <2>1, <2>2 DEF Places, PlaceOf, NotStopping
  <2>5. "wait" \in Points
    BY DEF Points
  <2>6. /\ OthersKept(q) /\ SameCall(q) /\ requests'[q].pc = "wait"
        /\ requests'[q].obj = requests[q].obj /\ requests'[q].todo = requests[q].todo
    BY <1>0, <2>2, <2>5, Moved
  <2>7. \A p \in Requests \ {q} : NotStopping(p) => NotStopping(p)'
    BY <2>2 DEF NotStopping
  <2>8. QED
    BY <2>1, <2>3, <2>4, <2>6, <2>7, PlaceMoved
<1>2. CASE StartFailed(w)
  <2>1. PICK q \in Requests : q = Head(commands[w]).by /\ requests[q].pc = "starting"
    BY <1>2, StartDue DEF StartFailed
  <2>2. /\ requests' = [requests EXCEPT ![q].pc = "failing"]
        /\ stops' = [stops EXCEPT ![q] = [obj |-> q, at |-> "child"]]
    BY <1>2, <2>1 DEF StartFailed
  <2>3. ObjectsKept
    BY <1>2, StartFailedKeeps
  <2>4. requests[q].obj = q /\ "failing" \in Points
    BY <1>0, <2>1 DEF Places, PlaceOf, Points
  <2>5. \A p \in Requests \ {q} : stops'[p] = stops[p]
    BY <1>0, <2>1, <2>2
  <2>6. /\ OthersKept(q) /\ SameCall(q) /\ requests'[q].pc = "failing"
        /\ requests'[q].obj = requests[q].obj /\ requests'[q].todo = requests[q].todo
    BY <1>0, <2>2, <2>4, Moved
  <2>7. \A p \in Requests \ {q} : NotStopping(p) => NotStopping(p)'
    BY <2>5 DEF NotStopping
  <2>8. QED
    BY <2>1, <2>3, <2>4, <2>6, <2>7, PlaceMoved
<1>3. CASE StopSettled(w)
  <2> DEFINE c == Head(commands[w]).by
  <2>1. ObjectsKept /\ UNCHANGED requests
    BY <1>3, StopSettledKeeps DEF StopSettled
  <2>2. UNCHANGED stops \/ (/\ stops' = [stops EXCEPT ![c].at = "child"]
                            /\ c \in Stoppers /\ stops[c].at = "ack")
    BY <1>3, StopDue DEF StopSettled
  <2> HIDE DEF c
  <2>3. \A p \in Requests : NotStopping(p) => NotStopping(p)'
    BY <1>0, <2>2 DEF NotStopping
  <2>4. QED
    BY <2>1, <2>3, PlacesKept
<1>4. CASE WorkerLost(w)
  <2> DEFINE starting == {q \in Requests : requests[q].pc = "starting" /\ objects[q].win = w}
  <2>1. ObjectsKept /\ TypeOK
    BY <1>0, <1>4, WorkerLostKeeps
  <2>2. \A p \in Requests :
          IF p \in starting THEN requests'[p] = [requests[p] EXCEPT !.pc = "failing"]
          ELSE requests'[p] = requests[p]
    BY <1>4 DEF WorkerLost
  <2>3. \A p \in Requests : p \notin starting => (NotStopping(p) => NotStopping(p)')
    <3>1. \A p \in Requests : NotStopping(p) => stops[p].at # "ack"
      BY DEF NotStopping
    <3>2. \A p \in Requests : p \notin starting /\ stops[p].at # "ack" => stops'[p] = stops[p]
      BY <1>0, <1>4 DEF WorkerLost
    <3>3. QED
      BY <3>1, <3>2 DEF NotStopping
  <2>4. ASSUME NEW p \in Requests, p \in starting
        PROVE  PlaceOf(p)'
    <3>1. requests[p].pc = "starting" /\ requests[p] \in RequestStates
      BY <1>0, <2>4, CallTypes
    <3>2. /\ requests'[p].pc = "failing" /\ requests'[p].obj = requests[p].obj
          /\ requests'[p].todo = requests[p].todo
      BY <2>2, <2>4, <3>1 DEF RequestStates
    <3>3. requests[p].obj = p /\ Made(p) /\ \A o \in requests[p].todo : Made(o)
      BY <1>0, <3>1 DEF Places, PlaceOf
    <3>4. Made(p)' /\ \A o \in requests[p].todo : Made(o)'
      BY <1>0, <3>3, MadeStays, CallTypes
    <3>5. QED
      BY <3>2, <3>3, <3>4 DEF PlaceOf
  <2> HIDE DEF starting
  <2>5. ASSUME NEW p \in Requests, p \notin starting
        PROVE  PlaceOf(p)'
    BY <2>1, <2>2, <2>3, <2>5, PlaceKept
  <2>6. QED
    BY <2>4, <2>5 DEF Places
<1>5. QED
  BY <1>1, <1>2, <1>3, <1>4

LEMMA PlacesOfStopEnds ==
    ASSUME Shape, [Next]_vars, NEW c \in Stoppers, StopEnds(c)
    PROVE  Places'
<1>0. TypeOK /\ Places /\ stops \in [Stoppers -> StopTypes] /\ Requests \subseteq Stoppers
      /\ Cleanup \notin Requests
  BY Names, TypesOf DEF Shape
<1>1. ObjectsKept
  BY <1>0, KeptObjects DEF StopEnds
<1>2. CASE c = Cleanup
  <2>1. stops' = [stops EXCEPT ![c].at = "rm"] /\ UNCHANGED requests
    BY <1>2 DEF StopEnds
  <2>2. \A p \in Requests : NotStopping(p) => NotStopping(p)'
    BY <1>0, <1>2, <2>1 DEF NotStopping
  <2>3. QED
    BY <1>1, <2>1, <2>2, PlacesKept
<1>3. CASE c # Cleanup
  <2>1. c \in Requests
    BY <1>3 DEF Stoppers
  <2>2. /\ stops' = [stops EXCEPT ![c] = [obj |-> None, at |-> "none"]]
        /\ requests' = [requests EXCEPT ![c] = IF requests[c].pc = "failing" THEN Done ELSE requests[c]]
    BY <1>3 DEF StopEnds
  <2>3. \A p \in Stoppers : NotStopping(p) => NotStopping(p)'
    BY <1>0, <2>2 DEF NotStopping
  <2>4. NotStopping(c)'
    BY <1>0, <2>2 DEF NotStopping
  <2>5. CASE requests[c].pc = "failing"
    BY <1>0, <1>1, <2>1, <2>2, <2>3, <2>4, <2>5, PlaceDone
  <2>6. CASE requests[c].pc # "failing"
    <3>1. UNCHANGED requests
      BY <1>0, <2>1, <2>2, <2>6 DEF TypeOK
    <3>2. QED
      BY <1>0, <1>1, <2>3, <3>1, PlacesKept
  <2>7. QED
    BY <2>5, <2>6
<1>4. QED
  BY <1>2, <1>3

LEMMA PlacesOfDirectory ==
    ASSUME Shape, [Next]_vars, NEW q \in Requests, DirectoryMade(q)
    PROVE  Places'
<1>0. TypeOK /\ Places
  BY DEF Shape
<1>1. requests' = [requests EXCEPT ![q].pc = "spawn"] /\ UNCHANGED stops /\ "spawn" \in Points
      /\ requests[q].pc = "dir"
  BY DEF DirectoryMade, Points
<1>2. /\ OthersKept(q) /\ requests'[q].pc = "spawn" /\ requests'[q].obj = requests[q].obj
      /\ requests'[q].todo = requests[q].todo
  BY <1>0, <1>1, Moved
<1>3. requests[q].obj = q /\ NotStopping(q)' /\ \A o \in requests[q].todo : Made(o)
  BY <1>0, <1>1 DEF Places, PlaceOf, NotStopping
<1>4. Made(q)'
  <2>1. objects'[q].win = requests[q].win /\ requests[q].win \in Windows
    <3>1. objects'[q] = Session(requests[q].win, requests[q].viewer) /\ requests[q].win \in Windows
      BY DirectoryMadeMakes
    <3>2. QED
      BY <3>1 DEF Session
  <2>2. QED
    BY <2>1, Names DEF Made
<1>5. \A o \in requests[q].todo : Made(o)'
  BY <1>0, <1>3, CallTypes, MadeStays
<1>6. PlaceOf(q)'
  BY <1>2, <1>3, <1>4, <1>5 DEF PlaceOf
<1>7. ASSUME NEW p \in Requests \ {q}
      PROVE  PlaceOf(p)'
  <2>1. PlaceOf(p) /\ objects'[p] = objects[p] /\ requests'[p] = requests[p]
    BY <1>0, <1>2, DirectoryMadeMakes DEF Places, OthersKept
  <2>2. requests[p].obj \in Requests \cup {None} /\ requests[p].todo \in SUBSET Requests
    BY <1>0, CallTypes
  <2>3. Made(requests[p].obj) => Made(requests[p].obj)'
    <3>1. ASSUME Made(requests[p].obj)
          PROVE  objects'[requests[p].obj].win = objects[requests[p].obj].win
      BY <2>2, <3>1, MadeGrows DEF Made
    <3>2. QED
      BY <2>1, <3>1 DEF Made
  <2>4. \A o \in requests[p].todo : Made(o)'
    BY <2>1, <2>2, MadeStays DEF PlaceOf
  <2>5. NotStopping(p) => NotStopping(p)'
    BY <1>1 DEF NotStopping
  <2>6. QED
    BY <2>1, <2>3, <2>4, <2>5 DEF PlaceOf
<1>8. QED
  BY <1>6, <1>7 DEF Places

LEMMA PlacesOfNew ==
    ASSUME Shape, [Next]_vars, NEW q \in Requests, NEW v \in Viewers,
           ReleaseViewer(q, v) \/ \E w \in Windows : Request(q, v, w)
    PROVE  Places'
<1>0. TypeOK /\ PlaceOf(q)
  BY DEF Shape, Places
<1>1. ObjectsKept /\ UNCHANGED <<objects, stops>>
  BY <1>0, KeptObjects DEF ReleaseViewer, Request
<1>2. PlaceOf(q)'
  BY <1>0, <1>1, Begun DEF PlaceOf, NotStopping
<1>3. QED
  BY <1>0, <1>1, <1>2, Begun, PlacesButOne DEF NotStopping

LEMMA PlacesOfTheRest ==
    ASSUME Shape, [Next]_vars,
           \/ \E o \in Requests :
                FfmpegExit(o) \/ Produce(o) \/ Access(o) \/ TimePasses(o) \/ CleanupNext(o)
           \/ CleanupBegins \/ DirectoryRemoved \/ UNCHANGED vars
    PROVE  Places'
<1>0. TypeOK /\ stops \in [Stoppers -> StopTypes] /\ Cleanup \notin Requests
      /\ Requests \subseteq Stoppers /\ Cleanup \in Stoppers
  BY Names, TypesOf DEF Shape
<1>1. UNCHANGED requests
  BY DEF FfmpegExit, Produce, Access, TimePasses, CleanupNext, CleanupBegins, DirectoryRemoved, vars
<1>2. ObjectsKept
  <2>1. \A q \in Requests : ~DirectoryMade(q)
    BY <1>0, <1>1, Moved DEF DirectoryMade, Points
  <2>2. QED
    BY <2>1, StepWins
<1>3. \A p \in Requests : NotStopping(p) => NotStopping(p)'
  <2>1. CASE UNCHANGED stops
    BY <2>1 DEF NotStopping
  <2>2. CASE \E o \in Requests : BeginStop(Cleanup, o)
    BY <1>0, <2>2, StopsOfOthers DEF NotStopping
  <2>3. CASE DirectoryRemoved
    BY <1>0, <2>3 DEF DirectoryRemoved, NotStopping
  <2>4. QED
    BY <2>1, <2>2, <2>3 DEF FfmpegExit, Produce, Access, TimePasses, CleanupNext, CleanupBegins, vars
<1>4. QED
  BY <1>1, <1>2, <1>3, PlacesKept

LEMMA PlacesPreserved ==
    ASSUME Shape, [Next]_vars
    PROVE  Places'
BY PlacesInQueue, PlacesOfMovers, PlacesOfPool, PlacesOfStopEnds, PlacesOfDirectory, PlacesOfNew,
   PlacesOfTheRest DEF Next

-----------------------------------------------------------------------------
(* Stops and commands.                                                     *)

\* The stop that c awaits is over, goes on, or begins, for an object that is made.
StopMoves(c) ==
    \/ stops'[c] = stops[c]
    \/ NotStopping(c)'
    \/ stops'[c].at # "none" /\ stops'[c].obj \in Requests /\ Made(stops'[c].obj)

LEMMA StopKept ==
    ASSUME Shape, [Next]_vars, NEW c \in Stoppers, StopMoves(c)
    PROVE  StopOf(c)'
<1>1. StopOf(c) /\ stops[c].obj \in Requests \cup {None}
  BY DEF Shape, Stopping, TypeOK
<1>2. CASE stops'[c] = stops[c]
  <2>1. Made(stops[c].obj) => objects'[stops[c].obj].win = objects[stops[c].obj].win
    BY <1>1, MadeGrows DEF Made
  <2>2. QED
    BY <1>1, <1>2, <2>1 DEF StopOf, NotStopping, Made
<1>3. CASE NotStopping(c)'
  BY <1>3 DEF StopOf, NotStopping
<1>4. CASE stops'[c].at # "none" /\ stops'[c].obj \in Requests /\ Made(stops'[c].obj)
  <2>1. PICK o \in Requests : o = stops'[c].obj /\ Made(o)
    BY <1>4
  <2>2. Made(o)'
    BY <2>1, MadeStays
  <2>3. QED
    BY <1>4, <2>1, <2>2 DEF StopOf, Made
<1>5. QED
  BY <1>2, <1>3, <1>4 DEF StopMoves

LEMMA StopBegins ==
    ASSUME Shape, NEW c \in Stoppers, NEW o \in Requests, Made(o), BeginStop(c, o)
    PROVE  \A d \in Stoppers : StopMoves(d)
<1>1. TypeOK
  BY DEF Shape
<1>2. \A d \in Stoppers \ {c} : stops'[d] = stops[d]
  BY <1>1, StopsOfOthers
<1>3. stops'[c].at \in {"ack", "child"} /\ stops'[c].obj = o
  BY <1>1, StopsOfOthers
<1>4. QED
  BY <1>2, <1>3 DEF StopMoves

LEMMA StoppingPreserved ==
    ASSUME Shape, [Next]_vars
    PROVE  Stopping'
<1>0. /\ TypeOK /\ Stopping /\ stops \in [Stoppers -> StopTypes]
      /\ Requests \subseteq Stoppers /\ Cleanup \in Stoppers
  BY Names, TypesOf DEF Shape
<1> SUFFICES \A c \in Stoppers : StopMoves(c)
  BY StopKept DEF Stopping
<1>1. CASE UNCHANGED stops
  BY <1>1 DEF StopMoves
<1>2. CASE \E c \in Stoppers, o \in Requests : Made(o) /\ BeginStop(c, o)
  BY <1>2, StopBegins
<1>3. ASSUME NEW w \in Windows, StartFailed(w)
      PROVE  \A c \in Stoppers : StopMoves(c)
  <2>1. PICK q \in Requests : q = Head(commands[w]).by /\ requests[q].pc = "starting"
    BY <1>3, StartDue DEF StartFailed
  <2>2. stops' = [stops EXCEPT ![q] = [obj |-> q, at |-> "child"]]
    BY <1>3, <2>1 DEF StartFailed
  <2>3. Made(q)
    BY <2>1, AboutMade
  <2>4. QED
    BY <1>0, <2>2, <2>3 DEF StopMoves
<1>4. ASSUME NEW w \in Windows, StopSettled(w)
      PROVE  \A c \in Stoppers : StopMoves(c)
  <2>1. CASE Head(commands[w]).by = Nobody
    BY <1>4, <2>1 DEF StopSettled, StopMoves
  <2>2. CASE Head(commands[w]).by # Nobody
    <3>1. PICK c \in Stoppers : /\ c = Head(commands[w]).by
                                /\ stops[c].obj \in Requests /\ Made(stops[c].obj)
      BY <1>4, <2>2, StopDue DEF StopSettled
    <3>2. stops' = [stops EXCEPT ![c] = [stops[c] EXCEPT !.at = "child"]]
      BY <1>4, <2>2, <3>1 DEF StopSettled
    <3>3. stops[c] \in StopTypes
      BY <1>0
    <3>4. stops'[c].at = "child" /\ stops'[c].obj = stops[c].obj
      BY <1>0, <3>2, <3>3 DEF StopTypes
    <3>5. \A d \in Stoppers \ {c} : stops'[d] = stops[d]
      BY <1>0, <3>2
    <3>6. QED
      BY <3>1, <3>4, <3>5 DEF StopMoves
  <2>3. QED
    BY <2>1, <2>2
<1>5. ASSUME NEW w \in Windows, WorkerLost(w), NEW c \in Stoppers
      PROVE  StopMoves(c)
  <2>1. stops[c] \in StopTypes
    BY <1>0
  <2>2. \/ stops'[c] = [obj |-> c, at |-> "child"] /\ c \in Requests /\ requests[c].pc = "starting"
        \/ stops'[c] = [stops[c] EXCEPT !.at = "child"] /\ stops[c].at = "ack"
        \/ stops'[c] = stops[c]
    BY <1>5 DEF WorkerLost
  <2>3. CASE stops'[c] = [obj |-> c, at |-> "child"] /\ c \in Requests /\ requests[c].pc = "starting"
    BY <2>3, AboutMade DEF StopMoves
  <2>4. CASE stops'[c] = [stops[c] EXCEPT !.at = "child"] /\ stops[c].at = "ack"
    <3>1. stops'[c].at = "child" /\ stops'[c].obj = stops[c].obj
      BY <2>1, <2>4 DEF StopTypes
    <3>2. Made(stops[c].obj)
      BY <1>0, <2>4 DEF Stopping, StopOf
    <3>3. QED
      BY <2>1, <3>1, <3>2 DEF StopMoves, StopTypes, Made
  <2>5. QED
    BY <2>2, <2>3, <2>4 DEF StopMoves
<1>6. ASSUME NEW c \in Stoppers, StopEnds(c)
      PROVE  \A d \in Stoppers : StopMoves(d)
  <2>1. stops[c] \in StopTypes
    BY <1>0
  <2>2. CASE c = Cleanup
    <3>1. stops' = [stops EXCEPT ![c] = [stops[c] EXCEPT !.at = "rm"]] /\ stops[c].at = "child"
      BY <1>6, <2>2 DEF StopEnds
    <3>2. stops'[c].at = "rm" /\ stops'[c].obj = stops[c].obj
      BY <1>0, <2>1, <3>1 DEF StopTypes
    <3>3. Made(stops[c].obj)
      BY <1>0, <3>1 DEF Stopping, StopOf
    <3>4. \A d \in Stoppers \ {c} : stops'[d] = stops[d]
      BY <1>0, <3>1
    <3>5. QED
      BY <2>1, <3>2, <3>3, <3>4 DEF StopMoves, StopTypes, Made
  <2>3. CASE c # Cleanup
    <3>1. stops' = [stops EXCEPT ![c] = [obj |-> None, at |-> "none"]]
      BY <1>6, <2>3 DEF StopEnds
    <3>2. QED
      BY <1>0, <3>1 DEF StopMoves, NotStopping
  <2>4. QED
    BY <2>2, <2>3
<1>7. CASE DirectoryRemoved
  <2>1. stops' = [stops EXCEPT ![Cleanup] = [obj |-> None, at |-> "none"]]
    BY <1>7 DEF DirectoryRemoved
  <2>2. QED
    BY <1>0, <2>1 DEF StopMoves, NotStopping
<1>8. ASSUME NEW o \in Requests, CleanupNext(o)
      PROVE  UNCHANGED stops \/ (Made(o) /\ BeginStop(Cleanup, o))
  BY <1>8 DEF CleanupNext, Shape, Swept
<1>9. ASSUME NEW q \in Requests, InQueue(q)
      PROVE  UNCHANGED stops \/ \E o \in Requests : Made(o) /\ BeginStop(q, o)
  <2>1. CASE RetireLeft(q)
    BY <2>1, RetireLeftKeeps
  <2>2. CASE Evict(q)
    BY <2>2, EvictKeeps
  <2>3. QED
    BY <1>9, <2>1, <2>2
    DEF InQueue, Enter, Released, PoolFull, HasRoom, DirectoryMade, DirectoryFails
<1>10. ASSUME NEW q \in Requests, SpawnRefused(q) \/ NotReady(q)
       PROVE  UNCHANGED stops \/ (Made(q) /\ BeginStop(q, q))
  BY <1>10, SpawnRefusedKeeps, NotReadyKeeps
<1>11. QED
  BY <1>0, <1>1, <1>2, <1>3, <1>4, <1>5, <1>6, <1>7, <1>8, <1>9, <1>10
  DEF Next, vars, ReleaseViewer, Request, Spawn, Poll, NotPlayable, Playable, PlaybackStarted,
      FfmpegExit, Produce, Access, TimePasses, CleanupBegins

\* Who waits for e goes on waiting.
Waits(e) ==
    /\ e.op = "start" => requests'[e.by].pc = "starting"
    /\ e.op = "stop" /\ e.by # Nobody => stops'[e.by] = stops[e.by]

LEMMA CommandKept ==
    ASSUME Shape, [Next]_vars, NEW w \in Windows, NEW e \in CommandTypes,
           CommandOf(w, e), Waits(e)
    PROVE  CommandOf(w, e)'
<1>0. TypeOK /\ Stopping /\ Places
  BY DEF Shape
<1>1. CASE e.op = "start"
  <2>1. e.by \in Requests /\ requests[e.by].pc = "starting" /\ objects[e.by].win = w
    BY <1>1 DEF CommandOf
  <2>2. Made(e.by)
    BY <2>1, AboutMade
  <2>3. objects'[e.by].win = w
    BY <2>1, <2>2, MadeGrows
  <2>4. QED
    BY <1>1, <2>1, <2>3 DEF CommandOf, Waits
<1>2. CASE e.op = "stop" /\ e.by # Nobody
  <2>1. stops[e.by].at = "ack" /\ objects[stops[e.by].obj].win = w /\ e.by \in Stoppers
    BY <1>2 DEF CommandOf, CommandTypes
  <2>2. PICK o \in Requests : o = stops[e.by].obj /\ Made(o)
    BY <1>0, <2>1 DEF Stopping, StopOf, TypeOK, Made
  <2>3. objects'[o].win = w
    BY <2>1, <2>2, MadeGrows
  <2>4. stops'[e.by].at = "ack" /\ stops'[e.by].obj = o
    BY <1>2, <2>1, <2>2 DEF Waits
  <2>5. QED
    BY <1>2, <2>3, <2>4 DEF CommandOf
<1>3. CASE e.op = "stop" /\ e.by = Nobody
  BY <1>3 DEF CommandOf
<1>4. QED
  BY <1>1, <1>2, <1>3 DEF CommandTypes

LEMMA CommandIs ==
    ASSUME Shape, NEW w \in Windows, NEW i \in DOMAIN commands[w]
    PROVE  commands[w][i] \in CommandTypes /\ CommandOf(w, commands[w][i])
<1>1. commands[w] \in Seq(CommandTypes)
  BY TypesOf DEF Shape
<1>2. QED
  BY <1>1, ElementOfSeq DEF Shape, Commands

\* Nothing is sent and nothing settles.
LEMMA CommandsKept ==
    ASSUME Shape, [Next]_vars, UNCHANGED commands,
           \A w \in Windows : \A i \in DOMAIN commands[w] : Waits(commands[w][i])
    PROVE  Commands' /\ OneCommandEach'
<1>1. ASSUME NEW w \in Windows, NEW i \in DOMAIN commands[w]
      PROVE  CommandOf(w, commands[w][i])'
  <2>1. PICK e \in CommandTypes : e = commands[w][i]
    BY CommandIs
  <2>2. CommandOf(w, e)'
    BY <2>1, CommandIs, CommandKept
  <2>3. e = commands'[w][i]
    BY <2>1
  <2>4. QED
    BY <2>2, <2>3 DEF CommandOf
<1>2. Commands'
  BY <1>1 DEF Commands
<1>3. OneCommandEach'
  BY DEF Shape, OneCommandEach
<1>4. QED
  BY <1>2, <1>3

\* A command is sent, and whoever sends it awaits no other.
LEMMA CommandSent ==
    ASSUME Shape, [Next]_vars, NEW u \in Windows, NEW e \in CommandTypes,
           commands' = [commands EXCEPT ![u] = Append(commands[u], e)],
           CommandOf(u, e)',
           e.by # Nobody =>
             \A w \in Windows : \A i \in DOMAIN commands[w] : commands[w][i].by # e.by,
           \A w \in Windows : \A i \in DOMAIN commands[w] : Waits(commands[w][i])
    PROVE  Commands' /\ OneCommandEach'
<1>0. commands \in [Windows -> Seq(CommandTypes)]
  BY TypesOf DEF Shape
<1>1. commands[u] \in Seq(CommandTypes)
  BY <1>0
<1> DEFINE n == Len(commands[u])
<1>2. /\ commands'[u] = Append(commands[u], e) /\ n \in Nat
      /\ DOMAIN commands'[u] = 1 .. n + 1 /\ DOMAIN commands[u] = 1 .. n
      /\ \A i \in 1 .. n : commands'[u][i] = commands[u][i]
      /\ commands'[u][n + 1] = e
  <2>1. commands'[u] = Append(commands[u], e)
    BY <1>0
  <2>2. QED
    BY <1>1, <2>1, AppendProperties, LenProperties
<1>3. \A w \in Windows \ {u} : commands'[w] = commands[w]
  BY <1>0
<1>4. ASSUME NEW w \in Windows, NEW i \in DOMAIN commands'[w]
      PROVE  \/ w = u /\ i = n + 1 /\ commands'[w][i] = e
             \/ i \in DOMAIN commands[w] /\ commands'[w][i] = commands[w][i]
  BY <1>2, <1>3
<1>5. ASSUME NEW w \in Windows, NEW i \in DOMAIN commands'[w]
      PROVE  CommandOf(w, commands[w][i])'
  <2>1. CASE w = u /\ i = n + 1 /\ commands'[w][i] = e
    BY <2>1 DEF CommandOf
  <2>2. CASE i \in DOMAIN commands[w] /\ commands'[w][i] = commands[w][i]
    <3>1. PICK d \in CommandTypes : d = commands[w][i]
      BY <2>2, CommandIs
    <3>2. CommandOf(w, d)'
      BY <2>2, <3>1, CommandIs, CommandKept
    <3>3. d = commands'[w][i]
      BY <2>2, <3>1
    <3>4. QED
      BY <3>2, <3>3 DEF CommandOf
  <2>3. QED
    BY <1>4, <2>1, <2>2
<1>6. Commands'
  BY <1>5 DEF Commands
<1> HIDE DEF n
<1>7. OneCommandEach'
  <2> SUFFICES ASSUME NEW w \in Windows, NEW v \in Windows,
                      NEW i \in DOMAIN commands'[w], NEW j \in DOMAIN commands'[v],
                      commands'[w][i].by = commands'[v][j].by, commands'[w][i].by # Nobody
               PROVE  w = v /\ i = j
    BY DEF OneCommandEach
  <2>1. OneCommandEach
    BY DEF Shape
  <2>2. QED
    BY <1>4, <2>1 DEF OneCommandEach
<1>8. QED
  BY <1>6, <1>7

\* The first command of a window has settled; only who awaited it goes on.
LEMMA CommandSettled ==
    ASSUME Shape, [Next]_vars, NEW u \in Windows, commands[u] # <<>>,
           commands' = [commands EXCEPT ![u] = Tail(commands[u])],
           \A w \in Windows : \A i \in DOMAIN commands[w] :
              commands[w][i].by # Head(commands[u]).by \/ commands[w][i].by = Nobody
                => Waits(commands[w][i])
    PROVE  Commands' /\ OneCommandEach'
<1>0. commands \in [Windows -> Seq(CommandTypes)] /\ OneCommandEach
  BY TypesOf DEF Shape
<1>1. commands[u] \in Seq(CommandTypes)
  BY <1>0
<1> DEFINE n == Len(commands[u])
<1>2. /\ n \in Nat /\ n > 0 /\ Head(commands[u]) = commands[u][1]
      /\ DOMAIN commands'[u] = 1 .. n - 1 /\ DOMAIN commands[u] = 1 .. n
      /\ \A i \in 1 .. n - 1 : commands'[u][i] = commands[u][i + 1]
  <2>1. commands'[u] = Tail(commands[u])
    BY <1>0
  <2>2. /\ n \in Nat /\ DOMAIN commands[u] = 1 .. n /\ n # 0
    BY <1>1, LenProperties, EmptySeq
  <2>3. /\ Len(Tail(commands[u])) = n - 1 /\ Tail(commands[u]) \in Seq(CommandTypes)
        /\ \A i \in 1 .. n - 1 : Tail(commands[u])[i] = commands[u][i + 1]
    BY <1>1, HeadTailProperties
  <2>4. DOMAIN Tail(commands[u]) = 1 .. n - 1
    BY <2>3, LenProperties
  <2>5. Head(commands[u]) = commands[u][1]
    BY <1>1
  <2> DEFINE t == Tail(commands[u])
             h == Head(commands[u])
  <2>6. /\ commands'[u] = t /\ DOMAIN t = 1 .. n - 1 /\ h = commands[u][1]
        /\ \A i \in 1 .. n - 1 : t[i] = commands[u][i + 1]
    BY <2>1, <2>3, <2>4, <2>5
  <2> HIDE DEF t, h, n
  <2>7. n > 0
    BY <2>2
  <2>8. QED
    BY <2>2, <2>6, <2>7 DEF h
<1>3. \A w \in Windows \ {u} : commands'[w] = commands[w]
  BY <1>0
<1> HIDE DEF n
<1> DEFINE old(w, i) == IF w = u THEN i + 1 ELSE i
<1>4. ASSUME NEW w \in Windows, NEW i \in DOMAIN commands'[w]
      PROVE  /\ old(w, i) \in DOMAIN commands[w] /\ commands'[w][i] = commands[w][old(w, i)]
             /\ w = u => old(w, i) # 1
  BY <1>2, <1>3
<1>5. ASSUME NEW w \in Windows, NEW i \in DOMAIN commands'[w]
      PROVE  CommandOf(w, commands[w][i])'
  <2>1. PICK k \in DOMAIN commands[w] : k = old(w, i)
    BY <1>4
  <2>2. PICK d \in CommandTypes : d = commands[w][k]
    BY CommandIs
  <2>3. d.by # Head(commands[u]).by \/ d.by = Nobody
    BY <1>0, <1>2, <1>4, <2>1, <2>2 DEF OneCommandEach
  <2>4. CommandOf(w, d)'
    BY <2>2, <2>3, CommandIs, CommandKept
  <2>5. d = commands'[w][i]
    BY <1>4, <2>1, <2>2
  <2>6. QED
    BY <2>4, <2>5 DEF CommandOf
<1>6. Commands'
  BY <1>5 DEF Commands
<1>7. OneCommandEach'
  <2> SUFFICES ASSUME NEW w \in Windows, NEW v \in Windows,
                      NEW i \in DOMAIN commands'[w], NEW j \in DOMAIN commands'[v],
                      commands'[w][i].by = commands'[v][j].by, commands'[w][i].by # Nobody
               PROVE  w = v /\ i = j
    BY DEF OneCommandEach
  <2>1. w = v /\ old(w, i) = old(v, j)
    BY <1>0, <1>4 DEF OneCommandEach
  <2>2. w = u => i \in Int /\ j \in Int
    BY <1>2, <2>1
  <2>3. QED
    BY <2>1, <2>2
<1>8. QED
  BY <1>6, <1>7

\* Nobody who awaits an answer moves.
StartingStay == \A q \in Requests : requests[q].pc = "starting" => requests'[q].pc = "starting"
StoppersStay == \A c \in Stoppers : stops[c].at = "ack" => stops'[c] = stops[c]

LEMMA AllWait ==
    ASSUME Shape, StartingStay, StoppersStay
    PROVE  \A w \in Windows : \A i \in DOMAIN commands[w] : Waits(commands[w][i])
<1>1. ASSUME NEW w \in Windows, NEW i \in DOMAIN commands[w]
      PROVE  Waits(commands[w][i])
  <2>1. PICK e \in CommandTypes : e = commands[w][i] /\ CommandOf(w, e)
    BY CommandIs
  <2>2. Waits(e)
    BY <2>1 DEF Waits, CommandOf, StartingStay, StoppersStay, CommandTypes
  <2>3. QED
    BY <2>1, <2>2
<1>2. QED
  BY <1>1

LEMMA AwaitsNone ==
    ASSUME Shape, NEW c, c \in Requests => requests[c].pc # "starting", stops[c].at # "ack", c # Nobody
    PROVE  \A w \in Windows : \A i \in DOMAIN commands[w] : commands[w][i].by # c
<1>1. ASSUME NEW w \in Windows, NEW i \in DOMAIN commands[w]
      PROVE  commands[w][i].by # c
  <2>1. PICK e \in CommandTypes : e = commands[w][i] /\ CommandOf(w, e)
    BY CommandIs
  <2>2. e.by # c
    BY <2>1 DEF CommandOf, CommandTypes
  <2>3. QED
    BY <2>1, <2>2
<1>2. QED
  BY <1>1

LEMMA CommandsStay ==
    ASSUME Shape, [Next]_vars, UNCHANGED commands, StartingStay, StoppersStay
    PROVE  Commands' /\ OneCommandEach'
BY AllWait, CommandsKept

\* A stop that begins: its command is sent if there is an answer to await.
LEMMA CommandsOfStop ==
    ASSUME Shape, [Next]_vars, NEW c \in Stoppers, NEW o \in Requests, Made(o), BeginStop(c, o),
           NotStopping(c), c \in Requests => requests[c].pc # "starting", StartingStay
    PROVE  Commands' /\ OneCommandEach'
<1>0. TypeOK /\ Nobody \notin Stoppers
  BY Names DEF Shape
<1>1. /\ \A d \in Stoppers \ {c} : stops'[d] = stops[d]
      /\ stops'[c].obj = o /\ (stops'[c].at = "ack" <=> AwaitsAck(o))
  BY <1>0, StopsOfOthers
<1>2. StoppersStay /\ stops[c].at # "ack"
  BY <1>1 DEF StoppersStay, NotStopping
<1>3. CASE AwaitsAck(o)
  <2> DEFINE e == [op |-> "stop", by |-> c]
  <2>1. PICK u \in Windows : u = objects[o].win
    BY <1>0, MadeWindow
  <2>2. commands' = [commands EXCEPT ![u] = Append(commands[u], e)]
    BY <1>3, <2>1 DEF BeginStop, SendStop, AwaitsAck
  <2>3. objects'[o].win = u
    BY <2>1, MadeGrows
  <2>4. CommandOf(u, e)'
    BY <1>1, <1>3, <2>3 DEF CommandOf
  <2>5. e \in CommandTypes /\ e.by = c
    BY DEF CommandTypes
  <2>6. \A w \in Windows : \A i \in DOMAIN commands[w] : commands[w][i].by # c
    BY <1>0, <1>2, AwaitsNone
  <2>7. \A w \in Windows : \A i \in DOMAIN commands[w] : Waits(commands[w][i])
    BY <1>2, AllWait
  <2> HIDE DEF e
  <2>8. QED
    BY <2>2, <2>4, <2>5, <2>6, <2>7, CommandSent
<1>4. CASE ~AwaitsAck(o)
  <2>1. UNCHANGED commands
    BY <1>4 DEF BeginStop, SendStop, AwaitsAck
  <2>2. QED
    BY <1>2, <2>1, CommandsStay
<1>5. QED
  BY <1>3, <1>4

\* A call that is not awaiting its start moves.
LEMMA StayButOne ==
    ASSUME NEW q \in Requests, OthersKept(q), requests[q].pc # "starting"
    PROVE  StartingStay
BY DEF StartingStay, OthersKept

LEMMA CommandsInQueue ==
    ASSUME Shape, [Next]_vars, NEW q \in Requests, InQueue(q)
    PROVE  Commands' /\ OneCommandEach'
<1>0. TypeOK /\ q \in Stoppers
  BY Names DEF Shape
<1>1. requests[q].pc # "starting"
  BY DEF InQueue, Enter, RetireLeft, Released, Evict, PoolFull, HasRoom, DirectoryMade, DirectoryFails
<1>2. OthersKept(q)
  <2>1. CASE RetireLeft(q) \/ Evict(q)
    <3>1. requests \in [Requests -> RequestStates]
      BY <1>0, TypesOf
    <3>2. \E r : requests' = [requests EXCEPT ![q] = r]
      BY <2>1, Zenon DEF RetireLeft, Evict
    <3>3. QED
      BY <3>1, <3>2 DEF OthersKept
  <2>2. CASE Enter(q) \/ Released(q)
    BY <1>0, <2>2, Entered, WasReleased
  <2>3. CASE PoolFull(q) \/ DirectoryFails(q)
    BY <1>0, <2>3, IsDone DEF PoolFull, DirectoryFails
  <2>4. CASE HasRoom(q) \/ DirectoryMade(q)
    <3>1. requests \in [Requests -> RequestStates]
      BY <1>0, TypesOf
    <3>2. \E r : requests' = [requests EXCEPT ![q] = r]
      BY <2>4, Zenon DEF HasRoom, DirectoryMade
    <3>3. QED
      BY <3>1, <3>2 DEF OthersKept
  <2>5. QED
    BY <2>1, <2>2, <2>3, <2>4 DEF InQueue
<1>3. StartingStay
  BY <1>1, <1>2, StayButOne
<1>4. CASE UNCHANGED <<stops, commands>>
  BY <1>3, <1>4, CommandsStay DEF StoppersStay
<1>5. ASSUME NEW o \in Requests, Made(o), BeginStop(q, o), NotStopping(q)
      PROVE  Commands' /\ OneCommandEach'
  BY <1>0, <1>1, <1>3, <1>5, CommandsOfStop
<1>6. CASE RetireLeft(q) \/ Evict(q)
  <2>1. NotStopping(q)
    BY <1>6 DEF RetireLeft, Evict
  <2>2. QED
    BY <1>4, <1>5, <1>6, <2>1, RetireLeftKeeps, EvictKeeps
<1>7. QED
  BY <1>4, <1>6 DEF InQueue, Enter, Released, PoolFull, HasRoom, DirectoryMade, DirectoryFails, poolVars

LEMMA CommandsOfMovers ==
    ASSUME Shape, [Next]_vars, NEW q \in Requests,
           Spawn(q) \/ SpawnRefused(q) \/ Poll(q) \/ NotPlayable(q) \/ Playable(q) \/ NotReady(q)
    PROVE  Commands' /\ OneCommandEach'
<1>0. TypeOK /\ q \in Stoppers /\ PlaceOf(q) /\ requests \in [Requests -> RequestStates]
      /\ Nobody \notin Stoppers
  BY Names, TypesOf DEF Shape, Places
<1>1. requests[q].pc \in {"spawn", "wait", "poll"}
  BY DEF Spawn, SpawnRefused, Poll, NotPlayable, Playable, NotReady
<1>2. NotStopping(q) /\ stops[q].at # "ack"
  BY <1>0, <1>1 DEF PlaceOf, NotStopping
<1>3. \E r : requests' = [requests EXCEPT ![q] = r]
  BY Zenon DEF Spawn, SpawnRefused, Poll, NotPlayable, Playable, NotReady, Fail
<1>4. OthersKept(q) /\ StartingStay
  <2>1. OthersKept(q)
    BY <1>0, <1>3 DEF OthersKept
  <2>2. QED
    BY <1>1, <2>1, StayButOne
<1>5. CASE UNCHANGED <<stops, commands>>
  BY <1>4, <1>5, CommandsStay DEF StoppersStay
<1>6. CASE Made(q) /\ BeginStop(q, q)
  BY <1>0, <1>1, <1>2, <1>4, <1>6, CommandsOfStop
<1>7. CASE Spawn(q)
  <2> DEFINE e == [op |-> "start", by |-> q]
  <2>1. PICK u \in Windows : u = objects[q].win
    BY <1>7, SpawnKeeps
  <2>2. commands' = [commands EXCEPT ![u] = Append(commands[u], e)] /\ UNCHANGED stops
    BY <1>7, <2>1 DEF Spawn
  <2>3. objects'[q].win = u
    BY <1>7, <2>1, SpawnKeeps DEF ObjectsKept
  <2>4. requests'[q].pc = "starting"
    BY <1>0, <1>7, Moved DEF Spawn, Points
  <2>5. CommandOf(u, e)'
    BY <2>3, <2>4 DEF CommandOf
  <2>6. e \in CommandTypes /\ e.by = q
    BY <1>0 DEF CommandTypes
  <2>7. \A w \in Windows : \A i \in DOMAIN commands[w] : commands[w][i].by # q
    BY <1>0, <1>1, <1>2, AwaitsNone
  <2>8. \A w \in Windows : \A i \in DOMAIN commands[w] : Waits(commands[w][i])
    BY <1>4, <2>2, AllWait DEF StoppersStay
  <2> HIDE DEF e
  <2>9. QED
    BY <2>2, <2>5, <2>6, <2>7, <2>8, CommandSent
<1>8. QED
  BY <1>5, <1>6, <1>7, SpawnRefusedKeeps, NotReadyKeeps DEF Poll, NotPlayable, Playable, poolVars

LEMMA CommandsOfPool ==
    ASSUME Shape, [Next]_vars, NEW w \in Windows,
           PlaybackStarted(w) \/ StartFailed(w) \/ StopSettled(w)
    PROVE  Commands' /\ OneCommandEach'
<1>0. TypeOK /\ requests \in [Requests -> RequestStates] /\ stops \in [Stoppers -> StopTypes]
  BY TypesOf DEF Shape
<1>1. commands[w] # <<>> /\ commands' = [commands EXCEPT ![w] = Tail(commands[w])]
  BY DEF PlaybackStarted, StartFailed, StopSettled, Due
<1>2. ASSUME PlaybackStarted(w) \/ StartFailed(w), NEW v \in Windows, NEW i \in DOMAIN commands[v],
             commands[v][i].by # Head(commands[w]).by \/ commands[v][i].by = Nobody
      PROVE  Waits(commands[v][i])
  <2>1. PICK q \in Requests : q = Head(commands[w]).by /\ requests[q].pc = "starting"
    BY <1>2, StartDue DEF PlaybackStarted, StartFailed
  <2>2. PICK e \in CommandTypes : e = commands[v][i] /\ CommandOf(v, e)
    BY CommandIs
  <2>3. e.by # q
    BY <1>2, <2>1, <2>2, Names
  <2>4. \E r : requests' = [requests EXCEPT ![q] = r]
    BY <1>2, <2>1, Zenon DEF PlaybackStarted, StartFailed
  <2>5. \A c \in Stoppers \ {q} : stops'[c] = stops[c]
    BY <1>0, <1>2, <2>1 DEF PlaybackStarted, StartFailed
  <2>6. Waits(e)
    BY <1>0, <2>2, <2>3, <2>4, <2>5 DEF Waits, CommandOf, CommandTypes
  <2>7. QED
    BY <2>2, <2>6
<1>3. ASSUME StopSettled(w), NEW v \in Windows, NEW i \in DOMAIN commands[v],
             commands[v][i].by # Head(commands[w]).by \/ commands[v][i].by = Nobody
      PROVE  Waits(commands[v][i])
  <2>1. UNCHANGED requests /\ \A c \in Stoppers : c # Head(commands[w]).by => stops'[c] = stops[c]
    BY <1>0, <1>3 DEF StopSettled
  <2>2. PICK e \in CommandTypes : e = commands[v][i] /\ CommandOf(v, e)
    BY CommandIs
  <2>3. Waits(e)
    BY <1>3, <2>1, <2>2 DEF Waits, CommandOf, CommandTypes
  <2>4. QED
    BY <2>2, <2>3
<1>4. QED
  BY <1>1, <1>2, <1>3, CommandSettled

LEMMA CommandsOfLostWorker ==
    ASSUME Shape, [Next]_vars, NEW w \in Windows, WorkerLost(w)
    PROVE  Commands' /\ OneCommandEach'
<1>0. commands \in [Windows -> Seq(CommandTypes)] /\ stops \in [Stoppers -> StopTypes]
      /\ OneCommandEach /\ Places /\ Requests \subseteq Stoppers
  BY TypesOf, Names DEF Shape
<1>1. /\ commands'[w] = <<>> /\ \A v \in Windows \ {w} : commands'[v] = commands[v]
  BY <1>0 DEF WorkerLost
<1>2. ASSUME NEW v \in Windows, NEW i \in DOMAIN commands'[v]
      PROVE  v # w /\ i \in DOMAIN commands[v] /\ commands'[v][i] = commands[v][i]
  BY <1>1
<1>3. ASSUME NEW v \in Windows \ {w}, NEW e \in CommandTypes, CommandOf(v, e)
      PROVE  Waits(e)
  <2>1. CASE e.op = "start"
    <3>1. e.by \in Requests /\ requests[e.by].pc = "starting" /\ objects[e.by].win = v
      BY <1>3, <2>1 DEF CommandOf
    <3>2. requests'[e.by] = requests[e.by]
      BY <3>1 DEF WorkerLost
    <3>3. QED
      BY <2>1, <3>1, <3>2 DEF Waits
  <2>2. CASE e.op = "stop" /\ e.by # Nobody
    <3>1. e.by \in Stoppers /\ stops[e.by].at = "ack" /\ objects[stops[e.by].obj].win = v
      BY <1>3, <2>2 DEF CommandOf, CommandTypes
    <3>2. e.by \in Requests => requests[e.by].pc # "starting"
      BY <1>0, <3>1 DEF Places, PlaceOf, NotStopping
    <3>3. stops'[e.by] = stops[e.by]
      BY <3>1, <3>2 DEF WorkerLost
    <3>4. QED
      BY <2>2, <3>3 DEF Waits
  <2>3. CASE e.op = "stop" /\ e.by = Nobody
    BY <2>3 DEF Waits
  <2>4. QED
    BY <2>1, <2>2, <2>3 DEF CommandTypes
<1>4. ASSUME NEW v \in Windows, NEW i \in DOMAIN commands'[v]
      PROVE  CommandOf(v, commands[v][i])'
  <2>1. PICK d \in CommandTypes : d = commands[v][i] /\ CommandOf(v, d)
    BY <1>2, CommandIs
  <2>2. CommandOf(v, d)'
    BY <1>2, <1>3, <2>1, CommandKept
  <2>3. d = commands'[v][i]
    BY <1>2, <2>1
  <2>4. QED
    BY <2>2, <2>3 DEF CommandOf
<1>5. Commands'
  BY <1>4 DEF Commands
<1>6. OneCommandEach'
  BY <1>0, <1>2 DEF OneCommandEach
<1>7. QED
  BY <1>5, <1>6

LEMMA CommandsOfTheRest ==
    ASSUME Shape, [Next]_vars,
           \/ \E q \in Requests, v \in Viewers :
                ReleaseViewer(q, v) \/ \E w \in Windows : Request(q, v, w)
           \/ \E c \in Stoppers : StopEnds(c)
           \/ \E o \in Requests :
                FfmpegExit(o) \/ Produce(o) \/ Access(o) \/ TimePasses(o) \/ CleanupNext(o)
           \/ CleanupBegins \/ DirectoryRemoved \/ UNCHANGED vars
    PROVE  Commands' /\ OneCommandEach'
<1>0. /\ TypeOK /\ requests \in [Requests -> RequestStates] /\ stops \in [Stoppers -> StopTypes]
      /\ Requests \subseteq Stoppers /\ Cleanup \in Stoppers /\ Cleanup \notin Requests /\ Places
      /\ commands \in [Windows -> Seq(CommandTypes)]
  BY TypesOf, Names DEF Shape
<1>1. ASSUME NEW q \in Requests, NEW v \in Viewers,
             ReleaseViewer(q, v) \/ \E w \in Windows : Request(q, v, w)
      PROVE  Commands' /\ OneCommandEach'
  <2>1. StartingStay
    BY <1>0, <1>1, Begun, StayButOne
  <2>2. UNCHANGED <<stops, commands>>
    BY <1>1 DEF ReleaseViewer, Request, poolVars
  <2>3. QED
    BY <2>1, <2>2, CommandsStay DEF StoppersStay
<1>2. ASSUME NEW c \in Stoppers, StopEnds(c)
      PROVE  Commands' /\ OneCommandEach'
  <2>1. UNCHANGED commands /\ stops[c].at = "child"
    BY <1>2 DEF StopEnds, poolVars
  <2>2. \A d \in Stoppers \ {c} : stops'[d] = stops[d]
    BY <1>0, <1>2 DEF StopEnds
  <2>3. \A q \in Requests : requests[q].pc = "starting" => requests'[q] = requests[q]
    BY <1>0, <1>2 DEF StopEnds, Stoppers
  <2>4. QED
    BY <2>1, <2>2, <2>3, CommandsStay DEF StoppersStay, StartingStay
<1>3. ASSUME NEW o \in Requests, FfmpegExit(o)
      PROVE  Commands' /\ OneCommandEach'
  <2>1. UNCHANGED <<requests, stops>>
    BY <1>3 DEF FfmpegExit
  <2>2. StartingStay /\ StoppersStay
    BY <2>1 DEF StartingStay, StoppersStay
  <2>3. CASE UNCHANGED commands
    BY <2>2, <2>3, CommandsStay
  <2>4. CASE ~(UNCHANGED commands)
    <3> DEFINE e == [op |-> "stop", by |-> Nobody]
    <3>1. objects[o].win \in slots /\ commands' = [commands EXCEPT ![objects[o].win] = Append(@, e)]
      BY <1>3, <2>4 DEF FfmpegExit, SendStop
    <3>2. PICK u \in Windows : u = objects[o].win
      BY <1>0, <3>1, TypesOf
    <3>3. commands' = [commands EXCEPT ![u] = Append(commands[u], e)]
      BY <3>1, <3>2
    <3>4. CommandOf(u, e)' /\ e \in CommandTypes /\ e.by = Nobody
      BY DEF CommandOf, CommandTypes
    <3>5. \A w \in Windows : \A i \in DOMAIN commands[w] : Waits(commands[w][i])
      BY <2>2, AllWait
    <3> HIDE DEF e
    <3>6. QED
      BY <3>3, <3>4, <3>5, CommandSent
  <2>5. QED
    BY <2>3, <2>4
<1>4. ASSUME NEW o \in Requests, CleanupNext(o)
      PROVE  Commands' /\ OneCommandEach'
  <2>1. StartingStay /\ NotStopping(Cleanup) /\ Made(o)
    BY <1>4 DEF CleanupNext, StartingStay, Shape, Swept
  <2>2. CASE UNCHANGED <<stops, commands>>
    BY <2>1, <2>2, CommandsStay DEF StoppersStay
  <2>3. CASE BeginStop(Cleanup, o)
    BY <1>0, <2>1, <2>3, CommandsOfStop
  <2>4. QED
    BY <1>4, <2>2, <2>3 DEF CleanupNext
<1>5. CASE DirectoryRemoved
  <2>1. StartingStay /\ UNCHANGED commands
    BY <1>5 DEF DirectoryRemoved, StartingStay, poolVars
  <2>2. StoppersStay
    BY <1>0, <1>5 DEF DirectoryRemoved, StoppersStay
  <2>3. QED
    BY <2>1, <2>2, CommandsStay
<1>6. CASE UNCHANGED <<requests, stops, commands>>
  BY <1>6, CommandsStay DEF StoppersStay, StartingStay
<1>7. QED
  BY <1>1, <1>2, <1>3, <1>4, <1>5, <1>6
  DEF Produce, Access, TimePasses, CleanupBegins, vars, poolVars

LEMMA CommandsPreserved ==
    ASSUME Shape, [Next]_vars
    PROVE  Commands' /\ OneCommandEach'
BY CommandsInQueue, CommandsOfMovers, CommandsOfPool, CommandsOfLostWorker, CommandsOfTheRest
   DEF Next

-----------------------------------------------------------------------------
(* The device's queue.                                                     *)

InLock == {"lock"} \cup InTheQueue

\* Nothing enters or leaves the queue.
LEMMA QueueKept ==
    ASSUME Shape, UNCHANGED lockQueue,
           \A p \in Requests : requests[p].pc \in InLock => requests'[p].pc \in InLock,
           \A p \in Requests : requests'[p].pc \in InTheQueue => Holds(p)
    PROVE  Queue'
<1>1. lockQueue \in Seq(Requests)
  BY DEF Shape, TypeOK
<1>2. \A i \in DOMAIN lockQueue : lockQueue[i] \in Requests
  BY <1>1, LenProperties, ElementOfSeq
<1>3. QED
  BY <1>2 DEF Shape, Queue, InLock, Holds

\* The head leaves it.
LEMMA QueueLeft ==
    ASSUME Shape, NEW q \in Requests, requests[q].pc \in InTheQueue, lockQueue' = Tail(lockQueue),
           OthersKept(q), requests'[q].pc \notin InLock
    PROVE  Queue'
<1>1. lockQueue \in Seq(Requests) /\ lockQueue # <<>> /\ Head(lockQueue) = q /\ Queue
  BY QueueTail DEF Shape, TypeOK
<1> DEFINE n == Len(lockQueue)
           t == Tail(lockQueue)
<1>2. n \in Nat /\ DOMAIN lockQueue = 1 .. n /\ n # 0
  BY <1>1, LenProperties, EmptySeq
<1>3. lockQueue[1] = q
  BY <1>1
<1>4. Len(t) = n - 1 /\ t \in Seq(Requests) /\ \A i \in 1 .. n - 1 : t[i] = lockQueue[i + 1]
  BY <1>1, HeadTailProperties
<1>5. DOMAIN t = 1 .. n - 1
  BY <1>4, LenProperties
<1>6. \A i \in 1 .. n : lockQueue[i] \in Requests
  BY <1>1, ElementOfSeq
<1>7. lockQueue' = t
  OBVIOUS
<1> HIDE DEF n, t
<1>8. \A i \in DOMAIN t : t[i] = lockQueue[i + 1] /\ i + 1 \in 1 .. n /\ i + 1 # 1
  BY <1>2, <1>4, <1>5
<1>9. \A i \in DOMAIN t : t[i] \in Requests \ {q} /\ requests'[t[i]] = requests[t[i]]
  BY <1>1, <1>2, <1>3, <1>6, <1>8 DEF Queue, OthersKept
<1>10. \A i \in DOMAIN t : requests'[t[i]].pc \in InLock
  BY <1>1, <1>2, <1>8, <1>9 DEF Queue, InLock
<1>11. \A i, j \in DOMAIN t : t[i] = t[j] => i = j
  <2> SUFFICES ASSUME NEW i \in DOMAIN t, NEW j \in DOMAIN t, t[i] = t[j]
               PROVE  i = j
    OBVIOUS
  <2>1. i + 1 = j + 1
    BY <1>1, <1>2, <1>8 DEF Queue
  <2>2. QED
    BY <1>2, <1>5, <2>1
<1>12. \A p \in Requests : requests'[p].pc \notin InTheQueue
  BY <1>1 DEF Queue, Holds, OthersKept, InLock
<1>13. QED
  BY <1>7, <1>10, <1>11, <1>12 DEF Queue, InLock

LEMMA QueuePreserved ==
    ASSUME Shape, [Next]_vars
    PROVE  Queue'
<1>0. TypeOK /\ Queue /\ requests \in [Requests -> RequestStates] /\ lockQueue \in Seq(Requests)
  BY DEF Shape, TypeOK
<1>1. ASSUME NEW q \in Requests, NEW v \in Viewers,
             ReleaseViewer(q, v) \/ \E w \in Windows : Request(q, v, w)
      PROVE  Queue'
  <2>1. lockQueue' = Append(lockQueue, q) /\ OthersKept(q) /\ requests[q].pc = "idle"
        /\ requests'[q].pc = "lock"
    BY <1>0, <1>1, Begun DEF ReleaseViewer, Request
  <2> DEFINE n == Len(lockQueue)
  <2>2. /\ n \in Nat /\ DOMAIN lockQueue = 1 .. n /\ DOMAIN lockQueue' = 1 .. n + 1
        /\ \A i \in 1 .. n : lockQueue'[i] = lockQueue[i]
        /\ lockQueue'[n + 1] = q
    BY <1>0, <2>1, LenProperties, AppendProperties
  <2>3. \A i \in 1 .. n : lockQueue[i] \in Requests
    BY <1>0, ElementOfSeq
  <2> HIDE DEF n
  <2>4. \A i \in 1 .. n : lockQueue[i] # q
    BY <1>0, <2>1, <2>2 DEF Queue, InTheQueue
  <2>5. \A i \in DOMAIN lockQueue' : requests'[lockQueue'[i]].pc \in InLock
    <3>1. \A i \in 1 .. n : requests'[lockQueue[i]] = requests[lockQueue[i]]
      BY <2>1, <2>3, <2>4 DEF OthersKept
    <3>2. QED
      BY <1>0, <2>1, <2>2, <3>1 DEF Queue, InLock
  <2>6. \A i, j \in DOMAIN lockQueue' : lockQueue'[i] = lockQueue'[j] => i = j
    BY <1>0, <2>2, <2>4 DEF Queue
  <2>7. \A p \in Requests : requests'[p].pc \in InTheQueue => Holds(p)'
    <3>1. ASSUME NEW p \in Requests, requests'[p].pc \in InTheQueue
          PROVE  Holds(p)'
      <4>1. p # q /\ requests[p].pc \in InTheQueue
        BY <2>1, <3>1 DEF OthersKept, InTheQueue
      <4>2. lockQueue # <<>> /\ Head(lockQueue) = p
        BY <1>0, <4>1 DEF Queue, Holds
      <4>3. Head(Append(lockQueue, q)) = Head(lockQueue) /\ Append(lockQueue, q) # <<>>
        BY <1>0, <4>2, AppendProperties, EmptySeq
      <4>4. QED
        BY <2>1, <4>2, <4>3 DEF Holds
    <3>2. QED
      BY <3>1
  <2>8. QED
    BY <2>5, <2>6, <2>7 DEF Queue, InLock
<1>2. ASSUME NEW q \in Requests, UNCHANGED lockQueue, OthersKept(q),
             \/ requests[q].pc \in InLock /\ requests'[q].pc \in InTheQueue /\ Holds(q)
             \/ requests[q].pc \notin InLock /\ requests'[q].pc \notin InTheQueue
      PROVE  Queue'
  BY <1>0, <1>2, QueueKept DEF OthersKept, Queue, InLock
<1>3. ASSUME NEW q \in Requests, Enter(q)
      PROVE  Queue'
  BY <1>0, <1>2, <1>3, Entered DEF Enter, InLock, InTheQueue
<1>4. ASSUME NEW q \in Requests, RetireLeft(q)
      PROVE  Queue'
  <2>1. PICK T : requests' = [requests EXCEPT ![q].todo = T]
    BY <1>4 DEF RetireLeft
  <2>2. /\ OthersKept(q) /\ requests[q].pc = "release" /\ requests'[q].pc = "release"
        /\ UNCHANGED lockQueue
    BY <1>0, <1>4, <2>1, Looked DEF RetireLeft
  <2>3. QED
    BY <1>0, <1>2, <2>2 DEF InLock, InTheQueue, Queue
<1>5. ASSUME NEW q \in Requests, Released(q)
      PROVE  Queue'
  BY <1>0, <1>2, <1>5, WasReleased, QueueLeft DEF Released, InLock, InTheQueue, Queue
<1>6. ASSUME NEW q \in Requests, Evict(q)
      PROVE  Queue'
  <2>1. PICK T : requests' = [requests EXCEPT ![q].todo = T]
    BY <1>6 DEF Evict
  <2>2. /\ OthersKept(q) /\ requests[q].pc = "capacity" /\ requests'[q].pc = "capacity"
        /\ UNCHANGED lockQueue
    BY <1>0, <1>6, <2>1, Looked DEF Evict
  <2>3. QED
    BY <1>0, <1>2, <2>2 DEF InLock, InTheQueue, Queue
<1>7. ASSUME NEW q \in Requests, PoolFull(q) \/ DirectoryFails(q)
      PROVE  Queue'
  BY <1>0, <1>7, IsDone, QueueLeft DEF PoolFull, DirectoryFails, InLock, InTheQueue
<1>8. ASSUME NEW q \in Requests, HasRoom(q)
      PROVE  Queue'
  <2>1. requests' = [requests EXCEPT ![q] = [requests[q] EXCEPT !.pc = "dir", !.todo = {}]]
        /\ requests[q].pc = "capacity" /\ UNCHANGED lockQueue /\ "dir" \in Points
    BY <1>8 DEF HasRoom, Points
  <2>2. Went(q, "dir", {})
    BY <1>0, <2>1, WentOn
  <2>3. QED
    BY <1>0, <1>2, <2>1, <2>2 DEF InLock, InTheQueue, Queue, Went
<1>9. ASSUME NEW q \in Requests, DirectoryMade(q)
      PROVE  Queue'
  BY <1>0, <1>9, Moved, QueueLeft DEF DirectoryMade, InLock, InTheQueue, Points
<1>10. ASSUME NEW q \in Requests, Spawn(q) \/ SpawnRefused(q) \/ Poll(q) \/ NotPlayable(q)
                                  \/ Playable(q) \/ NotReady(q)
       PROVE  Queue'
  <2>1. UNCHANGED lockQueue /\ requests[q].pc \in {"spawn", "wait", "poll"}
    BY <1>10 DEF Spawn, SpawnRefused, Poll, NotPlayable, Playable, NotReady, poolVars
  <2>2. \/ \E p \in {"starting", "failing", "wait", "poll"} : requests' = [requests EXCEPT ![q].pc = p]
        \/ requests' = [requests EXCEPT ![q] = Done]
    BY <1>10 DEF Spawn, SpawnRefused, Poll, NotPlayable, Playable, NotReady, Fail
  <2>3. OthersKept(q) /\ requests'[q].pc \in {"starting", "failing", "wait", "poll", "done"}
    BY <1>0, <2>2, Moved, IsDone DEF Points
  <2>4. QED
    BY <1>2, <2>1, <2>3 DEF InLock, InTheQueue
<1>11. ASSUME NEW w \in Windows, PlaybackStarted(w) \/ StartFailed(w)
       PROVE  Queue'
  <2>1. PICK q \in Requests : q = Head(commands[w]).by /\ requests[q].pc = "starting"
    BY <1>11, StartDue DEF PlaybackStarted, StartFailed
  <2>2. PICK p \in {"failing", "wait"} : requests' = [requests EXCEPT ![q].pc = p]
    BY <1>11, <2>1 DEF PlaybackStarted, StartFailed
  <2>3. OthersKept(q) /\ requests'[q].pc = p /\ UNCHANGED lockQueue
    BY <1>0, <1>11, <2>2, Moved DEF PlaybackStarted, StartFailed, Points
  <2>4. QED
    BY <1>2, <2>1, <2>3 DEF InLock, InTheQueue
<1>12. ASSUME NEW w \in Windows, WorkerLost(w)
       PROVE  Queue'
  <2>1. ASSUME NEW p \in Requests
        PROVE  \/ requests'[p] = requests[p]
               \/ requests[p].pc = "starting" /\ requests'[p].pc = "failing"
    <3>1. \/ requests'[p] = requests[p]
          \/ requests[p].pc = "starting" /\ requests'[p] = [requests[p] EXCEPT !.pc = "failing"]
      BY <1>12 DEF WorkerLost
    <3>2. requests[p] \in RequestStates
      BY <1>0
    <3>3. QED
      BY <3>1, <3>2 DEF RequestStates
  <2>2. UNCHANGED lockQueue
    BY <1>12 DEF WorkerLost
  <2>3. QED
    BY <1>0, <2>1, <2>2, QueueKept DEF Queue, InLock, InTheQueue
<1>13. ASSUME NEW c \in Stoppers, StopEnds(c)
       PROVE  Queue'
  <2>1. UNCHANGED lockQueue /\ (UNCHANGED requests
          \/ (c \in Requests /\ requests[c].pc = "failing" /\ requests' = [requests EXCEPT ![c] = Done]))
    BY <1>0, <1>13 DEF StopEnds, Stoppers
  <2>2. CASE UNCHANGED requests
    BY <1>0, <2>1, <2>2, QueueKept DEF Queue
  <2>3. CASE c \in Requests /\ requests[c].pc = "failing" /\ requests' = [requests EXCEPT ![c] = Done]
    BY <1>0, <1>2, <2>1, <2>3, IsDone DEF InLock, InTheQueue
  <2>4. QED
    BY <2>1, <2>2, <2>3
<1>14. CASE UNCHANGED <<requests, lockQueue>>
  BY <1>0, <1>14, QueueKept DEF Queue
<1>15. QED
  BY <1>1, <1>3, <1>4, <1>5, <1>6, <1>7, <1>8, <1>9, <1>10, <1>11, <1>12, <1>13, <1>14
  DEF Next, InQueue, vars, StopSettled, FfmpegExit, Produce, Access, TimePasses, CleanupNext,
      CleanupBegins, DirectoryRemoved, poolVars

LEMMA ShapePreserved == Shape /\ [Next]_vars => Shape'
<1> SUFFICES ASSUME Shape, [Next]_vars
             PROVE  Shape'
  OBVIOUS
<1>1. TypeOK'
  BY TypePreserved
<1>2. QED
  BY <1>1, PlacesPreserved, StoppingPreserved, CommandsPreserved, SweptPreserved, QueuePreserved
  DEF Shape

-----------------------------------------------------------------------------
(* No slot is forgotten.                                                   *)

\* An object that started goes on, or its slot is gone, or a command is on its way.
OwnerStays(o) ==
    /\ objects'[o].win = objects[o].win
    /\ objects[o].started => \/ objects'[o].started
                             \/ objects[o].win \notin slots'
                             \/ commands'[objects[o].win] # <<>>
ViewersKept == \A o \in Requests : objects'[o].viewers = objects[o].viewers

\* Commands are only added, and slots only taken away.
CommandsGrow == \A w \in Windows : commands[w] # <<>> => commands'[w] # <<>>

LEMMA OwnersKept ==
    ASSUME Shape, SlotHasOwner,
           \A o \in Requests : Made(o) => OwnerStays(o),
           \A w \in slots' : w \in Windows /\ (w \in slots \/ commands'[w] # <<>>),
           \A w \in slots' : commands[w] # <<>> =>
               \/ commands'[w] # <<>>
               \/ \E o \in Requests : objects'[o].win = w /\ objects'[o].started
    PROVE  SlotHasOwner'
<1> SUFFICES ASSUME NEW w \in slots', commands'[w] = <<>>
             PROVE  \E o \in Requests : objects'[o].win = w /\ objects'[o].started
  BY DEF SlotHasOwner
<1>1. w \in slots /\ w \in Windows
  OBVIOUS
<1>2. CASE commands[w] = <<>>
  <2>1. PICK o \in Requests : objects[o].win = w /\ objects[o].started
    BY <1>1, <1>2 DEF SlotHasOwner
  <2>2. Made(o)
    BY <1>1, <2>1, Names DEF Made
  <2>3. QED
    BY <2>1, <2>2 DEF OwnerStays
<1>3. CASE commands[w] # <<>>
  BY <1>3
<1>4. QED
  BY <1>2, <1>3

LEMMA AppendedNotEmpty ==
    ASSUME NEW S, NEW s \in Seq(S), NEW e \in S
    PROVE  Append(s, e) # <<>>
BY AppendProperties, EmptySeq

LEMMA StopOwns ==
    ASSUME TypeOK, NEW c \in Stoppers, NEW o \in Requests, Made(o), BeginStop(c, o), UNCHANGED slots
    PROVE  /\ CommandsGrow
           /\ objects[o].started => \/ objects[o].win \notin slots'
                                    \/ commands'[objects[o].win] # <<>>
<1>0. commands \in [Windows -> Seq(CommandTypes)]
  BY TypesOf
<1> DEFINE e == [op |-> "stop", by |-> c]
<1>1. PICK u \in Windows : u = objects[o].win
  BY MadeWindow
<1>2. e \in CommandTypes
  BY DEF CommandTypes
<1>3. CASE objects[o].started /\ u \in slots
  <2>1. commands' = [commands EXCEPT ![u] = Append(commands[u], e)]
    BY <1>1, <1>3 DEF BeginStop, SendStop
  <2>2. Append(commands[u], e) # <<>>
    BY <1>0, <1>2, AppendedNotEmpty
  <2>3. QED
    BY <1>0, <1>1, <2>1, <2>2 DEF CommandsGrow
<1>4. CASE ~(objects[o].started /\ u \in slots)
  BY <1>1, <1>4 DEF BeginStop, SendStop, CommandsGrow
<1>5. QED
  BY <1>3, <1>4

\* A step that changes one object, or none.
LEMMA PutOwner ==
    ASSUME TypeOK, NEW o \in Requests, NEW r, objects' = [objects EXCEPT ![o] = r],
           r.win = objects[o].win, r.viewers = objects[o].viewers,
           objects[o].started => \/ r.started
                                 \/ objects[o].win \notin slots'
                                 \/ commands'[objects[o].win] # <<>>
    PROVE  ViewersKept /\ \A p \in Requests : OwnerStays(p)
<1>1. objects'[o] = r /\ \A p \in Requests \ {o} : objects'[p] = objects[p]
  BY DEF TypeOK
<1>2. QED
  BY <1>1 DEF ViewersKept, OwnerStays

LEMMA SameOwners ==
    ASSUME UNCHANGED objects
    PROVE  ViewersKept /\ \A p \in Requests : OwnerStays(p)
BY DEF ViewersKept, OwnerStays

\* An object that is stopped by c, becoming r.
LEMMA StoppedOwner ==
    ASSUME TypeOK, NEW c \in Stoppers, NEW o \in Requests, Made(o), BeginStop(c, o), UNCHANGED slots,
           NEW r, objects' = [objects EXCEPT ![o] = r],
           r.win = objects[o].win, r.viewers = objects[o].viewers
    PROVE  ViewersKept /\ CommandsGrow /\ \A p \in Requests : OwnerStays(p)
BY StopOwns, PutOwner

\* What the invariant of the slots needs of a step, but of those that change viewers.
OwnersStay ==
    /\ \A o \in Requests : Made(o) => OwnerStays(o)
    /\ CommandsGrow /\ slots' \subseteq slots

LEMMA OwnersStayKept ==
    ASSUME Shape, SlotHasOwner, OwnersStay
    PROVE  SlotHasOwner'
<1>1. slots \subseteq Windows
  BY DEF Shape, TypeOK
<1>2. QED
  BY <1>1, OwnersKept DEF OwnersStay, CommandsGrow

LEMMA OwnersOfStops ==
    ASSUME Shape, [Next]_vars
    PROVE  /\ \A q \in Requests : Evict(q) \/ SpawnRefused(q) \/ NotReady(q) => OwnersStay /\ ViewersKept
           /\ \A o \in Requests : CleanupNext(o) \/ FfmpegExit(o) => OwnersStay /\ ViewersKept
<1>0. TypeOK /\ Requests \subseteq Stoppers /\ Cleanup \in Stoppers
      /\ commands \in [Windows -> Seq(CommandTypes)]
  BY Names, TypesOf DEF Shape
<1>1. ASSUME UNCHANGED <<objects, commands, slots>>
      PROVE  OwnersStay /\ ViewersKept
  BY <1>1, SameOwners DEF OwnersStay, CommandsGrow
<1>2. ASSUME NEW q \in Requests, Evict(q)
      PROVE  OwnersStay /\ ViewersKept
  <2>1. PICK o \in requests[q].todo :
           \/ objects' = [objects EXCEPT ![o] = Retired(o)] /\ BeginStop(q, o)
           \/ UNCHANGED <<objects, commands>>
    BY <1>2 DEF Evict
  <2>2. o \in Requests /\ Made(o) /\ UNCHANGED slots
    BY <1>0, <1>2, CallTypes DEF Shape, Places, PlaceOf, Evict
  <2>3. QED
    BY <1>0, <1>1, <2>1, <2>2, RetiredFields, StoppedOwner DEF OwnersStay
<1>3. ASSUME NEW q \in Requests, SpawnRefused(q)
      PROVE  OwnersStay /\ ViewersKept
  <2>1. Made(q) /\ BeginStop(q, q) /\ UNCHANGED slots
    BY <1>3, SpawnRefusedKeeps DEF SpawnRefused
  <2>2. PICK ffmpeg : objects' = [objects EXCEPT ![q] = [Ended(q, "error") EXCEPT !.ffmpeg = Kill(ffmpeg)]]
    BY <1>3 DEF SpawnRefused
  <2> DEFINE r == [Ended(q, "error") EXCEPT !.ffmpeg = Kill(ffmpeg)]
  <2>3. Ended(q, "error") \in SessionStates /\ Ended(q, "error").win = objects[q].win
        /\ Ended(q, "error").viewers = objects[q].viewers
    BY <1>0, EndedFields
  <2>4. r.win = objects[q].win /\ r.viewers = objects[q].viewers
    BY <2>3 DEF SessionStates
  <2>5. objects' = [objects EXCEPT ![q] = r]
    BY <2>2
  <2> HIDE DEF r
  <2>6. QED
    BY <1>0, <2>1, <2>4, <2>5, StoppedOwner DEF OwnersStay
<1>4. ASSUME NEW q \in Requests, NotReady(q)
      PROVE  OwnersStay /\ ViewersKept
  <2>1. CASE Creates(q)
    <3>1. /\ objects' = [objects EXCEPT ![q] = Ended(q, "error")]
          /\ BeginStop(q, q) /\ UNCHANGED slots /\ Made(q)
      BY <1>4, <2>1, NotReadyKeeps DEF NotReady, Fail, Creates
    <3>2. QED
      BY <1>0, <3>1, EndedFields, StoppedOwner DEF OwnersStay
  <2>2. CASE ~Creates(q)
    BY <1>1, <1>4, <2>2 DEF NotReady
  <2>3. QED
    BY <2>1, <2>2
<1>5. ASSUME NEW o \in Requests, CleanupNext(o)
      PROVE  OwnersStay /\ ViewersKept
  <2>1. CASE Expired(o)
    <3>1. /\ objects' = [objects EXCEPT ![o] = Ended(o, "cancelled")]
          /\ BeginStop(Cleanup, o) /\ UNCHANGED slots /\ Made(o)
      BY <1>5, <2>1 DEF CleanupNext, Shape, Swept
    <3>2. QED
      BY <1>0, <3>1, EndedFields, StoppedOwner DEF OwnersStay
  <2>2. CASE ~Expired(o)
    BY <1>1, <1>5, <2>2 DEF CleanupNext
  <2>3. QED
    BY <2>1, <2>2
<1>6. ASSUME NEW o \in Requests, FfmpegExit(o)
      PROVE  OwnersStay /\ ViewersKept
  <2>1. objects' = [objects EXCEPT ![o] = Exited(o)] /\ UNCHANGED slots
    BY <1>6 DEF FfmpegExit
  <2> DEFINE e == [op |-> "stop", by |-> Nobody]
             u == objects[o].win
  <2>2. \/ objects[o].started /\ u \in slots /\ commands' = [commands EXCEPT ![u] = Append(commands[u], e)]
        \/ ~(objects[o].started /\ u \in slots) /\ UNCHANGED commands
    BY <1>6 DEF FfmpegExit, SendStop
  <2>3. e \in CommandTypes
    BY DEF CommandTypes
  <2>4. \A w \in Windows : Append(commands[w], e) # <<>>
    BY <1>0, <2>3, AppendedNotEmpty
  <2> HIDE DEF e
  <2>5. CommandsGrow
    BY <1>0, <2>2, <2>4 DEF CommandsGrow
  <2>6. objects[o].started => u \notin slots' \/ commands'[u] # <<>>
    BY <1>0, <2>1, <2>2, <2>4, TypesOf
  <2>7. QED
    BY <1>0, <2>1, <2>5, <2>6, ExitedFields, PutOwner DEF OwnersStay
<1>7. QED
  BY <1>2, <1>3, <1>4, <1>5, <1>6

\* What Enter, RetireLeft and Released do to the objects' owners and viewers.
LEMMA OwnersInQueue ==
    ASSUME Shape, [Next]_vars, NEW q \in Requests, Enter(q) \/ RetireLeft(q) \/ Released(q)
    PROVE  OwnersStay
<1>0. TypeOK /\ q \in Stoppers /\ Places
  BY Names DEF Shape
<1>1. CASE Enter(q)
  <2>1. UNCHANGED <<slots, commands>>
    BY <1>1 DEF Enter, poolVars
  <2>2. CASE UNCHANGED objects
    BY <2>1, <2>2, SameOwners DEF OwnersStay, CommandsGrow
  <2>3. ASSUME NEW o \in Requests, objects' = [objects EXCEPT ![o] = Seen(o, requests[q].viewer)]
        PROVE  OwnersStay
    <3>1. Seen(o, requests[q].viewer).win = objects[o].win
          /\ Seen(o, requests[q].viewer).started = objects[o].started
      BY <1>0, CallTypes, SeenFields
    <3>2. /\ objects'[o] = Seen(o, requests[q].viewer)
          /\ \A p \in Requests \ {o} : objects'[p] = objects[p]
      BY <1>0, <2>3 DEF TypeOK
    <3>3. QED
      BY <2>1, <3>1, <3>2 DEF OwnersStay, OwnerStays, CommandsGrow
  <2>4. ASSUME NEW o \in Existing(requests[q].win), requests[q].win \in Windows
        PROVE  o \in Requests
    BY <1>0, <2>4 DEF Existing, Mapped, TypeOK
  <2>5. QED
    BY <1>0, <1>1, <2>2, <2>3, <2>4, Entered
<1>2. CASE RetireLeft(q)
  <2>1. PICK o \in Left(q) :
          /\ objects' = [WithoutViewer(q, Others(q) \ Left(q)) EXCEPT
                           ![o] = [Retired(o) EXCEPT !.viewers = {}]]
          /\ BeginStop(q, o) /\ UNCHANGED slots
    BY <1>2 DEF RetireLeft
  <2>2. o \in Requests /\ Made(o) /\ Others(q) \ Left(q) \in SUBSET Requests
    BY <1>0, CallTypes DEF Left, Others, Places, PlaceOf
  <2>3. ASSUME NEW p \in Requests, p # o
        PROVE  objects'[p].started = objects[p].started
    <3>1. objects'[p] = WithoutViewer(q, Others(q) \ Left(q))[p]
      BY <2>1, <2>3 DEF WithoutViewer
    <3>2. QED
      BY <1>0, <2>2, <3>1, WithoutViewerStarted
  <2>4. ObjectsKept
    BY <1>2, RetireLeftKeeps
  <2>5. CommandsGrow /\ (objects[o].started => \/ objects[o].win \notin slots'
                                              \/ commands'[objects[o].win] # <<>>)
    BY <1>0, <2>1, <2>2, StopOwns
  <2>6. QED
    BY <2>1, <2>3, <2>4, <2>5 DEF OwnersStay, OwnerStays, ObjectsKept
<1>3. CASE Released(q)
  <2>1. objects' = WithoutViewer(q, Others(q)) /\ UNCHANGED <<slots, commands>>
    BY <1>3 DEF Released, poolVars
  <2>2. Others(q) \in SUBSET Requests
    BY <1>0, CallTypes DEF Others
  <2>3. ASSUME NEW p \in Requests
        PROVE  objects'[p].started = objects[p].started
    BY <1>0, <2>1, <2>2, WithoutViewerStarted
  <2>4. ObjectsKept
    BY <1>0, <1>3, ReleasedKeeps
  <2>5. QED
    BY <2>1, <2>3, <2>4 DEF OwnersStay, OwnerStays, ObjectsKept, CommandsGrow
<1>4. QED
  BY <1>1, <1>2, <1>3

\* A start or a stop settles, or the worker is lost: the slot goes with the answer,
\* or the playback has an owner.
LEMMA OwnersOfPool ==
    ASSUME Shape, [Next]_vars, SlotHasOwner, NEW w \in Windows,
           PlaybackStarted(w) \/ StartFailed(w) \/ StopSettled(w) \/ WorkerLost(w)
    PROVE  SlotHasOwner' /\ ViewersKept
<1>0. /\ TypeOK /\ commands \in [Windows -> Seq(CommandTypes)] /\ slots \subseteq Windows
      /\ objects \in [Requests -> SessionStates]
  BY TypesOf DEF Shape
<1>1. \A v \in Windows \ {w} : commands'[v] = commands[v]
  BY <1>0 DEF PlaybackStarted, StartFailed, StopSettled, WorkerLost
<1>2. ASSUME slots' = slots \ {w}, \A o \in Requests : Made(o) => OwnerStays(o)
      PROVE  SlotHasOwner'
  BY <1>0, <1>1, <1>2, OwnersKept
<1>3. CASE PlaybackStarted(w)
  <2>1. PICK q \in Requests : q = Head(commands[w]).by /\ objects[q].win = w
    BY <1>3, StartDue DEF PlaybackStarted
  <2> DEFINE r == [objects[q] EXCEPT !.started = TRUE]
  <2>2. objects' = [objects EXCEPT ![q] = r] /\ UNCHANGED slots
    BY <1>3, <2>1 DEF PlaybackStarted
  <2>3. r.win = objects[q].win /\ r.viewers = objects[q].viewers /\ r.started
    BY <1>0 DEF SessionStates
  <2> HIDE DEF r
  <2>4. ViewersKept /\ \A o \in Requests : OwnerStays(o)
    BY <1>0, <2>2, <2>3, PutOwner
  <2>5. objects'[q].win = w /\ objects'[q].started
    BY <1>0, <2>1, <2>2, <2>3
  <2>6. QED
    BY <1>0, <1>1, <2>2, <2>4, <2>5, OwnersKept
<1>4. CASE StartFailed(w)
  <2>1. PICK q \in Requests : q = Head(commands[w]).by /\ objects[q].win = w
    BY <1>4, StartDue DEF StartFailed
  <2>2. objects' = [objects EXCEPT ![q] = Ended(q, "error")] /\ slots' = slots \ {w}
    BY <1>4, <2>1 DEF StartFailed
  <2>3. ViewersKept /\ \A o \in Requests : OwnerStays(o)
    BY <1>0, <2>1, <2>2, EndedFields, PutOwner
  <2>4. QED
    BY <1>2, <2>2, <2>3
<1>5. CASE StopSettled(w)
  <2>1. ViewersKept /\ \A o \in Requests : OwnerStays(o)
    BY <1>5, StopSettledKeeps DEF ViewersKept, OwnerStays, ObjectsKept
  <2>2. slots' = slots \ {w}
    BY <1>5 DEF StopSettled
  <2>3. QED
    BY <1>2, <2>1, <2>2
<1>6. CASE WorkerLost(w)
  <2>1. slots' = slots \ {w}
    BY <1>6 DEF WorkerLost
  <2>2. ASSUME NEW o \in Requests
        PROVE  objects'[o].viewers = objects[o].viewers /\ OwnerStays(o)
    <3> DEFINE k == [objects[o] EXCEPT !.ffmpeg = Kill(@)]
    <3>1. \/ objects'[o] = Ended(o, "error") /\ objects[o].win = w
          \/ objects'[o] = k
          \/ objects'[o] = objects[o]
      BY <1>6 DEF WorkerLost
    <3>2. k.win = objects[o].win /\ k.started = objects[o].started /\ k.viewers = objects[o].viewers
      BY <1>0, KilledFields
    <3> HIDE DEF k
    <3>3. QED
      BY <1>0, <2>1, <3>1, <3>2, EndedFields DEF OwnerStays
  <2>3. QED
    BY <1>2, <2>1, <2>2 DEF ViewersKept
<1>7. QED
  BY <1>3, <1>4, <1>5, <1>6

LEMMA OwnersOfSpawn ==
    ASSUME Shape, [Next]_vars, SlotHasOwner, NEW q \in Requests, Spawn(q)
    PROVE  SlotHasOwner' /\ ViewersKept
<1>0. TypeOK /\ commands \in [Windows -> Seq(CommandTypes)] /\ slots \subseteq Windows
      /\ objects \in [Requests -> SessionStates] /\ q \in Stoppers
  BY TypesOf, Names DEF Shape
<1>1. PICK u \in Windows : u = objects[q].win
  BY SpawnKeeps
<1> DEFINE e == [op |-> "start", by |-> q]
           r == [objects[q] EXCEPT !.ffmpeg = "running"]
<1>2. /\ commands' = [commands EXCEPT ![u] = Append(commands[u], e)]
      /\ slots' = slots \cup {u} /\ objects' = [objects EXCEPT ![q] = r]
  BY <1>1 DEF Spawn
<1>3. e \in CommandTypes
  BY <1>0 DEF CommandTypes
<1>4. r.win = objects[q].win /\ r.viewers = objects[q].viewers /\ r.started = objects[q].started
  BY <1>0 DEF SessionStates
<1>5. Append(commands[u], e) # <<>>
  BY <1>0, <1>3, AppendedNotEmpty
<1> HIDE DEF e, r
<1>6. CommandsGrow /\ commands'[u] # <<>>
  BY <1>0, <1>2, <1>5 DEF CommandsGrow
<1>7. ViewersKept /\ \A o \in Requests : OwnerStays(o)
  BY <1>0, <1>2, <1>4, PutOwner
<1>8. QED
  BY <1>0, <1>2, <1>6, <1>7, OwnersKept DEF CommandsGrow

\* The directory's object is new, and no window's owner before.
LEMMA OwnersOfDirectory ==
    ASSUME Shape, [Next]_vars, NEW q \in Requests, DirectoryMade(q)
    PROVE  OwnersStay
<1>1. ASSUME NEW o \in Requests, Made(o)
      PROVE  objects'[o] = objects[o]
  BY <1>1, DirectoryMadeMakes DEF Made
<1>2. QED
  BY <1>1 DEF OwnersStay, OwnerStays, CommandsGrow, DirectoryMade, poolVars

\* The other steps.
LEMMA OwnersOfTheRest ==
    ASSUME Shape, [Next]_vars,
           \/ \E q \in Requests :
                \/ \E v \in Viewers : ReleaseViewer(q, v) \/ \E w \in Windows : Request(q, v, w)
                \/ PoolFull(q) \/ HasRoom(q) \/ DirectoryFails(q)
                \/ Poll(q) \/ NotPlayable(q) \/ Playable(q)
           \/ \E c \in Stoppers : StopEnds(c)
           \/ \E o \in Requests : Produce(o) \/ Access(o) \/ TimePasses(o)
           \/ CleanupBegins \/ DirectoryRemoved \/ UNCHANGED vars
    PROVE  OwnersStay /\ ViewersKept
<1>0. TypeOK
  BY DEF Shape
<1>1. UNCHANGED <<slots, commands>>
  BY DEF ReleaseViewer, Request, PoolFull, HasRoom, DirectoryFails, Poll, NotPlayable, Playable,
         StopEnds, Produce, Access, TimePasses, CleanupBegins, DirectoryRemoved, vars, poolVars
<1>2. CommandsGrow /\ slots' \subseteq slots
  BY <1>1 DEF CommandsGrow
<1>3. CASE UNCHANGED objects
  BY <1>2, <1>3, SameOwners DEF OwnersStay
<1>4. ASSUME ObjectsKept, ViewersKept,
             \A o \in Requests : objects'[o].started = objects[o].started
      PROVE  OwnersStay
  BY <1>2, <1>4 DEF OwnersStay, OwnerStays, ObjectsKept
<1>5. CASE \E q \in Requests : Playable(q)
  BY <1>4, <1>5, PlayableKeeps DEF ViewersKept
<1>6. CASE \E o \in Requests : Access(o) \/ TimePasses(o)
  BY <1>0, <1>4, <1>6, AccessKeeps, TimePassesKeeps DEF ViewersKept
<1>7. QED
  BY <1>3, <1>5, <1>6
  DEF ReleaseViewer, Request, PoolFull, HasRoom, DirectoryFails, Poll, NotPlayable,
      StopEnds, Produce, CleanupBegins, DirectoryRemoved, vars

LEMMA OwnersPreserved ==
    ASSUME Shape, [Next]_vars, SlotHasOwner
    PROVE  SlotHasOwner'
<1>1. ASSUME OwnersStay
      PROVE  SlotHasOwner'
  BY <1>1, OwnersStayKept
<1>2. ASSUME NEW q \in Requests, InQueue(q)
      PROVE  SlotHasOwner'
  BY <1>1, <1>2, OwnersInQueue, OwnersOfStops, OwnersOfDirectory, OwnersOfTheRest DEF InQueue
<1>3. QED
  BY <1>1, <1>2, OwnersOfStops, OwnersOfPool, OwnersOfSpawn, OwnersOfTheRest DEF Next

-----------------------------------------------------------------------------
(* A viewer has one lease.                                                 *)

\* A call is not one that releases its viewer or creates a session, or stays one.
CallStays(p) ==
    /\ requests[p].pc = "release" \/ requests'[p].pc = "release" => requests'[p] = requests[p]
    /\ requests'[p].pc \in {"capacity", "dir"} =>
         requests[p].pc \in {"capacity", "dir"} /\ SameCall(p)

\* Which window a call keeps does not change.
LEMMA KeptStays ==
    ASSUME Shape, ObjectsKept, NEW p \in Requests, requests[p].pc = "release",
           requests'[p].obj = requests[p].obj, requests'[p].win = requests[p].win
    PROVE  Kept(p)' = Kept(p)
<1>1. PlaceOf(p) /\ requests[p].obj \in Requests \cup {None}
  BY CallTypes DEF Shape, Places
<1>2. CASE Shares(p)
  <2>1. requests[p].obj \in Requests
    BY <1>1, <1>2 DEF Shares
  <2>2. objects'[requests[p].obj].win = objects[requests[p].obj].win
    BY <2>1 DEF ObjectsKept
  <2>3. QED
    BY <1>2, <2>2 DEF Kept, Shares
<1>3. CASE ~Shares(p)
  BY <1>3 DEF Kept, Shares
<1>4. QED
  BY <1>2, <1>3

\* Leases are given up, never got, by the steps that put nothing into the map and no
\* viewer into a session.
LeasesGo ==
    /\ \A o \in Requests : objects'[o].viewers \subseteq objects[o].viewers
    /\ \A w \in Windows : sessions'[w] \in {sessions[w], None}

LEMMA LeasesShrink ==
    ASSUME LeasesGo, NEW v
    PROVE  Mapped' \subseteq Mapped /\ Leases(v)' \subseteq Leases(v)
<1>1. Mapped' \subseteq Mapped
  BY Names DEF Mapped, LeasesGo
<1>2. \A o \in Mapped : o \in Requests
  BY DEF Mapped
<1>3. QED
  BY <1>1, <1>2 DEF Leases, LeasesGo

LEMMA ReleasingKept ==
    ASSUME Shape, ObjectsKept, LeasesGo, NEW q \in Requests, CallStays(q), ReleasingOf(q)
    PROVE  ReleasingOf(q)'
<1>1. Mapped' \subseteq Mapped
  BY LeasesShrink
<1>2. SUFFICES ASSUME requests'[q].viewer # NoViewer, NEW o \in Mapped',
                      requests'[q].viewer \in objects'[o].viewers
               PROVE  /\ requests'[q].pc = "release" =>
                            o \in requests'[q].todo \/ objects'[o].win = Kept(q)'
                      /\ requests'[q].pc \in {"capacity", "dir"} =>
                            objects'[o].win = requests'[q].win
  BY DEF ReleasingOf
<1>3. o \in Mapped /\ o \in Requests
  BY <1>1 DEF Mapped
<1>4. requests'[q].viewer \in objects[o].viewers /\ objects'[o].win = objects[o].win
  BY <1>2, <1>3 DEF LeasesGo, ObjectsKept
<1>5. ASSUME requests'[q].pc = "release"
      PROVE  o \in requests'[q].todo \/ objects'[o].win = Kept(q)'
  <2>1. requests'[q] = requests[q]
    BY <1>5 DEF CallStays
  <2>2. Kept(q)' = Kept(q)
    BY <1>5, <2>1, KeptStays
  <2>3. QED
    BY <1>2, <1>3, <1>4, <1>5, <2>1, <2>2 DEF ReleasingOf
<1>6. ASSUME requests'[q].pc \in {"capacity", "dir"}
      PROVE  objects'[o].win = requests'[q].win
  BY <1>2, <1>3, <1>4, <1>6 DEF ReleasingOf, CallStays, SameCall
<1>7. QED
  BY <1>5, <1>6

LEMMA SingleKept ==
    ASSUME LeasesGo, NEW v, SingleOf(v),
           \A q \in Requests : requests[q].pc = "release" /\ requests[q].viewer = v =>
               requests'[q].pc = "release" /\ requests'[q].viewer = v
    PROVE  SingleOf(v)'
<1>1. Leases(v)' \subseteq Leases(v)
  BY LeasesShrink
<1>2. Single(Leases(v)) => Single(Leases(v)')
  BY <1>1 DEF Single
<1>3. QED
  BY <1>2 DEF SingleOf, Single, Leases

\* A step that releases nobody and creates nothing.
LEMMA LeasesKept ==
    ASSUME Shape, LeaseInv, ObjectsKept, LeasesGo, \A p \in Requests : CallStays(p)
    PROVE  LeaseInv'
<1>1. ASSUME NEW q \in Requests
      PROVE  ReleasingOf(q)'
  BY ReleasingKept DEF LeaseInv, Releasing
<1>2. ASSUME NEW v \in Viewers \ {NoViewer}
      PROVE  SingleOf(v)'
  <2>1. SingleOf(v)
    BY DEF LeaseInv, SingleLeases
  <2>2. \A q \in Requests : requests[q].pc = "release" => requests'[q] = requests[q]
    BY DEF CallStays
  <2>3. QED
    BY <2>1, <2>2, SingleKept
<1>3. QED
  BY <1>1, <1>2 DEF LeaseInv, Releasing, SingleLeases

\* Only the call at the head of the queue is past its lock.
LEMMA OneInside ==
    ASSUME Shape, NEW p \in Requests, NEW q \in Requests,
           Holds(q), requests[p].pc \in InTheQueue
    PROVE  p = q
BY DEF Shape, Queue, Holds

LEMMA NotInside ==
    ASSUME NEW p \in Requests, requests'[p].pc \notin InTheQueue
    PROVE  ReleasingOf(p)'
BY DEF ReleasingOf, InTheQueue

\* The call that enters has every session to look at.
LEMMA LeasesOfEnter ==
    ASSUME Shape, LeaseInv, NEW q \in Requests, Enter(q)
    PROVE  LeaseInv'
<1>0. TypeOK /\ OthersKept(q) /\ SameCall(q) /\ requests[q].pc = "lock" /\ Holds(q)
      /\ requests'[q].pc = "release" /\ requests'[q].todo = LoopOver(requests[q].viewer)
  BY Entered DEF Shape
<1>1. \A p \in Requests : requests[p].pc \notin InTheQueue
  BY <1>0, OneInside DEF InTheQueue
<1>2. Mapped' = Mapped
  BY DEF Enter, Mapped
<1>3. ASSUME NEW p \in Requests
      PROVE  ReleasingOf(p)'
  <2>1. CASE p = q
    BY <1>0, <1>2, <2>1 DEF ReleasingOf, SameCall, LoopOver
  <2>2. CASE p # q
    BY <1>0, <1>1, <2>2, NotInside DEF OthersKept
  <2>3. QED
    BY <2>1, <2>2
<1>4. ASSUME NEW u \in Viewers \ {NoViewer}, u # requests[q].viewer, NEW o \in Mapped,
             u \in objects'[o].viewers
      PROVE  u \in objects[o].viewers
  <2>1. CASE UNCHANGED objects
    BY <1>4, <2>1
  <2>2. ASSUME NEW s \in Requests, objects' = [objects EXCEPT ![s] = Seen(s, requests[q].viewer)]
        PROVE  u \in objects[o].viewers
    <3>1. Seen(s, requests[q].viewer).viewers = objects[s].viewers \cup ({requests[q].viewer} \ {NoViewer})
      BY <1>0, CallTypes, SeenFields
    <3>2. CASE o = s
      <4>1. objects'[s] = Seen(s, requests[q].viewer)
        BY <1>0, <2>2 DEF TypeOK
      <4>2. QED
        BY <1>4, <3>1, <3>2, <4>1
    <3>3. CASE o # s
      <4>1. objects'[o] = objects[o]
        BY <1>0, <2>2, <3>3, MappedMade DEF TypeOK
      <4>2. QED
        BY <1>4, <4>1
    <3>4. QED
      BY <3>2, <3>3
  <2>3. ASSUME NEW s \in Existing(requests[q].win), requests[q].win \in Windows
        PROVE  s \in Requests
    BY <1>0, <2>3 DEF Existing, Mapped, TypeOK
  <2>4. QED
    BY <1>0, <2>1, <2>2, <2>3, Entered
<1>5. ASSUME NEW u \in Viewers \ {NoViewer}
      PROVE  SingleOf(u)'
  <2>1. CASE u = requests[q].viewer
    BY <1>0, <2>1 DEF SingleOf, SameCall
  <2>2. CASE u # requests[q].viewer
    <3>1. Single(Leases(u))
      BY <1>1 DEF LeaseInv, SingleLeases, SingleOf, InTheQueue
    <3>2. Leases(u)' \subseteq Leases(u)
      BY <1>2, <1>4, <2>2 DEF Leases
    <3>3. Single(Leases(u)')
      BY <3>1, <3>2 DEF Single
    <3>4. QED
      BY <3>3 DEF SingleOf, Single, Leases
  <2>3. QED
    BY <2>1, <2>2
<1>6. QED
  BY <1>3, <1>5 DEF LeaseInv, Releasing, SingleLeases

\* What the loop does to the viewers: it takes its own from Others(q), or all of them.
LEMMA LoopTakes ==
    ASSUME TypeOK, NEW q \in Requests, NEW o \in Left(q),
           objects' = [WithoutViewer(q, Others(q) \ Left(q)) EXCEPT
                         ![o] = [Retired(o) EXCEPT !.viewers = {}]]
    PROVE  /\ objects'[o].viewers = {}
           /\ \A p \in Requests \ {o} :
                objects'[p].viewers = IF p \in Others(q) \ Left(q)
                                      THEN objects[p].viewers \ {requests[q].viewer}
                                      ELSE objects[p].viewers
<1>1. o \in Requests /\ Others(q) \ Left(q) \in SUBSET Requests
  BY CallTypes DEF Left, Others
<1>2. objects'[o] = [Retired(o) EXCEPT !.viewers = {}]
  BY <1>1 DEF WithoutViewer
<1>3. Retired(o) \in SessionStates
  BY <1>1, RetiredFields
<1>4. objects'[o].viewers = {}
  BY <1>2, <1>3 DEF SessionStates
<1>5. ASSUME NEW p \in Requests \ {o}
      PROVE  objects'[p].viewers = IF p \in Others(q) \ Left(q)
                                   THEN objects[p].viewers \ {requests[q].viewer}
                                   ELSE objects[p].viewers
  <2>1. objects'[p] = WithoutViewer(q, Others(q) \ Left(q))[p]
    BY <1>1 DEF WithoutViewer
  <2>2. QED
    BY <1>1, <2>1, WithoutViewerViewers
<1>6. QED
  BY <1>4, <1>5

\* Another session is left: what is still to be looked at are the others to be retired.
LEMMA LeasesOfRetireLeft ==
    ASSUME Shape, LeaseInv, NEW q \in Requests, RetireLeft(q)
    PROVE  LeaseInv'
<1>0. TypeOK
  BY DEF Shape
<1>1. PICK o \in Left(q) :
        /\ objects' = [WithoutViewer(q, Others(q) \ Left(q)) EXCEPT
                         ![o] = [Retired(o) EXCEPT !.viewers = {}]]
        /\ requests' = [requests EXCEPT ![q].todo = Left(q) \ {o}]
  BY DEF RetireLeft
<1>2. requests[q].pc = "release" /\ UNCHANGED sessions
  BY DEF RetireLeft
<1>3. /\ OthersKept(q) /\ SameCall(q)
      /\ requests'[q].pc = "release" /\ requests'[q].obj = requests[q].obj
      /\ requests'[q].todo = Left(q) \ {o}
  BY <1>0, <1>1, <1>2, Looked
<1>4. /\ objects'[o].viewers = {}
      /\ \A p \in Requests \ {o} :
           objects'[p].viewers = IF p \in Others(q) \ Left(q)
                                 THEN objects[p].viewers \ {requests[q].viewer}
                                 ELSE objects[p].viewers
  BY <1>0, <1>1, LoopTakes
<1>5. ObjectsKept
  BY <1>0, RetireLeftKeeps
<1>6. LeasesGo
  <2>1. ASSUME NEW p \in Requests
        PROVE  objects'[p].viewers \subseteq objects[p].viewers
    BY <1>4
  <2>2. QED
    BY <1>2, <2>1 DEF LeasesGo
<1>7. Kept(q)' = Kept(q)
  BY <1>2, <1>3, <1>5, KeptStays DEF SameCall
<1>8. ReleasingOf(q)'
  <2>1. SUFFICES ASSUME requests[q].viewer # NoViewer, NEW p \in Mapped',
                        requests[q].viewer \in objects'[p].viewers, objects'[p].win # Kept(q)
                 PROVE  p \in Left(q) \ {o}
    BY <1>3, <1>7 DEF ReleasingOf, SameCall
  <2>2. p \in Mapped /\ p \in Requests /\ p # o
    BY <1>4, <1>6, <2>1, LeasesShrink DEF Mapped
  <2>3. requests[q].viewer \in objects[p].viewers /\ p \notin Others(q) \ Left(q)
    BY <1>4, <2>1, <2>2
  <2>4. objects[p].win # Kept(q)
    BY <1>5, <2>1, <2>2 DEF ObjectsKept
  <2>5. p \in requests[q].todo
    BY <1>2, <2>1, <2>2, <2>3, <2>4 DEF LeaseInv, Releasing, ReleasingOf
  <2>6. p \in Others(q)
    BY <2>3, <2>4, <2>5 DEF Others
  <2>7. QED
    BY <2>2, <2>3, <2>6
<1>9. ASSUME NEW p \in Requests, p # q
      PROVE  ReleasingOf(p)'
  <2>1. requests[p].pc \notin InTheQueue
    BY <1>0, <1>2, <1>9, OneInside DEF Shape, Queue, InTheQueue
  <2>2. QED
    BY <1>3, <1>9, <2>1, NotInside DEF OthersKept
<1>10. ASSUME NEW v \in Viewers \ {NoViewer}
       PROVE  SingleOf(v)'
  <2>1. SingleOf(v)
    BY DEF LeaseInv, SingleLeases
  <2>2. ASSUME NEW p \in Requests, requests[p].pc = "release", requests[p].viewer = v
        PROVE  requests'[p].pc = "release" /\ requests'[p].viewer = v
    BY <1>3, <2>2 DEF OthersKept, SameCall
  <2>3. QED
    BY <1>6, <2>1, <2>2, SingleKept
<1>11. QED
  BY <1>8, <1>9, <1>10 DEF LeaseInv, Releasing, SingleLeases

\* The loop is over: the leases left are of the window that is kept, which has one entry.
LEMMA LeasesOfReleased ==
    ASSUME Shape, LeaseInv, NEW q \in Requests, Released(q)
    PROVE  LeaseInv'
<1>0. TypeOK /\ requests[q].pc = "release" /\ Left(q) = {} /\ UNCHANGED sessions
      /\ objects' = WithoutViewer(q, Others(q)) /\ Holds(q) /\ OthersKept(q)
  BY WasReleased DEF Shape, Queue, Released, InTheQueue
<1> DEFINE v == requests[q].viewer
<1>1. ASSUME NEW p \in Requests
      PROVE  objects'[p].viewers = IF p \in Others(q) THEN objects[p].viewers \ {v}
                                                      ELSE objects[p].viewers
  <2>1. PICK S \in SUBSET Requests : S = Others(q)
    BY <1>0, CallTypes DEF Others
  <2>2. WithoutViewer(q, S)[p].viewers = IF p \in S THEN objects[p].viewers \ {v}
                                                    ELSE objects[p].viewers
    BY <1>0 DEF WithoutViewer, SessionStates, TypeOK
  <2>3. QED
    BY <1>0, <2>1, <2>2
<1>2. ObjectsKept
  BY <1>0, ReleasedKeeps
<1>3. LeasesGo /\ Mapped' = Mapped
  BY <1>0, <1>1 DEF LeasesGo, Mapped
<1>4. ASSUME NEW p \in Mapped, v # NoViewer, v \in objects'[p].viewers
      PROVE  objects[p].win = Kept(q)
  <2>1. p \in Requests
    BY DEF Mapped
  <2>2. v \in objects[p].viewers /\ p \notin Others(q)
    BY <1>1, <1>4, <2>1
  <2>3. p \in requests[q].todo \/ objects[p].win = Kept(q)
    BY <1>0, <1>4, <2>2 DEF LeaseInv, Releasing, ReleasingOf
  <2>4. QED
    BY <2>2, <2>3 DEF Others
<1>5. ReleasingOf(q)'
  <2>1. CASE requests'[q].pc = "capacity"
    <3>1. Creates(q) /\ SameCall(q)
      BY <1>0, <2>1, WasReleased
    <3>2. Kept(q) = requests[q].win
      BY <3>1 DEF Kept, Shares, Creates
    <3>3. \A p \in Mapped : objects'[p].win = objects[p].win
      BY <1>2 DEF ObjectsKept, Mapped
    <3>4. QED
      BY <1>3, <1>4, <2>1, <3>1, <3>2, <3>3 DEF ReleasingOf, SameCall
  <2>2. CASE requests'[q].pc # "capacity"
    BY <1>0, <2>2, WasReleased, NotInside DEF InTheQueue
  <2>3. QED
    BY <2>1, <2>2
<1>6. ASSUME NEW p \in Requests, p # q
      PROVE  requests[p].pc \notin InTheQueue /\ ReleasingOf(p)'
  <2>1. requests[p].pc \notin InTheQueue
    BY <1>0, <1>6, OneInside
  <2>2. QED
    BY <1>0, <1>6, <2>1, NotInside DEF OthersKept
<1>7. ASSUME NEW u \in Viewers \ {NoViewer}
      PROVE  SingleOf(u)'
  <2>1. CASE u = v
    <3>1. ASSUME NEW o \in Leases(u)', NEW p \in Leases(u)'
          PROVE  o = p
      <4>1. o \in Mapped /\ p \in Mapped /\ u \in objects'[o].viewers /\ u \in objects'[p].viewers
        BY <1>3, <3>1 DEF Leases
      <4>2. objects[o].win = objects[p].win
        BY <1>4, <2>1, <4>1
      <4>3. QED
        BY <1>0, <4>1, <4>2, MappedMade
    <3>2. Single(Leases(u)')
      BY <3>1 DEF Single
    <3>3. QED
      BY <3>2 DEF SingleOf, Single, Leases
  <2>2. CASE u # v
    <3>1. SingleOf(u)
      BY DEF LeaseInv, SingleLeases
    <3>2. \A p \in Requests : ~(requests[p].pc = "release" /\ requests[p].viewer = u)
      BY <1>6, <2>2 DEF InTheQueue
    <3>3. QED
      BY <1>3, <3>1, <3>2, SingleKept
  <2>3. QED
    BY <2>1, <2>2
<1>8. QED
  BY <1>5, <1>6, <1>7 DEF LeaseInv, Releasing, SingleLeases

\* The new object takes the entry of its window, and with it the last lease but its own.
LEMMA LeasesOfDirectory ==
    ASSUME Shape, LeaseInv, NEW q \in Requests, DirectoryMade(q)
    PROVE  LeaseInv'
<1>0. /\ TypeOK /\ requests[q].pc = "dir" /\ Holds(q) /\ requests[q].win \in Windows
      /\ objects'[q] = Session(requests[q].win, requests[q].viewer)
      /\ \A o \in Requests \ {q} : objects'[o] = objects[o]
      /\ sessions' = [sessions EXCEPT ![requests[q].win] = q]
      /\ requests' = [requests EXCEPT ![q].pc = "spawn"]
  BY DirectoryMadeMakes DEF Shape, Queue, InTheQueue, DirectoryMade
<1>1. "spawn" \in Points
  BY DEF Points
<1>2. OthersKept(q) /\ requests'[q].pc = "spawn"
  BY <1>0, <1>1, Moved
<1>3. \A p \in Requests : p # q => requests[p].pc \notin InTheQueue
  BY <1>0, OneInside
<1>4. ASSUME NEW p \in Requests
      PROVE  ReleasingOf(p)'
  BY <1>2, <1>3, NotInside DEF OthersKept, InTheQueue
<1>5. objects'[q].viewers = {requests[q].viewer} \ {NoViewer}
  BY <1>0 DEF Session
<1>6. ASSUME NEW o \in Mapped', o # q
      PROVE  /\ o \in Requests /\ o \in Mapped /\ objects'[o] = objects[o]
             /\ objects[o].win # requests[q].win
  <2>1. PICK w \in Windows : sessions'[w] = o
    BY DEF Mapped
  <2>2. w # requests[q].win /\ sessions[w] = o /\ o \in Requests
    BY <1>0, <1>6, <2>1 DEF TypeOK, Mapped
  <2>3. objects[o].win = w
    BY <1>0, <2>2, Names DEF TypeOK
  <2>4. QED
    BY <1>0, <1>6, <2>2, <2>3 DEF Mapped
<1>7. ASSUME NEW u \in Viewers \ {NoViewer}
      PROVE  SingleOf(u)'
  <2>1. CASE u = requests[q].viewer
    <3>1. ASSUME NEW o \in Leases(u)', o # q
          PROVE  FALSE
      <4>1. o \in Mapped' /\ u \in objects'[o].viewers
        BY <3>1 DEF Leases
      <4>2. o \in Mapped /\ u \in objects[o].viewers /\ objects[o].win # requests[q].win
        BY <1>6, <3>1, <4>1
      <4>3. QED
        BY <1>0, <2>1, <4>2 DEF LeaseInv, Releasing, ReleasingOf
    <3>2. Single(Leases(u)')
      BY <3>1 DEF Single
    <3>3. QED
      BY <3>2 DEF SingleOf, Single, Leases
  <2>2. CASE u # requests[q].viewer
    <3>1. Single(Leases(u))
      BY <1>0, <1>3 DEF LeaseInv, SingleLeases, SingleOf, InTheQueue
    <3>2. ASSUME NEW o \in Leases(u)'
          PROVE  o \in Leases(u)
      <4>1. o \in Mapped' /\ u \in objects'[o].viewers
        BY <3>2 DEF Leases
      <4>2. o # q
        BY <1>5, <2>2, <4>1
      <4>3. QED
        BY <1>6, <4>1, <4>2 DEF Leases
    <3>3. Single(Leases(u)')
      BY <3>1, <3>2 DEF Single
    <3>4. QED
      BY <3>3 DEF SingleOf, Single, Leases
  <2>3. QED
    BY <2>1, <2>2
<1>8. QED
  BY <1>4, <1>7 DEF LeaseInv, Releasing, SingleLeases

\* The calls after a step that is no release and no creation.
LEMMA CallsStayBut ==
    ASSUME NEW q \in Requests, OthersKept(q), requests[q].pc # "release",
           requests'[q].pc # "release",
           requests'[q].pc \in {"capacity", "dir"} =>
             requests[q].pc \in {"capacity", "dir"} /\ SameCall(q)
    PROVE  \A p \in Requests : CallStays(p)
<1>1. ASSUME NEW p \in Requests, requests'[p] = requests[p]
      PROVE  CallStays(p)
  BY <1>1 DEF CallStays, SameCall
<1>2. CallStays(q)
  BY DEF CallStays
<1>3. QED
  BY <1>1, <1>2 DEF OthersKept

LEMMA CallsStay ==
    ASSUME UNCHANGED requests
    PROVE  \A p \in Requests : CallStays(p)
BY DEF CallStays, SameCall

LEMMA CallsStayInQueue ==
    ASSUME Shape, NEW q \in Requests,
           \/ \E v \in Viewers : ReleaseViewer(q, v) \/ \E w \in Windows : Request(q, v, w)
           \/ Evict(q) \/ PoolFull(q) \/ HasRoom(q) \/ DirectoryFails(q)
    PROVE  \A p \in Requests : CallStays(p)
<1>0. TypeOK /\ "dir" \in Points
  BY DEF Shape, Points
<1>1. CASE \E v \in Viewers : ReleaseViewer(q, v) \/ \E w \in Windows : Request(q, v, w)
  BY <1>0, <1>1, Begun, CallsStayBut
<1>2. CASE Evict(q)
  <2>1. PICK o : requests' = [requests EXCEPT ![q].todo = requests[q].todo \ {o}]
    BY <1>2 DEF Evict
  <2>2. requests[q].pc = "capacity"
    BY <1>2 DEF Evict
  <2>3. QED
    BY <1>0, <2>1, <2>2, Looked, CallsStayBut
<1>3. CASE PoolFull(q) \/ DirectoryFails(q)
  <2>1. requests' = [requests EXCEPT ![q] = Done] /\ requests[q].pc \in {"capacity", "dir"}
    BY <1>3 DEF PoolFull, DirectoryFails
  <2>2. QED
    BY <1>0, <2>1, IsDone, CallsStayBut
<1>4. CASE HasRoom(q)
  <2>1. requests' = [requests EXCEPT ![q] = [requests[q] EXCEPT !.pc = "dir", !.todo = {}]]
        /\ requests[q].pc = "capacity" /\ "dir" \in Points
    BY <1>4 DEF HasRoom, Points
  <2>2. Went(q, "dir", {})
    BY <1>0, <2>1, WentOn
  <2>3. QED
    BY <2>1, <2>2, CallsStayBut DEF Went
<1>5. QED
  BY <1>1, <1>2, <1>3, <1>4

LEMMA CallsStayOutside ==
    ASSUME Shape, NEW q \in Requests,
           \/ Spawn(q) \/ SpawnRefused(q) \/ Poll(q) \/ NotPlayable(q) \/ Playable(q) \/ NotReady(q)
    PROVE  \A p \in Requests : CallStays(p)
<1>0. TypeOK
  BY DEF Shape
<1>1. \/ \E p \in {"starting", "failing", "poll", "wait"} : requests' = [requests EXCEPT ![q].pc = p]
      \/ requests' = [requests EXCEPT ![q] = Done]
  BY DEF Spawn, SpawnRefused, Poll, NotPlayable, Playable, NotReady, Fail
<1>2. requests[q].pc \in {"spawn", "wait", "poll"}
  BY DEF Spawn, SpawnRefused, Poll, NotPlayable, Playable, NotReady
<1>3. ASSUME NEW p \in {"starting", "failing", "poll", "wait"},
             requests' = [requests EXCEPT ![q].pc = p]
      PROVE  \A r \in Requests : CallStays(r)
  <2>1. p \in Points
    BY DEF Points
  <2>2. QED
    BY <1>0, <1>2, <1>3, <2>1, Moved, CallsStayBut
<1>4. CASE requests' = [requests EXCEPT ![q] = Done]
  BY <1>0, <1>2, <1>4, IsDone, CallsStayBut
<1>5. QED
  BY <1>1, <1>3, <1>4

LEMMA CallsStayInPool ==
    ASSUME Shape, NEW w \in Windows,
           PlaybackStarted(w) \/ StartFailed(w) \/ StopSettled(w) \/ WorkerLost(w)
    PROVE  \A p \in Requests : CallStays(p)
<1>0. TypeOK
  BY DEF Shape
<1>1. CASE PlaybackStarted(w) \/ StartFailed(w)
  <2>1. PICK q \in Requests : q = Head(commands[w]).by /\ requests[q].pc = "starting"
    BY <1>1, StartDue DEF PlaybackStarted, StartFailed
  <2>2. PICK p \in {"wait", "failing"} : requests' = [requests EXCEPT ![q].pc = p]
    BY <1>1, <2>1 DEF PlaybackStarted, StartFailed
  <2>3. p \in Points
    BY DEF Points
  <2>4. QED
    BY <1>0, <2>1, <2>2, <2>3, Moved, CallsStayBut
<1>2. CASE StopSettled(w)
  BY <1>2, CallsStay DEF StopSettled
<1>3. CASE WorkerLost(w)
  <2>1. ASSUME NEW p \in Requests
        PROVE  CallStays(p)
    <3>1. \/ requests[p].pc = "starting" /\ requests'[p] = [requests[p] EXCEPT !.pc = "failing"]
          \/ requests'[p] = requests[p]
      BY <1>3 DEF WorkerLost
    <3>2. [requests[p] EXCEPT !.pc = "failing"].pc = "failing"
      BY <1>0, CallTypes DEF RequestStates
    <3>3. QED
      BY <3>1, <3>2 DEF CallStays, SameCall
  <2>2. QED
    BY <2>1
<1>4. QED
  BY <1>1, <1>2, <1>3

LEMMA CallsStayAfterStops ==
    ASSUME Shape, NEW c \in Stoppers, StopEnds(c)
    PROVE  \A p \in Requests : CallStays(p)
<1>0. TypeOK
  BY DEF Shape
<1>1. CASE UNCHANGED requests
  BY <1>1, CallsStay
<1>2. CASE c \in Requests /\ requests[c].pc = "failing" /\ requests' = [requests EXCEPT ![c] = Done]
  BY <1>0, <1>2, IsDone, CallsStayBut
<1>3. CASE c \in Requests /\ requests' = [requests EXCEPT ![c] = requests[c]]
  BY <1>0, <1>1, <1>3 DEF TypeOK
<1>4. QED
  BY <1>1, <1>2, <1>3 DEF StopEnds, Stoppers

\* A step that lets nobody into a session, nor a session into the map.
LEMMA LeasesOfViewersKept ==
    ASSUME Shape, [Next]_vars, LeaseInv, ViewersKept, \A p \in Requests : CallStays(p),
           \A w \in Windows : sessions'[w] \in {sessions[w], None}
    PROVE  LeaseInv'
<1>1. ASSUME NEW q \in Requests, DirectoryMade(q)
      PROVE  FALSE
  <2>1. /\ requests[q].win \in Windows /\ sessions[requests[q].win] # q
        /\ sessions' = [sessions EXCEPT ![requests[q].win] = q]
    BY <1>1, DirectoryMadeMakes DEF DirectoryMade
  <2>2. sessions'[requests[q].win] = q
    BY <2>1 DEF Shape, TypeOK
  <2>3. QED
    BY <2>1, <2>2, Names
<1>2. ObjectsKept
  BY <1>1, StepWins
<1>3. LeasesGo
  BY DEF LeasesGo, ViewersKept
<1>4. QED
  BY <1>2, <1>3, LeasesKept

LEMMA LeasesPreserved ==
    ASSUME Shape, [Next]_vars, SlotHasOwner, LeaseInv
    PROVE  LeaseInv'
<1>1. ASSUME ViewersKept, UNCHANGED sessions, \A p \in Requests : CallStays(p)
      PROVE  LeaseInv'
  BY <1>1, LeasesOfViewersKept
<1>2. ASSUME NEW q \in Requests, NEW v \in Viewers,
             ReleaseViewer(q, v) \/ \E w \in Windows : Request(q, v, w)
      PROVE  LeaseInv'
  <2>1. ViewersKept
    BY <1>2, OwnersOfTheRest
  <2>2. \A p \in Requests : CallStays(p)
    BY <1>2, CallsStayInQueue
  <2>3. QED
    BY <1>1, <1>2, <2>1, <2>2 DEF ReleaseViewer, Request
<1>3. ASSUME NEW q \in Requests, InQueue(q)
      PROVE  LeaseInv'
  <2>1. CASE Evict(q) \/ PoolFull(q) \/ HasRoom(q) \/ DirectoryFails(q)
    <3>1. ViewersKept
      BY <2>1, OwnersOfStops, OwnersOfTheRest
    <3>2. \A p \in Requests : CallStays(p)
      BY <2>1, CallsStayInQueue
    <3>3. QED
      BY <1>1, <2>1, <3>1, <3>2 DEF Evict, PoolFull, HasRoom, DirectoryFails
  <2>2. QED
    BY <1>3, <2>1, LeasesOfEnter, LeasesOfRetireLeft, LeasesOfReleased, LeasesOfDirectory DEF InQueue
<1>4. ASSUME NEW q \in Requests,
             Spawn(q) \/ SpawnRefused(q) \/ Poll(q) \/ NotPlayable(q) \/ Playable(q) \/ NotReady(q)
      PROVE  LeaseInv'
  <2>1. ViewersKept
    BY <1>4, OwnersOfSpawn, OwnersOfStops, OwnersOfTheRest
  <2>2. \A p \in Requests : CallStays(p)
    BY <1>4, CallsStayOutside
  <2>3. QED
    BY <1>1, <1>4, <2>1, <2>2 DEF Spawn, SpawnRefused, Poll, NotPlayable, Playable, NotReady
<1>5. ASSUME NEW w \in Windows,
             PlaybackStarted(w) \/ StartFailed(w) \/ StopSettled(w) \/ WorkerLost(w)
      PROVE  LeaseInv'
  <2>1. ViewersKept
    BY <1>5, OwnersOfPool
  <2>2. \A p \in Requests : CallStays(p)
    BY <1>5, CallsStayInPool
  <2>3. QED
    BY <1>1, <1>5, <2>1, <2>2 DEF PlaybackStarted, StartFailed, StopSettled, WorkerLost
<1>6. ASSUME NEW c \in Stoppers, StopEnds(c)
      PROVE  LeaseInv'
  <2>1. ViewersKept
    BY <1>6, OwnersOfTheRest
  <2>2. \A p \in Requests : CallStays(p)
    BY <1>6, CallsStayAfterStops
  <2>3. \A w \in Windows : sessions'[w] \in {sessions[w], None}
    BY <1>6, StopEndsKeeps
  <2>4. QED
    BY <2>1, <2>2, <2>3, LeasesOfViewersKept
<1>7. CASE \/ \E o \in Requests :
                FfmpegExit(o) \/ Produce(o) \/ Access(o) \/ TimePasses(o) \/ CleanupNext(o)
           \/ CleanupBegins \/ DirectoryRemoved \/ UNCHANGED vars
  <2>1. ViewersKept
    BY <1>7, OwnersOfStops, OwnersOfTheRest
  <2>2. UNCHANGED <<sessions, requests>>
    BY <1>7 DEF FfmpegExit, Produce, Access, TimePasses, CleanupNext, CleanupBegins, DirectoryRemoved, vars
  <2>3. QED
    BY <1>1, <2>1, <2>2, CallsStay
<1>8. QED
  BY <1>2, <1>3, <1>4, <1>5, <1>6, <1>7 DEF Next

-----------------------------------------------------------------------------
(* The theorems.                                                           *)

LEMMA InvariantInit == Init => IInv
<1> SUFFICES ASSUME Init
             PROVE  IInv
  OBVIOUS
<1>1. TypeOK
  <2>1. Idle \in RequestStates
    BY CallIdleOrDone
  <2>2. [win |-> None, status |-> None, started |-> FALSE, ffmpeg |-> "none", viewers |-> {},
         age |-> "fresh", grace |-> FALSE] \in SessionStates
    BY DEF SessionStates
  <2>3. QED
    BY <2>1, <2>2 DEF Init, TypeOK
<1>2. \A q \in Requests : requests[q].pc = "idle" /\ requests[q].todo = {} /\ requests[q].viewer = NoViewer
  BY DEF Init, Idle
<1>3. Places
  BY <1>2, Names DEF Init, Places, PlaceOf, NotStopping
<1>4. Stopping
  BY DEF Init, Stopping, StopOf, NotStopping
<1>5. \A w \in Windows : DOMAIN commands[w] = {}
  BY EmptySeq DEF Init
<1>6. Commands /\ OneCommandEach /\ Swept
  BY <1>5 DEF Init, Commands, OneCommandEach, Swept
<1>7. Queue
  <2>1. DOMAIN lockQueue = {}
    BY EmptySeq DEF Init
  <2>2. QED
    BY <1>2, <2>1 DEF Queue, InTheQueue
<1>8. SlotHasOwner
  BY DEF Init, SlotHasOwner
<1>9. Mapped = {}
  BY Names DEF Init, Mapped
<1>10. LeaseInv
  BY <1>2, <1>9 DEF LeaseInv, Releasing, ReleasingOf, SingleLeases, SingleOf, Single, Leases
<1>11. QED
  BY <1>1, <1>3, <1>4, <1>6, <1>7, <1>8, <1>10 DEF IInv, Shape

LEMMA InvariantNext == IInv /\ [Next]_vars => IInv'
BY ShapePreserved, OwnersPreserved, LeasesPreserved DEF IInv

LEMMA Invariant == Spec => []IInv
BY InvariantInit, InvariantNext, PTL DEF Spec

\* Whatever the calls, the cleanup, ffmpeg and the archive workers do, and in whatever
\* order, every variable keeps its type; in particular the session map leads from a window
\* only to sessions made for that window.
THEOREM TypeCorrect == Spec => []TypeOK
<1>1. IInv => TypeOK
  BY DEF IInv, Shape
<1>2. QED
  BY <1>1, Invariant, PTL

\* No slot of the DVR is forgotten: a window that has one has a command on its way, or a
\* session that believes its playback started and so will stop it.
THEOREM SlotsHaveOwners == Spec => []SlotHasOwner
<1>1. IInv => SlotHasOwner
  BY DEF IInv
<1>2. QED
  BY <1>1, Invariant, PTL

\* A viewer's calls take their turns in the queue of the device, each releases the viewer
\* from the sessions of other windows before it makes or keeps its own, and so between
\* them the viewer is counted in one session of the map at most.
THEOREM ViewersHaveOneLease == Spec => []OneLeasePerViewer
<1>1. IInv => OneLeasePerViewer
  <2> SUFFICES ASSUME IInv, NEW v \in Viewers \ {NoViewer},
                      \A q \in Requests : Holds(q) => requests[q].pc = "lock"
               PROVE  Cardinality(Leases(v)) <= 1
    BY DEF OneLeasePerViewer, Leases
  <2>1. Single(Leases(v))
    BY DEF IInv, Shape, Queue, InTheQueue, LeaseInv, SingleLeases, SingleOf
  <2>2. CASE Leases(v) = {}
    BY <2>2, FS_EmptySet
  <2>3. ASSUME NEW o \in Leases(v)
        PROVE  Cardinality(Leases(v)) <= 1
    <3>1. Leases(v) = {o}
      BY <2>1, <2>3 DEF Single
    <3>2. QED
      BY <3>1, FS_Singleton
  <2>4. QED
    BY <2>2, <2>3
<1>2. QED
  BY <1>1, Invariant, PTL
=============================================================================
