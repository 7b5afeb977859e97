------------------------- MODULE GroupedRecorderProofs -------------------------
(***************************************************************************)
(* Theorems of GroupedRecorder, for every number of channels, of           *)
(* configurations, of overlapping reconcile() calls and of runtime objects. *)
(***************************************************************************)
EXTENDS GroupedRecorder, FiniteSetTheorems, TLAPS

-----------------------------------------------------------------------------
(* The inductive invariant.                                                *)

\* A runtime object has one spawnDevice() call at most.
SingleSpawn == \A sp, sq \in spawns : sp.rt = sq.rt => sp = sq

Spawning(r) == \E sp \in spawns : sp.rt = r

\* The call, the worker and the timer exclude each other, and a stopped runtime has no
\* timer that could start it.
Exclusive(r) ==
    /\ Spawning(r) => runtimes[r].worker = "none" /\ ~runtimes[r].restartTimer
    /\ runtimes[r].worker # "none" => ~runtimes[r].restartTimer
    /\ runtimes[r].stopping => ~runtimes[r].restartTimer

\* What is in the map was not stopped, and what drives it belongs to its generation, so
\* that the worker's exit handler will act.
InMap(r) ==
    /\ ~runtimes[r].stopping
    /\ runtimes[r].worker # "none" => runtimes[r].current
    /\ \A sp \in spawns : sp.rt = r => sp.current
    /\ \/ runtimes[r].failed \/ Spawning(r) \/ runtimes[r].worker # "none"
       \/ runtimes[r].restartTimer

Driven ==
    /\ SingleSpawn
    /\ \A r \in Ids : Exclusive(r) /\ (r = devices => InMap(r))

Inv == TypeOK /\ Driven /\ RegistrationWithdrawn

LEMMA IdFacts == Ids \subseteq Nat /\ None \notin Ids
BY RecorderAssumption DEF Ids, None

\* What a step leaves of a runtime when it is only about its ffmpeg processes.
SameLife(rt, next) ==
    /\ next.key = rt.key
    /\ next.stopping = rt.stopping /\ next.failed = rt.failed /\ next.worker = rt.worker
    /\ next.current = rt.current /\ next.registration = rt.registration
    /\ next.restartTimer = rt.restartTimer

LEMMA FfmpegFields ==
  ASSUME NEW rt \in RuntimeStates, NEW c \in Chans, NEW v \in BOOLEAN, NEW w \in BOOLEAN
  PROVE  /\ [rt EXCEPT !.ffmpeg[c] = v] \in RuntimeStates
         /\ SameLife(rt, [rt EXCEPT !.ffmpeg[c] = v])
         /\ [rt EXCEPT !.ffmpegTimer[c] = w] \in RuntimeStates
         /\ SameLife(rt, [rt EXCEPT !.ffmpegTimer[c] = w])
         /\ [rt EXCEPT !.ffmpeg[c] = v, !.ffmpegTimer[c] = w] \in RuntimeStates
         /\ SameLife(rt, [rt EXCEPT !.ffmpeg[c] = v, !.ffmpegTimer[c] = w])
BY DEF RuntimeStates, SameLife

LEMMA InitInv == Init => Inv
<1> SUFFICES ASSUME Init
             PROVE  Inv
  OBVIOUS
<1>1. Blank \in RuntimeStates
  BY DEF Blank, RuntimeStates
<1>2. Done \in Calls
  BY DEF Done, Calls
<1>3. TypeOK
  BY <1>1, <1>2 DEF Init, TypeOK
<1>4. Driven /\ RegistrationWithdrawn
  BY IdFacts DEF Init, Driven, SingleSpawn, Spawning, Exclusive, RegistrationWithdrawn, Blank
<1>5. QED
  BY <1>3, <1>4 DEF Inv

\* A step about ffmpeg processes, and about where spawnDevice() calls are.
LEMMA FfmpegStep ==
  ASSUME Inv, TypeOK', UNCHANGED <<devices, registered>>,
         \A r \in Ids : SameLife(runtimes[r], runtimes'[r]),
         \A r \in Ids : Spawning(r)' <=> Spawning(r),
         \A sp, sq \in spawns' : sp.rt = sq.rt => sp = sq,
         \A sp \in spawns' : \E sq \in spawns : sq.rt = sp.rt /\ sq.current = sp.current
  PROVE  Inv'
<1>1. Driven'
  BY DEF Inv, Driven, SingleSpawn, Exclusive, InMap, SameLife, TypeOK
<1>2. RegistrationWithdrawn'
  BY IdFacts DEF Inv, RegistrationWithdrawn, SameLife, TypeOK
<1>3. QED
  BY <1>1, <1>2 DEF Inv

\* A step of reconcile() that only moves the call on.
LEMMA CallStep ==
  ASSUME Inv, TypeOK', UNCHANGED <<devices, runtimes, spawns, registered>>
  PROVE  Inv'
BY DEF Inv, Driven, SingleSpawn, Spawning, Exclusive, InMap, RegistrationWithdrawn

-----------------------------------------------------------------------------
(* stopDevice.                                                             *)

LEMMA StoppedFields ==
  ASSUME TypeOK, NEW r \in Ids
  PROVE  /\ Stopped(r) \in RuntimeStates
         /\ Stopped(r).stopping /\ ~Stopped(r).registration /\ ~Stopped(r).restartTimer
         /\ runtimes[r].worker = "none" <=> Stopped(r).worker = "none"
<1>1. runtimes[r] \in RuntimeStates
  BY DEF TypeOK
<1>2. QED
  BY <1>1 DEF Stopped, RuntimeStates

LEMMA RetiredSpawns ==
  ASSUME TypeOK, NEW r \in Ids, NEW kept,
         kept = {[sp EXCEPT !.current = @ /\ sp.rt # r] : sp \in spawns}
  PROVE  /\ kept \in SUBSET Spawns
         /\ \A sp \in kept : \E sq \in spawns :
              /\ sq.rt = sp.rt /\ sp = [sq EXCEPT !.current = @ /\ sq.rt # r]
              /\ sq.rt # r => sp = sq
         /\ \A q \in Ids : (\E sp \in kept : sp.rt = q) <=> Spawning(q)
<1>1. ASSUME NEW sq \in spawns
      PROVE  LET new == [sq EXCEPT !.current = @ /\ sq.rt # r]
             IN new \in Spawns /\ new.rt = sq.rt /\ (sq.rt # r => new = sq)
  <2>1. sq \in Spawns
    BY DEF TypeOK
  <2>2. \A b, d \in BOOLEAN : (b /\ d) \in BOOLEAN /\ (d => (b /\ d) = b)
    OBVIOUS
  <2>3. sq.current \in BOOLEAN /\ (sq.rt # r) \in BOOLEAN
    BY <2>1 DEF Spawns
  <2>4. /\ (sq.current /\ sq.rt # r) \in BOOLEAN
        /\ sq.rt # r => (sq.current /\ sq.rt # r) = sq.current
    BY <2>2, <2>3
  <2>5. QED
    BY <2>1, <2>4 DEF Spawns
<1>2. ASSUME NEW sp \in kept
      PROVE  \E sq \in spawns :
               /\ sp \in Spawns
               /\ sq.rt = sp.rt /\ sp = [sq EXCEPT !.current = @ /\ sq.rt # r]
               /\ sq.rt # r => sp = sq
  <2>1. PICK sq \in spawns : sp = [sq EXCEPT !.current = @ /\ sq.rt # r]
    BY <1>2
  <2>2. QED
    BY <1>1, <2>1
<1>3. ASSUME NEW sq \in spawns
      PROVE  \E sp \in kept : sp.rt = sq.rt
  <2>1. [sq EXCEPT !.current = @ /\ sq.rt # r] \in kept
    OBVIOUS
  <2>2. QED
    BY <1>1, <2>1
<1>4. \A q \in Ids : (\E sp \in kept : sp.rt = q) <=> Spawning(q)
  <2> SUFFICES ASSUME NEW q \in Ids
               PROVE  (\E sp \in kept : sp.rt = q) <=> (\E sp \in spawns : sp.rt = q)
    BY DEF Spawning
  <2>1. ASSUME NEW sp \in kept, sp.rt = q
        PROVE  \E sq \in spawns : sq.rt = q
    BY <1>2, <2>1
  <2>2. ASSUME NEW sq \in spawns, sq.rt = q
        PROVE  \E sp \in kept : sp.rt = q
    BY <1>3, <2>2
  <2>3. QED
    BY <2>1, <2>2
<1>5. QED
  BY <1>2, <1>4

LEMMA StopType ==
  ASSUME TypeOK, NEW r \in Ids, StopDevice(r)
  PROVE  /\ devices' \in Ids \cup {None} /\ runtimes' \in [Ids -> RuntimeStates]
         /\ spawns' \in SUBSET Spawns /\ registered' \in Ids \cup {None}
<1>1. spawns' \in SUBSET Spawns
  BY RetiredSpawns DEF StopDevice
<1>2. QED
  BY <1>1, StoppedFields DEF StopDevice, TypeOK

LEMMA StopStep ==
  ASSUME Inv, TypeOK', NEW r \in Ids, StopDevice(r)
  PROVE  Inv'
<1> USE IdFacts DEF Inv
<1>1. TypeOK
  OBVIOUS
<1>2. /\ runtimes' = [runtimes EXCEPT ![r] = Stopped(r)]
      /\ devices' = None
      /\ registered' = IF runtimes[r].registration /\ registered = r THEN None ELSE registered
  BY DEF StopDevice
<1>3. /\ runtimes'[r] = Stopped(r)
      /\ \A q \in Ids \ {r} : runtimes'[q] = runtimes[q]
  BY <1>1, <1>2 DEF TypeOK
<1>4. /\ \A sp \in spawns' : \E sq \in spawns :
           /\ sq.rt = sp.rt /\ sp = [sq EXCEPT !.current = @ /\ sq.rt # r]
      /\ \A q \in Ids : Spawning(q)' <=> Spawning(q)
  <2>1. spawns' = {[sp EXCEPT !.current = @ /\ sp.rt # r] : sp \in spawns}
    BY DEF StopDevice
  <2>2. QED
    BY <1>1, <2>1, RetiredSpawns DEF Spawning
<1>5. SingleSpawn'
  <2> SUFFICES ASSUME NEW sp \in spawns', NEW sq \in spawns', sp.rt = sq.rt
               PROVE  sp = sq
    BY DEF SingleSpawn
  <2>1. PICK so \in spawns : so.rt = sp.rt /\ sp = [so EXCEPT !.current = @ /\ so.rt # r]
    BY <1>4
  <2>2. PICK sr \in spawns : sr.rt = sq.rt /\ sq = [sr EXCEPT !.current = @ /\ sr.rt # r]
    BY <1>4
  <2>3. so = sr
    BY <2>1, <2>2 DEF Driven, SingleSpawn
  <2>4. QED
    BY <2>1, <2>2, <2>3
<1>6. \A q \in Ids : Exclusive(q)'
  <2> SUFFICES ASSUME NEW q \in Ids
               PROVE  Exclusive(q)'
    OBVIOUS
  <2>1. Exclusive(q)
    BY DEF Driven
  <2>2. CASE q = r
    BY <1>1, <1>3, <1>4, <2>1, <2>2, StoppedFields DEF Exclusive
  <2>3. CASE q # r
    BY <1>3, <1>4, <2>1, <2>3 DEF Exclusive
  <2>4. QED
    BY <2>2, <2>3
<1>7. Driven'
  BY <1>2, <1>5, <1>6 DEF Driven
<1>8. RegistrationWithdrawn'
  BY <1>1, <1>2, <1>3, StoppedFields DEF RegistrationWithdrawn, TypeOK
<1>9. QED
  BY <1>7, <1>8

\* Reconcile and RestartRecorders: a stop, or nothing.
LEMMA BegunType ==
  ASSUME TypeOK, NEW p \in Reconciles, NEW key \in DeviceKeys \cup {NotWanted},
         BeginCall(p, key)
  PROVE  reconciles' \in [Reconciles -> Calls] /\ asked' \subseteq DeviceKeys \cup {NotWanted}
<1>1. Done \in Calls /\ [at |-> "start", key |-> key] \in Calls
  BY DEF Calls, Done
<1>2. QED
  BY <1>1 DEF BeginCall, TypeOK

LEMMA BeginInv ==
  ASSUME Inv, NEW p \in Reconciles, NEW key \in DeviceKeys \cup {NotWanted},
         Reconcile(p, key) \/ RestartRecorders(p, key)
  PROVE  Inv'
<1> USE DEF Inv
<1>1. BeginCall(p, key) /\ UNCHANGED ffmpegSpawns
  BY DEF Reconcile, RestartRecorders
<1>2. (devices # None /\ StopDevice(devices)) \/ NothingToStop
  BY DEF Reconcile, RestartRecorders, StopUnwanted
<1>3. CASE devices # None /\ StopDevice(devices)
  <2>1. devices \in Ids
    BY <1>3 DEF TypeOK
  <2>2. TypeOK'
    BY <1>1, <1>3, <2>1, StopType, BegunType DEF TypeOK
  <2>3. QED
    BY <1>3, <2>1, <2>2, StopStep
<1>4. CASE NothingToStop
  <2>1. TypeOK'
    BY <1>1, <1>4, BegunType DEF TypeOK, NothingToStop
  <2>2. QED
    BY <1>4, <2>1, CallStep DEF NothingToStop
<1>5. QED
  BY <1>2, <1>3, <1>4

-----------------------------------------------------------------------------
(* Starts.                                                                 *)

\* reconcile() makes a new runtime object and calls spawnDevice().
LEMMA DirectoryMadeInv ==
  ASSUME Inv, NEW p \in Reconciles, DirectoryMade(p)
  PROVE  Inv'
<1> USE IdFacts DEF Inv
<1> DEFINE key   == reconciles[p].key
           blank == [Blank EXCEPT !.key = key]
<1>1. PICK r \in Ids :
        /\ Garbage(r)
        /\ runtimes' = [runtimes EXCEPT ![r] = blank]
        /\ devices' = r
        /\ spawns' = spawns \cup
             {[rt |-> r, at |-> "fifo", ch |-> 1, current |-> TRUE, by |-> p]}
  BY DEF DirectoryMade
<1> DEFINE call == [rt |-> r, at |-> "fifo", ch |-> 1, current |-> TRUE, by |-> p]
<1>2. call \in Spawns /\ call.rt = r /\ call.current
  BY RecorderAssumption DEF Spawns, Chans
<1>3. reconciles[p] \in Calls
  BY DEF TypeOK
<1>4. /\ blank \in RuntimeStates
      /\ ~blank.stopping /\ ~blank.registration /\ ~blank.restartTimer
      /\ blank.worker = "none"
  BY <1>3 DEF Blank, RuntimeStates, Calls
<1>5. reconciles' \in [Reconciles -> Calls]
  <2>1. [reconciles[p] EXCEPT !.at = "spawn"] \in Calls
    BY <1>3 DEF Calls
  <2>2. reconciles' = [reconciles EXCEPT ![p] = [reconciles[p] EXCEPT !.at = "spawn"]]
    BY DEF DirectoryMade, TypeOK
  <2>3. QED
    BY <2>1, <2>2 DEF TypeOK
<1> HIDE DEF key, blank, call
<1>6. spawns' = spawns \cup {call}
  BY <1>1 DEF call
<1>7. /\ runtimes'[r] = blank
      /\ \A q \in Ids \ {r} : runtimes'[q] = runtimes[q]
  BY <1>1 DEF TypeOK
<1>8. \A sp \in spawns : sp.rt # r
  BY <1>1 DEF Garbage, SpawnsOf
<1>9. TypeOK'
  BY <1>1, <1>2, <1>4, <1>5, <1>6 DEF TypeOK, DirectoryMade
<1>10. Driven'
  <2>1. SingleSpawn'
    BY <1>2, <1>6, <1>8 DEF Driven, SingleSpawn
  <2>2. Exclusive(r)' /\ InMap(r)'
    BY <1>2, <1>4, <1>6, <1>7, <1>8 DEF Exclusive, InMap, Spawning
  <2>3. ASSUME NEW q \in Ids \ {r}
        PROVE  Exclusive(q)'
    <3>1. Exclusive(q)
      BY <2>3 DEF Driven
    <3>2. Spawning(q)' => Spawning(q)
      BY <1>2, <1>6, <2>3 DEF Spawning
    <3>3. QED
      BY <1>7, <2>3, <3>1, <3>2 DEF Exclusive
  <2>4. QED
    BY <1>1, <2>1, <2>2, <2>3 DEF Driven
<1>11. RegistrationWithdrawn'
  <2>1. registered' = registered /\ registered # r
    BY <1>1 DEF DirectoryMade, Garbage
  <2>2. QED
    BY <1>4, <1>7, <2>1 DEF RegistrationWithdrawn, TypeOK
<1>12. QED
  BY <1>9, <1>10, <1>11

\* The restart timer has the runtime to itself: no call is under way.
LEMMA RestartTimerInv ==
  ASSUME Inv, NEW r \in Ids, RestartTimer(r)
  PROVE  Inv'
<1> USE IdFacts DEF Inv
<1> DEFINE call == [rt |-> r, at |-> "fifo", ch |-> 1, current |-> TRUE, by |-> None]
           next == [runtimes[r] EXCEPT !.restartTimer = FALSE, !.stopping = FALSE,
                                       !.current = FALSE]
<1>1. call \in Spawns /\ call.rt = r /\ call.current
  BY RecorderAssumption DEF Spawns, Chans
<1>2. runtimes[r] \in RuntimeStates /\ runtimes[r].restartTimer
  BY DEF TypeOK, RestartTimer
<1>3. /\ next \in RuntimeStates
      /\ ~next.stopping /\ ~next.restartTimer
      /\ next.worker = runtimes[r].worker /\ next.registration = runtimes[r].registration
  BY <1>2 DEF RuntimeStates
<1>4. runtimes' = [runtimes EXCEPT ![r] = next]
  BY DEF RestartTimer, TypeOK
<1>5. Exclusive(r) /\ runtimes[r].worker = "none" /\ \A sp \in spawns : sp.rt # r
  BY <1>2 DEF Driven, Exclusive, Spawning
<1>6. spawns' = spawns \cup {call}
  <2> DEFINE kept == {[sp EXCEPT !.current = @ /\ sp.rt # r] : sp \in spawns}
  <2>1. ASSUME NEW sp \in spawns
        PROVE  [sp EXCEPT !.current = @ /\ sp.rt # r] = sp
    <3>1. sp \in Spawns /\ sp.rt # r
      BY <1>5 DEF TypeOK
    <3>2. sp.current \in BOOLEAN
      BY <3>1 DEF Spawns
    <3>3. \A b \in BOOLEAN : (b /\ sp.rt # r) = b
      BY <3>1
    <3>4. QED
      BY <3>1, <3>2, <3>3 DEF Spawns
  <2>2. kept = spawns
    BY <2>1
  <2>3. QED
    BY <2>2 DEF RestartTimer
<1> HIDE DEF call, next
<1>7. /\ runtimes'[r] = next
      /\ \A q \in Ids \ {r} : runtimes'[q] = runtimes[q]
      /\ devices' = devices /\ registered' = registered
  BY <1>4 DEF TypeOK, RestartTimer
<1>8. TypeOK'
  <2>1. UNCHANGED <<devices, ffmpegSpawns, reconciles, registered, asked>>
    BY DEF RestartTimer
  <2>2. runtimes' \in [Ids -> RuntimeStates] /\ spawns' \in SUBSET Spawns
    BY <1>1, <1>3, <1>4, <1>6 DEF TypeOK
  <2>3. QED
    BY <2>1, <2>2 DEF TypeOK
<1>9. Driven'
  <2>1. SingleSpawn'
    BY <1>1, <1>5, <1>6 DEF Driven, SingleSpawn
  <2>2. Exclusive(r)' /\ InMap(r)'
    BY <1>1, <1>3, <1>5, <1>6, <1>7 DEF Exclusive, InMap, Spawning
  <2>3. ASSUME NEW q \in Ids \ {r}
        PROVE  Exclusive(q)' /\ (q = devices => InMap(q)')
    <3>1. Exclusive(q) /\ (q = devices => InMap(q))
      BY <2>3 DEF Driven
    <3>2. /\ Spawning(q)' <=> Spawning(q)
          /\ \A sp \in spawns' : sp.rt = q => sp \in spawns
      BY <1>1, <1>6, <2>3 DEF Spawning
    <3>3. QED
      BY <1>7, <2>3, <3>1, <3>2 DEF Exclusive, InMap
  <2>4. QED
    BY <1>7, <2>1, <2>2, <2>3 DEF Driven
<1>10. RegistrationWithdrawn'
  BY <1>3, <1>7 DEF RegistrationWithdrawn, TypeOK
<1>11. QED
  BY <1>8, <1>9, <1>10

-----------------------------------------------------------------------------
(* A spawnDevice() call, await by await.                                   *)

LEMMA MoveStep ==
  ASSUME TypeOK, SingleSpawn, NEW sp \in spawns, NEW next \in Spawns, Move(sp, next),
         next.rt = sp.rt, next.current = sp.current
  PROVE  /\ spawns' \in SUBSET Spawns
         /\ \A r \in Ids : Spawning(r)' <=> Spawning(r)
         /\ \A su, sv \in spawns' : su.rt = sv.rt => su = sv
         /\ \A su \in spawns' : \E sv \in spawns : sv.rt = su.rt /\ sv.current = su.current
<1>1. spawns' = (spawns \ {sp}) \cup {next}
  BY DEF Move
<1>2. spawns' \in SUBSET Spawns
  BY <1>1 DEF TypeOK
<1>3. \A su \in spawns' : \E sv \in spawns : sv.rt = su.rt /\ sv.current = su.current
  BY <1>1
<1>4. \A su, sv \in spawns' : su.rt = sv.rt => su = sv
  BY <1>1 DEF SingleSpawn
<1>5. \A r \in Ids : Spawning(r)' <=> Spawning(r)
  BY <1>1 DEF Spawning
<1>6. QED
  BY <1>2, <1>3, <1>4, <1>5

LEMMA FifoMadeInv ==
  ASSUME Inv, NEW sp \in spawns, FifoMade(sp)
  PROVE  Inv'
<1> USE DEF Inv
<1> DEFINE moved == [sp EXCEPT !.at = "dir"]
           next  == [runtimes[sp.rt] EXCEPT !.ffmpegTimer[sp.ch] = FALSE]
<1>1. /\ sp \in Spawns /\ sp.rt \in Ids /\ sp.ch \in Chans
      /\ runtimes[sp.rt] \in RuntimeStates
  BY DEF TypeOK, Spawns
<1>2. moved \in Spawns /\ moved.rt = sp.rt /\ moved.current = sp.current
  BY <1>1 DEF Spawns
<1>3. next \in RuntimeStates /\ SameLife(runtimes[sp.rt], next)
  BY <1>1, FfmpegFields
<1>4. runtimes' = [runtimes EXCEPT ![sp.rt] = next] /\ Move(sp, moved)
  BY DEF FifoMade, TypeOK
<1>5. UNCHANGED <<devices, ffmpegSpawns, reconciles, registered, asked>>
  BY DEF FifoMade
<1> HIDE DEF moved, next
<1>6. TypeOK'
  BY <1>1, <1>2, <1>3, <1>4, <1>5, MoveStep DEF TypeOK, Driven
<1>7. \A r \in Ids : SameLife(runtimes[r], runtimes'[r])
  BY <1>1, <1>3, <1>4 DEF TypeOK, SameLife
<1>8. /\ \A r \in Ids : Spawning(r)' <=> Spawning(r)
      /\ \A su, sv \in spawns' : su.rt = sv.rt => su = sv
      /\ \A su \in spawns' : \E sv \in spawns : sv.rt = su.rt /\ sv.current = su.current
  BY <1>2, <1>4, MoveStep DEF Driven
<1>9. QED
  BY <1>5, <1>6, <1>7, <1>8, FfmpegStep

LEMMA FfmpegSpawnedInv ==
  ASSUME Inv, NEW sp \in spawns, FfmpegSpawned(sp)
  PROVE  Inv'
<1> USE DEF Inv
<1> DEFINE moved == IF sp.ch < Channels THEN [sp EXCEPT !.at = "fifo", !.ch = @ + 1]
                    ELSE [sp EXCEPT !.at = "files"]
           next  == [runtimes[sp.rt] EXCEPT !.ffmpeg[sp.ch] = TRUE]
<1>1. /\ sp \in Spawns /\ sp.rt \in Ids /\ sp.ch \in Chans
      /\ runtimes[sp.rt] \in RuntimeStates
  BY DEF TypeOK, Spawns
<1>2. moved \in Spawns /\ moved.rt = sp.rt /\ moved.current = sp.current
  <2>1. sp.ch < Channels => sp.ch + 1 \in Chans
    BY <1>1, RecorderAssumption DEF Chans
  <2>2. QED
    BY <1>1, <2>1 DEF Spawns
<1>3. next \in RuntimeStates /\ SameLife(runtimes[sp.rt], next)
  BY <1>1, FfmpegFields
<1>4. runtimes' = [runtimes EXCEPT ![sp.rt] = next] /\ Move(sp, moved)
  BY DEF FfmpegSpawned, TypeOK
<1>5. UNCHANGED <<devices, ffmpegSpawns, reconciles, registered, asked>>
  BY DEF FfmpegSpawned
<1> HIDE DEF moved, next
<1>6. TypeOK'
  BY <1>1, <1>2, <1>3, <1>4, <1>5, MoveStep DEF TypeOK, Driven
<1>7. \A r \in Ids : SameLife(runtimes[r], runtimes'[r])
  BY <1>1, <1>3, <1>4 DEF TypeOK, SameLife
<1>8. /\ \A r \in Ids : Spawning(r)' <=> Spawning(r)
      /\ \A su, sv \in spawns' : su.rt = sv.rt => su = sv
      /\ \A su \in spawns' : \E sv \in spawns : sv.rt = su.rt /\ sv.current = su.current
  BY <1>2, <1>4, MoveStep DEF Driven
<1>9. QED
  BY <1>5, <1>6, <1>7, <1>8, FfmpegStep

LEMMA ReturnType ==
  ASSUME TypeOK, NEW sp, Return(sp)
  PROVE  reconciles' \in [Reconciles -> Calls]
BY DEF TypeOK, Return, Calls, Done

\* The call is over: its runtime has no other.
LEMMA WorkerSpawnedInv ==
  ASSUME Inv, NEW sp \in spawns, WorkerSpawned(sp)
  PROVE  Inv'
<1> USE IdFacts DEF Inv
<1> DEFINE r    == sp.rt
           next == [runtimes[r] EXCEPT !.worker = "running", !.current = sp.current,
                                       !.registration = TRUE]
<1>1. /\ sp \in Spawns /\ r \in Ids /\ sp.current \in BOOLEAN
      /\ runtimes[r] \in RuntimeStates
  BY DEF TypeOK, Spawns
<1>2. /\ next \in RuntimeStates
      /\ next.worker = "running" /\ next.registration /\ next.current = sp.current
      /\ next.stopping = runtimes[r].stopping
      /\ next.restartTimer = runtimes[r].restartTimer
  BY <1>1 DEF RuntimeStates
<1>3. runtimes' = [runtimes EXCEPT ![r] = next]
  BY DEF WorkerSpawned, TypeOK
<1>4. /\ registered' = r /\ spawns' = spawns \ {sp} /\ devices' = devices
      /\ Return(sp) /\ UNCHANGED <<ffmpegSpawns, asked>>
  BY DEF WorkerSpawned
<1> HIDE DEF next
<1>5. /\ runtimes'[r] = next
      /\ \A q \in Ids \ {r} : runtimes'[q] = runtimes[q]
  BY <1>1, <1>3 DEF TypeOK
<1>6. TypeOK'
  BY <1>1, <1>2, <1>3, <1>4, ReturnType DEF TypeOK
<1>7. Exclusive(r) /\ Spawning(r) /\ (r = devices => InMap(r) /\ sp.current)
  BY <1>1 DEF Driven, Spawning, InMap
<1>8. Driven'
  <2>1. SingleSpawn'
    BY <1>4 DEF Driven, SingleSpawn
  <2>2. ~Spawning(r)'
    BY <1>4 DEF Driven, SingleSpawn, Spawning
  <2>3. Exclusive(r)' /\ (r = devices => InMap(r)')
    BY <1>2, <1>4, <1>5, <1>7, <2>2 DEF Exclusive, InMap, Spawning
  <2>4. ASSUME NEW q \in Ids \ {r}
        PROVE  Exclusive(q)' /\ (q = devices => InMap(q)')
    <3>1. Exclusive(q) /\ (q = devices => InMap(q))
      BY <2>4 DEF Driven
    <3>2. Spawning(q)' <=> Spawning(q)
      BY <1>4, <2>4 DEF Spawning
    <3>3. QED
      BY <1>4, <1>5, <2>4, <3>1, <3>2 DEF Exclusive, InMap
  <2>5. QED
    BY <1>1, <1>4, <2>1, <2>3, <2>4 DEF Driven
<1>9. RegistrationWithdrawn'
  BY <1>1, <1>2, <1>4, <1>5 DEF RegistrationWithdrawn
<1>10. QED
  BY <1>6, <1>8, <1>9

LEMMA SpawnFailsInv ==
  ASSUME Inv, NEW sp \in spawns, SpawnFails(sp)
  PROVE  Inv'
<1> USE IdFacts DEF Inv
<1> DEFINE r    == sp.rt
           next == [runtimes[r] EXCEPT !.failed = TRUE]
<1>1. sp \in Spawns /\ r \in Ids /\ runtimes[r] \in RuntimeStates
  BY DEF TypeOK, Spawns
<1>2. /\ next \in RuntimeStates /\ next.failed
      /\ next.stopping = runtimes[r].stopping /\ next.worker = runtimes[r].worker
      /\ next.current = runtimes[r].current
      /\ next.registration = runtimes[r].registration
      /\ next.restartTimer = runtimes[r].restartTimer
  BY <1>1 DEF RuntimeStates
<1>3. runtimes' = [runtimes EXCEPT ![r] = next]
  BY DEF SpawnFails, TypeOK
<1>4. /\ spawns' = spawns \ {sp} /\ devices' = devices /\ registered' = registered
      /\ Return(sp) /\ UNCHANGED <<ffmpegSpawns, asked>>
  BY DEF SpawnFails
<1> HIDE DEF next
<1>5. /\ runtimes'[r] = next
      /\ \A q \in Ids \ {r} : runtimes'[q] = runtimes[q]
  BY <1>1, <1>3 DEF TypeOK
<1>6. TypeOK'
  BY <1>1, <1>2, <1>3, <1>4, ReturnType DEF TypeOK
<1>7. Driven'
  <2>1. SingleSpawn'
    BY <1>4 DEF Driven, SingleSpawn
  <2>2. Exclusive(r)' /\ (r = devices => InMap(r)')
    BY <1>1, <1>2, <1>4, <1>5 DEF Driven, Exclusive, InMap, Spawning
  <2>3. ASSUME NEW q \in Ids \ {r}
        PROVE  Exclusive(q)' /\ (q = devices => InMap(q)')
    <3>1. Exclusive(q) /\ (q = devices => InMap(q))
      BY <2>3 DEF Driven
    <3>2. Spawning(q)' <=> Spawning(q)
      BY <1>4, <2>3 DEF Spawning
    <3>3. QED
      BY <1>4, <1>5, <2>3, <3>1, <3>2 DEF Exclusive, InMap
  <2>4. QED
    BY <1>1, <1>4, <2>1, <2>2, <2>3 DEF Driven
<1>8. RegistrationWithdrawn'
  BY <1>1, <1>2, <1>4, <1>5 DEF RegistrationWithdrawn, TypeOK
<1>9. QED
  BY <1>6, <1>7, <1>8

-----------------------------------------------------------------------------
(* Children.                                                               *)

LEMMA WorkerDiesInv ==
  ASSUME Inv, NEW r \in Ids, WorkerDies(r)
  PROVE  Inv'
<1> USE DEF Inv
<1> DEFINE next == [runtimes[r] EXCEPT !.worker = "dying"]
<1>1. runtimes[r] \in RuntimeStates /\ runtimes[r].worker = "running"
  BY DEF TypeOK, WorkerDies
<1>2. /\ next \in RuntimeStates /\ next.worker = "dying"
      /\ next.stopping = runtimes[r].stopping /\ next.failed = runtimes[r].failed
      /\ next.current = runtimes[r].current
      /\ next.registration = runtimes[r].registration
      /\ next.restartTimer = runtimes[r].restartTimer
  BY <1>1 DEF RuntimeStates
<1>3. runtimes' = [runtimes EXCEPT ![r] = next]
  BY DEF WorkerDies, TypeOK
<1>4. UNCHANGED <<devices, spawns, ffmpegSpawns, reconciles, registered, asked>>
  BY DEF WorkerDies
<1> HIDE DEF next
<1>5. /\ runtimes'[r] = next
      /\ \A q \in Ids \ {r} : runtimes'[q] = runtimes[q]
  BY <1>3 DEF TypeOK
<1>6. TypeOK'
  BY <1>2, <1>3, <1>4 DEF TypeOK
<1>7. Driven'
  BY <1>1, <1>2, <1>4, <1>5 DEF Driven, SingleSpawn, Exclusive, InMap, Spawning
<1>8. RegistrationWithdrawn'
  BY <1>1, <1>2, <1>4, <1>5, IdFacts DEF RegistrationWithdrawn, TypeOK
<1>9. QED
  BY <1>6, <1>7, <1>8

\* The exit handler: the worker of a device in the map hands over to the timer.
LEMMA WorkerExitInv ==
  ASSUME Inv, NEW r \in Ids, WorkerExit(r)
  PROVE  Inv'
<1> USE IdFacts DEF Inv
<1> DEFINE ignored == runtimes[r].stopping \/ ~runtimes[r].current \/ devices = None
           next    == [runtimes[r] EXCEPT !.worker = "none",
                                          !.current = FALSE,
                                          !.registration = FALSE,
                                          !.restartTimer = @ \/ ~ignored,
                                          !.ffmpeg = [c \in Chans |-> ignored /\ @[c]]]
<1>1. runtimes[r] \in RuntimeStates /\ runtimes[r].worker # "none"
  BY DEF TypeOK, WorkerExit
<1>2. /\ next \in RuntimeStates /\ next.worker = "none" /\ ~next.registration
      /\ next.stopping = runtimes[r].stopping
      /\ next.restartTimer <=> runtimes[r].restartTimer \/ ~ignored
  <2>1. ignored \in BOOLEAN /\ (runtimes[r].restartTimer \/ ~ignored) \in BOOLEAN
    OBVIOUS
  <2>2. [c \in Chans |-> ignored /\ runtimes[r].ffmpeg[c]] \in [Chans -> BOOLEAN]
    OBVIOUS
  <2>3. QED
    BY <1>1, <2>1, <2>2 DEF RuntimeStates
<1>3. runtimes' = [runtimes EXCEPT ![r] = next]
  BY Zenon DEF WorkerExit
<1>4. /\ UNCHANGED <<devices, spawns, ffmpegSpawns, reconciles, asked>>
      /\ registered' = IF runtimes[r].registration /\ registered = r THEN None ELSE registered
  BY DEF WorkerExit
<1>5. Exclusive(r) /\ (r = devices => InMap(r) /\ ~ignored)
  BY <1>1 DEF Driven, InMap
<1>6. ~Spawning(r) /\ ~runtimes[r].restartTimer /\ (runtimes[r].stopping => ignored)
  BY <1>1, <1>5 DEF Exclusive
<1> HIDE DEF next, ignored
<1>7. /\ runtimes'[r] = next
      /\ \A q \in Ids \ {r} : runtimes'[q] = runtimes[q]
  BY <1>3 DEF TypeOK
<1>8. TypeOK'
  BY <1>2, <1>3, <1>4 DEF TypeOK
<1>9. Driven'
  <2>1. SingleSpawn' /\ \A q \in Ids : Spawning(q)' <=> Spawning(q)
    BY <1>4 DEF Driven, SingleSpawn, Spawning
  <2>2. Exclusive(r)' /\ (r = devices => InMap(r)')
    BY <1>2, <1>4, <1>5, <1>6, <1>7, <2>1 DEF Exclusive, InMap
  <2>3. ASSUME NEW q \in Ids \ {r}
        PROVE  Exclusive(q)' /\ (q = devices => InMap(q)')
    BY <1>4, <1>7, <2>1, <2>3 DEF Driven, Exclusive, InMap
  <2>4. QED
    BY <1>4, <2>1, <2>2, <2>3 DEF Driven
<1>10. RegistrationWithdrawn'
  BY <1>2, <1>4, <1>7 DEF RegistrationWithdrawn, TypeOK
<1>11. QED
  BY <1>8, <1>9, <1>10

LEMMA FfmpegChildFields ==
  ASSUME TypeOK, NEW r \in Ids, NEW c \in Chans, FfmpegExit(r, c) \/ FfmpegTimer(r, c)
  PROVE  \E next \in RuntimeStates :
           /\ SameLife(runtimes[r], next)
           /\ runtimes' = [runtimes EXCEPT ![r] = next]
<1>1. runtimes[r] \in RuntimeStates
  BY DEF TypeOK
<1>2. CASE FfmpegExit(r, c)
  <2> DEFINE timer == runtimes[r].ffmpegTimer[c] \/ (~runtimes[r].stopping /\ devices # None)
             next  == [runtimes[r] EXCEPT !.ffmpeg[c] = FALSE, !.ffmpegTimer[c] = timer]
  <2>1. timer \in BOOLEAN
    BY <1>1 DEF RuntimeStates
  <2>2. runtimes' = [runtimes EXCEPT ![r] = next]
    BY <1>1, <1>2 DEF FfmpegExit, TypeOK
  <2> HIDE DEF timer
  <2>3. next \in RuntimeStates /\ SameLife(runtimes[r], next)
    BY <1>1, <2>1, FfmpegFields
  <2>4. QED
    BY <2>2, <2>3
<1>3. CASE FfmpegTimer(r, c)
  <2> DEFINE next == [runtimes[r] EXCEPT !.ffmpegTimer[c] = FALSE]
  <2>1. runtimes' = [runtimes EXCEPT ![r] = next]
    BY <1>3 DEF FfmpegTimer, TypeOK
  <2>2. next \in RuntimeStates /\ SameLife(runtimes[r], next)
    BY <1>1, FfmpegFields
  <2>3. QED
    BY <2>1, <2>2
<1>4. QED
  BY <1>2, <1>3

LEMMA FfmpegExitInv ==
  ASSUME Inv, NEW r \in Ids, NEW c \in Chans, FfmpegExit(r, c) \/ FfmpegTimer(r, c)
  PROVE  Inv'
<1> USE DEF Inv
<1>1. runtimes[r] \in RuntimeStates
  BY DEF TypeOK
<1>2. UNCHANGED <<devices, spawns, reconciles, registered, asked>>
  BY DEF FfmpegExit, FfmpegTimer
<1>3. \E next \in RuntimeStates :
        /\ SameLife(runtimes[r], next)
        /\ runtimes' = [runtimes EXCEPT ![r] = next]
  BY FfmpegChildFields
<1>4. ffmpegSpawns' \in SUBSET FfmpegSpawns
  BY DEF FfmpegExit, FfmpegTimer, TypeOK, FfmpegSpawns
<1>5. TypeOK'
  BY <1>2, <1>3, <1>4 DEF TypeOK
<1>6. \A q \in Ids : SameLife(runtimes[q], runtimes'[q])
  BY <1>3 DEF TypeOK, SameLife
<1>7. QED
  BY <1>2, <1>5, <1>6, FfmpegStep DEF Driven, SingleSpawn, Spawning

LEMMA FfmpegRespawnedInv ==
  ASSUME Inv, NEW f \in ffmpegSpawns, FfmpegRespawned(f)
  PROVE  Inv'
<1> USE DEF Inv
<1> DEFINE next == [runtimes[f.rt] EXCEPT !.ffmpeg[f.ch] = TRUE]
<1>1. f.rt \in Ids /\ f.ch \in Chans /\ runtimes[f.rt] \in RuntimeStates
  BY DEF TypeOK, FfmpegSpawns
<1>2. next \in RuntimeStates /\ SameLife(runtimes[f.rt], next)
  BY <1>1, FfmpegFields
<1>3. runtimes' = [runtimes EXCEPT ![f.rt] = next]
  BY DEF FfmpegRespawned, TypeOK
<1>4. /\ UNCHANGED <<devices, spawns, reconciles, registered, asked>>
      /\ ffmpegSpawns' \in SUBSET FfmpegSpawns
  BY DEF FfmpegRespawned, TypeOK
<1> HIDE DEF next
<1>5. TypeOK'
  BY <1>1, <1>2, <1>3, <1>4 DEF TypeOK
<1>6. \A q \in Ids : SameLife(runtimes[q], runtimes'[q])
  BY <1>1, <1>2, <1>3 DEF TypeOK, SameLife
<1>7. QED
  BY <1>4, <1>5, <1>6, FfmpegStep DEF Driven, SingleSpawn, Spawning

-----------------------------------------------------------------------------
(* Theorems.                                                               *)

LEMMA NextInv == Inv /\ [Next]_vars => Inv'
<1> SUFFICES ASSUME Inv, [Next]_vars
             PROVE  Inv'
  OBVIOUS
<1>1. ASSUME NEW p \in Reconciles, NEW key \in DeviceKeys \cup {NotWanted},
             Reconcile(p, key) \/ RestartRecorders(p, key)
      PROVE  Inv'
  BY <1>1, BeginInv
<1>2. ASSUME NEW p \in Reconciles, StartDevice(p) \/ DirectoryFails(p)
      PROVE  Inv'
  <2>1. reconciles[p] \in Calls /\ Done \in Calls
    BY DEF Inv, TypeOK, Calls, Done
  <2>2. [reconciles[p] EXCEPT !.at = "mkdir"] \in Calls
    BY <2>1 DEF Calls
  <2>3. reconciles' \in [Reconciles -> Calls]
    BY <1>2, <2>1, <2>2 DEF StartDevice, DirectoryFails, Inv, TypeOK
  <2>4. UNCHANGED <<devices, runtimes, spawns, ffmpegSpawns, registered, asked>>
    BY <1>2 DEF StartDevice, DirectoryFails
  <2>5. TypeOK'
    BY <2>3, <2>4 DEF Inv, TypeOK
  <2>6. QED
    BY <2>4, <2>5, CallStep
<1>3. ASSUME NEW p \in Reconciles, DirectoryMade(p)
      PROVE  Inv'
  BY <1>3, DirectoryMadeInv
<1>4. ASSUME NEW sp \in spawns,
             FifoMade(sp) \/ FfmpegSpawned(sp) \/ WorkerSpawned(sp) \/ SpawnFails(sp)
      PROVE  Inv'
  BY <1>4, FifoMadeInv, FfmpegSpawnedInv, WorkerSpawnedInv, SpawnFailsInv
<1>5. ASSUME NEW f \in ffmpegSpawns, FfmpegRespawned(f)
      PROVE  Inv'
  BY <1>5, FfmpegRespawnedInv
<1>6. ASSUME NEW f \in ffmpegSpawns, FfmpegSpawnFails(f)
      PROVE  Inv'
  <2>1. UNCHANGED <<devices, runtimes, spawns, reconciles, registered, asked>>
    BY <1>6 DEF FfmpegSpawnFails
  <2>2. TypeOK'
    BY <1>6, <2>1 DEF Inv, TypeOK, FfmpegSpawnFails
  <2>3. QED
    BY <2>1, <2>2, CallStep
<1>7. ASSUME NEW r \in Ids, RestartTimer(r) \/ WorkerDies(r) \/ WorkerExit(r)
      PROVE  Inv'
  BY <1>7, RestartTimerInv, WorkerDiesInv, WorkerExitInv
<1>8. ASSUME NEW r \in Ids, NEW c \in Chans, FfmpegExit(r, c) \/ FfmpegTimer(r, c)
      PROVE  Inv'
  BY <1>8, FfmpegExitInv
<1>9. CASE UNCHANGED vars
  BY <1>9 DEF vars, Inv, TypeOK, Driven, SingleSpawn, Spawning, Exclusive, InMap,
              RegistrationWithdrawn
<1>10. QED
  BY <1>1, <1>2, <1>3, <1>4, <1>5, <1>6, <1>7, <1>8, <1>9 DEF Next

LEMMA InvHolds == Spec => []Inv
BY InitInv, NextInv, PTL DEF Spec

\* Every variable has its type.
THEOREM TypeCorrect == Spec => []TypeOK
<1>1. Inv => TypeOK
  BY DEF Inv
<1>2. QED
  BY <1>1, InvHolds, PTL

\* A registration in deviceRuntime.ts never outlives its worker.
THEOREM RegistrationsEnd == Spec => []RegistrationWithdrawn
<1>1. Inv => RegistrationWithdrawn
  BY DEF Inv
<1>2. QED
  BY <1>1, InvHolds, PTL

LEMMA SpawnCount ==
  ASSUME SingleSpawn, NEW r \in Ids
  PROVE  Cardinality(SpawnsOf(r)) = IF Spawning(r) THEN 1 ELSE 0
<1>1. CASE Spawning(r)
  <2>1. PICK sp \in spawns : sp.rt = r
    BY <1>1 DEF Spawning
  <2>2. SpawnsOf(r) = {sp}
    BY <2>1 DEF SpawnsOf, SingleSpawn
  <2>3. QED
    BY <1>1, <2>2, FS_Singleton
<1>2. CASE ~Spawning(r)
  <2>1. SpawnsOf(r) = {}
    BY <1>2 DEF Spawning, SpawnsOf
  <2>2. QED
    BY <1>2, <2>1, FS_EmptySet
<1>3. QED
  BY <1>1, <1>2

\* A runtime object is driven by one call, worker or timer at most, and by exactly one
\* while it is in the map.
THEOREM DriversAreSingle == Spec => []OneDriver
<1>1. ASSUME Inv
      PROVE  OneDriver
  <2> SUFFICES ASSUME NEW r \in Ids
               PROVE  /\ Drivers(r) <= 1
                      /\ r = devices /\ ~runtimes[r].failed => Drivers(r) = 1
    BY DEF OneDriver
  <2>1. Exclusive(r) /\ (r = devices => InMap(r)) /\ SingleSpawn
    BY <1>1 DEF Inv, Driven
  <2>2. Cardinality(SpawnsOf(r)) = IF Spawning(r) THEN 1 ELSE 0
    BY <2>1, SpawnCount
  <2>3. QED
    BY <2>1, <2>2 DEF Drivers, Exclusive, InMap
<1>2. QED
  BY <1>1, InvHolds, PTL

\* Nothing starts a stopped runtime again: no timer of it is left, and reconcile() makes
\* a new object.
THEOREM StopsAreFinal == Spec => StaysStopped
<1> DEFINE Kept == \A r \in Ids : runtimes[r].stopping /\ ~Garbage(r) => runtimes'[r].stopping
<1>1. ASSUME Inv, [Next]_vars
      PROVE  [Kept]_vars
  <2> SUFFICES ASSUME NEW r \in Ids, runtimes[r].stopping, ~Garbage(r), Next
               PROVE  runtimes'[r].stopping
    BY <1>1
  <2>1. /\ runtimes \in [Ids -> RuntimeStates] /\ runtimes[r] \in RuntimeStates
        /\ ~runtimes[r].restartTimer
    BY <1>1 DEF Inv, TypeOK, Driven, Exclusive
  <2>2. ASSUME NEW p \in Reconciles, NEW key \in DeviceKeys \cup {NotWanted},
               Reconcile(p, key) \/ RestartRecorders(p, key)
        PROVE  runtimes'[r].stopping
    <3>1. (devices # None /\ StopDevice(devices)) \/ NothingToStop
      BY <2>2 DEF Reconcile, RestartRecorders, StopUnwanted
    <3>2. CASE devices # None /\ StopDevice(devices)
      <4>1. devices \in Ids /\ Stopped(devices).stopping
        BY <1>1, <3>2, StoppedFields DEF Inv, TypeOK
      <4>2. runtimes' = [runtimes EXCEPT ![devices] = Stopped(devices)]
        BY <3>2 DEF StopDevice
      <4>3. QED
        BY <2>1, <4>1, <4>2
    <3>3. CASE NothingToStop
      BY <3>3 DEF NothingToStop
    <3>4. QED
      BY <3>1, <3>2, <3>3
  <2>3. ASSUME NEW p \in Reconciles, DirectoryMade(p)
        PROVE  runtimes'[r].stopping
    <3>1. PICK q \in Ids : /\ Garbage(q)
                           /\ runtimes' = [runtimes EXCEPT ![q] =
                                             [Blank EXCEPT !.key = reconciles[p].key]]
      BY <2>3 DEF DirectoryMade
    <3>2. QED
      BY <2>1, <3>1
  <2>4. ASSUME NEW sp \in spawns,
               FifoMade(sp) \/ FfmpegSpawned(sp) \/ WorkerSpawned(sp) \/ SpawnFails(sp)
        PROVE  runtimes'[r].stopping
    <3>1. sp.rt \in Ids /\ sp.ch \in Chans /\ runtimes[sp.rt] \in RuntimeStates
      BY <1>1 DEF Inv, TypeOK, Spawns
    <3>2. CASE FifoMade(sp)
      <4> DEFINE next == [runtimes[sp.rt] EXCEPT !.ffmpegTimer[sp.ch] = FALSE]
      <4>1. runtimes' = [runtimes EXCEPT ![sp.rt] = next]
        BY <3>2 DEF FifoMade
      <4>2. next.stopping = runtimes[sp.rt].stopping
        BY <3>1, FfmpegFields DEF SameLife
      <4> HIDE DEF next
      <4>3. QED
        BY <2>1, <4>1, <4>2
    <3>3. CASE FfmpegSpawned(sp)
      <4> DEFINE next == [runtimes[sp.rt] EXCEPT !.ffmpeg[sp.ch] = TRUE]
      <4>1. runtimes' = [runtimes EXCEPT ![sp.rt] = next]
        BY <3>3 DEF FfmpegSpawned
      <4>2. next.stopping = runtimes[sp.rt].stopping
        BY <3>1, FfmpegFields DEF SameLife
      <4> HIDE DEF next
      <4>3. QED
        BY <2>1, <4>1, <4>2
    <3>4. CASE WorkerSpawned(sp)
      BY <2>1, <3>4 DEF WorkerSpawned, RuntimeStates
    <3>5. CASE SpawnFails(sp)
      BY <2>1, <3>5 DEF SpawnFails, RuntimeStates
    <3>6. QED
      BY <2>4, <3>2, <3>3, <3>4, <3>5
  <2>5. ASSUME NEW f \in ffmpegSpawns, FfmpegRespawned(f)
        PROVE  runtimes'[r].stopping
    BY <2>1, <2>5 DEF FfmpegRespawned, RuntimeStates
  <2>6. ASSUME NEW q \in Ids, RestartTimer(q)
        PROVE  runtimes'[r].stopping
    BY <2>1, <2>6 DEF RestartTimer, RuntimeStates
  <2>7. ASSUME NEW q \in Ids, WorkerDies(q)
        PROVE  runtimes'[r].stopping
    BY <2>1, <2>7 DEF WorkerDies, RuntimeStates
  <2>8. ASSUME NEW q \in Ids, WorkerExit(q)
        PROVE  runtimes'[r].stopping
    BY <2>1, <2>8 DEF WorkerExit, RuntimeStates
  <2>9. ASSUME NEW q \in Ids, NEW c \in Chans, FfmpegExit(q, c) \/ FfmpegTimer(q, c)
        PROVE  runtimes'[r].stopping
    <3>1. PICK next \in RuntimeStates : /\ SameLife(runtimes[q], next)
                                        /\ runtimes' = [runtimes EXCEPT ![q] = next]
      BY <1>1, <2>9, FfmpegChildFields DEF Inv
    <3>2. QED
      BY <2>1, <3>1 DEF SameLife
  <2>10. ASSUME UNCHANGED runtimes
         PROVE  runtimes'[r].stopping
    BY <2>10
  <2>11. QED
    BY <2>2, <2>3, <2>4, <2>5, <2>6, <2>7, <2>8, <2>9, <2>10
       DEF Next, StartDevice, DirectoryFails, FfmpegSpawnFails
<1>2. QED
  BY <1>1, InvHolds, PTL DEF Spec, StaysStopped

-----------------------------------------------------------------------------
(* What the map holds was asked for.                                       *)

\* A call under way starts what it asked for in this burst, and so does the map hold it.
FromBurst ==
    /\ \A p \in Reconciles : reconciles[p].at # "idle" => reconciles[p].key \in asked
    /\ NothingOlderThanBurst

\* Only stops and new objects change what the map holds.
KeysKept ==
    /\ devices' = devices /\ asked' = asked
    /\ \A r \in Ids : runtimes'[r].key = runtimes[r].key

LEMMA SpawnStepsKeepKeys ==
  ASSUME TypeOK, NEW sp \in spawns,
         FifoMade(sp) \/ FfmpegSpawned(sp) \/ WorkerSpawned(sp) \/ SpawnFails(sp)
  PROVE  KeysKept
<1>1. /\ runtimes \in [Ids -> RuntimeStates]
      /\ sp.rt \in Ids /\ sp.ch \in Chans /\ runtimes[sp.rt] \in RuntimeStates
  BY DEF TypeOK, Spawns
<1>2. CASE FifoMade(sp)
  <2> DEFINE next == [runtimes[sp.rt] EXCEPT !.ffmpegTimer[sp.ch] = FALSE]
  <2>1. runtimes' = [runtimes EXCEPT ![sp.rt] = next]
    BY <1>2 DEF FifoMade
  <2>2. next.key = runtimes[sp.rt].key
    BY <1>1, FfmpegFields DEF SameLife
  <2> HIDE DEF next
  <2>3. QED
    BY <1>1, <1>2, <2>1, <2>2 DEF FifoMade, KeysKept
<1>3. CASE FfmpegSpawned(sp)
  <2> DEFINE next == [runtimes[sp.rt] EXCEPT !.ffmpeg[sp.ch] = TRUE]
  <2>1. runtimes' = [runtimes EXCEPT ![sp.rt] = next]
    BY <1>3 DEF FfmpegSpawned
  <2>2. next.key = runtimes[sp.rt].key
    BY <1>1, FfmpegFields DEF SameLife
  <2> HIDE DEF next
  <2>3. QED
    BY <1>1, <1>3, <2>1, <2>2 DEF FfmpegSpawned, KeysKept
<1>4. CASE WorkerSpawned(sp)
  BY <1>1, <1>4 DEF WorkerSpawned, KeysKept, RuntimeStates
<1>5. CASE SpawnFails(sp)
  BY <1>1, <1>5 DEF SpawnFails, KeysKept, RuntimeStates
<1>6. QED
  BY <1>2, <1>3, <1>4, <1>5

LEMMA RespawnKeepsKeys ==
  ASSUME TypeOK, NEW f \in ffmpegSpawns, FfmpegRespawned(f) \/ FfmpegSpawnFails(f)
  PROVE  KeysKept
<1>1. CASE FfmpegRespawned(f)
  <2> DEFINE next == [runtimes[f.rt] EXCEPT !.ffmpeg[f.ch] = TRUE]
  <2>1. f.rt \in Ids /\ f.ch \in Chans /\ runtimes[f.rt] \in RuntimeStates
    BY DEF TypeOK, FfmpegSpawns
  <2>2. runtimes' = [runtimes EXCEPT ![f.rt] = next]
    BY <1>1 DEF FfmpegRespawned
  <2>3. next.key = runtimes[f.rt].key
    BY <2>1, FfmpegFields DEF SameLife
  <2> HIDE DEF next
  <2>4. QED
    BY <1>1, <2>1, <2>2, <2>3 DEF FfmpegRespawned, KeysKept, TypeOK
<1>2. CASE FfmpegSpawnFails(f)
  BY <1>2 DEF FfmpegSpawnFails, KeysKept
<1>3. QED
  BY <1>1, <1>2

LEMMA ChildStepsKeepKeys ==
  ASSUME TypeOK, NEW r \in Ids,
         \/ RestartTimer(r) \/ WorkerDies(r) \/ WorkerExit(r)
         \/ \E c \in Chans : FfmpegExit(r, c) \/ FfmpegTimer(r, c)
  PROVE  KeysKept
<1>1. runtimes \in [Ids -> RuntimeStates] /\ runtimes[r] \in RuntimeStates
  BY DEF TypeOK
<1>2. CASE RestartTimer(r)
  BY <1>1, <1>2 DEF RestartTimer, KeysKept, RuntimeStates
<1>3. CASE WorkerDies(r)
  BY <1>1, <1>3 DEF WorkerDies, KeysKept, RuntimeStates
<1>4. CASE WorkerExit(r)
  BY <1>1, <1>4 DEF WorkerExit, KeysKept, RuntimeStates
<1>5. ASSUME NEW c \in Chans, FfmpegExit(r, c) \/ FfmpegTimer(r, c)
      PROVE  KeysKept
  <2>1. PICK next \in RuntimeStates : /\ SameLife(runtimes[r], next)
                                      /\ runtimes' = [runtimes EXCEPT ![r] = next]
    BY <1>5, FfmpegChildFields
  <2>2. devices' = devices /\ asked' = asked
    BY <1>5 DEF FfmpegExit, FfmpegTimer
  <2>3. QED
    BY <1>1, <2>1, <2>2 DEF SameLife, KeysKept
<1>6. QED
  BY <1>2, <1>3, <1>4, <1>5

\* Steps that keep the keys only move a call on or end it.
LEMMA KeptFromBurst ==
  ASSUME TypeOK, FromBurst, KeysKept,
         \A p \in Reconciles :
           \/ reconciles'[p] = Done
           \/ /\ reconciles'[p].key = reconciles[p].key
              /\ reconciles[p].at # "idle" \/ reconciles'[p].at = "idle"
  PROVE  FromBurst'
<1>1. devices # None => devices \in Ids
  BY DEF TypeOK
<1>2. QED
  BY <1>1 DEF FromBurst, NothingOlderThanBurst, KeysKept, Done

LEMMA FromBurstStep ==
  ASSUME Inv, FromBurst, [Next]_vars
  PROVE  FromBurst'
<1> USE IdFacts
<1>1. TypeOK /\ reconciles \in [Reconciles -> Calls]
  BY DEF Inv, TypeOK
<1>2. ASSUME NEW p \in Reconciles, NEW key \in DeviceKeys \cup {NotWanted},
             Reconcile(p, key) \/ RestartRecorders(p, key)
      PROVE  FromBurst'
  <2>1. /\ asked' = {key} \cup (IF Undisturbed(p) THEN {} ELSE asked)
        /\ reconciles' = [reconciles EXCEPT ![p] = IF key = NotWanted THEN Done
                                                   ELSE [at |-> "start", key |-> key]]
    BY <1>2 DEF Reconcile, RestartRecorders, BeginCall
  <2>2. \A q \in Reconciles : reconciles'[q].at # "idle" => reconciles'[q].key \in asked'
    <3>1. CASE Undisturbed(p)
      BY <1>1, <2>1, <3>1 DEF Undisturbed, Done
    <3>2. CASE ~Undisturbed(p)
      BY <1>1, <2>1, <3>2 DEF FromBurst, Done
    <3>3. QED
      BY <3>1, <3>2
  <2>3. devices' # None => /\ UNCHANGED <<devices, runtimes>>
                           /\ runtimes[devices].key = key
    BY <1>2 DEF Reconcile, RestartRecorders, StopUnwanted, StopDevice, NothingToStop
  <2>4. key \in asked'
    BY <2>1
  <2>5. QED
    BY <2>2, <2>3, <2>4 DEF FromBurst, NothingOlderThanBurst
<1>3. ASSUME NEW p \in Reconciles, DirectoryMade(p)
      PROVE  FromBurst'
  <2> DEFINE key == reconciles[p].key
  <2>1. reconciles[p] \in Calls /\ reconciles[p].at = "mkdir" /\ asked' = asked
    BY <1>1, <1>3 DEF DirectoryMade
  <2>2. key \in asked
    BY <2>1 DEF FromBurst
  <2>3. reconciles' = [reconciles EXCEPT ![p].at = "spawn"]
    BY <1>3 DEF DirectoryMade
  <2>4. /\ reconciles'[p].key = key
        /\ \A q \in Reconciles \ {p} : reconciles'[q] = reconciles[q]
    BY <1>1, <2>1, <2>3 DEF Calls
  <2>5. PICK r \in Ids : /\ runtimes' = [runtimes EXCEPT ![r] = [Blank EXCEPT !.key = key]]
                         /\ devices' = r
    BY <1>3 DEF DirectoryMade
  <2>6. runtimes'[r].key = key
    BY <1>1, <2>5 DEF TypeOK, Blank
  <2>7. \A q \in Reconciles : reconciles'[q].at # "idle" => reconciles'[q].key \in asked'
    BY <2>1, <2>2, <2>4 DEF FromBurst
  <2>8. QED
    BY <2>1, <2>2, <2>5, <2>6, <2>7 DEF FromBurst, NothingOlderThanBurst
<1>4. ASSUME NEW p \in Reconciles, StartDevice(p) \/ DirectoryFails(p)
      PROVE  FromBurst'
  <2>1. KeysKept
    BY <1>4 DEF StartDevice, DirectoryFails, KeysKept
  <2>2. /\ reconciles[p] \in Calls /\ reconciles[p].at # "idle"
        /\ \/ reconciles' = [reconciles EXCEPT ![p] = Done]
           \/ reconciles' = [reconciles EXCEPT ![p].at = "mkdir"]
    BY <1>1, <1>4 DEF StartDevice, DirectoryFails
  <2>3. \/ reconciles'[p] = Done
        \/ reconciles'[p].key = reconciles[p].key
    BY <1>1, <2>2 DEF Calls
  <2>4. \A q \in Reconciles : q # p => reconciles'[q] = reconciles[q]
    BY <1>1, <2>2
  <2>5. QED
    BY <1>1, <2>1, <2>2, <2>3, <2>4, KeptFromBurst
<1>5. ASSUME NEW sp \in spawns,
             FifoMade(sp) \/ FfmpegSpawned(sp) \/ WorkerSpawned(sp) \/ SpawnFails(sp)
      PROVE  FromBurst'
  <2>1. KeysKept
    BY <1>1, <1>5, SpawnStepsKeepKeys
  <2>2. \A q \in Reconciles : reconciles'[q] = Done \/ reconciles'[q] = reconciles[q]
    BY <1>5 DEF FifoMade, FfmpegSpawned, WorkerSpawned, SpawnFails, Return
  <2>3. QED
    BY <1>1, <2>1, <2>2, KeptFromBurst
<1>6. ASSUME NEW f \in ffmpegSpawns, FfmpegRespawned(f) \/ FfmpegSpawnFails(f)
      PROVE  FromBurst'
  <2>1. KeysKept /\ reconciles' = reconciles
    BY <1>1, <1>6, RespawnKeepsKeys DEF FfmpegRespawned, FfmpegSpawnFails
  <2>2. QED
    BY <1>1, <2>1, KeptFromBurst
<1>7. ASSUME NEW r \in Ids,
             \/ RestartTimer(r) \/ WorkerDies(r) \/ WorkerExit(r)
             \/ \E c \in Chans : FfmpegExit(r, c) \/ FfmpegTimer(r, c)
      PROVE  FromBurst'
  <2>1. KeysKept
    BY <1>1, <1>7, ChildStepsKeepKeys
  <2>2. reconciles' = reconciles
    BY <1>7 DEF RestartTimer, WorkerDies, WorkerExit, FfmpegExit, FfmpegTimer
  <2>3. QED
    BY <1>1, <2>1, <2>2, KeptFromBurst
<1>8. CASE UNCHANGED vars
  BY <1>8 DEF vars, FromBurst, NothingOlderThanBurst
<1>9. QED
  BY <1>2, <1>3, <1>4, <1>5, <1>6, <1>7, <1>8 DEF Next

\* Whatever reconcile() calls overlap, and whatever exits, timers and rejected spawns fall
\* between their awaits, the map holds nothing that was replaced before the burst of calls
\* began that it comes from.
THEOREM BurstIsAllThatReturns == Spec => []NothingOlderThanBurst
<1>1. Init => FromBurst
  BY DEF Init, FromBurst, NothingOlderThanBurst, Done
<1>2. Inv /\ FromBurst /\ [Next]_vars => FromBurst'
  BY FromBurstStep
<1>3. FromBurst => NothingOlderThanBurst
  BY DEF FromBurst
<1>4. QED
  BY <1>1, <1>2, <1>3, InvHolds, PTL DEF Spec
=============================================================================
