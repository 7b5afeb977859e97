------------------------------ MODULE SlotPool ------------------------------
(***************************************************************************)
(* What the archive worker pool of one DVR promises to its callers: a      *)
(* bounded set of playback slots, sharded over worker processes.  A        *)
(* session holds at most one slot, on one worker, and keeps that worker    *)
(* until the slot is released, its worker is lost or the pool is cleared.  *)
(*                                                                         *)
(* ArchivePool, the model of src/nativeSdk/deviceRuntime.ts, implements    *)
(* this specification.                                                     *)
(***************************************************************************)
EXTENDS Integers, FiniteSets

CONSTANTS
    Sessions,       \* playback session ids
    Workers,        \* worker indexes
    MaxPerDvr,      \* config.deviceArchiveMaxActivePerDvr
    MaxPerWorker,   \* config.deviceArchiveMaxActivePerWorker
    NoWorker        \* "not in the assignment map"

\* What the theorems about the pool suppose of its constants.
SlotPoolAssumption ==
    /\ IsFiniteSet(Sessions)
    /\ MaxPerDvr \in Nat
    /\ MaxPerWorker \in Nat
    /\ NoWorker \notin Workers

VARIABLE assigned   \* groupedPlaybackAssignments: session -> worker

Holders(w) == {s \in Sessions : assigned[s] = w}
AllHolders == {s \in Sessions : assigned[s] # NoWorker}

Init == assigned = [s \in Sessions |-> NoWorker]

\* A session without a slot takes one on a worker that has room.
Acquire(s, w) ==
    /\ assigned[s] = NoWorker
    /\ Cardinality(AllHolders) < MaxPerDvr
    /\ Cardinality(Holders(w)) < MaxPerWorker
    /\ assigned' = [assigned EXCEPT ![s] = w]

Release(s) == assigned' = [assigned EXCEPT ![s] = NoWorker]

\* A worker is lost, and with it every slot held on it.
LoseWorker(w) ==
    assigned' = [s \in Sessions |-> IF assigned[s] = w THEN NoWorker ELSE assigned[s]]

Clear == assigned' = [s \in Sessions |-> NoWorker]

Next ==
    \/ \E s \in Sessions, w \in Workers : Acquire(s, w)
    \/ \E s \in Sessions : Release(s)
    \/ \E w \in Workers : LoseWorker(w)
    \/ Clear

Spec == Init /\ [][Next]_assigned

-----------------------------------------------------------------------------

TypeOK == assigned \in [Sessions -> Workers \cup {NoWorker}]

\* No worker and no DVR is ever given more sessions than its configured limit.
Capacity ==
    /\ Cardinality(AllHolders) <= MaxPerDvr
    /\ \A w \in Workers : Cardinality(Holders(w)) <= MaxPerWorker
=============================================================================
