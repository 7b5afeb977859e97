------------------------------ MODULE EventScans ------------------------------
(***************************************************************************)
(* The events of one DVR: nativeSdk/eventCollector.ts and                  *)
(* events/eventStore.ts as patch-native-event-reconciliation.py and        *)
(* patch-native-event-backfill.py leave them, and the worker's EVENT_SCAN.  *)
(*                                                                         *)
(* Alarms arrive as they happen. Beside them the collector asks the worker *)
(* for the DVR's log: a realtime scan looks back from now to its cursor    *)
(* less an overlap, a backfill walks backwards in chunks. Both cursors are  *)
(* in SQLite; the request that is out is in memory. Time is counted in     *)
(* ticks. One channel that the node knows stands for all, as rows of       *)
(* others are never compared. An event has a name in each of its sources:  *)
(* what is `vca_rule' as an alarm is `line_crossing' in the log.            *)
(***************************************************************************)
EXTENDS Integers, Sequences, FiniteSets

CONSTANTS
    Start, Horizon,     \* the model runs from tick Start to tick Horizon
    Delay,              \* a realtime scan ends this long before now
    Lookback, Overlap, Chunk, BackfillRetention,    \* config.ts
    Retention,          \* HIK_EVENT_RETENTION_DAYS
    Kinds,              \* kinds of events: their names as an alarm, in the DVR's
                        \* event log and in its recording index
    FilterWindow,       \* alarms nearer than this to the last one are dropped
    DedupeWindow,       \* rows of one name nearer than this are one
    Skew,               \* the worker dates alarms at most this much after the DVR
    Lag,                \* a record is in the DVR's log at most this much late
    MaxStale,           \* age of the `now` of a loop that waited at other DVRs
    Histories,          \* bound on what happens: the sets of events considered
    MaxOut,             \* bound on the unread lines of the worker
    Ids,                \* request ids; one is free when nothing holds it
    SearchFails,        \* may a search of the DVR's log fail half way
    StoreFails,         \* may a statement of SQLite fail
    None                \* no request, no row

ASSUME ScanAssumption ==
    /\ {Start, Horizon, Delay, Lookback, Overlap, Chunk, BackfillRetention,
        Retention, FilterWindow, DedupeWindow, Skew, Lag, MaxStale, MaxOut} \subseteq Nat
    /\ BackfillRetention <= Start /\ Start <= Horizon
    /\ Lookback + Delay + MaxStale <= Start
    /\ Chunk > 0 /\ Lag > 0
    /\ Lag <= Overlap + Delay /\ Lag <= Lookback
    /\ Skew <= DedupeWindow
    /\ {SearchFails, StoreFails} \subseteq BOOLEAN
    /\ IsFiniteSet(Kinds)
    /\ Kinds \subseteq [alarm : STRING, log : STRING, index : STRING]

\* A row of event_backfill_state.
Backfills == [cursor : Int, target : Int, complete : BOOLEAN]

ASSUME NoneAssumption == None \notin Backfills

Nil == -1
Never == -FilterWindow
Times == 0..Horizon
Events == [kind : Kinds, at : Times]
AlarmNames == {k.alarm : k \in Kinds}
Names == AlarmNames \cup {k.log : k \in Kinds} \cup {k.index : k \in Kinds}
Rows == [name : Names, at : Times]
Larger(a, b) == IF a > b THEN a ELSE b

VARIABLES
    now,
    happened, log,      \* the DVR: events, and those that a search can find
    worker, wire, out,  \* the live worker: running, unread requests, its stdout
    store,              \* camera_events: names and times of the rows
    sync,               \* event_sync_state: last_success_ms
    backfill,           \* event_backfill_state, or None before it is initialised
    pending,            \* pendingByDevice: the scan that is out, or None
    failing,            \* requests lost with their worker, whose write will fail
    lastEventAt,        \* the last alarm of each name that was not dropped, in memory
    covered,            \* what accepted scans stand for (history variable)
    unwritten           \* events that a scan brought, but SQLite did not take the row
                        \* (history variable)

dvr == <<now, happened, log>>
disk == <<store, sync, backfill, covered, unwritten>>
pipe == <<worker, wire, out>>
vars == <<dvr, pipe, disk, pending, failing, lastEventAt>>

Requests == [id : Ids, purpose : {"realtime", "backfill"}, start : Int, end : Int]
HistoricalEvents ==
    {line \in [kind : {"historical_event"}, id : Ids, name : Names, event : Events] :
        line.name \in {line.event.kind.log, line.event.kind.index}}
Lines == HistoricalEvents
           \cup [kind : {"event_scan_status"}, id : Ids, ok : BOOLEAN]
           \cup [kind : {"alarm"}, name : AlarmNames, at : Times]

TypeOK ==
    /\ now \in Times /\ log \subseteq happened /\ happened \subseteq Events
    /\ worker \in {"up", "down"} /\ wire \in Seq(Requests) /\ out \in Seq(Lines)
    /\ store \subseteq Rows /\ covered \subseteq Int /\ unwritten \subseteq Events
    /\ sync \in Int /\ lastEventAt \in [AlarmNames -> Int]
    /\ backfill # None => backfill \in Backfills
    /\ pending # None => pending \in Requests
    /\ failing \subseteq Ids

Init ==
    /\ now = Start
    /\ happened \in Histories \cap SUBSET [kind : Kinds, at : 0..Start - Lag]
    /\ log = happened
    /\ worker = "down" /\ wire = <<>> /\ out = <<>>
    /\ store = {} /\ covered = {} /\ unwritten = {} /\ sync = Nil /\ backfill = None
    /\ pending = None /\ failing = {} /\ lastEventAt = [n \in AlarmNames |-> Never]

-----------------------------------------------------------------------------
(* The DVR and the clock *)

Tick ==
    /\ now < Horizon
    /\ \A e \in happened : e.at + Lag <= now + 1 => e \in log
    /\ now' = now + 1
    /\ UNCHANGED <<happened, log, pipe, disk, pending, failing, lastEventAt>>

\* Something happens in front of a camera.
Happen ==
    /\ \E kind \in Kinds : happened' = happened \cup {[kind |-> kind, at |-> now]}
    /\ happened' # happened /\ happened' \in Histories
    /\ UNCHANGED <<now, log, pipe, disk, pending, failing, lastEventAt>>

\* alarm_callback: a worker that is there is told, perhaps more than once, and writes
\* what its own clock says.
Alarm ==
    /\ worker = "up" /\ Len(out) < MaxOut
    /\ \E e \in happened :
          /\ now - e.at \in 0..Skew
          /\ out' = Append(out, [kind |-> "alarm", name |-> e.kind.alarm, at |-> now])
    /\ UNCHANGED <<dvr, worker, wire, disk, pending, failing, lastEventAt>>

Logged ==
    /\ \E r \in happened \ log : log' = log \cup {r}
    /\ UNCHANGED <<now, happened, pipe, disk, pending, failing, lastEventAt>>

-----------------------------------------------------------------------------
(* eventCollector.ts: asking for a scan *)

FreeIds == Ids \ (failing \cup {wire[i].id : i \in DOMAIN wire}
                    \cup {out[i].id : i \in {j \in DOMAIN out : out[j].kind # "alarm"}}
                    \cup IF pending = None THEN {} ELSE {pending.id})

\* requestGroupedEventScan: with no worker registered it rejects at once, and the
\* catch takes the request back before anything else can run.
Request(purpose, from, to) ==
    IF worker = "down" THEN UNCHANGED <<pending, wire>>
    ELSE \E id \in FreeIds :
            LET r == [id |-> id, purpose |-> purpose, start |-> from, end |-> to] IN
            /\ pending' = r
            /\ wire' = Append(wire, r)

\* Mutant: the overlap is added to the cursor.
RealtimeStartAhead(end) ==
    Larger(end - Lookback, IF sync = Nil THEN end - Lookback ELSE sync + Overlap)

RealtimeStart(end) ==
    Larger(end - Lookback, IF sync = Nil THEN end - Lookback ELSE sync - Overlap)

ReconcileHistory(at) ==
    LET end == at - Delay
        from == RealtimeStart(end) IN
    /\ pending = None /\ from < end
    /\ Request("realtime", from, end)
    /\ UNCHANGED <<dvr, worker, out, disk, failing, lastEventAt>>

\* initializeHikvisionEventBackfillState
InitialBackfill(at) ==
    [cursor |-> at - Lookback, target |-> at - BackfillRetention, complete |-> FALSE]

ReconcileBackfill(at) ==
    LET b == IF backfill = None THEN InitialBackfill(at) ELSE backfill
        done == b.cursor <= b.target IN
    /\ pending = None /\ ~b.complete
    /\ backfill' = [b EXCEPT !.complete = done]
    /\ IF done THEN UNCHANGED <<pending, wire>>
       ELSE Request("backfill", Larger(b.target, b.cursor - Chunk), b.cursor)
    /\ UNCHANGED <<dvr, worker, out, store, sync, covered, unwritten, failing, lastEventAt>>

\* The catch deletes whatever request is out by then, its own or a later one.
WriteFails(id) ==
    /\ id \in failing
    /\ failing' = failing \ {id} /\ pending' = None
    /\ UNCHANGED <<dvr, pipe, disk, lastEventAt>>

\* Mutant: a backfill chunk that times out is skipped.
ScanTimeoutSkips ==
    /\ pending # None /\ pending' = None
    /\ backfill' = IF pending.purpose = "realtime" THEN backfill
                   ELSE [backfill EXCEPT !.cursor = pending.start]
    /\ UNCHANGED <<dvr, pipe, store, sync, covered, unwritten, failing, lastEventAt>>

ScanTimeout ==
    /\ pending # None /\ pending' = None
    /\ UNCHANGED <<dvr, pipe, disk, failing, lastEventAt>>

-----------------------------------------------------------------------------
(* hik_sdk_device_worker.cpp: scan_historical_events *)

Event(r, e, name) ==
    [kind |-> "historical_event", id |-> r.id, name |-> name, event |-> e]
Status(r, ok) == [kind |-> "event_scan_status", id |-> r.id, ok |-> ok]

\* In each search, events of a kind come in the order of time.
Listings(S) ==
    {s \in [1..Cardinality(S) -> S] :
        /\ \A e \in S : \E i \in DOMAIN s : s[i] = e
        /\ \A i, j \in DOMAIN s : i < j /\ s[i].kind = s[j].kind => s[i].at < s[j].at}

Within(r) == {e \in log : e.at \in r.start..r.end}

\* What one search returns. It counts as supported unless the DVR does not know it:
\* also when it fails (any error but 23), breaks off or meets its limit of 2000.
Search(known, r) ==
    [supported : {known},
     found : IF ~known THEN {{}} ELSE IF SearchFails THEN SUBSET Within(r) ELSE {Within(r)}]

\* The recording index is asked when the event search has found nothing.
Scan ==
    /\ worker = "up" /\ wire # <<>> /\ Len(out) < MaxOut
    /\ \E known \in SUBSET {"event_search", "recording_index"} :
       \E events \in Search("event_search" \in known, Head(wire)),
          files \in Search("recording_index" \in known, Head(wire)) :
            LET r == Head(wire)
                fallback == events.found = {}
                ok == events.supported \/ (fallback /\ files.supported)
                name(e) == IF fallback THEN e.kind.index ELSE e.kind.log IN
            \E list \in Listings(IF fallback THEN files.found ELSE events.found) :
                out' = out \o Append([i \in DOMAIN list |-> Event(r, list[i], name(list[i]))],
                                     Status(r, ok))
    /\ wire' = Tail(wire)
    /\ UNCHANGED <<dvr, worker, disk, pending, failing, lastEventAt>>

WorkerStarts ==
    /\ worker = "down" /\ worker' = "up"
    /\ UNCHANGED <<dvr, wire, out, disk, pending, failing, lastEventAt>>

\* It dies, perhaps in the middle of a scan; Node still reads what it wrote. A request
\* it had not read was written all the same, or its write fails later.
WorkerDies ==
    /\ worker = "up" /\ worker' = "down" /\ wire' = <<>>
    /\ \E lost \in SUBSET {wire[i].id : i \in DOMAIN wire} : failing' = failing \cup lost
    /\ \/ out' = out
       \/ /\ wire # <<>> /\ Len(out) < MaxOut
          /\ \E e \in Within(Head(wire)) : \E name \in {e.kind.log, e.kind.index} :
                out' = Append(out, Event(Head(wire), e, name))
    /\ UNCHANGED <<dvr, disk, pending, lastEventAt>>

-----------------------------------------------------------------------------
(* eventCollector.ts and eventStore.ts: a line of the worker *)

Near(a, b) == a - b \in -DedupeWindow..DedupeWindow

\* Mutant: only rows that are earlier are looked for.
InsertedLooksBack(row) ==
    IF \E s \in store : s.name = row.name /\ row.at - s.at \in 0..DedupeWindow
    THEN store ELSE store \cup {row}

\* appendHikvisionEvent
Inserted(row) ==
    IF \E s \in store : s.name = row.name /\ Near(s.at, row.at)
    THEN store ELSE store \cup {row}

\* Mutant: request_id is not compared.
AwaitedAny(line) == pending # None

Awaited(line) == pending # None /\ pending.id = line.id

\* A row that SQLite does not take is given up: the caller of consumeRuntimeEvent logs
\* the error. The filter is set by then.
ConsumeAlarm(line) ==
    /\ line.kind = "alarm"
    /\ IF line.at - lastEventAt[line.name] < FilterWindow
       THEN UNCHANGED <<store, lastEventAt>>
       ELSE /\ lastEventAt' = [lastEventAt EXCEPT ![line.name] = line.at]
            /\ \/ store' = Inserted([name |-> line.name, at |-> line.at])
               \/ StoreFails /\ store' = store
    /\ UNCHANGED <<sync, backfill, covered, unwritten, pending>>

ConsumeHistoricalEvent(line) ==
    /\ line.kind = "historical_event"
    /\ IF ~Awaited(line) THEN UNCHANGED <<store, unwritten>>
       ELSE \/ /\ store' = Inserted([name |-> line.name, at |-> line.event.at])
               /\ unwritten' = unwritten \ {line.event}
            \/ /\ StoreFails
               /\ store' = store /\ unwritten' = unwritten \cup {line.event}
    /\ UNCHANGED <<sync, backfill, covered, pending, lastEventAt>>

UpdateSyncState(success) == sync' = success /\ UNCHANGED backfill

UpdateBackfillState(cursor, complete) ==
    /\ backfill' = [backfill EXCEPT !.cursor = cursor, !.complete = complete]
    /\ UNCHANGED sync

\* A realtime scan leaves its last Overlap ticks to the next one.
ScanAccepted ==
    IF pending.purpose = "realtime"
    THEN /\ UpdateSyncState(pending.end)
         /\ covered' = covered \cup (pending.start..pending.end - Overlap)
    ELSE /\ UpdateBackfillState(pending.start, pending.start <= backfill.target)
         /\ covered' = covered \cup (pending.start..pending.end)

\* Mutant: a scan that has failed clears the cursor.
ConsumeScanStatusForgets(line) ==
    /\ line.kind = "event_scan_status"
    /\ pending' = IF Awaited(line) THEN None ELSE pending
    /\ IF Awaited(line) /\ line.ok THEN ScanAccepted
       ELSE /\ sync' = IF Awaited(line) /\ pending.purpose = "realtime" THEN None ELSE sync
            /\ UNCHANGED <<backfill, covered>>
    /\ UNCHANGED <<store, unwritten, lastEventAt>>

\* The request is taken back before the cursor is written, which may fail.
ConsumeScanStatus(line) ==
    /\ line.kind = "event_scan_status"
    /\ pending' = IF Awaited(line) THEN None ELSE pending
    /\ \/ Awaited(line) /\ line.ok /\ ScanAccepted
       \/ /\ ~(Awaited(line) /\ line.ok) \/ StoreFails
          /\ UNCHANGED <<sync, backfill, covered>>
    /\ UNCHANGED <<store, unwritten, lastEventAt>>

ReadLine ==
    /\ out # <<>> /\ out' = Tail(out)
    /\ \/ ConsumeAlarm(Head(out))
       \/ ConsumeHistoricalEvent(Head(out))
       \/ ConsumeScanStatus(Head(out))
    /\ UNCHANGED <<dvr, worker, wire, failing>>

Cleanup ==
    /\ store' = {s \in store : s.at >= now - Retention}
    /\ UNCHANGED <<dvr, pipe, sync, backfill, covered, unwritten, pending, failing, lastEventAt>>

\* stop() or a crash of the node, as of a statement of SQLite that fails outside
\* consumeRuntimeEvent, and start() in a new process.
Restart ==
    /\ pending' = None /\ failing' = {} /\ lastEventAt' = [n \in AlarmNames |-> Never]
    /\ worker' = "down" /\ wire' = <<>> /\ out' = <<>>
    /\ UNCHANGED <<dvr, disk>>

-----------------------------------------------------------------------------
Next ==
    \/ Tick \/ Happen \/ Alarm \/ Logged
    \/ \E at \in now - MaxStale..now : ReconcileHistory(at) \/ ReconcileBackfill(at)
    \/ \E id \in Ids : WriteFails(id)
    \/ ScanTimeout
    \/ Scan \/ WorkerStarts \/ WorkerDies
    \/ ReadLine \/ Cleanup \/ Restart

Spec == Init /\ [][Next]_vars
-----------------------------------------------------------------------------
(* Properties *)

\* The event itself has a row, as the log or the recording index names it.
Represented(e) ==
    \E s \in store : s.name \in {e.kind.log, e.kind.index} /\ Near(s.at, e.at)
Kept(e) == e.at >= now - Retention + DedupeWindow

\* The cursors never run ahead of what was delivered: whatever the DVR recorded in a
\* stretch that an accepted scan stands for has a row, unless SQLite refused it when
\* a scan brought it. Late and repeated answers, timeouts, dying workers and restarts
\* lose nothing, nor do alarms that were dropped by the filter or could not be written.
CoveredCollected ==
    \A e \in happened : e.at \in covered /\ Kept(e) => Represented(e) \/ e \in unwritten

\* However often and in whatever order its alarms, realtime scans, backfill and scans
\* done again bring an event, it has one row at most of each name it has in them (not
\* one in all: rows of different names are not compared).
OneRowPerName ==
    \A e \in happened : \A s, t \in store :
        s.name = t.name /\ {s.at - e.at, t.at - e.at} \subseteq 0..Skew => s = t

\* Backfill walks back without a hole from where it began, and is complete only when
\* it has reached its target.
BackfillContiguous ==
    backfill # None =>
        /\ backfill.cursor..(backfill.target + BackfillRetention - Lookback)
              \subseteq covered \cup {backfill.target + BackfillRetention - Lookback}
        /\ backfill.complete => backfill.cursor <= backfill.target

\* The realtime cursor moves on without a hole, unless the DVR was out of reach for
\* longer than the lookback.
NoHoleLeft ==
    [][sync' # sync /\ sync # Nil /\ sync' - Lookback <= sync - Overlap
        => (sync - Overlap..sync' - Overlap) \subseteq covered']_vars

\* "historical scan fills SQLite gaps for every DVR/channel": once backfill is complete
\* nothing the DVR recorded between its target and the realtime cursor is missing.
GapsFilled ==
    \A e \in happened :
        backfill # None /\ backfill.complete /\ e.at \in backfill.target..sync - Overlap
            => ~Kept(e) \/ Represented(e)
=============================================================================
