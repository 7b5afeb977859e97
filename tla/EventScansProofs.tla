--------------------------- MODULE EventScansProofs ---------------------------
(***************************************************************************)
(* Theorems of EventScans, for every length of the windows, all kinds of   *)
(* events, every number of them and of request ids, and a run of any       *)
(* length.                                                                 *)
(***************************************************************************)
EXTENDS EventScans, FiniteSetTheorems, SequenceTheorems, TLAPS

-----------------------------------------------------------------------------
(* Facts about the data.                                                   *)

LEMMA TimesAreNumbers ==
  /\ Times \subseteq Nat /\ Start \in Times /\ Horizon \in Nat
  /\ \A t \in Times : t \in Int
BY ScanAssumption DEF Times

LEMMA Numbers ==
  /\ Start \in Nat /\ Delay \in Nat /\ Lookback \in Nat /\ Overlap \in Nat /\ Chunk \in Nat
  /\ BackfillRetention \in Nat /\ Retention \in Nat /\ DedupeWindow \in Nat /\ Lag \in Nat
  /\ FilterWindow \in Nat /\ Skew \in Nat /\ Skew <= DedupeWindow
  /\ MaxStale \in Nat /\ Chunk > 0 /\ Lag > 0 /\ Lag <= Overlap + Delay /\ Lag <= Lookback
BY ScanAssumption

LEMMA NowIsNumber ==
  ASSUME TypeOK
  PROVE  /\ now \in Nat /\ sync \in Int
         /\ \A at \in now - MaxStale..now : at \in Int /\ at <= now
<1>1. now \in Nat /\ sync \in Int
  BY TimesAreNumbers DEF TypeOK
<1>2. QED
  BY <1>1, Numbers

\* What an event is, and the rows that show it.
LEMMA NameFacts ==
  ASSUME NEW e \in Events
  PROVE  /\ e.kind \in Kinds /\ e.at \in Times /\ e.at \in Int
         /\ e.kind.alarm \in AlarmNames
         /\ {e.kind.log, e.kind.index} \subseteq Names
<1>1. e.kind \in Kinds /\ e.at \in Times
  BY DEF Events
<1>2. e.at \in Int
  BY <1>1, TimesAreNumbers
<1>3. /\ e.kind.alarm \in AlarmNames /\ e.kind.log \in Names /\ e.kind.index \in Names
  BY <1>1 DEF AlarmNames, Names
<1>4. QED
  BY <1>1, <1>2, <1>3

LEMMA EventsAreFinite == IsFiniteSet(Events)
<1> DEFINE f == [e \in Events |-> <<e.kind, e.at>>]
<1>1. IsFiniteSet(Kinds) /\ IsFiniteSet(Times)
  BY ScanAssumption, FS_Interval DEF Times
<1>2. IsFiniteSet(Kinds \X Times)
  BY <1>1, FS_Product
<1>3. f \in [Events -> Kinds \X Times]
  BY NameFacts
<1>4. \A d, e \in Events : f[d] = f[e] => d = e
  BY DEF Events
<1>5. f \in Injection(Events, Kinds \X Times)
  BY <1>3, <1>4 DEF Injection, IsInjective
<1>6. QED
  BY <1>2, <1>5, FS_Injection

\* The lines of the worker, by what they say.
LEMMA LineTypes ==
  ASSUME NEW line \in Lines
  PROVE  /\ line.kind = "alarm" => line.name \in AlarmNames /\ line.at \in Times
         /\ line.kind = "historical_event" =>
               /\ line.id \in Ids /\ line.event \in Events /\ line.name \in Names
               /\ line.name \in {line.event.kind.log, line.event.kind.index}
         /\ line.kind = "event_scan_status" => line.id \in Ids /\ line.ok \in BOOLEAN
BY DEF Lines, HistoricalEvents

LEMMA EventFacts ==
  ASSUME NEW r \in Requests, NEW e \in Events, NEW name \in {e.kind.log, e.kind.index}
  PROVE  /\ Event(r, e, name) \in Lines /\ Event(r, e, name).kind = "historical_event"
         /\ Event(r, e, name).id = r.id /\ Event(r, e, name).event = e
         /\ Event(r, e, name).name = name
<1>1. name \in Names /\ r.id \in Ids
  BY NameFacts DEF Requests
<1>2. QED
  BY <1>1 DEF Event, Lines, HistoricalEvents

LEMMA StatusFacts ==
  ASSUME NEW r \in Requests, NEW ok \in BOOLEAN
  PROVE  /\ Status(r, ok) \in Lines /\ Status(r, ok).kind = "event_scan_status"
         /\ Status(r, ok).id = r.id /\ Status(r, ok).ok = ok
BY DEF Status, Requests, Lines

\* The head and the tail of a sequence that is not empty.
LEMMA TailFacts ==
  ASSUME NEW S, NEW s \in Seq(S), s # <<>>
  PROVE  /\ 1 \in DOMAIN s /\ Head(s) = s[1] /\ Head(s) \in S /\ Tail(s) \in Seq(S)
         /\ \A i \in DOMAIN Tail(s) : i + 1 \in DOMAIN s /\ Tail(s)[i] = s[i + 1]
OBVIOUS

-----------------------------------------------------------------------------
(* What the actions do, without the way they find it.                      *)

\* A line says that an event is in the log or in the recording index.
Shows(line, r, e) == \E name \in {e.kind.log, e.kind.index} : line = Event(r, e, name)

\* The lines of one search: events of the request, then its status. With searches that
\* do not fail, a scan that is ok has sent every record of its stretch that is logged.
Answer(r, lines, n, ok) ==
    /\ n \in Nat /\ lines \in Seq(Lines) /\ Len(lines) = n + 1
    /\ ok \in BOOLEAN /\ lines[n + 1] = Status(r, ok)
    /\ \A i \in 1..n : \E e \in log : Shows(lines[i], r, e)
    /\ ok /\ ~SearchFails => \A e \in Within(r) : \E i \in 1..n : Shows(lines[i], r, e)

LEMMA ScanFacts ==
  ASSUME TypeOK, Scan
  PROVE  /\ wire # <<>> /\ wire' = Tail(wire)
         /\ UNCHANGED <<dvr, worker, disk, pending, failing, lastEventAt>>
         /\ \E lines, n, ok : Answer(Head(wire), lines, n, ok) /\ out' = out \o lines
<1> DEFINE r == Head(wire)
<1>1. /\ wire # <<>> /\ wire \in Seq(Requests) /\ r \in Requests
      /\ log \subseteq Events
  BY TailFacts DEF Scan, TypeOK
<1>2. PICK known \in SUBSET {"event_search", "recording_index"} :
        \E events \in Search("event_search" \in known, r),
           files \in Search("recording_index" \in known, r) :
             LET fallback == events.found = {}
                 ok == events.supported \/ (fallback /\ files.supported)
                 name(e) == IF fallback THEN e.kind.index ELSE e.kind.log IN
             \E list \in Listings(IF fallback THEN files.found ELSE events.found) :
                out' = out \o Append([i \in DOMAIN list |-> Event(r, list[i], name(list[i]))],
                                     Status(r, ok))
  BY DEF Scan
<1>3. PICK events \in Search("event_search" \in known, r),
           files \in Search("recording_index" \in known, r) :
             LET fallback == events.found = {}
                 ok == events.supported \/ (fallback /\ files.supported)
                 name(e) == IF fallback THEN e.kind.index ELSE e.kind.log IN
             \E list \in Listings(IF fallback THEN files.found ELSE events.found) :
                out' = out \o Append([i \in DOMAIN list |-> Event(r, list[i], name(list[i]))],
                                     Status(r, ok))
  BY <1>2
<1> DEFINE fallback == events.found = {}
           found == IF fallback THEN files.found ELSE events.found
           ok == events.supported \/ (fallback /\ files.supported)
           name(e) == IF fallback THEN e.kind.index ELSE e.kind.log
<1>4. PICK list \in Listings(found) :
         out' = out \o Append([i \in DOMAIN list |-> Event(r, list[i], name(list[i]))],
                              Status(r, ok))
  BY <1>3
<1>5. /\ found \subseteq Within(r) /\ ok \in BOOLEAN
      /\ ok /\ ~SearchFails => found = Within(r)
      /\ \A e : name(e) \in {e.kind.log, e.kind.index}
  BY DEF Search
<1> HIDE DEF found, ok, name, fallback
<1> DEFINE n == Cardinality(found)
           body == [i \in 1..n |-> Event(r, list[i], name(list[i]))]
           lines == Append(body, Status(r, ok))
<1>6. n \in Nat
  <2>1. found \subseteq Events
    BY <1>1, <1>5 DEF Within
  <2>2. IsFiniteSet(found)
    BY <2>1, EventsAreFinite, FS_Subset
  <2>3. QED
    BY <2>2, FS_CardinalityType
<1>7. list \in [1..n -> found] /\ \A e \in found : \E i \in 1..n : list[i] = e
  BY DEF Listings
<1>8. \A i \in 1..n : list[i] \in log /\ list[i] \in Events
  BY <1>1, <1>5, <1>7 DEF Within
<1>9. out' = out \o lines
  BY <1>4, <1>7
<1>10. /\ body \in Seq(Lines) /\ Len(body) = n
       /\ \A i \in 1..n : body[i] = Event(r, list[i], name(list[i]))
  <2>1. \A i \in 1..n : Event(r, list[i], name(list[i])) \in Lines
    BY <1>1, <1>5, <1>8, EventFacts
  <2>2. QED
    BY <1>6, <2>1
<1> HIDE DEF body, n
<1>11. /\ lines \in Seq(Lines) /\ Len(lines) = n + 1 /\ lines[n + 1] = Status(r, ok)
       /\ \A i \in 1..n : lines[i] = Event(r, list[i], name(list[i]))
  BY <1>1, <1>5, <1>6, <1>10, StatusFacts
<1> HIDE DEF lines
<1>12. \A i \in 1..n : Shows(lines[i], r, list[i])
  BY <1>5, <1>11 DEF Shows
<1>13. \A e \in found : \E i \in 1..n : Shows(lines[i], r, e)
  BY <1>7, <1>12
<1>14. Answer(r, lines, n, ok)
  BY <1>5, <1>6, <1>8, <1>11, <1>12, <1>13 DEF Answer
<1>15. QED
  BY <1>1, <1>9, <1>14 DEF Scan

\* A request that is sent has a fresh id.
Asks(r) ==
    /\ r \in Requests /\ r.id \in FreeIds
    /\ pending' = r /\ wire' = Append(wire, r)

LEMMA RequestFacts ==
  ASSUME NEW purpose \in {"realtime", "backfill"}, NEW from \in Int, NEW to \in Int,
         Request(purpose, from, to)
  PROVE  \/ UNCHANGED <<pending, wire>>
         \/ \E r : Asks(r) /\ r.purpose = purpose /\ r.start = from /\ r.end = to
<1>1. ASSUME NEW id \in FreeIds
      PROVE  LET r == [id |-> id, purpose |-> purpose, start |-> from, end |-> to]
             IN  /\ r \in Requests /\ r.id = id /\ r.purpose = purpose
                 /\ r.start = from /\ r.end = to
  BY DEF Requests, FreeIds
<1>2. QED
  BY <1>1 DEF Request, Asks

LEMMA HistoryFacts ==
  ASSUME TypeOK, NEW at \in now - MaxStale..now, ReconcileHistory(at)
  PROVE  /\ UNCHANGED <<dvr, worker, out, disk, failing, lastEventAt>>
         /\ pending = None
         /\ \/ UNCHANGED <<pending, wire>>
            \/ \E r : /\ Asks(r) /\ r.purpose = "realtime" /\ r.end = at - Delay
                     /\ r.start = RealtimeStart(r.end) /\ r.start < r.end
<1>1. at \in Int /\ at - Delay \in Int /\ RealtimeStart(at - Delay) \in Int
  BY Numbers, NowIsNumber DEF RealtimeStart, Larger
<1>2. QED
  BY <1>1, RequestFacts DEF ReconcileHistory

\* It goes on with the backfill it finds, or with a new one.
LEMMA BackfillFacts ==
  ASSUME TypeOK, NEW at \in now - MaxStale..now, ReconcileBackfill(at)
  PROVE  /\ UNCHANGED <<dvr, worker, out, store, sync, covered, unwritten, failing, lastEventAt>>
         /\ pending = None
         /\ \E b \in Backfills :
               /\ b = backfill \/ (backfill = None /\ b = InitialBackfill(at))
               /\ backfill' = [b EXCEPT !.complete = (b.cursor <= b.target)]
               /\ \/ UNCHANGED <<pending, wire>>
                  \/ /\ b.target < b.cursor
                     /\ \E r : /\ Asks(r) /\ r.purpose = "backfill" /\ r.end = b.cursor
                              /\ b.target <= r.start /\ r.start < r.end
<1> DEFINE b == IF backfill = None THEN InitialBackfill(at) ELSE backfill
<1>1. at \in Int /\ b \in Backfills
  <2>1. at \in Int /\ at - Lookback \in Int /\ at - BackfillRetention \in Int
    BY Numbers, NowIsNumber
  <2>2. InitialBackfill(at) \in Backfills
    BY <2>1 DEF InitialBackfill, Backfills
  <2>3. QED
    BY <2>1, <2>2 DEF TypeOK, Backfills
<1>2. b = backfill \/ (backfill = None /\ b = InitialBackfill(at))
  OBVIOUS
<1>3. /\ backfill' = [b EXCEPT !.complete = (b.cursor <= b.target)] /\ pending = None
      /\ IF b.cursor <= b.target THEN UNCHANGED <<pending, wire>>
         ELSE Request("backfill", Larger(b.target, b.cursor - Chunk), b.cursor)
      /\ UNCHANGED <<dvr, worker, out, store, sync, covered, unwritten, failing, lastEventAt>>
  BY DEF ReconcileBackfill
<1> HIDE DEF b
<1>4. /\ b.cursor \in Int /\ b.target \in Int
      /\ Larger(b.target, b.cursor - Chunk) \in Int
      /\ b.target <= Larger(b.target, b.cursor - Chunk)
      /\ ~(b.cursor <= b.target) => Larger(b.target, b.cursor - Chunk) < b.cursor
  BY <1>1, ScanAssumption DEF Backfills, Larger
<1>5. CASE b.cursor <= b.target
  BY <1>1, <1>2, <1>3, <1>5
<1>6. CASE ~(b.cursor <= b.target)
  <2>1. Request("backfill", Larger(b.target, b.cursor - Chunk), b.cursor)
    BY <1>3, <1>6
  <2>2. \/ UNCHANGED <<pending, wire>>
        \/ \E r : /\ Asks(r) /\ r.purpose = "backfill" /\ r.end = b.cursor
                 /\ r.start = Larger(b.target, b.cursor - Chunk)
    BY <1>4, <2>1, RequestFacts
  <2>3. b.target < b.cursor
    BY <1>4, <1>6
  <2>4. QED
    BY <1>1, <1>2, <1>3, <1>4, <1>6, <2>2, <2>3
<1>7. QED
  BY <1>5, <1>6

\* A worker that dies has written one event more, or not.
LEMMA DeathFacts ==
  ASSUME TypeOK, WorkerDies
  PROVE  /\ wire' = <<>> /\ failing' \subseteq Ids /\ worker' = "down"
         /\ UNCHANGED <<dvr, disk, pending, lastEventAt>>
         /\ \/ out' = out
            \/ \E line \in Lines : line.kind = "historical_event" /\ out' = Append(out, line)
<1>1. \A i \in DOMAIN wire : wire[i] \in Requests /\ wire[i].id \in Ids
  <2>1. \A i \in DOMAIN wire : wire[i] \in Requests
    BY DEF TypeOK
  <2>2. \A r \in Requests : r.id \in Ids
    BY DEF Requests
  <2>3. QED
    BY <2>1, <2>2
<1>2. failing' \subseteq Ids
  BY <1>1 DEF WorkerDies, TypeOK
<1>3. ASSUME wire # <<>>, NEW e \in Within(Head(wire)), NEW name \in {e.kind.log, e.kind.index}
      PROVE  /\ Event(Head(wire), e, name) \in Lines
             /\ Event(Head(wire), e, name).kind = "historical_event"
  <2>1. Head(wire) \in Requests /\ e \in Events
    BY <1>3, TailFacts DEF TypeOK, Within
  <2>2. QED
    BY <1>3, <2>1, EventFacts
<1>4. QED
  BY <1>2, <1>3 DEF WorkerDies

\* What the store knows it goes on knowing when a row is inserted.
LEMMA InsertFacts ==
  ASSUME store \subseteq Rows, NEW row \in Rows
  PROVE  /\ Inserted(row) \subseteq Rows /\ store \subseteq Inserted(row)
         /\ \E s \in Inserted(row) : s.name = row.name /\ Near(s.at, row.at)
         /\ \A s \in Inserted(row) :
               s \in store \/ (s = row /\ ~\E u \in store : u.name = row.name /\ Near(u.at, row.at))
<1>1. Near(row.at, row.at)
  <2>1. row.at \in Times
    BY DEF Rows
  <2>2. row.at \in Int /\ DedupeWindow \in Nat
    BY <2>1, Numbers, TimesAreNumbers
  <2>3. row.at - row.at = 0 /\ 0 \in -DedupeWindow..DedupeWindow
    BY <2>2
  <2>4. QED
    BY <2>3 DEF Near
<1>2. QED
  BY <1>1 DEF Inserted

\* Reading a line: an event is inserted at most, a status is accepted at most.
LEMMA LineFacts ==
  ASSUME TypeOK, ReadLine
  PROVE  /\ out # <<>> /\ out' = Tail(out) /\ Head(out) \in Lines
         /\ UNCHANGED <<dvr, worker, wire, failing>>
         /\ \/ ConsumeAlarm(Head(out)) \/ ConsumeHistoricalEvent(Head(out))
            \/ ConsumeScanStatus(Head(out))
BY TailFacts DEF ReadLine, TypeOK

\* A row is inserted, of an event that a scan brought or of an alarm.
Brings(row) ==
    /\ row \in Rows /\ store' = Inserted(row)
    /\ \/ unwritten' = unwritten
       \/ \E e \in Events : /\ row.name \in {e.kind.log, e.kind.index} /\ row.at = e.at
                          /\ unwritten' = unwritten \ {e}

LEMMA AlarmLineFacts ==
  ASSUME TypeOK, NEW line \in Lines, ConsumeAlarm(line)
  PROVE  /\ UNCHANGED <<sync, backfill, covered, pending, unwritten>>
         /\ line.kind = "alarm"
         /\ lastEventAt' \in [AlarmNames -> Int]
         /\ store' = store \/ \E row : Brings(row)
<1>1. /\ line.name \in AlarmNames /\ line.at \in Times /\ line.at \in Int
      /\ lastEventAt \in [AlarmNames -> Int]
  <2>1. line.kind = "alarm"
    BY DEF ConsumeAlarm
  <2>2. line.name \in AlarmNames /\ line.at \in Times
    BY <2>1, LineTypes
  <2>3. QED
    BY <2>2, TimesAreNumbers DEF TypeOK
<1>2. lastEventAt' = lastEventAt \/ lastEventAt' = [lastEventAt EXCEPT ![line.name] = line.at]
  BY DEF ConsumeAlarm
<1>3. lastEventAt' \in [AlarmNames -> Int]
  BY <1>1, <1>2
<1>4. [name |-> line.name, at |-> line.at] \in Rows
  BY <1>1 DEF Rows, Names
<1>5. QED
  BY <1>3, <1>4 DEF ConsumeAlarm, Brings

LEMMA HistoricalLineFacts ==
  ASSUME TypeOK, NEW line \in Lines, ConsumeHistoricalEvent(line)
  PROVE  /\ UNCHANGED <<sync, backfill, covered, pending, lastEventAt>>
         /\ line.kind = "historical_event" /\ line.event \in Events
         /\ \/ store' = store /\ unwritten' = unwritten /\ ~Awaited(line)
            \/ store' = store /\ unwritten' = unwritten \cup {line.event}
            \/ /\ unwritten' = unwritten \ {line.event}
               /\ Brings([name |-> line.name, at |-> line.event.at])
<1>1. /\ line.kind = "historical_event" /\ line.event \in Events /\ line.name \in Names
      /\ line.name \in {line.event.kind.log, line.event.kind.index}
  BY LineTypes DEF ConsumeHistoricalEvent
<1>2. /\ [name |-> line.name, at |-> line.event.at] \in Rows
      /\ [name |-> line.name, at |-> line.event.at].name = line.name
      /\ [name |-> line.name, at |-> line.event.at].at = line.event.at
  BY <1>1, NameFacts DEF Rows
<1> DEFINE row == [name |-> line.name, at |-> line.event.at]
<1> HIDE DEF row
<1>3. ASSUME store' = Inserted(row), unwritten' = unwritten \ {line.event}
      PROVE  Brings(row)
  BY <1>1, <1>2, <1>3 DEF Brings, row
<1>4. QED
  BY <1>1, <1>3 DEF ConsumeHistoricalEvent, row

\* Either way the cursors and the request stay as they are.
LEMMA EventLineFacts ==
  ASSUME TypeOK, NEW line \in Lines, ConsumeAlarm(line) \/ ConsumeHistoricalEvent(line)
  PROVE  /\ UNCHANGED <<sync, backfill, covered, pending>>
         /\ line.kind # "event_scan_status"
         /\ lastEventAt' \in [AlarmNames -> Int]
         /\ \/ store' = store /\ unwritten \subseteq unwritten' /\ unwritten' \subseteq Events
            \/ \E row : Brings(row)
<1>1. CASE ConsumeAlarm(line)
  BY <1>1, AlarmLineFacts DEF TypeOK
<1>2. CASE ConsumeHistoricalEvent(line)
  BY <1>2, HistoricalLineFacts DEF TypeOK
<1>3. QED
  BY <1>1, <1>2

-----------------------------------------------------------------------------
(* The cursors and the request that is out.                                *)

\* A request was asked from the cursors as they are: they move only when it is answered.
Asked ==
    pending # None =>
        /\ pending.start < pending.end
        /\ pending.purpose = "realtime" => pending.start = RealtimeStart(pending.end)
        /\ pending.purpose = "backfill" =>
              /\ backfill \in Backfills /\ pending.end = backfill.cursor
              /\ backfill.target <= pending.start

Cursors == TypeOK /\ Asked

\* An answer that is accepted.
Accepts(line) ==
    /\ pending # None /\ pending' = None /\ UNCHANGED <<store, unwritten, lastEventAt>>
    /\ line.kind = "event_scan_status" /\ line.id = pending.id /\ line.ok
    /\ \/ /\ pending.purpose = "realtime" /\ sync' = pending.end /\ backfill' = backfill
          /\ covered' = covered \cup (pending.start..pending.end - Overlap)
       \/ /\ pending.purpose = "backfill" /\ sync' = sync
          /\ covered' = covered \cup (pending.start..pending.end)
          /\ backfill' = [backfill EXCEPT !.cursor = pending.start,
                                          !.complete = pending.start <= backfill.target]

LEMMA StatusLineFacts ==
  ASSUME Cursors, NEW line \in Lines, ConsumeScanStatus(line)
  PROVE  \/ Accepts(line)
         \/ /\ UNCHANGED <<store, unwritten, lastEventAt, sync, backfill, covered>>
            /\ pending' = pending \/ pending' = None
            /\ line.kind = "event_scan_status"
            /\ pending' # None => pending.id # line.id
<1>1. pending # None => pending.purpose \in {"realtime", "backfill"}
  BY DEF Cursors, TypeOK, Requests
<1>2. QED
  BY <1>1 DEF ConsumeScanStatus, ScanAccepted, UpdateSyncState, UpdateBackfillState,
     Awaited, Accepts

\* Every other action leaves the cursors alone and the request as it is, or forgets it.
Holds == UNCHANGED <<sync, backfill, covered>> /\ (pending' = pending \/ pending' = None)

LEMMA HoldersHold ==
  ASSUME TypeOK,
         \/ Tick \/ Happen \/ Alarm \/ Logged \/ (\E id \in Ids : WriteFails(id)) \/ ScanTimeout
         \/ Scan \/ WorkerStarts \/ WorkerDies \/ Cleanup \/ Restart \/ UNCHANGED vars
  PROVE  Holds
BY ScanFacts, DeathFacts DEF Holds, Tick, Happen, Alarm, Logged, WriteFails, ScanTimeout,
   WorkerStarts, Cleanup, Restart, vars, dvr, disk

LEMMA HoldKeepsAsked ==
  ASSUME Asked, Holds
  PROVE  Asked'
BY DEF Asked, Holds, RealtimeStart

\* The variables that a type is about, for the actions that leave most of them alone.
LEMMA HoldersKeepTypes ==
  ASSUME TypeOK,
         \/ Tick \/ Happen \/ Alarm \/ Logged \/ (\E id \in Ids : WriteFails(id)) \/ ScanTimeout
         \/ Scan \/ WorkerStarts \/ WorkerDies \/ Cleanup \/ Restart \/ UNCHANGED vars
  PROVE  TypeOK'
<1> USE DEF dvr, disk, pipe
<1>1. CASE Tick
  BY <1>1, TimesAreNumbers DEF Tick, TypeOK, Times
<1>2. CASE Happen
  <2>1. PICK kind \in Kinds : happened' = happened \cup {[kind |-> kind, at |-> now]}
    BY <1>2 DEF Happen
  <2>2. happened' \subseteq Events /\ log \subseteq happened'
    BY <2>1 DEF TypeOK, Events
  <2>3. QED
    BY <1>2, <2>2 DEF Happen, TypeOK
<1>12. CASE Alarm
  <2>1. PICK e \in happened :
           out' = Append(out, [kind |-> "alarm", name |-> e.kind.alarm, at |-> now])
    BY <1>12 DEF Alarm
  <2>2. [kind |-> "alarm", name |-> e.kind.alarm, at |-> now] \in Lines
    BY <2>1, NameFacts DEF TypeOK, Lines
  <2>3. out' \in Seq(Lines)
    BY <2>1, <2>2 DEF TypeOK
  <2>4. QED
    BY <1>12, <2>3 DEF Alarm, TypeOK
<1>3. CASE Logged
  BY <1>3 DEF Logged, TypeOK
<1>4. CASE (\E id \in Ids : WriteFails(id)) \/ ScanTimeout
  BY <1>4 DEF WriteFails, ScanTimeout, TypeOK
<1>5. CASE Scan
  <2>1. PICK lines, n, ok : Answer(Head(wire), lines, n, ok) /\ out' = out \o lines
    BY <1>5, ScanFacts
  <2>2. out' \in Seq(Lines)
    BY <2>1, ConcatProperties DEF Answer, TypeOK
  <2>3. wire' \in Seq(Requests)
    <3>1. wire \in Seq(Requests) /\ wire # <<>> /\ wire' = Tail(wire)
      BY <1>5, ScanFacts DEF TypeOK
    <3>2. QED
      BY <3>1, TailFacts
  <2>4. QED
    BY <1>5, <2>2, <2>3, ScanFacts DEF TypeOK
<1>6. CASE WorkerStarts
  BY <1>6 DEF WorkerStarts, TypeOK
<1>7. CASE WorkerDies
  <2>1. out \in Seq(Lines) /\ wire' = <<>>
    BY <1>7, DeathFacts DEF TypeOK
  <2>2. \/ out' = out
        \/ \E line \in Lines : out' = Append(out, line)
    BY <1>7, DeathFacts
  <2>3. out' \in Seq(Lines) /\ wire' \in Seq(Requests)
    BY <2>1, <2>2
  <2>4. QED
    BY <1>7, <2>3, DeathFacts DEF TypeOK
<1>8. CASE Cleanup
  BY <1>8 DEF Cleanup, TypeOK
<1>9. CASE Restart
  BY <1>9, Numbers DEF Restart, TypeOK, Never
<1>10. CASE UNCHANGED vars
  BY <1>10 DEF vars, TypeOK
<1>11. QED
  BY <1>1, <1>2, <1>3, <1>4, <1>5, <1>6, <1>7, <1>8, <1>9, <1>10, <1>12

LEMMA InitCursors == Init => Cursors
<1> SUFFICES ASSUME Init
             PROVE  Cursors
  OBVIOUS
<1>1. happened \subseteq Events /\ now \in Times
  <2>1. 0..Start - Lag \subseteq Times /\ Start \in Times
    BY ScanAssumption DEF Times
  <2>2. QED
    BY <2>1 DEF Init, Events
<1>2. TypeOK
  BY <1>1, Numbers DEF Init, TypeOK, Nil, Never
<1>3. QED
  BY <1>2 DEF Init, Cursors, Asked

LEMMA CursorsAreInductive == Cursors /\ [Next]_vars => Cursors'
<1> SUFFICES ASSUME Cursors, [Next]_vars
             PROVE  Cursors'
  OBVIOUS
<1> USE DEF dvr, disk, pipe
<1>1. TypeOK /\ Asked
  BY DEF Cursors
<1>2. CASE \/ Tick \/ Happen \/ Alarm \/ Logged \/ (\E id \in Ids : WriteFails(id)) \/ ScanTimeout
           \/ Scan \/ WorkerStarts \/ WorkerDies \/ Cleanup \/ Restart \/ UNCHANGED vars
  BY <1>1, <1>2, HoldersKeepTypes, HoldersHold, HoldKeepsAsked DEF Cursors
<1>3. ASSUME UNCHANGED <<pending, wire>> \/ \E r : Asks(r)
      PROVE  /\ wire' \in Seq(Requests)
             /\ pending' # None => pending' \in Requests
  <2>1. wire \in Seq(Requests) /\ (pending # None => pending \in Requests)
    BY <1>1 DEF TypeOK
  <2>2. ASSUME NEW r, Asks(r)
        PROVE  wire' \in Seq(Requests) /\ pending' \in Requests
    BY <2>1, <2>2 DEF Asks
  <2>3. QED
    BY <1>3, <2>1, <2>2
<1>4. ASSUME NEW at \in now - MaxStale..now, ReconcileHistory(at)
      PROVE  Cursors'
  <2>1. TypeOK'
    BY <1>1, <1>3, <1>4, HistoryFacts DEF TypeOK
  <2>2. CASE UNCHANGED <<pending, wire>>
    BY <1>1, <1>4, <2>1, <2>2, HistoryFacts DEF Asked, Cursors
  <2>3. CASE ~UNCHANGED <<pending, wire>>
    <3>1. /\ pending'.purpose = "realtime" /\ pending'.start = RealtimeStart(pending'.end)
          /\ pending'.start < pending'.end /\ sync' = sync
      BY <1>1, <1>4, <2>3, HistoryFacts DEF Asks
    <3>2. QED
      BY <2>1, <3>1 DEF Asked, Cursors, RealtimeStart
  <2>4. QED
    BY <2>2, <2>3
<1>5. ASSUME NEW at \in now - MaxStale..now, ReconcileBackfill(at)
      PROVE  Cursors'
  <2>1. PICK b \in Backfills :
           /\ b = backfill \/ (backfill = None /\ b = InitialBackfill(at))
           /\ backfill' = [b EXCEPT !.complete = (b.cursor <= b.target)]
           /\ \/ UNCHANGED <<pending, wire>>
              \/ /\ b.target < b.cursor
                 /\ \E r : /\ Asks(r) /\ r.purpose = "backfill" /\ r.end = b.cursor
                          /\ b.target <= r.start /\ r.start < r.end
    BY <1>1, <1>5, BackfillFacts
  <2>2. /\ backfill' \in Backfills /\ backfill'.cursor = b.cursor
        /\ backfill'.target = b.target
    <3>1. \A v \in BOOLEAN : LET c == [b EXCEPT !.complete = v]
                             IN  c \in Backfills /\ c.cursor = b.cursor /\ c.target = b.target
      BY DEF Backfills
    <3>2. (b.cursor <= b.target) \in BOOLEAN
      OBVIOUS
    <3>3. QED
      BY <2>1, <3>1, <3>2
  <2>3. TypeOK'
    BY <1>1, <1>3, <1>5, <2>1, <2>2, BackfillFacts DEF TypeOK, Backfills
  <2>4. CASE UNCHANGED <<pending, wire>>
    BY <1>1, <1>5, <2>3, <2>4, BackfillFacts DEF Asked, Cursors
  <2>5. CASE ~UNCHANGED <<pending, wire>>
    <3>1. /\ pending'.purpose = "backfill" /\ pending'.end = b.cursor
          /\ b.target <= pending'.start /\ pending'.start < pending'.end
      BY <2>1, <2>5 DEF Asks
    <3>2. QED
      BY <2>2, <2>3, <3>1 DEF Asked, Cursors, Backfills
  <2>6. QED
    BY <2>4, <2>5
<1>6. CASE ReadLine
  <2> DEFINE line == Head(out)
  <2>1. /\ line \in Lines /\ out' = Tail(out) /\ UNCHANGED <<dvr, worker, wire, failing>>
        /\ out \in Seq(Lines) /\ out # <<>>
    BY <1>1, <1>6, LineFacts DEF TypeOK
  <2>2. out' \in Seq(Lines)
    BY <2>1, TailFacts
  <2>3. CASE ConsumeAlarm(line) \/ ConsumeHistoricalEvent(line)
    <3>1. /\ UNCHANGED <<sync, backfill, covered, pending>>
          /\ lastEventAt' \in [AlarmNames -> Int]
          /\ \/ store' = store /\ unwritten \subseteq unwritten' /\ unwritten' \subseteq Events
             \/ \E row : Brings(row)
      BY <1>1, <2>1, <2>3, EventLineFacts
    <3>2. store' \subseteq Rows /\ unwritten' \subseteq Events
      BY <1>1, <3>1, InsertFacts DEF TypeOK, Brings
    <3>3. TypeOK'
      BY <1>1, <2>1, <2>2, <3>1, <3>2 DEF TypeOK
    <3>4. QED
      BY <1>1, <3>1, <3>3, HoldKeepsAsked DEF Holds, Cursors
  <2>4. CASE ConsumeScanStatus(line)
    <3>1. CASE Accepts(line)
      <4>1. pending \in Requests /\ Overlap \in Nat
        BY <1>1, <3>1, Numbers DEF Accepts, TypeOK
      <4>2. pending.start \in Int /\ pending.end \in Int
        BY <4>1 DEF Requests
      <4>3. covered' \subseteq Int /\ sync' \in Int
        BY <1>1, <3>1, <4>1, <4>2 DEF Accepts, TypeOK
      <4>4. backfill' # None => backfill' \in Backfills
        <5>1. CASE pending.purpose = "realtime"
          BY <1>1, <3>1, <5>1 DEF Accepts, TypeOK, Backfills
        <5>2. CASE pending.purpose = "backfill"
          <6>1. backfill \in Backfills
            BY <1>1, <3>1, <5>2 DEF Accepts, Asked
          <6>2. /\ backfill' = [backfill EXCEPT !.cursor = pending.start,
                                                !.complete = pending.start <= backfill.target]
                /\ (pending.start <= backfill.target) \in BOOLEAN
            BY <3>1, <5>2 DEF Accepts
          <6>3. QED
            BY <4>2, <6>1, <6>2 DEF Backfills
        <5>3. QED
          BY <3>1, <5>1, <5>2 DEF Accepts
      <4>5. TypeOK'
        BY <1>1, <2>1, <2>2, <3>1, <4>3, <4>4 DEF TypeOK, Accepts, Backfills
      <4>6. QED
        BY <3>1, <4>5 DEF Accepts, Asked, Cursors
    <3>2. CASE /\ UNCHANGED <<store, unwritten, lastEventAt, sync, backfill, covered>>
               /\ pending' = pending \/ pending' = None
      <4>1. TypeOK'
        BY <1>1, <2>1, <2>2, <3>2 DEF TypeOK
      <4>2. QED
        BY <1>1, <3>2, <4>1, HoldKeepsAsked DEF Holds, Cursors
    <3>3. QED
      BY <2>1, <2>4, <3>1, <3>2, StatusLineFacts
  <2>5. QED
    BY <1>1, <1>6, <2>3, <2>4, LineFacts
<1>7. QED
  BY <1>2, <1>4, <1>5, <1>6 DEF Next

LEMMA CursorsHold == Spec => []Cursors
BY InitCursors, CursorsAreInductive, PTL DEF Spec

\* Every variable keeps its type: rows and alarms have times of the run, what is on the way
\* between Node and the worker is made of requests and of lines.
THEOREM TypeCorrect == Spec => []TypeOK
<1>1. Cursors => TypeOK
  BY DEF Cursors
<1>2. QED
  BY <1>1, CursorsHold, PTL

-----------------------------------------------------------------------------
(* The cursors move without a hole.                                        *)

\* The realtime cursor moves on without a hole as long as the DVR is not out of reach for
\* longer than the lookback: a request is asked from the cursor, which nobody moves while it
\* is out, and only its own answer moves the cursor.
THEOREM NoHoleIsLeft == Spec => NoHoleLeft
<1> DEFINE Step == sync' # sync /\ sync # Nil /\ sync' - Lookback <= sync - Overlap
                     => (sync - Overlap..sync' - Overlap) \subseteq covered'
<1>1. ASSUME Cursors, [Next]_vars
      PROVE  Step
  <2>1. TypeOK
    BY <1>1 DEF Cursors
  <2>2. CASE \/ Tick \/ Happen \/ Alarm \/ Logged \/ (\E id \in Ids : WriteFails(id)) \/ ScanTimeout
             \/ Scan \/ WorkerStarts \/ WorkerDies \/ Cleanup \/ Restart \/ UNCHANGED vars
    BY <2>1, <2>2, HoldersHold DEF Holds
  <2>3. ASSUME NEW at \in now - MaxStale..now, ReconcileHistory(at) \/ ReconcileBackfill(at)
        PROVE  sync' = sync
    BY <2>1, <2>3, HistoryFacts, BackfillFacts DEF disk
  <2>4. CASE ReadLine
    <3> DEFINE line == Head(out)
    <3>1. line \in Lines
      BY <2>1, <2>4, LineFacts
    <3>2. CASE ConsumeAlarm(line) \/ ConsumeHistoricalEvent(line)
      BY <2>1, <3>1, <3>2, EventLineFacts
    <3>3. CASE ConsumeScanStatus(line)
      <4> SUFFICES ASSUME Accepts(line), sync # Nil, sync' # sync,
                          sync' - Lookback <= sync - Overlap
                   PROVE  (sync - Overlap..sync' - Overlap) \subseteq covered'
        BY <1>1, <3>1, <3>3, StatusLineFacts
      <4>1. /\ sync' = pending.end /\ pending.start = RealtimeStart(pending.end)
            /\ covered' = covered \cup (pending.start..pending.end - Overlap)
        BY <1>1 DEF Accepts, Cursors, Asked
      <4>2. sync \in Int /\ pending.end \in Int /\ Lookback \in Nat /\ Overlap \in Nat
        BY <2>1, Numbers, NowIsNumber DEF Accepts, TypeOK, Requests
      <4>3. pending.start = sync - Overlap
        BY <4>1, <4>2 DEF RealtimeStart, Larger
      <4>4. QED
        BY <4>1, <4>3
    <3>4. QED
      BY <2>1, <2>4, <3>2, <3>3, LineFacts
  <2>5. QED
    BY <1>1, <2>2, <2>3, <2>4 DEF Next
<1>2. QED
  BY <1>1, CursorsHold, PTL DEF Spec, NoHoleLeft

\* Backfill walks back without a hole from where it began: a chunk is asked from the cursor,
\* and the cursor moves to its start only with its answer.
THEOREM BackfillHasNoHole == Spec => []BackfillContiguous
<1> DEFINE origin(b) == b.target + BackfillRetention - Lookback
           Walked(b, known) == /\ b.cursor..origin(b) \subseteq known \cup {origin(b)}
                               /\ b.complete => b.cursor <= b.target
<1>1. Init => BackfillContiguous
  BY DEF Init, BackfillContiguous
<1>2. Cursors /\ BackfillContiguous /\ [Next]_vars => BackfillContiguous'
  <2> SUFFICES ASSUME Cursors, BackfillContiguous, [Next]_vars
               PROVE  BackfillContiguous'
    OBVIOUS
  <2>1. TypeOK
    BY DEF Cursors
  <2>2. UNCHANGED <<backfill, covered>> => BackfillContiguous'
    BY DEF BackfillContiguous
  <2>3. CASE \/ Tick \/ Happen \/ Alarm \/ Logged \/ (\E id \in Ids : WriteFails(id)) \/ ScanTimeout
             \/ Scan \/ WorkerStarts \/ WorkerDies \/ Cleanup \/ Restart \/ UNCHANGED vars
    BY <2>1, <2>2, <2>3, HoldersHold DEF Holds
  <2>4. ASSUME NEW at \in now - MaxStale..now, ReconcileHistory(at)
        PROVE  BackfillContiguous'
    BY <2>1, <2>2, <2>4, HistoryFacts DEF disk
  <2>5. ASSUME NEW at \in now - MaxStale..now, ReconcileBackfill(at)
        PROVE  BackfillContiguous'
    <3>1. PICK b \in Backfills :
             /\ b = backfill \/ (backfill = None /\ b = InitialBackfill(at))
             /\ backfill' = [b EXCEPT !.complete = (b.cursor <= b.target)]
      BY <2>1, <2>5, BackfillFacts
    <3>2. /\ backfill'.cursor = b.cursor /\ backfill'.target = b.target
          /\ backfill'.complete => b.cursor <= b.target
      BY <3>1 DEF Backfills
    <3>3. covered' = covered
      BY <2>1, <2>5, BackfillFacts
    <3>4. b.cursor..origin(b) \subseteq covered \cup {origin(b)}
      <4>1. CASE backfill # None
        BY <3>1, <4>1 DEF BackfillContiguous
      <4>2. CASE backfill = None /\ b = InitialBackfill(at)
        <5>1. b.cursor = at - Lookback /\ b.target = at - BackfillRetention
          BY <4>2 DEF InitialBackfill
        <5>2. at \in Int /\ Lookback \in Nat /\ BackfillRetention \in Nat
          BY <2>1, Numbers, NowIsNumber
        <5>3. b.cursor = origin(b) /\ origin(b) \in Int
          BY <5>1, <5>2
        <5>4. QED
          BY <5>3
      <4>3. CASE backfill = None /\ b = backfill
        BY <4>3, NoneAssumption
      <4>4. QED
        BY <3>1, <4>1, <4>2, <4>3
    <3>5. QED
      BY <3>2, <3>3, <3>4 DEF BackfillContiguous
  <2>6. CASE ReadLine
    <3> DEFINE line == Head(out)
    <3>1. line \in Lines
      BY <2>1, <2>6, LineFacts
    <3>2. CASE ConsumeAlarm(line) \/ ConsumeHistoricalEvent(line)
      BY <2>1, <2>2, <3>1, <3>2, EventLineFacts
    <3>3. CASE ConsumeScanStatus(line) /\ ~Accepts(line)
      BY <2>2, <3>1, <3>3, StatusLineFacts
    <3>4. CASE Accepts(line) /\ pending.purpose = "realtime"
      BY <3>4 DEF Accepts, BackfillContiguous
    <3>5. CASE Accepts(line) /\ pending.purpose = "backfill"
      <4>1. /\ backfill \in Backfills /\ pending.end = backfill.cursor
            /\ covered' = covered \cup (pending.start..pending.end)
            /\ backfill' = [backfill EXCEPT !.cursor = pending.start,
                                            !.complete = pending.start <= backfill.target]
        BY <3>5 DEF Accepts, Cursors, Asked
      <4>2. /\ backfill'.cursor = pending.start /\ backfill'.target = backfill.target
            /\ backfill'.complete => pending.start <= backfill.target
        BY <4>1 DEF Backfills
      <4>3. pending.start \in Int /\ backfill.cursor \in Int /\ origin(backfill) \in Int
        <5>1. pending \in Requests
          BY <2>1, <3>5 DEF Accepts, TypeOK
        <5>2. pending.start \in Int
          BY <5>1 DEF Requests
        <5>3. backfill.cursor \in Int /\ backfill.target \in Int
          BY <4>1 DEF Backfills
        <5>4. QED
          BY <5>2, <5>3, Numbers
      <4>4. CASE backfill # None
        <5>1. backfill.cursor..origin(backfill) \subseteq covered \cup {origin(backfill)}
          BY <4>4 DEF BackfillContiguous
        <5>2. pending.start..origin(backfill)
                \subseteq (pending.start..pending.end) \cup (backfill.cursor..origin(backfill))
          BY <4>1, <4>3
        <5>3. pending.start..origin(backfill) \subseteq covered' \cup {origin(backfill)}
          BY <4>1, <5>1, <5>2
        <5>4. QED
          BY <4>2, <5>3 DEF BackfillContiguous
      <4>5. CASE backfill = None
        BY <4>1, <4>5, NoneAssumption
      <4>6. QED
        BY <4>4, <4>5
    <3>6. QED
      BY <2>1, <2>6, <3>2, <3>3, <3>4, <3>5, LineFacts DEF Accepts
  <2>7. QED
    BY <2>3, <2>4, <2>5, <2>6 DEF Next
<1>3. QED
  BY <1>1, <1>2, CursorsHold, PTL DEF Spec

-----------------------------------------------------------------------------
(* The rows of the store.                                                  *)

\* Outside the DVR nothing changes its records.
LEMMA RecordsStay ==
  ASSUME TypeOK, [Next]_vars, ~Tick, ~Happen, ~Logged
  PROVE  UNCHANGED dvr
BY ScanFacts, DeathFacts, HistoryFacts, BackfillFacts, LineFacts
DEF Next, vars, Alarm, WriteFails, ScanTimeout, WorkerStarts, Cleanup, Restart

LEMMA ClockGoesOn ==
  ASSUME TypeOK, [Next]_vars
  PROVE  now' \in Int /\ now <= now'
<1>1. now \in Int
  BY NowIsNumber
<1>2. CASE Tick
  BY <1>1, <1>2 DEF Tick
<1>3. CASE ~Tick
  <2>1. now' = now
    BY <1>3, RecordsStay DEF Happen, Logged, dvr
  <2>2. QED
    BY <1>1, <2>1
<1>4. QED
  BY <1>2, <1>3

\* What can become of the store: a row is inserted, old rows go, or nothing.
LEMMA StoreFacts ==
  ASSUME Cursors, [Next]_vars
  PROVE  \/ store' = store /\ unwritten \subseteq unwritten'
         \/ /\ store' = {s \in store : s.at >= now - Retention}
            /\ UNCHANGED <<now, unwritten>>
         \/ \E row : Brings(row)
<1> USE DEF dvr, disk
<1>1. TypeOK
  BY DEF Cursors
<1>2. CASE \/ Tick \/ Happen \/ Alarm \/ Logged \/ (\E id \in Ids : WriteFails(id))
           \/ ScanTimeout \/ WorkerStarts \/ Restart \/ UNCHANGED vars
  BY <1>2 DEF Tick, Happen, Alarm, Logged, WriteFails, ScanTimeout, WorkerStarts, Restart, vars
<1>3. CASE Scan \/ WorkerDies
  BY <1>1, <1>3, ScanFacts, DeathFacts
<1>4. CASE \E at \in now - MaxStale..now : ReconcileHistory(at) \/ ReconcileBackfill(at)
  BY <1>1, <1>4, HistoryFacts, BackfillFacts
<1>5. CASE Cleanup
  BY <1>5 DEF Cleanup
<1>6. CASE ReadLine
  <2> DEFINE line == Head(out)
  <2>1. line \in Lines /\ now' = now
    BY <1>1, <1>6, LineFacts
  <2>2. CASE ConsumeAlarm(line) \/ ConsumeHistoricalEvent(line)
    BY <1>1, <2>1, <2>2, EventLineFacts
  <2>3. CASE ConsumeScanStatus(line)
    BY <2>3 DEF ConsumeScanStatus
  <2>4. QED
    BY <1>1, <1>6, <2>2, <2>3, LineFacts
<1>7. QED
  BY <1>2, <1>3, <1>4, <1>5, <1>6 DEF Next

\* Rows of one name are further apart than the window.
RowsApart == \A s, t \in store : s.name = t.name /\ Near(s.at, t.at) => s = t

LEMMA RowsStayApart ==
  ASSUME Cursors, RowsApart, [Next]_vars
  PROVE  RowsApart'
<1>1. store \subseteq Rows /\ \A s \in Rows : s.at \in Int
  BY TimesAreNumbers DEF Cursors, TypeOK, Rows
<1>2. CASE store' \subseteq store
  BY <1>2 DEF RowsApart
<1>3. ASSUME NEW row, Brings(row)
      PROVE  RowsApart'
  <2>1. \A s \in store' :
           /\ s \in Rows
           /\ s \in store \/ (s = row /\ ~\E u \in store : u.name = row.name /\ Near(u.at, row.at))
    BY <1>1, <1>3, InsertFacts DEF Brings
  <2>2. \A a, b \in Int : Near(a, b) => Near(b, a)
    BY Numbers DEF Near
  <2>3. QED
    BY <1>1, <2>1, <2>2 DEF RowsApart
<1>4. QED
  BY <1>2, <1>3, StoreFacts

\* However often and in whatever order alarms, scans, backfill and repeated scans bring an
\* event, there is one row at most of each of its names: their rows lie so near to the event
\* that the second would have been near the first.
THEOREM EventsHaveOneRowPerName == Spec => []OneRowPerName
<1>1. Init => RowsApart
  BY DEF Init, RowsApart
<1>2. Cursors /\ RowsApart /\ [Next]_vars => RowsApart'
  BY RowsStayApart
<1>3. Cursors /\ RowsApart => OneRowPerName
  <2> SUFFICES ASSUME Cursors, RowsApart, NEW e \in happened, NEW s \in store, NEW t \in store,
                      s.name = t.name, {s.at - e.at, t.at - e.at} \subseteq 0..Skew
               PROVE  s = t
    BY DEF OneRowPerName
  <2>1. e.at \in Int /\ s.at \in Int /\ t.at \in Int
    BY NameFacts, TimesAreNumbers DEF Cursors, TypeOK, Rows
  <2>2. Near(s.at, t.at)
    BY <2>1, Numbers DEF Near
  <2>3. QED
    BY <2>2 DEF RowsApart
<1>4. QED
  BY <1>1, <1>2, <1>3, CursorsHold, PTL DEF Spec

\* An event is accounted for while it has a row, or SQLite refused it.
Accounted(e) == Kept(e) => Represented(e) \/ e \in unwritten

\* What the store knows, it keeps as long as the retention says.
LEMMA AccountedStays ==
  ASSUME Cursors, [Next]_vars, NEW e \in Events, Accounted(e)
  PROVE  Accounted(e)'
<1>1. /\ store \subseteq Rows /\ now \in Int /\ TypeOK /\ e.at \in Int
      /\ Retention \in Nat /\ DedupeWindow \in Nat /\ \A s \in Rows : s.at \in Int
  BY Numbers, TimesAreNumbers, NowIsNumber, NameFacts DEF Cursors, TypeOK, Rows
<1>2. now' \in Int /\ now <= now'
  BY <1>1, ClockGoesOn
<1>3. Kept(e)' => Kept(e)
  <2>1. /\ now \in Int /\ now' \in Int /\ now <= now' /\ e.at \in Int
        /\ Retention \in Nat /\ DedupeWindow \in Nat
    BY <1>1, <1>2
  <2>2. \A n, m, t \in Int : n <= m /\ t >= m - Retention + DedupeWindow
                               => t >= n - Retention + DedupeWindow
    BY <2>1
  <2>3. e.at >= now' - Retention + DedupeWindow => e.at >= now - Retention + DedupeWindow
    BY <2>1, <2>2
  <2>4. QED
    BY <2>3 DEF Kept
<1>4. CASE store \subseteq store' /\ unwritten \subseteq unwritten'
  BY <1>3, <1>4 DEF Accounted, Represented
<1>5. CASE store' = {s \in store : s.at >= now - Retention} /\ UNCHANGED <<now, unwritten>>
  <2>1. ASSUME Kept(e), NEW s \in store, Near(s.at, e.at)
        PROVE  s \in store'
    BY <1>1, <1>5, <2>1 DEF Kept, Near
  <2>2. QED
    BY <1>3, <1>5, <2>1 DEF Accounted, Represented
<1>6. ASSUME NEW row, Brings(row)
      PROVE  Accounted(e)'
  <2>1. store \subseteq store' /\ \E s \in store' : s.name = row.name /\ Near(s.at, row.at)
    BY <1>1, <1>6, InsertFacts DEF Brings
  <2>2. CASE unwritten' = unwritten
    BY <1>4, <2>1, <2>2
  <2>3. ASSUME NEW d \in Events, row.name \in {d.kind.log, d.kind.index}, row.at = d.at,
               unwritten' = unwritten \ {d}
        PROVE  Accounted(e)'
    <3>1. CASE d = e
      BY <2>1, <2>3, <3>1 DEF Accounted, Represented
    <3>2. CASE d # e
      BY <1>3, <2>1, <2>3, <3>2 DEF Accounted, Represented
    <3>3. QED
      BY <3>1, <3>2
  <2>4. QED
    BY <1>6, <2>2, <2>3 DEF Brings
<1>7. QED
  BY <1>4, <1>5, <1>6, StoreFacts

-----------------------------------------------------------------------------
(* What is covered has been collected.                                     *)

\* What a scan will stand for when it is accepted.
Due(r) == IF r.purpose = "realtime" THEN r.start..r.end - Overlap ELSE r.start..r.end

LEMMA DueFacts ==
  ASSUME NEW r \in Requests
  PROVE  /\ \A t \in Due(r) : t \in Int /\ r.start <= t /\ t <= r.end
         /\ r.purpose = "realtime" => \A t \in Due(r) : t <= r.end - Overlap
<1>1. r.start \in Int /\ r.end \in Int /\ Overlap \in Nat
  BY Numbers DEF Requests
<1>2. QED
  BY <1>1 DEF Due

\* Everything that is covered or asked for is so old that the DVR has logged it.
LogComplete == \A e \in happened : e.at + Lag <= now => e \in log

Past ==
    /\ \A t \in covered : t + Lag <= now
    /\ pending # None => \A t \in Due(pending) : t + Lag <= now
    /\ backfill # None => backfill.cursor + Lookback <= now

Settled == Cursors /\ LogComplete /\ Past

LEMMA LogCompleteStays ==
  ASSUME TypeOK, LogComplete, [Next]_vars
  PROVE  LogComplete'
<1>1. now \in Nat /\ Lag \in Nat /\ Lag > 0
  BY Numbers, NowIsNumber
<1>2. CASE Tick
  BY <1>2 DEF Tick, LogComplete
<1>3. CASE Happen
  <2>1. ~(now + Lag <= now)
    BY <1>1
  <2>2. \A e \in happened' : e \in happened \/ e.at = now
    BY <1>3 DEF Happen
  <2>3. QED
    BY <1>3, <2>1, <2>2 DEF Happen, LogComplete
<1>4. CASE Logged
  BY <1>4 DEF Logged, LogComplete
<1>5. CASE ~Tick /\ ~Happen /\ ~Logged
  BY <1>5, RecordsStay DEF LogComplete, dvr
<1>6. QED
  BY <1>2, <1>3, <1>4, <1>5

LEMMA PastStays ==
  ASSUME Cursors, Past, [Next]_vars
  PROVE  Past'
<1> USE DEF dvr, disk
<1>1. /\ TypeOK /\ Asked /\ now \in Int /\ now' \in Int /\ now <= now'
      /\ covered \subseteq Int
      /\ backfill # None => backfill.cursor \in Int
  BY ClockGoesOn, NowIsNumber DEF Cursors, TypeOK, Backfills
<1>2. /\ Lag \in Int /\ Lookback \in Int /\ Delay \in Int /\ Overlap \in Nat
      /\ Lag <= Overlap + Delay /\ Lag <= Lookback
  BY Numbers
<1>3. \A x \in Int : /\ x + Lag <= now => x + Lag <= now'
                     /\ x + Lookback <= now => x + Lookback <= now'
  BY <1>1, <1>2
<1>4. pending # None => \A t \in Due(pending) : t \in Int
  BY <1>1, DueFacts DEF TypeOK
<1>5. ASSUME Holds
      PROVE  Past'
  <2>1. \A t \in covered' : t + Lag <= now'
    BY <1>1, <1>3, <1>5 DEF Holds, Past
  <2>2. pending' # None => \A t \in Due(pending') : t + Lag <= now'
    BY <1>3, <1>4, <1>5 DEF Holds, Past
  <2>3. backfill' # None => backfill'.cursor + Lookback <= now'
    BY <1>1, <1>3, <1>5 DEF Holds, Past
  <2>4. QED
    BY <2>1, <2>2, <2>3 DEF Past, Due
<1>6. ASSUME NEW at \in now - MaxStale..now, ReconcileHistory(at)
      PROVE  Past'
  <2>1. UNCHANGED <<now, covered, backfill>>
    BY <1>1, <1>6, HistoryFacts
  <2>2. CASE UNCHANGED <<pending, wire>>
    BY <2>1, <2>2 DEF Past, Due
  <2>3. ASSUME NEW r, Asks(r), r.purpose = "realtime", r.end = at - Delay
        PROVE  Past'
    <3>1. at \in Int /\ at <= now
      BY <1>1, NowIsNumber
    <3>2. \A t \in Due(r) : t \in Int /\ t <= at - Delay - Overlap
      BY <2>3, DueFacts DEF Asks
    <3>3. \A t \in Due(r) : t + Lag <= now
      BY <1>1, <1>2, <3>1, <3>2
    <3>4. QED
      BY <2>1, <2>3, <3>3 DEF Past, Due, Asks
  <2>4. QED
    BY <1>1, <1>6, <2>2, <2>3, HistoryFacts
<1>7. ASSUME NEW at \in now - MaxStale..now, ReconcileBackfill(at)
      PROVE  Past'
  <2>1. UNCHANGED <<now, covered>> /\ pending = None
    BY <1>1, <1>7, BackfillFacts
  <2>2. PICK b \in Backfills :
           /\ b = backfill \/ (backfill = None /\ b = InitialBackfill(at))
           /\ backfill' = [b EXCEPT !.complete = (b.cursor <= b.target)]
           /\ \/ UNCHANGED <<pending, wire>>
              \/ \E r : Asks(r) /\ r.purpose = "backfill" /\ r.end = b.cursor
    BY <1>1, <1>7, BackfillFacts
  <2>3. backfill'.cursor = b.cursor /\ b.cursor \in Int
    BY <2>2 DEF Backfills
  <2>4. b.cursor + Lookback <= now
    <3>1. CASE b = backfill
      BY <2>2, <3>1, NoneAssumption DEF Past
    <3>2. CASE b = InitialBackfill(at)
      <4>1. at \in Int /\ at <= now /\ b.cursor = at - Lookback
        BY <1>1, <3>2, NowIsNumber DEF InitialBackfill
      <4>2. QED
        BY <1>1, <1>2, <4>1
    <3>3. QED
      BY <2>2, <3>1, <3>2
  <2>5. CASE UNCHANGED <<pending, wire>>
    BY <2>1, <2>3, <2>4, <2>5 DEF Past, Due
  <2>6. ASSUME NEW r, Asks(r), r.purpose = "backfill", r.end = b.cursor
        PROVE  Past'
    <3>1. \A t \in Due(r) : t \in Int /\ t <= b.cursor
      BY <2>6, DueFacts DEF Asks
    <3>2. \A t \in Due(r) : t + Lag <= now
      BY <1>1, <1>2, <2>3, <2>4, <3>1
    <3>3. QED
      BY <2>1, <2>3, <2>4, <2>6, <3>2 DEF Past, Due, Asks
  <2>7. QED
    BY <2>2, <2>5, <2>6
<1>8. ASSUME NEW line \in Lines, Accepts(line), now' = now
      PROVE  Past'
  <2>1. covered' = covered \cup Due(pending)
    BY <1>8 DEF Accepts, Due
  <2>2. pending' = None /\ \A t \in covered' : t + Lag <= now'
    BY <1>8, <2>1 DEF Accepts, Past
  <2>3. CASE pending.purpose = "realtime"
    BY <1>8, <2>2, <2>3 DEF Accepts, Past
  <2>4. CASE pending.purpose = "backfill"
    <3>1. /\ backfill \in Backfills /\ pending.end = backfill.cursor
          /\ pending.start < pending.end /\ pending \in Requests
      BY <1>1, <1>8, <2>4 DEF Accepts, Asked, TypeOK
    <3>2. backfill'.cursor = pending.start /\ pending.start \in Int /\ backfill.cursor \in Int
      BY <1>8, <2>4, <3>1 DEF Accepts, Backfills, Requests
    <3>3. backfill.cursor + Lookback <= now
      BY <3>1, NoneAssumption DEF Past
    <3>4. pending.start + Lookback <= now
      BY <1>1, <1>2, <3>1, <3>2, <3>3
    <3>5. QED
      BY <1>8, <2>2, <3>2, <3>4 DEF Past
  <2>5. QED
    BY <1>8, <2>3, <2>4 DEF Accepts
<1>9. CASE ReadLine
  <2>1. Head(out) \in Lines /\ now' = now
    BY <1>1, <1>9, LineFacts
  <2>2. QED
    BY <1>1, <1>5, <1>8, <1>9, <2>1, LineFacts, EventLineFacts, StatusLineFacts DEF Holds
<1>10. QED
  BY <1>1, <1>5, <1>6, <1>7, <1>9, HoldersHold DEF Next

\* An id belongs to one request: what the worker still has to read under the id of the one
\* that is out is that request, and what it has answered under it is its answer.
OneRequest ==
    \A i \in DOMAIN wire : pending # None /\ wire[i].id = pending.id => wire[i] = pending

\* When the answer is read, the records it stands for are in the store or in the lines
\* before it, or SQLite refused them.
Answered(i, e) == Accounted(e) \/ \E j \in 1..i - 1 : Shows(out[j], pending, e)

Delivered ==
    \A i \in DOMAIN out :
        /\ pending # None /\ out[i].kind = "event_scan_status"
        /\ out[i].id = pending.id /\ out[i].ok
        => \A e \in happened : e.at \in Due(pending) => Answered(i, e)

Collected == OneRequest /\ Delivered /\ CoveredCollected

\* A fresh id is in no line of the worker.
LEMMA FreshFacts ==
  ASSUME TypeOK, NEW r, Asks(r)
  PROVE  /\ \A i \in DOMAIN wire : wire[i].id # r.id
         /\ \A i \in DOMAIN out : out[i].kind = "alarm" \/ out[i].id # r.id
BY DEF Asks, FreeIds

LEMMA OneRequestStays ==
  ASSUME TypeOK, OneRequest, [Next]_vars
  PROVE  OneRequest'
<1> USE DEF pipe
<1>1. wire \in Seq(Requests)
  BY DEF TypeOK
<1>2. CASE wire' = wire /\ (pending' = pending \/ pending' = None)
  BY <1>2 DEF OneRequest
<1>3. CASE wire' = <<>>
  BY <1>3 DEF OneRequest
<1>4. CASE Scan
  <2>1. wire # <<>> /\ wire' = Tail(wire) /\ pending' = pending
    BY <1>4, ScanFacts
  <2>2. \A i \in DOMAIN wire' : i + 1 \in DOMAIN wire /\ wire'[i] = wire[i + 1]
    BY <1>1, <2>1, TailFacts
  <2>3. QED
    BY <2>1, <2>2 DEF OneRequest
<1>5. ASSUME NEW r, Asks(r)
      PROVE  OneRequest'
  <2>1. /\ pending' = r /\ DOMAIN wire' = 1..Len(wire) + 1 /\ wire'[Len(wire) + 1] = r
        /\ DOMAIN wire = 1..Len(wire) /\ Len(wire) \in Nat
        /\ \A i \in DOMAIN wire : wire'[i] = wire[i]
    BY <1>1, <1>5 DEF Asks
  <2>2. \A i \in DOMAIN wire' : i \in DOMAIN wire \/ i = Len(wire) + 1
    BY <2>1
  <2>3. QED
    BY <1>5, <2>1, <2>2, FreshFacts DEF OneRequest
<1>6. ASSUME NEW at \in now - MaxStale..now, ReconcileHistory(at) \/ ReconcileBackfill(at)
      PROVE  OneRequest'
  BY <1>2, <1>5, <1>6, HistoryFacts, BackfillFacts
<1>7. CASE ReadLine
  <2>1. wire' = wire
    BY <1>7, LineFacts
  <2>2. pending' = pending \/ pending' = None
    BY <1>7 DEF ReadLine, ConsumeAlarm, ConsumeHistoricalEvent, ConsumeScanStatus
  <2>3. QED
    BY <1>2, <2>1, <2>2
<1>8. CASE WorkerDies \/ Restart
  BY <1>3, <1>8, DeathFacts DEF Restart
<1>9. CASE \/ Tick \/ Happen \/ Alarm \/ Logged \/ (\E id \in Ids : WriteFails(id)) \/ ScanTimeout
           \/ WorkerStarts \/ Cleanup \/ UNCHANGED vars
  BY <1>2, <1>9 DEF Tick, Happen, Alarm, Logged, WriteFails, ScanTimeout, WorkerStarts, Cleanup, vars
<1>10. QED
  BY <1>4, <1>6, <1>7, <1>8, <1>9 DEF Next

\* An action that only adds lines that are no statuses of the request that is out.
LEMMA MoreLinesKeepDelivered ==
  ASSUME Settled, Collected, [Next]_vars, out' \in Seq(Lines),
         pending' = pending \/ pending' = None,
         Len(out) <= Len(out'), \A i \in DOMAIN out : out'[i] = out[i],
         \A i \in DOMAIN out' \ DOMAIN out : out'[i].kind # "event_scan_status",
         \A e \in happened' : e.at \in Due(pending) => e \in happened \/ pending = None
  PROVE  Delivered'
<1>1. out \in Seq(Lines) /\ Cursors /\ TypeOK /\ happened \subseteq Events
  BY DEF Settled, Cursors, TypeOK
<1> SUFFICES ASSUME NEW i \in DOMAIN out', pending' # None, out'[i].kind = "event_scan_status",
                    out'[i].id = pending'.id, out'[i].ok,
                    NEW e \in happened', e.at \in Due(pending')
             PROVE  Answered(i, e)'
  BY DEF Delivered
<1>2. pending' = pending /\ i \in DOMAIN out /\ out'[i] = out[i] /\ i \in Nat
  BY <1>1
<1>3. e \in happened /\ e \in Events /\ e.at \in Due(pending)
  BY <1>1, <1>2 DEF Due
<1>4. Answered(i, e)
  BY <1>2, <1>3 DEF Collected, Delivered
<1>5. CASE \E j \in 1..i - 1 : Shows(out[j], pending, e)
  <2>1. \A j \in 1..i - 1 : j \in DOMAIN out /\ out'[j] = out[j]
    BY <1>1, <1>2
  <2>2. QED
    BY <1>2, <1>5, <2>1 DEF Answered, Shows, Event
<1>6. CASE Accounted(e)
  BY <1>1, <1>3, <1>6, AccountedStays DEF Answered
<1>7. QED
  BY <1>4, <1>5, <1>6 DEF Answered

\* Where an element of a sequence of m lines, n events and a status stands.
LEMMA Position ==
  ASSUME NEW m \in Nat, NEW n \in Nat
  PROVE  /\ n + 1 \in 1..n + 1 /\ m + (n + 1) = m + n + 1
         /\ \A i \in 1..m + n + 1 :
               i \notin 1..m => i = m + n + 1 \/ (i - m \in 1..n /\ m + (i - m) = i)
OBVIOUS

\* A scan answers for everything that is due, as it is all in the log by now.
LEMMA ScanKeepsDelivered ==
  ASSUME ~SearchFails, Settled, Collected, Scan, [Next]_vars
  PROVE  Delivered'
<1>1. /\ out \in Seq(Lines) /\ TypeOK /\ log \subseteq Events /\ happened \subseteq Events
      /\ wire \in Seq(Requests) /\ Len(out) \in Nat /\ DOMAIN out = 1..Len(out)
  BY DEF Settled, Cursors, TypeOK
<1>2. PICK lines, n, ok : Answer(Head(wire), lines, n, ok) /\ out' = out \o lines
  BY <1>1, ScanFacts
<1>3. /\ pending' = pending /\ happened' = happened /\ UNCHANGED <<now, store, unwritten>>
      /\ wire # <<>> /\ Head(wire) = wire[1] /\ 1 \in DOMAIN wire /\ Head(wire) \in Requests
  BY <1>1, ScanFacts, TailFacts DEF dvr, disk
<1>4. /\ n \in Nat /\ lines \in Seq(Lines) /\ Len(lines) = n + 1 /\ ok \in BOOLEAN
      /\ lines[n + 1] = Status(Head(wire), ok)
      /\ \A i \in 1..n : \E e \in log : Shows(lines[i], Head(wire), e)
      /\ ok => \A e \in Within(Head(wire)) : \E i \in 1..n : Shows(lines[i], Head(wire), e)
  BY <1>2 DEF Answer
<1>5. /\ DOMAIN out' = 1..Len(out) + n + 1
      /\ \A i \in 1..Len(out) : out'[i] = out[i]
      /\ \A i \in 1..n + 1 : out'[Len(out) + i] = lines[i]
  <2>1. /\ Len(out') = Len(out) + (n + 1) /\ out' \in Seq(Lines)
        /\ \A i \in 1..Len(out) + (n + 1) :
              out'[i] = IF i <= Len(out) THEN out[i] ELSE lines[i - Len(out)]
    <3>1. /\ out \o lines \in Seq(Lines) /\ Len(out \o lines) = Len(out) + Len(lines)
          /\ \A i \in 1..Len(out) + Len(lines) :
                (out \o lines)[i] = IF i <= Len(out) THEN out[i] ELSE lines[i - Len(out)]
      BY <1>1, <1>4, ConcatProperties
    <3>2. out' = out \o lines /\ Len(lines) = n + 1
      BY <1>2, <1>4
    <3>3. QED
      BY <3>1, <3>2
  <2>2. \A i \in 1..Len(out) : out'[i] = out[i]
    BY <1>1, <1>4, <2>1
  <2>3. ASSUME NEW i \in 1..n + 1
        PROVE  out'[Len(out) + i] = lines[i]
    <3>1. /\ Len(out) + i \in 1..Len(out) + (n + 1) /\ ~(Len(out) + i <= Len(out))
          /\ Len(out) + i - Len(out) = i
      BY <1>1, <1>4
    <3>2. QED
      BY <2>1, <3>1
  <2>4. DOMAIN out' = 1..Len(out) + n + 1
    BY <1>1, <1>4, <2>1
  <2>5. QED
    BY <2>2, <2>3, <2>4
<1> SUFFICES ASSUME NEW i \in DOMAIN out', pending' # None, out'[i].kind = "event_scan_status",
                    out'[i].id = pending'.id, out'[i].ok,
                    NEW e \in happened', e.at \in Due(pending')
             PROVE  Answered(i, e)'
  BY DEF Delivered
<1>6. e \in happened /\ e.at \in Due(pending) /\ pending # None /\ i \in Nat
  BY <1>1, <1>3, <1>4, <1>5 DEF Due
<1>7. CASE i \in DOMAIN out
  <2>1. Answered(i, e)
    BY <1>1, <1>3, <1>5, <1>6, <1>7 DEF Collected, Delivered
  <2>2. \A j \in 1..i - 1 : out'[j] = out[j]
    BY <1>1, <1>5, <1>7
  <2>3. Accounted(e) => Accounted(e)'
    BY <1>3 DEF Accounted, Kept, Represented
  <2>4. QED
    BY <1>3, <2>1, <2>2, <2>3 DEF Answered, Shows, Event
<1>8. CASE i \notin DOMAIN out
  <2>1. i = Len(out) + n + 1
    <3>1. SUFFICES ASSUME i # Len(out) + n + 1
                   PROVE  FALSE
      OBVIOUS
    <3>2. i - Len(out) \in 1..n /\ Len(out) + (i - Len(out)) = i
      <4>1. i \in 1..Len(out) + n + 1 /\ i \notin 1..Len(out)
        BY <1>1, <1>5, <1>8
      <4>2. Len(out) \in Nat /\ n \in Nat
        BY <1>1, <1>4
      <4>3. \A k \in 1..Len(out) + n + 1 :
               k \notin 1..Len(out) =>
                  k = Len(out) + n + 1 \/ (k - Len(out) \in 1..n /\ Len(out) + (k - Len(out)) = k)
        BY <4>2, Position, Zenon
      <4>4. QED
        BY <3>1, <4>1, <4>3
    <3>3. PICK d \in log : Shows(lines[i - Len(out)], Head(wire), d)
      BY <1>4, <3>2
    <3>4. PICK name \in {d.kind.log, d.kind.index} :
             lines[i - Len(out)] = Event(Head(wire), d, name)
      BY <3>3 DEF Shows
    <3>5. i - Len(out) \in 1..n + 1 /\ d \in Events
      BY <1>1, <1>4, <3>2
    <3>6. out'[i] = Event(Head(wire), d, name)
      BY <1>1, <1>5, <3>2, <3>4, <3>5
    <3>7. QED
      BY <1>3, <3>4, <3>5, <3>6, EventFacts
  <2>2. out'[i] = Status(Head(wire), ok)
    <3>1. n + 1 \in 1..n + 1 /\ Len(out) + (n + 1) = i
      BY <1>1, <1>4, <2>1, Position
    <3>2. QED
      BY <1>4, <1>5, <3>1
  <2>3. ok /\ Head(wire).id = pending.id
    BY <1>3, <1>4, <2>2, StatusFacts
  <2>4. Head(wire) = pending
    BY <1>3, <1>6, <2>3 DEF Collected, OneRequest
  <2>5. e \in Within(pending)
    <3>1. e.at + Lag <= now
      BY <1>6 DEF Settled, Past
    <3>2. e.at \in Int /\ pending.start <= e.at /\ e.at <= pending.end
      BY <1>3, <1>6, <2>4, DueFacts
    <3>3. pending.start \in Int /\ pending.end \in Int
      BY <1>3, <2>4 DEF Requests
    <3>4. e \in log
      BY <1>6, <3>1 DEF Settled, LogComplete
    <3>5. QED
      BY <3>2, <3>3, <3>4 DEF Within
  <2>6. PICK j \in 1..n : Shows(lines[j], pending, e)
    BY <1>4, <2>3, <2>4, <2>5
  <2>7. Len(out) + j \in 1..i - 1 /\ j \in 1..n + 1
    BY <1>1, <1>4, <2>1
  <2>8. Shows(out'[Len(out) + j], pending, e)
    BY <1>5, <2>6, <2>7
  <2>9. QED
    BY <1>3, <2>7, <2>8 DEF Answered, Shows, Event
<1>9. QED
  BY <1>7, <1>8

\* A line that is read moves the others up; its event is in the store from then on.
LEMMA ReadKeepsDelivered ==
  ASSUME Settled, Collected, ReadLine, [Next]_vars
  PROVE  Delivered'
<1> DEFINE line == Head(out)
<1>1. /\ out \in Seq(Lines) /\ out # <<>> /\ TypeOK /\ Cursors /\ line \in Lines
      /\ out' = Tail(out) /\ happened' = happened /\ store \subseteq Rows
      /\ happened \subseteq Events
  BY LineFacts DEF Settled, Cursors, TypeOK, dvr
<1>2. /\ line = out[1] /\ DOMAIN out = 1..Len(out) /\ Len(out) \in Nat
      /\ \A i \in DOMAIN out' : i + 1 \in DOMAIN out /\ out'[i] = out[i + 1] /\ i \in Nat
  BY <1>1, TailFacts
<1> SUFFICES ASSUME NEW i \in DOMAIN out', pending' # None, out'[i].kind = "event_scan_status",
                    out'[i].id = pending'.id, out'[i].ok,
                    NEW e \in happened', e.at \in Due(pending')
             PROVE  Answered(i, e)'
  BY DEF Delivered
<1>3. pending' = pending
  BY LineFacts DEF ReadLine, ConsumeAlarm, ConsumeHistoricalEvent, ConsumeScanStatus
<1>4. e \in happened /\ e \in Events /\ e.at \in Due(pending)
  BY <1>1, <1>3 DEF Due
<1>5. Answered(i + 1, e)
  BY <1>2, <1>3, <1>4 DEF Collected, Delivered
<1>6. CASE Accounted(e)
  BY <1>1, <1>4, <1>6, AccountedStays DEF Answered
<1>7. ASSUME NEW j \in 1..i, Shows(out[j], pending, e)
      PROVE  Answered(i, e)'
  <2>1. CASE j = 1
    <3>1. PICK name \in {e.kind.log, e.kind.index} : line = Event(pending, e, name)
      BY <1>2, <1>7, <2>1 DEF Shows
    <3>2. pending \in Requests /\ pending # None
      BY <1>1, <1>3 DEF TypeOK
    <3>3. /\ line.kind = "historical_event" /\ line.id = pending.id
          /\ line.event = e /\ line.name = name
      BY <1>4, <3>1, <3>2, EventFacts
    <3>4. ConsumeHistoricalEvent(line) /\ Awaited(line)
      BY <3>2, <3>3 DEF ReadLine, ConsumeAlarm, ConsumeHistoricalEvent, ConsumeScanStatus, Awaited
    <3>5. \/ e \in unwritten'
          \/ Brings([name |-> name, at |-> e.at])
      BY <1>1, <3>3, <3>4, HistoricalLineFacts
    <3>6. CASE Brings([name |-> name, at |-> e.at])
      <4>1. \E s \in store' : s.name = name /\ Near(s.at, e.at)
        BY <1>1, <3>6, InsertFacts DEF Brings
      <4>2. QED
        BY <4>1 DEF Answered, Accounted, Represented
    <3>7. QED
      BY <3>5, <3>6 DEF Answered, Accounted
  <2>2. CASE j # 1
    <3>1. j - 1 \in 1..i - 1 /\ j - 1 \in DOMAIN out' /\ (j - 1) + 1 = j
      <4>1. i \in Nat /\ j \in 2..i
        BY <1>2, <2>2
      <4>2. DOMAIN out' = 1..Len(out')
        BY <1>1, TailFacts
      <4>3. Len(out') \in Nat
        BY <1>1, TailFacts
      <4>4. QED
        BY <4>1, <4>2, <4>3
    <3>2. Shows(out'[j - 1], pending, e)
      BY <1>2, <1>7, <3>1
    <3>3. QED
      BY <1>3, <3>1, <3>2 DEF Answered, Shows, Event
  <2>3. QED
    BY <2>1, <2>2
<1>8. \A j \in 1..(i + 1) - 1 : j \in 1..i
  BY <1>2
<1>9. QED
  BY <1>5, <1>6, <1>7, <1>8 DEF Answered

LEMMA DeliveredStays ==
  ASSUME ~SearchFails, Settled, Collected, [Next]_vars
  PROVE  Delivered'
<1> USE DEF dvr, disk, pipe
<1>1. out \in Seq(Lines) /\ TypeOK /\ Len(out) \in Nat
  BY DEF Settled, Cursors, TypeOK
<1>2. CASE /\ out' = out /\ happened' = happened
           /\ pending' = pending \/ pending' = None
  BY <1>1, <1>2, MoreLinesKeepDelivered
<1>3. ASSUME NEW line \in Lines, out' = Append(out, line), line.kind # "event_scan_status",
             pending' = pending,
             \A e \in happened' : e.at \in Due(pending) => e \in happened \/ pending = None
      PROVE  Delivered'
  <2>1. /\ out' \in Seq(Lines) /\ Len(out) <= Len(out') /\ \A i \in DOMAIN out : out'[i] = out[i]
        /\ \A i \in DOMAIN out' \ DOMAIN out : out'[i] = line
    BY <1>1, <1>3
  <2>2. QED
    BY <1>3, <2>1, MoreLinesKeepDelivered
<1>4. CASE Happen
  <2>1. now \in Int /\ Lag \in Nat /\ Lag > 0
    BY <1>1, Numbers, NowIsNumber
  <2>2. ~(now + Lag <= now) /\ \A e \in happened' : e \in happened \/ e.at = now
    BY <1>4, <2>1 DEF Happen
  <2>3. \A e \in happened' : e.at \in Due(pending) => e \in happened \/ pending = None
    BY <2>2 DEF Settled, Past
  <2>4. QED
    BY <1>1, <1>4, <2>3, MoreLinesKeepDelivered DEF Happen
<1>10. CASE Alarm
  <2>1. PICK e \in happened :
           out' = Append(out, [kind |-> "alarm", name |-> e.kind.alarm, at |-> now])
    BY <1>10 DEF Alarm
  <2> DEFINE line == [kind |-> "alarm", name |-> e.kind.alarm, at |-> now]
  <2>2. line \in Lines /\ line.kind # "event_scan_status"
    BY <1>1, <2>1, NameFacts DEF Lines, TypeOK
  <2>3. pending' = pending /\ happened' = happened /\ out' = Append(out, line)
    BY <1>10, <2>1 DEF Alarm
  <2>4. QED
    BY <1>3, <2>2, <2>3
<1>5. CASE WorkerDies
  <2>1. pending' = pending /\ happened' = happened
    BY <1>1, <1>5, DeathFacts
  <2>2. CASE out' = out
    BY <1>2, <2>1, <2>2
  <2>3. CASE \E line \in Lines : line.kind = "historical_event" /\ out' = Append(out, line)
    BY <1>3, <2>1, <2>3
  <2>4. QED
    BY <1>1, <1>5, <2>2, <2>3, DeathFacts
<1>6. ASSUME NEW at \in now - MaxStale..now, ReconcileHistory(at) \/ ReconcileBackfill(at)
      PROVE  Delivered'
  <2>1. out' = out /\ happened' = happened
    BY <1>1, <1>6, HistoryFacts, BackfillFacts
  <2>2. CASE pending' = pending
    BY <1>2, <2>1, <2>2
  <2>3. ASSUME NEW r, Asks(r)
        PROVE  Delivered'
    BY <1>1, <2>1, <2>3, FreshFacts DEF Delivered, Asks
  <2>4. QED
    BY <1>1, <1>6, <2>2, <2>3, HistoryFacts, BackfillFacts
<1>7. CASE Restart
  BY <1>7 DEF Restart, Delivered
<1>8. CASE \/ Tick \/ Logged \/ (\E id \in Ids : WriteFails(id)) \/ ScanTimeout
           \/ WorkerStarts \/ Cleanup \/ UNCHANGED vars
  BY <1>2, <1>8 DEF Tick, Logged, WriteFails, ScanTimeout, WorkerStarts, Cleanup, vars
<1>9. QED
  BY <1>4, <1>5, <1>6, <1>7, <1>8, <1>10, ScanKeepsDelivered, ReadKeepsDelivered DEF Next

LEMMA CoveredStays ==
  ASSUME Settled, Collected, [Next]_vars
  PROVE  CoveredCollected'
<1>1. /\ Cursors /\ TypeOK /\ covered \subseteq Int /\ out \in Seq(Lines)
      /\ CoveredCollected /\ Past
  BY DEF Settled, Collected, Cursors, TypeOK
<1>2. \A e \in happened' : e.at \in covered => e \in happened
  <2>1. CASE Happen
    <3>1. now \in Int /\ Lag \in Nat /\ Lag > 0
      BY <1>1, Numbers, NowIsNumber
    <3>2. ~(now + Lag <= now) /\ \A e \in happened' : e \in happened \/ e.at = now
      BY <2>1, <3>1 DEF Happen
    <3>3. QED
      BY <1>1, <3>2 DEF Past
  <2>2. CASE ~Happen
    BY <1>1, <2>2, RecordsStay DEF Tick, Logged, dvr
  <2>3. QED
    BY <2>1, <2>2
<1>3. ASSUME NEW e \in happened', e.at \in covered
      PROVE  Accounted(e)'
  <2>1. e \in happened /\ e \in Events
    BY <1>1, <1>2, <1>3 DEF TypeOK
  <2>2. Accounted(e)
    BY <1>1, <1>3, <2>1 DEF CoveredCollected, Accounted
  <2>3. QED
    BY <1>1, <2>1, <2>2, AccountedStays
<1>4. CASE covered' = covered
  BY <1>3, <1>4 DEF CoveredCollected, Accounted
<1>5. CASE ReadLine
  <2> DEFINE line == Head(out)
  <2>1. /\ line \in Lines /\ line = out[1] /\ 1 \in DOMAIN out /\ happened' = happened
    BY <1>1, <1>5, LineFacts, TailFacts DEF dvr
  <2>2. CASE ConsumeAlarm(line) \/ ConsumeHistoricalEvent(line)
    BY <1>1, <1>4, <2>1, <2>2, EventLineFacts
  <2>3. CASE ConsumeScanStatus(line) /\ ~Accepts(line)
    BY <1>1, <1>4, <2>1, <2>3, StatusLineFacts
  <2>4. CASE Accepts(line)
    <3>1. /\ covered' = covered \cup Due(pending) /\ store' = store /\ pending # None
          /\ line.kind = "event_scan_status" /\ line.id = pending.id /\ line.ok
      BY <2>4 DEF Accepts, Due
    <3>2. ASSUME NEW e \in happened, e.at \in Due(pending)
          PROVE  Accounted(e)'
      <4>1. Answered(1, e)
        BY <2>1, <3>1, <3>2 DEF Collected, Delivered
      <4>2. Accounted(e) /\ e \in Events
        BY <1>1, <4>1 DEF Answered, TypeOK
      <4>3. QED
        BY <1>1, <4>2, AccountedStays
    <3>3. QED
      BY <1>3, <2>1, <3>1, <3>2 DEF CoveredCollected, Accounted
  <2>5. QED
    BY <1>1, <1>5, <2>2, <2>3, <2>4, LineFacts
<1>6. ASSUME NEW at \in now - MaxStale..now, ReconcileHistory(at) \/ ReconcileBackfill(at)
      PROVE  covered' = covered
  BY <1>1, <1>6, HistoryFacts, BackfillFacts DEF disk
<1>7. QED
  BY <1>1, <1>4, <1>5, <1>6, HoldersHold DEF Next, Holds

\* When searches of the DVR's log do not fail half way, whatever the DVR recorded in a stretch
\* that an accepted scan stands for has a row of its own name near it, for as long as rows are
\* kept, unless SQLite refused it: through late, repeated and lost answers, failed writes,
\* dying workers and restarts.
THEOREM CoveredIsCollected ==
  ASSUME ~SearchFails
  PROVE  Spec => []CoveredCollected
<1>1. Init => LogComplete /\ Past /\ Collected
  BY DEF Init, LogComplete, Past, Collected, OneRequest, Delivered, CoveredCollected
<1>2. Cursors /\ LogComplete /\ Past /\ [Next]_vars => (LogComplete /\ Past)'
  BY LogCompleteStays, PastStays DEF Cursors
<1>3. Cursors /\ LogComplete /\ Past /\ Collected /\ [Next]_vars => Collected'
  BY OneRequestStays, DeliveredStays, CoveredStays DEF Settled, Collected, Cursors
<1>4. Collected => CoveredCollected
  BY DEF Collected
<1>5. QED
  BY <1>1, <1>2, <1>3, <1>4, CursorsHold, PTL DEF Spec
=============================================================================
