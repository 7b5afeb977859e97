--------------------------- MODULE SmartYardBursts ---------------------------
(***************************************************************************)
(* The SmartYard archive of one channel: the route virtual-segment.ts of   *)
(* http/mediaRoutes.ts and the bursts behind it, as the scripts            *)
(* patch-smartyard-virtual-archive-*.py leave them.                        *)
(*                                                                         *)
(* A player asks for one segment after the other. The first request starts  *)
(* a burst, one playback and one ffmpeg for the next Segs segments; the    *)
(* requests that fall into its window wait until their segment is renamed  *)
(* into the cache. The playback itself is ArchivePool's.                   *)
(*                                                                         *)
(* Time of the archive is counted in units. A segment is SegLen units long  *)
(* and known by its start, its file by the same number. The 15 minutes a   *)
(* file stays fresh are longer than a behaviour here.                      *)
(***************************************************************************)
EXTENDS Integers, Sequences, FiniteSets, SequencesExt

CONSTANTS
    Plans,          \* what the players ask for; a behaviour takes one of them
    MaxLeaves,      \* bound on the requests whose client goes away
    SegLen,         \* the length of a segment
    Segs,           \* VIRTUAL_ARCHIVE_BURST_SEGMENTS
    None            \* no burst, no segment

ASSUME BurstAssumption ==
    /\ \A p \in Plans : p.asks \in Seq(Nat) /\ {p.bursts, p.capacity} \subseteq Nat
    /\ {SegLen, Segs} \subseteq Nat \ {0} /\ MaxLeaves \in Nat

\* p.asks are the segments asked for in the order of the requests' arrival, p.bursts
\* bounds the bursts they start, p.capacity is VIRTUAL_ARCHIVE_MAX_BURSTS_PER_DEVICE.
Requests == UNION {DOMAIN p.asks : p \in Plans}
Starts == UNION {Range(p.asks) : p \in Plans}
Outputs == {s + i * SegLen : s \in Starts, i \in 0..Segs - 1}

Waiting == {"wait", "last"}
Open == {"stat", "join", "serve"} \cup Waiting
\* refused: 429, 503, or the error of the burst's job
Closed == {"served", "404", "refused"}

VARIABLES
    plan,
    request,    \* the HTTP requests
    burst,      \* burst[r]: the burst that request r started
    listed,     \* virtualArchiveBursts of the channel
    cache       \* the .ts files of the channel

state == <<request, burst, listed, cache>>
vars == <<plan, state>>

RequestTypes == [pc : {"idle"} \cup Open \cup Closed, at : Starts \cup {None},
                 burst : Requests \cup {None}, left : BOOLEAN]

\* ffmpeg has opened so many parts, promoted are the first of them; the last one is
\* complete only when ffmpeg has ended by itself.
BurstTypes == [pc : {"none", "starting", "producing", "resolved", "rejected"},
               at : Starts \cup {None}, aborted : BOOLEAN, waiters : SUBSET Outputs,
               ffmpeg : {"none", "running", "exited", "killed"},
               opened : 0..Segs, promoted : 0..Segs, step : {"check", "clear", "rename"}]

\* An output is missing, complete, the rest of a killed ffmpeg, or still written.
TypeOK ==
    /\ plan \in Plans
    /\ request \in [Requests -> RequestTypes]
    /\ burst \in [Requests -> BurstTypes]
    /\ listed \in Seq(Requests)
    /\ cache \in [Outputs -> {"none", "whole", "cut", "growing"}]

NoRequest == [pc |-> "idle", at |-> None, burst |-> None, left |-> FALSE]
NoBurst == [pc |-> "none", at |-> None, aborted |-> FALSE, waiters |-> {},
            ffmpeg |-> "none", opened |-> 0, promoted |-> 0, step |-> "check"]

Init ==
    /\ plan \in Plans
    /\ request = [r \in Requests |-> NoRequest]
    /\ burst = [r \in Requests |-> NoBurst]
    /\ listed = <<>>
    /\ cache = [o \in Outputs |-> "none"]

-----------------------------------------------------------------------------
(* The list of bursts *)

freshVirtualSegment(o) == cache[o] # "none"

\* Mutant: a burst is found by its own first segment only.
burstContainsFirst(b, s) == ~b.aborted /\ b.at = s

burstContains(b, s) ==
    /\ ~b.aborted
    /\ b.at <= s /\ s < b.at + Segs * SegLen

\* The first burst of the list that contains s, in a set, or the empty set.
findVirtualArchiveBurst(bs, s) ==
    {listed[i] : i \in {j \in DOMAIN listed :
        /\ burstContains(bs[listed[j]], s)
        /\ \A k \in 1..j - 1 : ~burstContains(bs[listed[k]], s)}}

\* There is none.
Uncovered(s) == \A i \in DOMAIN listed : ~burstContains(burst[listed[i]], s)

activeVirtualArchiveBurstCount == Cardinality({b \in Range(listed) : ~burst[b].aborted})

\* onAbort of runBurstFfmpeg kills a running ffmpeg.
Abort(b) == [b EXCEPT !.aborted = TRUE, !.ffmpeg = IF @ = "running" THEN "killed" ELSE @]

\* Mutant: whoever leaves cancels the burst.
cancelVirtualArchiveSegmentForAll(bs, s) ==
    [b \in Requests |-> IF b \in findVirtualArchiveBurst(bs, s) THEN Abort(bs[b]) ELSE bs[b]]

\* The bursts after one call of cancelVirtualArchiveSegment.
Unwatched(b, s) ==
    LET left == [b EXCEPT !.waiters = @ \ {s}]
    IN  IF left.waiters = {} THEN Abort(left) ELSE left

cancelVirtualArchiveSegment(bs, s) ==
    [b \in Requests |->
        IF b \in findVirtualArchiveBurst(bs, s) THEN Unwatched(bs[b], s) ELSE bs[b]]

-----------------------------------------------------------------------------
(* A request: the route, ensureVirtualArchiveSegment, waitForBurstSegment *)

Go(r, pc) ==
    request' = [request EXCEPT ![r].pc = pc,
                               ![r].burst = IF pc \in Waiting THEN @ ELSE None]

\* Mutant: the waiter is taken back only when the segment is there.
SettleServed(r, pc) ==
    /\ Go(r, pc)
    /\ burst' = [burst EXCEPT ![request[r].burst].waiters =
                     IF pc = "serve" THEN @ \ {request[r].at} ELSE @]

\* The finally of ensureVirtualArchiveSegment: the output's waiter is gone.
Settle(r, pc) ==
    /\ Go(r, pc)
    /\ burst' = [burst EXCEPT ![request[r].burst].waiters = @ \ {request[r].at}]

Arrive(r) ==
    /\ r \in DOMAIN plan.asks /\ request[r].pc = "idle"
    /\ \A q \in Requests : q < r => request[q].pc # "idle"
    /\ request' = [request EXCEPT ![r].pc = "stat", ![r].at = plan.asks[r]]
    /\ UNCHANGED <<burst, listed, cache>>

FirstStat(r) ==
    /\ request[r].pc = "stat"
    /\ Go(r, IF freshVirtualSegment(request[r].at) THEN "serve" ELSE "join")
    /\ UNCHANGED <<burst, listed, cache>>

JoinBurst(r) ==
    /\ request[r].pc = "join"
    /\ \E b \in findVirtualArchiveBurst(burst, request[r].at) :
          /\ request' = [request EXCEPT ![r].pc = "wait", ![r].burst = b]
          /\ burst' = [burst EXCEPT ![b].waiters = @ \cup {request[r].at}]
    /\ UNCHANGED <<listed, cache>>

AtBound == Cardinality({b \in Requests : burst[b].pc # "none"}) >= plan.bursts

startVirtualArchiveBurst(r) ==
    /\ request[r].pc = "join"
    /\ Uncovered(request[r].at)
    /\ activeVirtualArchiveBurstCount < plan.capacity
    /\ ~AtBound
    /\ request' = [request EXCEPT ![r].pc = "wait", ![r].burst = r]
    /\ burst' = [burst EXCEPT ![r].pc = "starting", ![r].at = request[r].at,
                              ![r].waiters = {request[r].at}]
    /\ listed' = Append(listed, r)
    /\ UNCHANGED cache

TooManyBursts(r) ==
    /\ request[r].pc = "join"
    /\ Uncovered(request[r].at)
    /\ activeVirtualArchiveBurstCount >= plan.capacity
    /\ Go(r, "refused")
    /\ UNCHANGED <<burst, listed, cache>>

Job(r) == burst[request[r].burst].pc

\* A round of waitForBurstSegment finds the file ...
PollFile(r) ==
    /\ request[r].pc = "wait" /\ freshVirtualSegment(request[r].at)
    /\ Settle(r, "serve")
    /\ UNCHANGED <<listed, cache>>

\* ... or does not, and then looks at the burst, at its own time and at the job; the
\* file may be there by then.
BurstFailed(r) ==
    /\ request[r].pc = "wait"
    /\ burst[request[r].burst].aborted \/ Job(r) = "rejected"
    /\ Settle(r, "refused")
    /\ UNCHANGED <<listed, cache>>

\* VIRTUAL_ARCHIVE_SEGMENT_WAIT_MS are over.
WaitedTooLong(r) ==
    /\ request[r].pc = "wait"
    /\ Settle(r, "refused")
    /\ UNCHANGED <<listed, cache>>

\* Mutant: no last look at the file.
PollResolvedAtOnce(r) ==
    /\ request[r].pc = "wait" /\ Job(r) = "resolved"
    /\ Settle(r, "404")
    /\ UNCHANGED <<listed, cache>>

PollResolved(r) ==
    /\ request[r].pc = "wait" /\ Job(r) = "resolved"
    /\ Go(r, "last")
    /\ UNCHANGED <<burst, listed, cache>>

LastPoll(r) ==
    /\ request[r].pc = "last"
    /\ Settle(r, IF freshVirtualSegment(request[r].at) THEN "serve" ELSE "404")
    /\ UNCHANGED <<listed, cache>>

serveFile(r) ==
    /\ request[r].pc = "serve"
    /\ Go(r, IF cache[request[r].at] = "none" /\ ~request[r].left THEN "404" ELSE "served")
    /\ UNCHANGED <<burst, listed, cache>>

\* The client goes away: 'aborted' and then 'close' each call cancel().
ClientLeaves(r) ==
    LET Cancel(bs) == cancelVirtualArchiveSegment(bs, request[r].at)
    IN  /\ request[r].pc \in Open /\ ~request[r].left
        /\ Cardinality({q \in Requests : request[q].left}) < MaxLeaves
        /\ request' = [request EXCEPT ![r].left = TRUE]
        /\ burst' = Cancel(Cancel(burst))
        /\ UNCHANGED <<listed, cache>>

-----------------------------------------------------------------------------
(* A burst: runVirtualArchiveBurst, runBurstFfmpeg, promoteBurstParts *)

\* mkdir, mkfifo and the start; an abort is seen only when the start has settled.
startGroupedPlayback(b) ==
    /\ burst[b].pc = "starting"
    /\ burst' = [burst EXCEPT ![b].pc = "producing",
                              ![b].ffmpeg = IF burst[b].aborted THEN "killed" ELSE "running"]
    /\ UNCHANGED <<request, listed, cache>>

Unlisted(b) == RemoveAt(listed, CHOOSE i \in DOMAIN listed : listed[i] = b)

\* Mutant: then() in the place of finally().
JobEndsWell(b, pc) ==
    /\ burst' = [burst EXCEPT ![b].pc = pc]
    /\ listed' = IF pc = "rejected" THEN listed ELSE Unlisted(b)
    /\ UNCHANGED <<request, cache>>

\* The job's finally takes the burst from the list.
JobEnds(b, pc) ==
    /\ burst' = [burst EXCEPT ![b] = [NoBurst EXCEPT !.pc = pc, !.at = burst[b].at, !.aborted = burst[b].aborted,
                                                    !.opened = burst[b].opened]]
    /\ listed' = Unlisted(b)
    /\ UNCHANGED <<request, cache>>

StartFails(b) == burst[b].pc = "starting" /\ JobEnds(b, "rejected")

Writing(b) == burst[b].pc = "producing" /\ burst[b].ffmpeg = "running"

\* Mutant: ffmpeg without -t.
FfmpegOpensPartForEver(b) ==
    /\ Writing(b) /\ burst' = [burst EXCEPT ![b].opened = @ + 1]
    /\ UNCHANGED <<request, listed, cache>>

FfmpegOpensPart(b) ==
    /\ Writing(b) /\ burst[b].opened < Segs
    /\ burst' = [burst EXCEPT ![b].opened = @ + 1]
    /\ UNCHANGED <<request, listed, cache>>

FfmpegExits(b) ==
    /\ Writing(b)
    /\ burst' = [burst EXCEPT ![b].ffmpeg = "exited"]
    /\ UNCHANGED <<request, listed, cache>>

\* It fails, or VIRTUAL_ARCHIVE_BURST_TIMEOUT_MS are over.
FfmpegKilled(b) ==
    /\ Writing(b)
    /\ burst' = [burst EXCEPT ![b].ffmpeg = "killed"]
    /\ UNCHANGED <<request, listed, cache>>

\* Mutant: a part is promoted as soon as it is there.
PartToPromoteAtOnce(b) == b.promoted < b.opened

\* Only a part with a successor is known to be complete; the last pass takes all.
PartToPromote(b) ==
    /\ b.promoted < b.opened
    /\ b.promoted + 1 < b.opened \/ b.ffmpeg # "running"

NextOutput(b) == b.at + b.promoted * SegLen

PartKind(b) == CASE b.promoted + 1 < b.opened -> "whole"
                 [] b.promoted + 1 = b.opened /\ b.ffmpeg = "running" -> "growing"
                 [] b.promoted + 1 = b.opened /\ b.ffmpeg = "exited" -> "whole"
                 [] OTHER -> "cut"

Promoted(b) == burst' = [burst EXCEPT ![b].promoted = @ + 1, ![b].step = "check"]

\* A part whose output is there is dropped; otherwise the output's place is cleared ...
CheckPart(b) ==
    /\ burst[b].pc = "producing" /\ burst[b].step = "check" /\ PartToPromote(burst[b])
    /\ IF freshVirtualSegment(NextOutput(burst[b])) THEN Promoted(b)
       ELSE burst' = [burst EXCEPT ![b].step = "clear"]
    /\ UNCHANGED <<request, listed, cache>>

ClearOutput(b) ==
    /\ burst[b].step = "clear"
    /\ cache' = [cache EXCEPT ![NextOutput(burst[b])] = "none"]
    /\ burst' = [burst EXCEPT ![b].step = "rename"]
    /\ UNCHANGED <<request, listed>>

\* ... and the part renamed to it.
RenamePart(b) ==
    /\ burst[b].step = "rename"
    /\ cache' = [cache EXCEPT ![NextOutput(burst[b])] = PartKind(burst[b])]
    /\ Promoted(b)
    /\ UNCHANGED <<request, listed>>

\* After the last pass: the playback's stop and the rm of the work directory.
BurstEnds(b) ==
    /\ burst[b].pc = "producing" /\ burst[b].ffmpeg # "running"
    /\ burst[b].promoted = burst[b].opened
    /\ JobEnds(b, IF burst[b].ffmpeg = "exited" THEN "resolved" ELSE "rejected")

-----------------------------------------------------------------------------
RequestStep(r) ==
    \/ FirstStat(r) \/ JoinBurst(r) \/ startVirtualArchiveBurst(r) \/ TooManyBursts(r)
    \/ PollFile(r) \/ BurstFailed(r) \/ WaitedTooLong(r) \/ PollResolved(r)
    \/ LastPoll(r) \/ serveFile(r)

BurstStep(b) ==
    \/ startGroupedPlayback(b) \/ StartFails(b)
    \/ CheckPart(b) \/ ClearOutput(b) \/ RenamePart(b) \/ BurstEnds(b)

Next ==
    /\ \E r \in Requests :
          \/ Arrive(r) \/ ClientLeaves(r) \/ RequestStep(r)
          \/ BurstStep(r) \/ FfmpegOpensPart(r) \/ FfmpegExits(r) \/ FfmpegKilled(r)
    /\ UNCHANGED plan

Spec == Init /\ [][Next]_vars

\* Node goes on as long as a promise has settled or a timer is due; the 60 seconds of
\* VIRTUAL_ARCHIVE_BURST_TIMEOUT_MS end an ffmpeg that does not end.
Progress == \E r \in Requests : RequestStep(r) \/ BurstStep(r) \/ FfmpegKilled(r)

Fairness == WF_state(Progress)

FairSpec == Spec /\ Fairness
-----------------------------------------------------------------------------
(* Properties *)

\* findVirtualArchiveBurst and startVirtualArchiveBurst have no await between them: a
\* player that goes on from a burst's segments, or a second player, joins the burst
\* instead of starting another playback inside its window.
OneProducerPerStart ==
    \A i, j \in DOMAIN listed :
        LET earlier == burst[listed[i]]
            later   == burst[listed[j]]
        IN  i < j /\ ~earlier.aborted
            => later.at \notin earlier.at..(earlier.at + Segs * SegLen - 1)

\* promoteBurstParts renames a part only when ffmpeg has closed it: no file that is
\* handed out is still written.
NothingHalfWritten == \A o \in Outputs : cache[o] # "growing"

Running(b) == b.pc \in {"starting", "producing"}

\* A running burst is not cancelled under a viewer, who stays in its waiters, as long
\* as no other request for the same segment is over: waiters is a set of files, and two
\* requests for one file have one entry in it.
ViewerKept ==
    \A r \in Requests :
        LET b == burst[request[r].burst]
        IN  /\ request[r].pc \in Waiting /\ Running(b) /\ ~request[r].left
            /\ b.aborted \/ request[r].at \notin b.waiters
            => \E q \in Requests \ {r} :
                  /\ request[q].at = request[r].at
                  /\ request[q].left \/ request[q].pc \in {"serve"} \cup Closed

\* Whatever ends a request, its entry in the waiters goes with it: an entry left behind
\* would keep a burst that nobody watches from being cancelled.
NoStaleWaiter ==
    \A b \in Requests : \A o \in burst[b].waiters :
        Running(burst[b]) => \E r \in Requests :
            request[r].pc \in Waiting /\ request[r].burst = b /\ request[r].at = o

Produced(b, s) == (s - b.at) % SegLen = 0 /\ (s - b.at) \div SegLen < b.opened
BeingReplaced(s) ==
    \E b \in Requests : burst[b].step = "rename" /\ NextOutput(burst[b]) = s

\* A request is told 404 only when its burst has ended without its segment, or when an
\* overlapping burst is just replacing the file: waitForBurstSegment looks once more after
\* the job has ended, as its last look may be older than the last promotion.
MissingSegment ==
    [][\A r \in Requests :
          request[r].pc # "404" /\ request'[r].pc = "404"
          => \/ BeingReplaced(request[r].at)
             \/ request[r].pc = "last" /\ ~Produced(burst[request[r].burst], request[r].at)]_vars

\* Every request is answered and every burst leaves the list, aborted, failed or not.
EverythingEnds ==
    <>[](/\ listed = <<>>
         /\ \A r \in Requests : \/ request[r].pc \in {"idle"} \cup Closed
                                \/ request[r].pc = "join" /\ AtBound)
=============================================================================
