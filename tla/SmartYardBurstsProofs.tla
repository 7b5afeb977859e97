------------------------ MODULE SmartYardBurstsProofs ------------------------
(***************************************************************************)
(* Theorems of SmartYardBursts, for every set of plans, every number of    *)
(* requests and bursts, every length of a segment and of a burst.          *)
(***************************************************************************)
EXTENDS SmartYardBursts, SequenceTheorems, TLAPS

-----------------------------------------------------------------------------
(* Facts about the data.                                                   *)

\* Every segment asked for has a file.
LEMMA StartsAreOutputs == Starts \subseteq Outputs /\ Starts \subseteq Nat
<1>1. Starts \subseteq Nat
  BY BurstAssumption DEF Starts, Range
<1>2. ASSUME NEW s \in Starts
      PROVE  s \in Outputs
  <2>1. 0 \in 0..Segs - 1 /\ s = s + 0 * SegLen
    BY <1>1, BurstAssumption
  <2>2. QED
    BY <2>1 DEF Outputs
<1>3. QED
  BY <1>1, <1>2

\* The sequence without its element i.
LEMMA RemoveAtFacts ==
  ASSUME NEW S, NEW s \in Seq(S), NEW i \in DOMAIN s
  PROVE  /\ RemoveAt(s, i) \in Seq(S)
         /\ Len(RemoveAt(s, i)) = Len(s) - 1
         /\ \A j \in 1..Len(s) - 1 : RemoveAt(s, i)[j] = IF j < i THEN s[j] ELSE s[j + 1]
<1> DEFINE a == SubSeq(s, 1, i - 1)
           b == SubSeq(s, i + 1, Len(s))
<1>1. i \in 1..Len(s) /\ Len(s) \in Nat
  OBVIOUS
<1>2. /\ a \in Seq(S) /\ Len(a) = i - 1
      /\ \A j \in 1..i - 1 : a[j] = s[j]
  <2>1. \A j \in 1..i - 1 : s[j] \in S
    BY <1>1
  <2>2. /\ a \in Seq(S) /\ Len(a) = IF 1 <= i - 1 THEN i - 1 - 1 + 1 ELSE 0
        /\ \A j \in 1..i - 1 - 1 + 1 : a[j] = s[1 + j - 1]
    BY <1>1, <2>1, SubSeqProperties
  <2>3. QED
    BY <1>1, <2>2
<1>3. /\ b \in Seq(S) /\ Len(b) = Len(s) - i
      /\ \A j \in 1..Len(s) - i : b[j] = s[i + j]
  <2>1. \A j \in i + 1..Len(s) : s[j] \in S
    BY <1>1
  <2>2. /\ b \in Seq(S) /\ Len(b) = IF i + 1 <= Len(s) THEN Len(s) - (i + 1) + 1 ELSE 0
        /\ \A j \in 1..Len(s) - (i + 1) + 1 : b[j] = s[i + 1 + j - 1]
    BY <1>1, <2>1, SubSeqProperties
  <2>3. QED
    BY <1>1, <2>2
<1>4. /\ a \o b \in Seq(S) /\ Len(a \o b) = Len(a) + Len(b)
      /\ \A j \in 1..Len(a) + Len(b) :
            (a \o b)[j] = IF j <= Len(a) THEN a[j] ELSE b[j - Len(a)]
  BY <1>2, <1>3, ConcatProperties
<1>5. RemoveAt(s, i) = a \o b
  BY DEF RemoveAt
<1> HIDE DEF a, b
<1>6. ASSUME NEW j \in 1..Len(s) - 1
      PROVE  (a \o b)[j] = IF j < i THEN s[j] ELSE s[j + 1]
  <2>1. CASE j < i
    <3>1. j \in 1..i - 1 /\ j \in 1..Len(a) + Len(b) /\ j <= Len(a)
      BY <1>1, <1>2, <1>3, <1>6, <2>1
    <3>2. (a \o b)[j] = a[j] /\ a[j] = s[j]
      BY <1>2, <1>4, <3>1
    <3>3. QED
      BY <2>1, <3>2
  <2>2. CASE ~(j < i)
    <3>1. j - (i - 1) \in 1..Len(s) - i
      BY <1>1, <2>2
    <3>2. Len(a) = i - 1 /\ j \in 1..Len(a) + Len(b) /\ ~(j <= Len(a))
      BY <1>1, <1>2, <1>3, <2>2
    <3>3. (a \o b)[j] = b[j - Len(a)]
      BY <1>4, <3>2
    <3>4. b[j - (i - 1)] = s[i + (j - (i - 1))] /\ i + (j - (i - 1)) = j + 1
      BY <1>1, <1>3, <3>1
    <3>5. QED
      BY <2>2, <3>2, <3>3, <3>4
  <2>3. QED
    BY <2>1, <2>2
<1>7. Len(a \o b) = Len(s) - 1
  BY <1>1, <1>2, <1>3, <1>4
<1>8. QED
  BY <1>4, <1>5, <1>6, <1>7

-----------------------------------------------------------------------------
(* The inductive invariant.                                                *)

\* A request knows its segment, and one that waits its burst.
RequestShape ==
    \A r \in Requests :
        /\ request[r].pc # "idle" => request[r].at \in Starts
        /\ request[r].pc \in Waiting =>
              request[r].burst \in Requests /\ burst[request[r].burst].pc # "none"
        /\ request[r].pc \in {"idle", "stat", "join"} => burst[r].pc = "none"

\* ffmpeg runs only while the burst produces, and a part that is being promoted stays
\* one that may be promoted.
Shape(b) ==
    /\ b.pc = "none" => b = NoBurst
    /\ b.pc # "none" => b.at \in Starts
    /\ b.pc = "starting" => b.opened = 0 /\ b.ffmpeg = "none"
    /\ b.pc = "producing" => b.ffmpeg # "none"
    /\ b.pc # "producing" => b.step = "check"
    /\ b.promoted <= b.opened
    /\ b.step # "check" => PartToPromote(b)

BurstShape == \A b \in Requests : Shape(burst[b])

\* The list has every running burst once and no other.
ListShape ==
    /\ \A i \in DOMAIN listed : Running(burst[listed[i]])
    /\ \A i, j \in DOMAIN listed : listed[i] = listed[j] => i = j
    /\ \A b \in Requests : Running(burst[b]) => \E i \in DOMAIN listed : listed[i] = b

Inv == TypeOK /\ RequestShape /\ BurstShape /\ ListShape

LEMMA InitInv == Init => Inv
<1> SUFFICES ASSUME Init
             PROVE  Inv
  OBVIOUS
<1>1. NoRequest \in RequestTypes
  BY DEF NoRequest, RequestTypes
<1>2. NoBurst \in BurstTypes
  BY BurstAssumption DEF NoBurst, BurstTypes
<1>3. TypeOK
  BY <1>1, <1>2 DEF Init, TypeOK
<1>4. RequestShape
  BY DEF Init, RequestShape, NoRequest, NoBurst, Waiting
<1>5. BurstShape
  BY DEF Init, BurstShape, Shape, NoBurst
<1>6. ListShape
  BY DEF Init, ListShape, NoBurst, Running
<1>7. QED
  BY <1>3, <1>4, <1>5, <1>6 DEF Inv

-----------------------------------------------------------------------------
(* A client that leaves.                                                   *)

\* What cancelling for segment s may do to a burst b, which becomes c.
Weaker(b, c, s) ==
    /\ c.pc = b.pc /\ c.at = b.at /\ c.opened = b.opened
    /\ c.promoted = b.promoted /\ c.step = b.step
    /\ c.waiters = b.waiters \/ c.waiters = b.waiters \ {s}
    /\ c.aborted = b.aborted \/ (c.aborted /\ c.waiters = {})
    /\ c.ffmpeg = b.ffmpeg \/ (b.ffmpeg = "running" /\ c.ffmpeg = "killed")

LEMMA CancelWeakens ==
  ASSUME NEW bs \in [Requests -> BurstTypes], NEW s
  PROVE  /\ cancelVirtualArchiveSegment(bs, s) \in [Requests -> BurstTypes]
         /\ \A b \in Requests :
               /\ Weaker(bs[b], cancelVirtualArchiveSegment(bs, s)[b], s)
               /\ cancelVirtualArchiveSegment(bs, s)[b] # bs[b] =>
                     \E i \in DOMAIN listed : listed[i] = b
<1>1. ASSUME NEW b \in BurstTypes
      PROVE  Unwatched(b, s) \in BurstTypes /\ Weaker(b, Unwatched(b, s), s)
  BY DEF Unwatched, Abort, BurstTypes, Weaker
<1>2. \A b \in BurstTypes : Weaker(b, b, s)
  BY DEF Weaker
<1>3. \A b \in findVirtualArchiveBurst(bs, s) : \E i \in DOMAIN listed : listed[i] = b
  BY DEF findVirtualArchiveBurst
<1>4. QED
  BY <1>1, <1>2, <1>3 DEF cancelVirtualArchiveSegment

\* Both cancellations together.
LEMMA LeavingWeakens ==
  ASSUME TypeOK, NEW r \in Requests, ClientLeaves(r)
  PROVE  /\ burst' \in [Requests -> BurstTypes]
         /\ \A b \in Requests :
               /\ Weaker(burst[b], burst'[b], request[r].at)
               /\ burst'[b] # burst[b] => \E i \in DOMAIN listed : listed[i] = b
<1> DEFINE s == request[r].at
           one == cancelVirtualArchiveSegment(burst, s)
<1>1. burst \in [Requests -> BurstTypes]
  BY DEF TypeOK
<1>2. /\ one \in [Requests -> BurstTypes]
      /\ \A b \in Requests :
            /\ Weaker(burst[b], one[b], s)
            /\ one[b] # burst[b] => \E i \in DOMAIN listed : listed[i] = b
  BY <1>1, CancelWeakens
<1>3. burst' = cancelVirtualArchiveSegment(one, s)
  BY DEF ClientLeaves
<1> HIDE DEF one
<1>4. /\ burst' \in [Requests -> BurstTypes]
      /\ \A b \in Requests :
            /\ Weaker(one[b], burst'[b], s)
            /\ burst'[b] # one[b] => \E i \in DOMAIN listed : listed[i] = b
  BY <1>2, <1>3, CancelWeakens
<1>5. ASSUME NEW b \in Requests
      PROVE  Weaker(burst[b], burst'[b], s)
  BY <1>1, <1>2, <1>4 DEF Weaker, BurstTypes
<1>6. QED
  BY <1>2, <1>4, <1>5

-----------------------------------------------------------------------------
(* The steps of a request.                                                 *)

\* A burst b whose waiters are changed, or that is cancelled, as c.
SameRun(b, c) ==
    /\ c.pc = b.pc /\ c.at = b.at /\ c.opened = b.opened
    /\ c.promoted = b.promoted /\ c.step = b.step
    /\ c.ffmpeg = b.ffmpeg \/ (b.ffmpeg = "running" /\ c.ffmpeg = "killed")
    /\ b.pc = "none" => c = b

LEMMA SameRunKeepsShape ==
  ASSUME Inv, listed' = listed, burst' \in [Requests -> BurstTypes],
         \A b \in Requests : SameRun(burst[b], burst'[b])
  PROVE  BurstShape' /\ ListShape'
<1>1. ASSUME NEW b \in Requests
      PROVE  Shape(burst'[b])
  <2>1. Shape(burst[b]) /\ SameRun(burst[b], burst'[b])
    BY DEF Inv, BurstShape
  <2>2. QED
    BY <2>1 DEF Shape, SameRun, PartToPromote, NoBurst
<1>2. \A b \in Requests : Running(burst'[b]) <=> Running(burst[b])
  BY DEF SameRun, Running
<1>3. \A i \in DOMAIN listed : listed[i] \in Requests
  BY DEF Inv, TypeOK
<1>4. QED
  BY <1>1, <1>2, <1>3 DEF Inv, BurstShape, ListShape

LEMMA NothingChanges ==
  ASSUME Inv, UNCHANGED <<burst, listed>>
  PROVE  BurstShape' /\ ListShape'
BY DEF Inv, BurstShape, ListShape

\* What Go leaves of the requests.
LEMMA GoFacts ==
  ASSUME request \in [Requests -> RequestTypes], NEW r \in Requests,
         NEW pc \in Open \cup Closed, Go(r, pc)
  PROVE  /\ request' \in [Requests -> RequestTypes]
         /\ request'[r].pc = pc /\ request'[r].at = request[r].at
         /\ request'[r].left = request[r].left
         /\ pc \in Waiting => request'[r].burst = request[r].burst
         /\ \A q \in Requests \ {r} : request'[q] = request[q]
<1> DEFINE next == [request[r] EXCEPT !.pc = pc,
                                      !.burst = IF pc \in Waiting THEN @ ELSE None]
<1>1. request[r] \in RequestTypes
  OBVIOUS
<1>2. /\ next \in RequestTypes /\ next.pc = pc /\ next.at = request[r].at
      /\ next.left = request[r].left
      /\ pc \in Waiting => next.burst = request[r].burst
  BY <1>1 DEF RequestTypes
<1>3. request' = [request EXCEPT ![r] = next]
  BY DEF Go
<1> HIDE DEF next
<1>4. QED
  BY <1>2, <1>3

\* A request moves on and the bursts stay as they are.
LEMMA GoKeepsInv ==
  ASSUME Inv, NEW r \in Requests, NEW pc \in Open \cup Closed, Go(r, pc), plan' = plan,
         UNCHANGED <<burst, listed, cache>>,
         request[r].pc # "idle",
         pc \in Waiting => request[r].pc \in Waiting,
         pc \in {"stat", "join"} => request[r].pc \in {"stat", "join"}
  PROVE  Inv'
<1>1. /\ request' \in [Requests -> RequestTypes]
      /\ request'[r].pc = pc /\ request'[r].at = request[r].at
      /\ pc \in Waiting => request'[r].burst = request[r].burst
      /\ \A q \in Requests \ {r} : request'[q] = request[q]
  BY GoFacts DEF Inv, TypeOK
<1>3. TypeOK'
  BY <1>1 DEF Inv, TypeOK
<1>4. RequestShape'
  <2>1. pc # "idle"
    BY DEF Open, Closed, Waiting
  <2>2. QED
    BY <1>1, <2>1 DEF Inv, RequestShape
<1>5. QED
  BY <1>3, <1>4, NothingChanges DEF Inv

\* A request no longer waits.
LEMMA SettleKeepsInv ==
  ASSUME Inv, NEW r \in Requests, NEW pc \in {"serve"} \cup Closed, Settle(r, pc),
         UNCHANGED <<plan, listed, cache>>, request[r].pc \in Waiting
  PROVE  Inv'
<1>1. request \in [Requests -> RequestTypes] /\ burst \in [Requests -> BurstTypes]
  BY DEF Inv, TypeOK
<1>2. /\ request' \in [Requests -> RequestTypes]
      /\ request'[r].pc = pc /\ request'[r].at = request[r].at
      /\ \A q \in Requests \ {r} : request'[q] = request[q]
  BY <1>1, GoFacts DEF Settle, Open
<1>3. request[r].burst \in Requests /\ burst[request[r].burst].pc # "none"
  BY DEF Inv, RequestShape
<1>4. burst' \in [Requests -> BurstTypes]
  BY <1>1, <1>3 DEF Settle, BurstTypes
<1>5. \A b \in Requests : SameRun(burst[b], burst'[b])
  BY <1>1, <1>3 DEF Settle, SameRun, BurstTypes
<1>6. TypeOK'
  BY <1>2, <1>4 DEF Inv, TypeOK
<1>7. RequestShape'
  <2>1. \A b \in Requests : burst'[b].pc = burst[b].pc
    BY <1>5 DEF SameRun
  <2>2. request[r].pc # "idle" /\ pc \notin Waiting \cup {"idle", "stat", "join"}
    BY DEF Waiting, Closed
  <2>3. QED
    BY <1>2, <2>1, <2>2 DEF Inv, RequestShape
<1>8. BurstShape' /\ ListShape'
  BY <1>4, <1>5, SameRunKeepsShape
<1>9. QED
  BY <1>6, <1>7, <1>8 DEF Inv

LEMMA ArriveKeepsInv ==
  ASSUME Inv, plan' = plan, NEW r \in Requests, Arrive(r)
  PROVE  Inv'
<1>1. request \in [Requests -> RequestTypes] /\ plan \in Plans
  BY DEF Inv, TypeOK
<1>2. plan.asks[r] \in Starts
  BY <1>1 DEF Arrive, Starts, Range
<1>3. request' \in [Requests -> RequestTypes]
  <2> DEFINE next == [request[r] EXCEPT !.pc = "stat", !.at = plan.asks[r]]
  <2>1. next \in RequestTypes
    BY <1>1, <1>2 DEF RequestTypes, Open
  <2>2. request' = [request EXCEPT ![r] = next]
    BY DEF Arrive
  <2> HIDE DEF next
  <2>3. QED
    BY <1>1, <2>1, <2>2
<1>4. TypeOK'
  BY <1>3 DEF Arrive, Inv, TypeOK
<1>5. RequestShape'
  <2>1. request'[r].pc = "stat" /\ request'[r].at \in Starts
    BY <1>1, <1>2 DEF Arrive, RequestTypes
  <2>2. \A q \in Requests \ {r} : request'[q] = request[q]
    BY <1>1 DEF Arrive
  <2>3. QED
    BY <2>1, <2>2 DEF Arrive, Inv, RequestShape, Waiting
<1>6. BurstShape' /\ ListShape'
  BY NothingChanges DEF Arrive
<1>7. QED
  BY <1>4, <1>5, <1>6 DEF Inv

LEMMA FoundIsListed ==
  ASSUME Inv, NEW s, NEW b \in findVirtualArchiveBurst(burst, s)
  PROVE  /\ b \in Requests /\ Running(burst[b])
         /\ burstContains(burst[b], s)
         /\ \E i \in DOMAIN listed : listed[i] = b
BY DEF findVirtualArchiveBurst, Inv, TypeOK, ListShape

LEMMA JoinKeepsInv ==
  ASSUME Inv, plan' = plan, NEW r \in Requests, JoinBurst(r)
  PROVE  Inv'
<1>1. request \in [Requests -> RequestTypes] /\ burst \in [Requests -> BurstTypes]
  BY DEF Inv, TypeOK
<1>2. PICK b \in findVirtualArchiveBurst(burst, request[r].at) :
         /\ request' = [request EXCEPT ![r].pc = "wait", ![r].burst = b]
         /\ burst' = [burst EXCEPT ![b].waiters = @ \cup {request[r].at}]
  BY DEF JoinBurst
<1>3. b \in Requests /\ burst[b].pc # "none"
  BY FoundIsListed DEF Running
<1>4. request[r].at \in Outputs
  BY StartsAreOutputs DEF JoinBurst, Inv, RequestShape
<1>5. request' \in [Requests -> RequestTypes]
  <2>1. [request[r] EXCEPT !.pc = "wait", !.burst = b] \in RequestTypes
    BY <1>1, <1>3 DEF RequestTypes, Waiting, Open
  <2>2. request' = [request EXCEPT ![r] = [request[r] EXCEPT !.pc = "wait", !.burst = b]]
    BY <1>2
  <2>3. QED
    BY <1>1, <2>1, <2>2
<1>6. burst' \in [Requests -> BurstTypes]
  BY <1>1, <1>2, <1>3, <1>4 DEF BurstTypes
<1>7. \A c \in Requests : SameRun(burst[c], burst'[c])
  BY <1>1, <1>2, <1>3 DEF SameRun, BurstTypes
<1>8. TypeOK'
  BY <1>5, <1>6 DEF JoinBurst, Inv, TypeOK
<1>9. RequestShape'
  <2>1. /\ request'[r].pc = "wait" /\ request'[r].burst = b
        /\ request'[r].at = request[r].at
    BY <1>1, <1>2 DEF RequestTypes
  <2>2. \A q \in Requests \ {r} : request'[q] = request[q]
    BY <1>1, <1>2
  <2>3. \A c \in Requests : burst'[c].pc = burst[c].pc
    BY <1>7 DEF SameRun
  <2>4. request[r].pc # "idle" /\ "wait" \notin {"idle", "stat", "join"}
    BY DEF JoinBurst
  <2>5. QED
    BY <1>3, <2>1, <2>2, <2>3, <2>4 DEF Inv, RequestShape
<1>10. BurstShape' /\ ListShape'
  BY <1>6, <1>7, SameRunKeepsShape DEF JoinBurst
<1>11. QED
  BY <1>8, <1>9, <1>10 DEF Inv

LEMMA LeavingKeepsInv ==
  ASSUME Inv, plan' = plan, NEW r \in Requests, ClientLeaves(r)
  PROVE  Inv'
<1>1. request \in [Requests -> RequestTypes]
  BY DEF Inv, TypeOK
<1>2. request' \in [Requests -> RequestTypes]
  BY <1>1 DEF ClientLeaves, RequestTypes
<1>3. /\ burst' \in [Requests -> BurstTypes]
      /\ \A b \in Requests :
            /\ Weaker(burst[b], burst'[b], request[r].at)
            /\ burst'[b] # burst[b] => \E i \in DOMAIN listed : listed[i] = b
  BY LeavingWeakens DEF Inv
<1>4. \A b \in Requests : SameRun(burst[b], burst'[b])
  BY <1>3 DEF Weaker, SameRun, Inv, ListShape, Running
<1>5. TypeOK'
  BY <1>2, <1>3 DEF ClientLeaves, Inv, TypeOK
<1>6. RequestShape'
  <2>1. \A q \in Requests : /\ request'[q].pc = request[q].pc /\ request'[q].at = request[q].at
                            /\ request'[q].burst = request[q].burst
    BY <1>1 DEF ClientLeaves, RequestTypes
  <2>2. \A b \in Requests : burst'[b].pc = burst[b].pc
    BY <1>4 DEF SameRun
  <2>3. QED
    BY <2>1, <2>2 DEF Inv, RequestShape
<1>7. BurstShape' /\ ListShape'
  BY <1>3, <1>4, SameRunKeepsShape DEF ClientLeaves
<1>8. QED
  BY <1>5, <1>6, <1>7 DEF Inv

\* A new burst is one more running burst, at the end of the list.
LEMMA StartKeepsInv ==
  ASSUME Inv, plan' = plan, NEW r \in Requests, startVirtualArchiveBurst(r)
  PROVE  Inv'
<1> DEFINE new == [burst[r] EXCEPT !.pc = "starting", !.at = request[r].at,
                                   !.waiters = {request[r].at}]
           req == [request[r] EXCEPT !.pc = "wait", !.burst = r]
<1>1. /\ request \in [Requests -> RequestTypes] /\ burst \in [Requests -> BurstTypes]
      /\ listed \in Seq(Requests)
  BY DEF Inv, TypeOK
<1>2. burst[r].pc = "none" /\ burst[r] = NoBurst
  BY DEF startVirtualArchiveBurst, Inv, RequestShape, BurstShape, Shape
<1>3. request[r].at \in Starts /\ request[r].at \in Outputs
  BY StartsAreOutputs DEF startVirtualArchiveBurst, Inv, RequestShape
<1>4. /\ new \in BurstTypes /\ Shape(new) /\ new.pc = "starting"
      /\ new.at = request[r].at
  <2>1. burst[r] \in BurstTypes
    BY <1>1
  <2>2. /\ new \in BurstTypes /\ new.pc = "starting" /\ new.at = request[r].at
        /\ new.opened = burst[r].opened /\ new.ffmpeg = burst[r].ffmpeg
        /\ new.promoted = burst[r].promoted /\ new.step = burst[r].step
    BY <1>3, <2>1 DEF BurstTypes
  <2>3. /\ burst[r].opened = 0 /\ burst[r].ffmpeg = "none"
        /\ burst[r].promoted = 0 /\ burst[r].step = "check"
    BY <1>2 DEF NoBurst
  <2> HIDE DEF new
  <2>4. QED
    BY <1>3, <2>2, <2>3 DEF Shape
<1>5. /\ req \in RequestTypes /\ req.pc = "wait" /\ req.burst = r
      /\ req.at = request[r].at
  BY <1>1 DEF RequestTypes, Open, Waiting
<1>6. /\ burst' = [burst EXCEPT ![r] = new] /\ request' = [request EXCEPT ![r] = req]
      /\ listed' = Append(listed, r)
  BY DEF startVirtualArchiveBurst
<1> HIDE DEF new, req
<1>7. TypeOK'
  <2>1. burst' \in [Requests -> BurstTypes] /\ request' \in [Requests -> RequestTypes]
    BY <1>1, <1>4, <1>5, <1>6
  <2>2. listed' \in Seq(Requests)
    BY <1>1, <1>6
  <2>3. QED
    BY <2>1, <2>2 DEF startVirtualArchiveBurst, Inv, TypeOK
<1>8. RequestShape'
  <2>1. request[r].pc # "idle"
    BY DEF startVirtualArchiveBurst
  <2>2. burst'[r].pc = "starting" /\ \A b \in Requests \ {r} : burst'[b] = burst[b]
    BY <1>1, <1>4, <1>6
  <2>3. request'[r] = req /\ \A q \in Requests \ {r} : request'[q] = request[q]
    BY <1>1, <1>6
  <2>4. "wait" \notin {"idle", "stat", "join"}
    OBVIOUS
  <2>5. QED
    BY <1>3, <1>5, <2>1, <2>2, <2>3, <2>4 DEF Inv, RequestShape
<1>9. BurstShape'
  BY <1>1, <1>4, <1>6 DEF Inv, BurstShape
<1>10. ListShape'
  <2>1. \A i \in DOMAIN listed : listed[i] # r /\ listed[i] \in Requests
    BY <1>1, <1>2 DEF Inv, ListShape, Running
  <2>2. /\ DOMAIN listed' = 1..Len(listed) + 1 /\ listed'[Len(listed) + 1] = r
        /\ \A i \in DOMAIN listed : i \in DOMAIN listed' /\ listed'[i] = listed[i]
        /\ \A i \in DOMAIN listed' : i \in DOMAIN listed \/ i = Len(listed) + 1
    BY <1>1, <1>6
  <2>3. \A b \in Requests : Running(burst'[b]) <=> Running(burst[b]) \/ b = r
    BY <1>1, <1>4, <1>6 DEF Running
  <2>4. QED
    BY <1>1, <2>1, <2>2, <2>3 DEF Inv, ListShape
<1>11. QED
  BY <1>7, <1>8, <1>9, <1>10 DEF Inv

\* What a request does by itself.
LEMMA RequestKeepsInv ==
  ASSUME Inv, plan' = plan, NEW r \in Requests, RequestStep(r)
  PROVE  Inv'
<1>1. CASE FirstStat(r)
  <2> DEFINE pc == IF freshVirtualSegment(request[r].at) THEN "serve" ELSE "join"
  <2>1. /\ pc \in Open \cup Closed /\ Go(r, pc) /\ UNCHANGED <<burst, listed, cache>>
        /\ request[r].pc = "stat" /\ pc \notin Waiting
    BY <1>1 DEF FirstStat, Open, Waiting
  <2> HIDE DEF pc
  <2>2. QED
    BY <2>1, GoKeepsInv
<1>2. CASE TooManyBursts(r)
  BY <1>2, GoKeepsInv DEF TooManyBursts, Closed, Waiting
<1>3. CASE PollResolved(r)
  BY <1>3, GoKeepsInv DEF PollResolved, Open, Waiting
<1>4. CASE serveFile(r)
  <2> DEFINE pc == IF cache[request[r].at] = "none" /\ ~request[r].left
                   THEN "404" ELSE "served"
  <2>1. /\ pc \in Open \cup Closed /\ Go(r, pc) /\ UNCHANGED <<burst, listed, cache>>
        /\ request[r].pc = "serve" /\ pc \notin Waiting /\ pc \notin {"stat", "join"}
    BY <1>4 DEF serveFile, Closed, Waiting
  <2> HIDE DEF pc
  <2>2. QED
    BY <2>1, GoKeepsInv
<1>5. CASE PollFile(r)
  BY <1>5, SettleKeepsInv DEF PollFile, Waiting
<1>6. CASE BurstFailed(r)
  BY <1>6, SettleKeepsInv DEF BurstFailed, Waiting, Closed
<1>7. CASE WaitedTooLong(r)
  BY <1>7, SettleKeepsInv DEF WaitedTooLong, Waiting, Closed
<1>8. CASE LastPoll(r)
  <2> DEFINE pc == IF freshVirtualSegment(request[r].at) THEN "serve" ELSE "404"
  <2>1. /\ pc \in {"serve"} \cup Closed /\ Settle(r, pc) /\ UNCHANGED <<listed, cache>>
        /\ request[r].pc \in Waiting
    BY <1>8 DEF LastPoll, Closed, Waiting
  <2> HIDE DEF pc
  <2>2. QED
    BY <2>1, SettleKeepsInv
<1>9. CASE JoinBurst(r)
  BY <1>9, JoinKeepsInv
<1>10. CASE startVirtualArchiveBurst(r)
  BY <1>10, StartKeepsInv
<1>11. QED
  BY <1>1, <1>2, <1>3, <1>4, <1>5, <1>6, <1>7, <1>8, <1>9, <1>10 DEF RequestStep

-----------------------------------------------------------------------------
(* The steps of a burst.                                                   *)

\* A burst goes on: it keeps running and its list entry.
LEMMA BurstGoesOn ==
  ASSUME Inv, UNCHANGED <<plan, request, listed>>, NEW b \in Requests,
         NEW next \in BurstTypes, burst' = [burst EXCEPT ![b] = next],
         Running(burst[b]), Running(next), Shape(next),
         cache' \in [Outputs -> {"none", "whole", "cut", "growing"}]
  PROVE  Inv'
<1>1. /\ burst \in [Requests -> BurstTypes] /\ listed \in Seq(Requests)
  BY DEF Inv, TypeOK
<1>2. \A c \in Requests : burst'[c] = IF c = b THEN next ELSE burst[c]
  BY <1>1
<1>3. \A c \in Requests : /\ Running(burst'[c]) <=> Running(burst[c])
                          /\ burst'[c].pc = "none" <=> burst[c].pc = "none"
  BY <1>2 DEF Running
<1>4. TypeOK'
  BY <1>1 DEF Inv, TypeOK
<1>5. RequestShape'
  BY <1>3 DEF Inv, RequestShape
<1>6. BurstShape'
  BY <1>2 DEF Inv, BurstShape
<1>7. ListShape'
  <2>1. \A i \in DOMAIN listed : listed[i] \in Requests
    BY <1>1
  <2>2. QED
    BY <1>3, <2>1 DEF Inv, ListShape
<1>8. QED
  BY <1>4, <1>5, <1>6, <1>7 DEF Inv

LEMMA BurstStepsKeepInv ==
  ASSUME Inv, plan' = plan, NEW b \in Requests,
         \/ startGroupedPlayback(b) \/ CheckPart(b) \/ ClearOutput(b) \/ RenamePart(b)
         \/ FfmpegOpensPart(b) \/ FfmpegExits(b) \/ FfmpegKilled(b)
  PROVE  Inv'
<1>1. /\ burst \in [Requests -> BurstTypes] /\ burst[b] \in BurstTypes /\ Shape(burst[b])
      /\ cache \in [Outputs -> {"none", "whole", "cut", "growing"}]
  BY DEF Inv, TypeOK, BurstShape
<1>2. CASE startGroupedPlayback(b)
  <2> DEFINE next == [burst[b] EXCEPT !.pc = "producing",
                          !.ffmpeg = IF burst[b].aborted THEN "killed" ELSE "running"]
  <2>1. next \in BurstTypes /\ Shape(next) /\ Running(next) /\ Running(burst[b])
    BY <1>1, <1>2 DEF startGroupedPlayback, BurstTypes, Shape, Running
  <2>2. burst' = [burst EXCEPT ![b] = next] /\ UNCHANGED <<request, listed, cache>>
    BY <1>2 DEF startGroupedPlayback
  <2> HIDE DEF next
  <2>3. QED
    BY <1>1, <2>1, <2>2, BurstGoesOn
<1>3. CASE FfmpegOpensPart(b)
  <2> DEFINE next == [burst[b] EXCEPT !.opened = @ + 1]
  <2> USE DEF FfmpegOpensPart, Writing
  <2>1. burst[b].opened \in 0..Segs /\ burst[b].opened < Segs /\ Segs \in Nat
        /\ burst[b].promoted \in 0..Segs /\ burst[b].promoted <= burst[b].opened
    BY <1>1, <1>3, BurstAssumption DEF BurstTypes, Shape
  <2>2. /\ next.opened = burst[b].opened + 1 /\ next.promoted = burst[b].promoted
        /\ next.pc = "producing" /\ burst[b].pc = "producing" /\ next.at = burst[b].at
        /\ next.step = burst[b].step /\ next.ffmpeg = burst[b].ffmpeg
    BY <1>1, <1>3 DEF BurstTypes
  <2>3. next \in BurstTypes
    BY <1>1, <2>1 DEF BurstTypes
  <2>4. Shape(next)
    BY <1>1, <2>1, <2>2 DEF Shape, PartToPromote
  <2>5. next \in BurstTypes /\ Shape(next) /\ Running(next) /\ Running(burst[b])
    BY <2>2, <2>3, <2>4 DEF Running
  <2>6. burst' = [burst EXCEPT ![b] = next] /\ UNCHANGED <<request, listed, cache>>
    BY <1>3 DEF FfmpegOpensPart
  <2> HIDE DEF next
  <2>7. QED
    BY <1>1, <2>5, <2>6, BurstGoesOn
<1>4. ASSUME NEW end \in {"exited", "killed"}, Writing(b),
             burst' = [burst EXCEPT ![b].ffmpeg = end], UNCHANGED <<request, listed, cache>>
      PROVE  Inv'
  <2> DEFINE next == [burst[b] EXCEPT !.ffmpeg = end]
  <2>1. next \in BurstTypes /\ Shape(next) /\ Running(next) /\ Running(burst[b])
    BY <1>1, <1>4 DEF Writing, BurstTypes, Shape, Running, PartToPromote
  <2>2. burst' = [burst EXCEPT ![b] = next]
    BY <1>4
  <2> HIDE DEF next
  <2>3. QED
    BY <1>1, <1>4, <2>1, <2>2, BurstGoesOn
<1>5. ASSUME PartToPromote(burst[b]), burst[b].pc = "producing", Promoted(b),
             UNCHANGED <<request, listed>>,
             cache' \in [Outputs -> {"none", "whole", "cut", "growing"}]
      PROVE  Inv'
  <2> DEFINE next == [burst[b] EXCEPT !.promoted = @ + 1, !.step = "check"]
  <2>1. burst[b].opened \in 0..Segs /\ burst[b].promoted < burst[b].opened /\ Segs \in Nat
        /\ burst[b].promoted \in 0..Segs
    BY <1>1, <1>5, BurstAssumption DEF BurstTypes, PartToPromote
  <2>2. /\ next.opened = burst[b].opened /\ next.promoted = burst[b].promoted + 1
        /\ next.pc = "producing" /\ next.at = burst[b].at
        /\ next.step = "check" /\ next.ffmpeg = burst[b].ffmpeg
    BY <1>1, <1>5 DEF BurstTypes
  <2>3. next \in BurstTypes
    <3>1. \A n \in 0..Segs : [burst[b] EXCEPT !.promoted = n, !.step = "check"] \in BurstTypes
      BY <1>1 DEF BurstTypes
    <3>2. burst[b].promoted + 1 \in 0..Segs
      BY <2>1
    <3>3. QED
      BY <3>1, <3>2
  <2>4. Shape(next)
    BY <1>1, <1>5, <2>1, <2>2 DEF Shape
  <2>5. next \in BurstTypes /\ Shape(next) /\ Running(next) /\ Running(burst[b])
    BY <1>5, <2>2, <2>3, <2>4 DEF Running
  <2>6. burst' = [burst EXCEPT ![b] = next]
    BY <1>5 DEF Promoted
  <2> HIDE DEF next
  <2>7. QED
    BY <1>5, <2>5, <2>6, BurstGoesOn
<1>6. ASSUME NEW step \in {"clear", "rename"}, PartToPromote(burst[b]),
             burst[b].pc = "producing", burst' = [burst EXCEPT ![b].step = step],
             UNCHANGED <<request, listed>>,
             cache' \in [Outputs -> {"none", "whole", "cut", "growing"}]
      PROVE  Inv'
  <2> DEFINE next == [burst[b] EXCEPT !.step = step]
  <2>1. next \in BurstTypes /\ Shape(next) /\ Running(next) /\ Running(burst[b])
    BY <1>1, <1>6 DEF BurstTypes, Shape, Running, PartToPromote
  <2>2. burst' = [burst EXCEPT ![b] = next]
    BY <1>6
  <2> HIDE DEF next
  <2>3. QED
    BY <1>6, <2>1, <2>2, BurstGoesOn
<1>7. burst[b].step # "check" => burst[b].pc = "producing" /\ PartToPromote(burst[b])
  BY <1>1 DEF Shape
<1>8. CASE CheckPart(b)
  <2>1. CASE freshVirtualSegment(NextOutput(burst[b]))
    BY <1>1, <1>5, <1>8, <2>1 DEF CheckPart
  <2>2. CASE ~freshVirtualSegment(NextOutput(burst[b]))
    BY <1>1, <1>6, <1>8, <2>2 DEF CheckPart
  <2>3. QED
    BY <2>1, <2>2
<1>9. CASE ClearOutput(b)
  BY <1>1, <1>6, <1>7, <1>9 DEF ClearOutput
<1>10. CASE RenamePart(b)
  <2>1. PartKind(burst[b]) \in {"none", "whole", "cut", "growing"}
    BY DEF PartKind
  <2>2. QED
    BY <1>1, <1>5, <1>7, <1>10, <2>1 DEF RenamePart
<1>11. QED
  BY <1>2, <1>3, <1>4, <1>8, <1>9, <1>10 DEF FfmpegExits, FfmpegKilled

\* A burst that has ended leaves the list, in which it stood once.
LEMMA JobEndsKeepsInv ==
  ASSUME Inv, plan' = plan, NEW b \in Requests, NEW pc \in {"resolved", "rejected"},
         Running(burst[b]), JobEnds(b, pc)
  PROVE  Inv'
<1> DEFINE next == [NoBurst EXCEPT !.pc = pc, !.at = burst[b].at, !.aborted = burst[b].aborted,
                                   !.opened = burst[b].opened]
           n == CHOOSE i \in DOMAIN listed : listed[i] = b
<1>1. /\ burst \in [Requests -> BurstTypes] /\ burst[b] \in BurstTypes /\ Shape(burst[b])
      /\ listed \in Seq(Requests)
  BY DEF Inv, TypeOK, BurstShape
<1>2. next \in BurstTypes /\ Shape(next) /\ next.pc = pc
  <2>1. /\ burst[b].at \in Starts /\ burst[b].aborted \in BOOLEAN
        /\ burst[b].opened \in 0..Segs /\ 0 \in 0..Segs /\ 0 <= burst[b].opened
    BY <1>1, BurstAssumption DEF BurstTypes, Shape, Running
  <2>2. NoBurst \in BurstTypes
    BY <2>1 DEF NoBurst, BurstTypes
  <2>3. /\ next \in BurstTypes /\ next.pc = pc /\ next.at = burst[b].at
        /\ next.opened = burst[b].opened
        /\ next.promoted = NoBurst.promoted /\ next.step = NoBurst.step
    BY <2>1, <2>2 DEF BurstTypes
  <2>4. NoBurst.promoted = 0 /\ NoBurst.step = "check"
    BY DEF NoBurst
  <2> HIDE DEF next
  <2>5. QED
    BY <2>1, <2>3, <2>4 DEF Shape
<1>3. burst' = [burst EXCEPT ![b] = next] /\ UNCHANGED <<request, cache>>
  BY DEF JobEnds
<1> HIDE DEF next
<1>4. \A c \in Requests : burst'[c] = IF c = b THEN next ELSE burst[c]
  BY <1>1, <1>3
<1>5. n \in DOMAIN listed /\ listed[n] = b /\ \A i \in DOMAIN listed : listed[i] = b => i = n
  BY DEF Inv, ListShape
<1>6. listed' = RemoveAt(listed, n)
  BY DEF JobEnds, Unlisted
<1> HIDE DEF n
<1>7. /\ listed' \in Seq(Requests) /\ Len(listed') = Len(listed) - 1
      /\ \A i \in 1..Len(listed) - 1 :
            listed'[i] = IF i < n THEN listed[i] ELSE listed[i + 1]
  BY <1>1, <1>5, <1>6, RemoveAtFacts
<1>8. TypeOK'
  <2>1. burst' \in [Requests -> BurstTypes]
    BY <1>1, <1>2, <1>3
  <2>2. QED
    BY <1>3, <1>7, <2>1 DEF Inv, TypeOK
<1>9. RequestShape'
  <2>1. \A c \in Requests : burst'[c].pc = "none" <=> burst[c].pc = "none"
    BY <1>2, <1>4 DEF Running
  <2>2. QED
    BY <1>3, <2>1 DEF Inv, RequestShape
<1>10. BurstShape'
  BY <1>2, <1>4 DEF Inv, BurstShape
<1>11. ListShape'
  <2>1. \A c \in Requests : Running(burst'[c]) <=> Running(burst[c]) /\ c # b
    BY <1>2, <1>4 DEF Running
  <2>2. /\ DOMAIN listed = 1..Len(listed) /\ DOMAIN listed' = 1..Len(listed) - 1
        /\ Len(listed) \in Nat
    BY <1>1, <1>7
  <2> DEFINE before(i) == IF i < n THEN i ELSE i + 1
  <2>3. \A i \in DOMAIN listed' : /\ before(i) \in DOMAIN listed /\ before(i) # n
                                 /\ listed'[i] = listed[before(i)]
    BY <1>5, <1>7, <2>2
  <2>4. \A i, j \in DOMAIN listed' : before(i) = before(j) => i = j
    BY <1>5, <2>2
  <2>5. \A i \in DOMAIN listed : i # n => \E j \in DOMAIN listed' : before(j) = i
    <3>1. ASSUME NEW i \in DOMAIN listed, i # n
          PROVE  \E j \in DOMAIN listed' : before(j) = i
      <4>1. CASE i < n
        BY <1>5, <2>2, <3>1, <4>1
      <4>2. CASE i > n
        <5>1. i - 1 \in DOMAIN listed' /\ before(i - 1) = i
          BY <1>5, <2>2, <3>1, <4>2
        <5>2. QED
          BY <5>1
      <4>3. QED
        BY <1>5, <2>2, <3>1, <4>1, <4>2
    <3>2. QED
      BY <3>1
  <2> HIDE DEF before
  <2>6. \A i \in DOMAIN listed : listed[i] \in Requests
    BY <1>1
  <2>7. \A i \in DOMAIN listed' : Running(burst'[listed'[i]])
    BY <1>5, <2>1, <2>3, <2>6 DEF Inv, ListShape
  <2>8. \A i, j \in DOMAIN listed' : listed'[i] = listed'[j] => i = j
    BY <2>3, <2>4 DEF Inv, ListShape
  <2>9. \A c \in Requests : Running(burst'[c]) => \E i \in DOMAIN listed' : listed'[i] = c
    BY <1>5, <2>1, <2>3, <2>5 DEF Inv, ListShape
  <2>10. QED
    BY <2>7, <2>8, <2>9 DEF ListShape
<1>12. QED
  BY <1>8, <1>9, <1>10, <1>11 DEF Inv

LEMMA InvIsInductive == Inv /\ [Next]_vars => Inv'
<1> SUFFICES ASSUME Inv, [Next]_vars
             PROVE  Inv'
  OBVIOUS
<1>1. CASE UNCHANGED vars
  BY <1>1, NothingChanges DEF vars, state, Inv, TypeOK, RequestShape
<1>2. ASSUME NEW r \in Requests, plan' = plan, StartFails(r) \/ BurstEnds(r)
      PROVE  Inv'
  <2>1. CASE StartFails(r)
    BY <1>2, <2>1, JobEndsKeepsInv DEF StartFails, Running
  <2>2. CASE BurstEnds(r)
    <3> DEFINE pc == IF burst[r].ffmpeg = "exited" THEN "resolved" ELSE "rejected"
    <3>1. JobEnds(r, pc) /\ pc \in {"resolved", "rejected"} /\ Running(burst[r])
      BY <2>2 DEF BurstEnds, Running
    <3> HIDE DEF pc
    <3>2. QED
      BY <1>2, <3>1, JobEndsKeepsInv
  <2>3. QED
    BY <1>2, <2>1, <2>2
<1>3. QED
  BY <1>1, <1>2, ArriveKeepsInv, LeavingKeepsInv, RequestKeepsInv, BurstStepsKeepInv
  DEF Next, BurstStep

\* Every variable keeps its type: a burst has opened at most Segs parts and promoted only
\* what is open, its waiters are segments, the list holds bursts.
THEOREM TypeCorrect == Spec => []TypeOK
<1>1. Inv => TypeOK
  BY DEF Inv
<1>2. QED
  BY <1>1, InitInv, InvIsInductive, PTL DEF Spec

LEMMA InvHolds == Spec => []Inv
BY InitInv, InvIsInductive, PTL DEF Spec

-----------------------------------------------------------------------------
(* The files.                                                              *)

\* No file that is handed out is still being written: a part is renamed only when ffmpeg
\* has opened the next one or has ended.
THEOREM OnlyCompleteParts == Spec => []NothingHalfWritten
<1>1. Init => NothingHalfWritten
  BY DEF Init, NothingHalfWritten
<1>2. Inv /\ NothingHalfWritten /\ [Next]_vars => NothingHalfWritten'
  <2> SUFFICES ASSUME Inv, NothingHalfWritten, [Next]_vars
               PROVE  NothingHalfWritten'
    OBVIOUS
  <2>1. cache \in [Outputs -> {"none", "whole", "cut", "growing"}]
    BY DEF Inv, TypeOK
  <2>2. ASSUME NEW o, NEW kind \in {"none", "whole", "cut"},
               cache' = [cache EXCEPT ![o] = kind]
        PROVE  NothingHalfWritten'
    BY <2>1, <2>2 DEF NothingHalfWritten
  <2>3. ASSUME NEW b \in Requests, RenamePart(b)
        PROVE  NothingHalfWritten'
    <3>1. PartToPromote(burst[b]) /\ burst[b] \in BurstTypes
      BY <2>3 DEF RenamePart, Inv, BurstShape, Shape, TypeOK
    <3>2. PartKind(burst[b]) \in {"none", "whole", "cut"}
      BY <3>1, BurstAssumption DEF PartKind, PartToPromote, BurstTypes
    <3>3. QED
      BY <2>2, <2>3, <3>2 DEF RenamePart
  <2>4. ASSUME NEW b \in Requests, ClearOutput(b)
        PROVE  NothingHalfWritten'
    BY <2>2, <2>4 DEF ClearOutput
  <2>5. cache' = cache => NothingHalfWritten'
    BY DEF NothingHalfWritten
  <2>6. CASE UNCHANGED vars
    BY <2>5, <2>6 DEF vars, state
  <2>7. ASSUME NEW r \in Requests, Arrive(r) \/ ClientLeaves(r) \/ RequestStep(r)
        PROVE  cache' = cache
    BY <2>7 DEF Arrive, ClientLeaves, RequestStep, FirstStat, JoinBurst,
       startVirtualArchiveBurst, TooManyBursts, PollFile, BurstFailed, WaitedTooLong,
       PollResolved, LastPoll, serveFile
  <2>8. ASSUME NEW b \in Requests,
               \/ startGroupedPlayback(b) \/ StartFails(b) \/ CheckPart(b) \/ BurstEnds(b)
               \/ FfmpegOpensPart(b) \/ FfmpegExits(b) \/ FfmpegKilled(b)
        PROVE  cache' = cache
    BY <2>8 DEF startGroupedPlayback, StartFails, CheckPart, BurstEnds, JobEnds,
       FfmpegOpensPart, FfmpegExits, FfmpegKilled
  <2>9. QED
    BY <2>3, <2>4, <2>5, <2>6, <2>7, <2>8 DEF Next, BurstStep
<1>3. QED
  BY <1>1, <1>2, InvHolds, PTL DEF Spec

-----------------------------------------------------------------------------
(* The viewers and the waiters of a burst.                                 *)

\* Nobody leaves before he has come.
Unarrived == \A r \in Requests : request[r].pc = "idle" => ~request[r].left

\* Another request for r's segment is over.
Excused(r) ==
    \E q \in Requests \ {r} :
        /\ request[q].at = request[r].at
        /\ request[q].left \/ request[q].pc \in {"serve"} \cup Closed

\* What ViewerKept and NoStaleWaiter say of one request and of one burst.
Kept(r) ==
    LET b == burst[request[r].burst]
    IN  /\ request[r].pc \in Waiting /\ Running(b) /\ ~request[r].left
        /\ b.aborted \/ request[r].at \notin b.waiters
        => Excused(r)

Waited(b, o) ==
    Running(burst[b]) => \E r \in Requests :
        request[r].pc \in Waiting /\ request[r].burst = b /\ request[r].at = o

Viewers == Unarrived /\ ViewerKept /\ NoStaleWaiter

LEMMA ViewersByParts ==
  Viewers <=> /\ Unarrived
              /\ \A r \in Requests : Kept(r)
              /\ \A b \in Requests : \A o \in burst[b].waiters : Waited(b, o)
BY DEF Viewers, ViewerKept, NoStaleWaiter, Kept, Waited, Excused

LEMMA ViewersNextByParts ==
  ASSUME Unarrived', \A r \in Requests : Kept(r)',
         \A b \in Requests : \A o \in burst'[b].waiters : Waited(b, o)'
  PROVE  Viewers'
BY DEF Viewers, ViewerKept, NoStaleWaiter, Kept, Waited, Excused

\* A request only moves forward; its segment is fixed when it comes.
Onward ==
    \A q \in Requests :
        /\ request'[q].left => request[q].left \/ request[q].pc # "idle"
        /\ request'[q].pc = "idle" => request[q].pc = "idle" /\ request'[q] = request[q]
        /\ request[q].pc # "idle" => /\ request'[q].at = request[q].at
                                     /\ request[q].left => request'[q].left
        /\ request[q].pc \in {"serve"} \cup Closed =>
              request'[q].pc \in {"serve"} \cup Closed

LEMMA OnwardKeeps ==
  ASSUME Viewers, Onward
  PROVE  /\ Unarrived'
         /\ \A r \in Requests : request[r].pc # "idle" /\ Excused(r) => Excused(r)'
<1>1. Unarrived'
  BY DEF Onward, Viewers, Unarrived
<1>2. ASSUME NEW r \in Requests, request[r].pc # "idle", Excused(r)
      PROVE  Excused(r)'
  <2>1. PICK q \in Requests \ {r} :
           /\ request[q].at = request[r].at
           /\ request[q].left \/ request[q].pc \in {"serve"} \cup Closed
    BY <1>2 DEF Excused
  <2>2. request[q].pc # "idle"
    BY <2>1 DEF Viewers, Unarrived, Closed
  <2>3. QED
    BY <1>2, <2>1, <2>2 DEF Excused, Onward
<1>3. QED
  BY <1>1, <1>2

\* A request that neither waited nor waits then moves, or one that goes on waiting.
LEMMA GoKeepsViewers ==
  ASSUME Inv, Viewers, NEW r \in Requests, NEW pc \in Open \cup Closed, Go(r, pc),
         burst' = burst, request[r].pc # "idle",
         pc \in Waiting <=> request[r].pc \in Waiting,
         request[r].pc \in {"serve"} \cup Closed => pc \in {"serve"} \cup Closed
  PROVE  Viewers'
<1>1. /\ request'[r].pc = pc /\ request'[r].at = request[r].at
      /\ request'[r].left = request[r].left
      /\ pc \in Waiting => request'[r].burst = request[r].burst
      /\ \A q \in Requests \ {r} : request'[q] = request[q]
  BY GoFacts DEF Inv, TypeOK
<1>2. pc # "idle"
  BY DEF Open, Closed, Waiting
<1>3. Onward
  BY <1>1, <1>2 DEF Onward
<1>4. ASSUME NEW q \in Requests
      PROVE  Kept(q)'
  BY <1>1, <1>3, OnwardKeeps, ViewersByParts DEF Kept, Waiting
<1>5. ASSUME NEW b \in Requests, NEW o \in burst'[b].waiters
      PROVE  Waited(b, o)'
  BY <1>1, ViewersByParts DEF Waited
<1>6. QED
  BY <1>3, <1>4, <1>5, OnwardKeeps, ViewersNextByParts

\* A request that no longer waits excuses the loss of its segment's waiter.
LEMMA SettleKeepsViewers ==
  ASSUME Inv, Viewers, NEW r \in Requests, NEW pc \in {"serve"} \cup Closed, Settle(r, pc),
         request[r].pc \in Waiting
  PROVE  Viewers'
<1>1. request \in [Requests -> RequestTypes] /\ burst \in [Requests -> BurstTypes]
  BY DEF Inv, TypeOK
<1>2. /\ request'[r].pc = pc /\ request'[r].at = request[r].at
      /\ request'[r].left = request[r].left
      /\ \A q \in Requests \ {r} : request'[q] = request[q]
  BY <1>1, GoFacts DEF Settle, Open
<1>3. pc # "idle" /\ request[r].pc \notin {"idle", "serve"} \cup Closed /\ pc \notin Waiting
  BY DEF Closed, Waiting
<1>4. Onward
  BY <1>2, <1>3 DEF Onward
<1>5. request[r].burst \in Requests
  BY DEF Inv, RequestShape
<1>6. \A b \in Requests :
         /\ burst'[b].pc = burst[b].pc /\ burst'[b].aborted = burst[b].aborted
         /\ burst'[b].waiters = IF b = request[r].burst
                                THEN burst[b].waiters \ {request[r].at} ELSE burst[b].waiters
  <2>1. burst' = [burst EXCEPT ![request[r].burst].waiters = @ \ {request[r].at}]
    BY DEF Settle
  <2>2. PICK c \in Requests : c = request[r].burst
    BY <1>5
  <2>3. ASSUME NEW b \in Requests, b # c
        PROVE  burst'[b] = burst[b]
    BY <1>1, <2>1, <2>2, <2>3
  <2>4. burst'[c] = [burst[c] EXCEPT !.waiters = @ \ {request[r].at}]
    BY <1>1, <2>1, <2>2
  <2>5. /\ burst'[c].pc = burst[c].pc /\ burst'[c].aborted = burst[c].aborted
        /\ burst'[c].waiters = burst[c].waiters \ {request[r].at}
    BY <1>1, <2>4 DEF BurstTypes
  <2>6. QED
    BY <2>2, <2>3, <2>5
<1>7. ASSUME NEW q \in Requests
      PROVE  Kept(q)'
  <2>1. CASE q = r
    BY <1>2, <1>3, <2>1 DEF Kept
  <2>2. CASE q # r /\ request[q].at = request[r].at
    BY <1>2, <2>2 DEF Kept, Excused
  <2>3. CASE q # r /\ request[q].at # request[r].at
    <3> SUFFICES ASSUME request[q].pc \in Waiting
                 PROVE  Kept(q)'
      BY <1>2, <2>3 DEF Kept
    <3>1. request[q].burst \in Requests /\ request[q].pc # "idle"
      BY DEF Inv, RequestShape, Waiting
    <3>2. Kept(q) /\ (Excused(q) => Excused(q)')
      BY <1>4, <3>1, OnwardKeeps, ViewersByParts
    <3> DEFINE b == burst[request[q].burst]
               c == burst'[request[q].burst]
    <3>3. /\ c.pc = b.pc /\ c.aborted = b.aborted
          /\ request[q].at \in b.waiters => request[q].at \in c.waiters
      BY <1>6, <2>3, <3>1
    <3>4. request'[q] = request[q]
      BY <1>2, <2>3
    <3>5. QED
      BY <3>2, <3>3, <3>4 DEF Kept, Running
  <2>4. QED
    BY <2>1, <2>2, <2>3
<1>8. ASSUME NEW b \in Requests, NEW o \in burst'[b].waiters
      PROVE  Waited(b, o)'
  <2>1. o \in burst[b].waiters /\ Waited(b, o)
    BY <1>6, ViewersByParts
  <2>2. b = request[r].burst => o # request[r].at
    BY <1>6
  <2>3. QED
    BY <1>2, <1>6, <2>1, <2>2 DEF Waited, Running
<1>9. QED
  BY <1>4, <1>7, <1>8, OnwardKeeps, ViewersNextByParts

\* A request that begins to wait, alone in a new burst or in one that is not aborted.
LEMMA WaitKeepsViewers ==
  ASSUME Inv, Viewers, NEW r \in Requests, NEW b \in Requests,
         burst' \in [Requests -> BurstTypes], request[r].pc = "join",
         request'[r].pc = "wait", request'[r].burst = b, request'[r].at = request[r].at,
         request'[r].left = request[r].left,
         \A q \in Requests \ {r} : request'[q] = request[q],
         \A c \in Requests \ {b} : burst'[c] = burst[c],
         burst'[b].waiters = burst[b].waiters \cup {request[r].at}, ~burst'[b].aborted,
         burst[b].pc # "none" => Running(burst[b]),
         burst[b].pc = "none" => burst[b].waiters = {}
  PROVE  Viewers'
<1>1. Onward
  BY DEF Onward, Closed
<1>2. ASSUME NEW q \in Requests
      PROVE  Kept(q)'
  <2>1. CASE q = r
    BY <2>1 DEF Kept
  <2>2. CASE q # r
    <3> SUFFICES ASSUME request[q].pc \in Waiting
                 PROVE  Kept(q)'
      BY <2>2 DEF Kept
    <3>1. /\ request[q].burst \in Requests /\ request[q].pc # "idle"
          /\ burst[request[q].burst].pc # "none"
      BY DEF Inv, RequestShape, Waiting
    <3>2. Kept(q) /\ (Excused(q) => Excused(q)')
      BY <1>1, <3>1, OnwardKeeps, ViewersByParts
    <3>3. QED
      BY <2>2, <3>1, <3>2 DEF Kept
  <2>3. QED
    BY <2>1, <2>2
<1>3. ASSUME NEW c \in Requests, NEW o \in burst'[c].waiters
      PROVE  Waited(c, o)'
  <2>1. CASE c = b /\ o = request[r].at
    BY <2>1 DEF Waited, Waiting
  <2>2. CASE ~(c = b /\ o = request[r].at)
    <3>1. o \in burst[c].waiters /\ Waited(c, o)
      BY <2>2, ViewersByParts
    <3>2. Running(burst'[c]) => Running(burst[c])
      BY <3>1
    <3>3. request[r].pc \notin Waiting
      BY DEF Waiting
    <3>4. QED
      BY <3>1, <3>2, <3>3 DEF Waited
  <2>3. QED
    BY <2>1, <2>2
<1>4. QED
  BY <1>1, <1>2, <1>3, OnwardKeeps, ViewersNextByParts

\* The bursts go on by themselves: none of them is cancelled and no waiter is touched.
LEMMA BurstKeepsViewers ==
  ASSUME Inv, Viewers, request' = request,
         \A b \in Requests : Running(burst'[b]) =>
             /\ Running(burst[b]) /\ burst'[b].aborted = burst[b].aborted
             /\ burst'[b].waiters = burst[b].waiters
  PROVE  Viewers'
<1>1. Onward
  BY DEF Onward
<1>2. ASSUME NEW q \in Requests
      PROVE  Kept(q)'
  BY <1>1, OnwardKeeps, ViewersByParts DEF Kept, Excused, Inv, RequestShape
<1>3. ASSUME NEW b \in Requests, NEW o \in burst'[b].waiters
      PROVE  Waited(b, o)'
  BY ViewersByParts DEF Waited
<1>4. QED
  BY <1>1, <1>2, <1>3, OnwardKeeps, ViewersNextByParts

\* A client that leaves takes the waiter of its own segment only, and cancels a burst only
\* when no other segment has one.
LEMMA LeavingKeepsViewers ==
  ASSUME Inv, Viewers, NEW r \in Requests, ClientLeaves(r)
  PROVE  Viewers'
<1>1. /\ request \in [Requests -> RequestTypes] /\ request[r].pc \in Open
      /\ request' = [request EXCEPT ![r].left = TRUE]
  BY DEF Inv, TypeOK, ClientLeaves
<1>2. /\ \A q \in Requests : /\ request'[q].pc = request[q].pc /\ request'[q].at = request[q].at
                             /\ request'[q].burst = request[q].burst
      /\ request'[r].left
      /\ \A q \in Requests \ {r} : request'[q] = request[q]
  BY <1>1 DEF RequestTypes
<1>3. request[r].pc # "idle"
  BY <1>1 DEF Open, Waiting
<1>4. Onward
  BY <1>2, <1>3 DEF Onward
<1>5. \A b \in Requests : Weaker(burst[b], burst'[b], request[r].at)
  BY LeavingWeakens DEF Inv
<1>6. ASSUME NEW q \in Requests
      PROVE  Kept(q)'
  <2>1. CASE q = r
    BY <1>2, <2>1 DEF Kept
  <2>2. CASE q # r /\ request[q].at = request[r].at
    BY <1>2, <2>2 DEF Kept, Excused
  <2>3. CASE q # r /\ request[q].at # request[r].at
    <3> SUFFICES ASSUME request[q].pc \in Waiting
                 PROVE  Kept(q)'
      BY <1>2, <2>3 DEF Kept
    <3>1. request[q].burst \in Requests /\ request[q].pc # "idle"
      BY DEF Inv, RequestShape, Waiting
    <3>2. Kept(q) /\ (Excused(q) => Excused(q)')
      BY <1>4, <3>1, OnwardKeeps, ViewersByParts
    <3>3. Weaker(burst[request[q].burst], burst'[request[q].burst], request[r].at)
      BY <1>5, <3>1
    <3>4. PICK b, o : b = request[q].burst /\ o = request[q].at
      OBVIOUS
    <3>5. /\ Running(burst'[b]) => Running(burst[b])
          /\ burst'[b].aborted \/ o \notin burst'[b].waiters
                => burst[b].aborted \/ o \notin burst[b].waiters
      BY <2>3, <3>3, <3>4 DEF Running, Weaker
    <3>6. request'[q] = request[q]
      BY <1>2, <2>3
    <3>7. QED
      BY <3>2, <3>4, <3>5, <3>6 DEF Kept
  <2>4. QED
    BY <2>1, <2>2, <2>3
<1>7. ASSUME NEW b \in Requests, NEW o \in burst'[b].waiters
      PROVE  Waited(b, o)'
  <2>1. Weaker(burst[b], burst'[b], request[r].at)
    BY <1>5
  <2>2. o \in burst[b].waiters /\ Waited(b, o)
    BY <2>1, ViewersByParts DEF Weaker
  <2>3. QED
    BY <1>2, <2>1, <2>2 DEF Waited, Running, Weaker
<1>8. QED
  BY <1>4, <1>6, <1>7, OnwardKeeps, ViewersNextByParts

LEMMA ViewersAreInductive == Inv /\ Viewers /\ [Next]_vars => Viewers'
<1> SUFFICES ASSUME Inv, Viewers, [Next]_vars
             PROVE  Viewers'
  OBVIOUS
<1>1. /\ request \in [Requests -> RequestTypes] /\ burst \in [Requests -> BurstTypes]
  BY DEF Inv, TypeOK
<1>2. CASE UNCHANGED vars
  BY <1>2, BurstKeepsViewers DEF vars, state
<1>3. ASSUME NEW r \in Requests, Arrive(r)
      PROVE  Viewers'
  <2>1. /\ request'[r].pc = "stat" /\ request'[r].left = request[r].left
        /\ \A q \in Requests \ {r} : request'[q] = request[q]
        /\ request[r].pc = "idle" /\ burst' = burst
    BY <1>1, <1>3 DEF Arrive, RequestTypes
  <2>2. ~request[r].left
    BY <2>1 DEF Viewers, Unarrived
  <2>3. Onward
    BY <2>1, <2>2 DEF Onward, Closed
  <2>4. ASSUME NEW q \in Requests
        PROVE  Kept(q)'
    BY <2>1, <2>3, OnwardKeeps, ViewersByParts DEF Kept, Waiting
  <2>5. ASSUME NEW b \in Requests, NEW o \in burst'[b].waiters
        PROVE  Waited(b, o)'
    BY <2>1, ViewersByParts DEF Waited, Waiting
  <2>6. QED
    BY <2>3, <2>4, <2>5, OnwardKeeps, ViewersNextByParts
<1>4. ASSUME NEW r \in Requests, JoinBurst(r)
      PROVE  Viewers'
  <2>1. PICK b \in findVirtualArchiveBurst(burst, request[r].at) :
           /\ request' = [request EXCEPT ![r].pc = "wait", ![r].burst = b]
           /\ burst' = [burst EXCEPT ![b].waiters = @ \cup {request[r].at}]
    BY <1>4 DEF JoinBurst
  <2>2. /\ b \in Requests /\ Running(burst[b]) /\ ~burst[b].aborted /\ burst[b].pc # "none"
    BY FoundIsListed DEF burstContains, Running
  <2>3. /\ request'[r].pc = "wait" /\ request'[r].burst = b /\ request'[r].at = request[r].at
        /\ request'[r].left = request[r].left /\ request[r].pc = "join"
        /\ \A q \in Requests \ {r} : request'[q] = request[q]
    BY <1>1, <1>4, <2>1 DEF RequestTypes, JoinBurst
  <2>4. /\ \A c \in Requests \ {b} : burst'[c] = burst[c]
        /\ burst'[b].waiters = burst[b].waiters \cup {request[r].at} /\ ~burst'[b].aborted
    BY <1>1, <2>1, <2>2 DEF BurstTypes
  <2>5. burst' \in [Requests -> BurstTypes]
    <3>1. request[r].at \in Outputs
      BY <2>3, StartsAreOutputs DEF Inv, RequestShape
    <3>2. QED
      BY <1>1, <2>1, <2>2, <3>1 DEF BurstTypes
  <2>6. QED
    BY <2>2, <2>3, <2>4, <2>5, WaitKeepsViewers
<1>5. ASSUME NEW r \in Requests, startVirtualArchiveBurst(r), Inv'
      PROVE  Viewers'
  <2>1. burst[r] = NoBurst /\ request[r].pc = "join"
    BY <1>5 DEF startVirtualArchiveBurst, Inv, RequestShape, BurstShape, Shape
  <2>2. burst[r].pc = "none" /\ burst[r].waiters = {} /\ ~burst[r].aborted
    BY <2>1 DEF NoBurst
  <2>3. /\ request'[r].pc = "wait" /\ request'[r].burst = r /\ request'[r].at = request[r].at
        /\ request'[r].left = request[r].left
        /\ \A q \in Requests \ {r} : request'[q] = request[q]
    BY <1>1, <1>5 DEF RequestTypes, startVirtualArchiveBurst
  <2>4. /\ \A c \in Requests \ {r} : burst'[c] = burst[c]
        /\ burst'[r].waiters = {request[r].at} /\ ~burst'[r].aborted
    BY <1>1, <1>5, <2>2 DEF BurstTypes, startVirtualArchiveBurst
  <2>5. burst' \in [Requests -> BurstTypes]
    BY <1>5 DEF Inv, TypeOK
  <2>6. QED
    BY <2>1, <2>2, <2>3, <2>4, <2>5, WaitKeepsViewers
<1>6. ASSUME NEW r \in Requests,
             FirstStat(r) \/ TooManyBursts(r) \/ PollResolved(r) \/ serveFile(r)
      PROVE  Viewers'
  <2>1. PICK pc \in Open \cup Closed :
           /\ Go(r, pc) /\ burst' = burst /\ request[r].pc # "idle"
           /\ pc \in Waiting <=> request[r].pc \in Waiting
           /\ request[r].pc \in {"serve"} \cup Closed => pc \in {"serve"} \cup Closed
    <3>1. CASE FirstStat(r)
      BY <3>1 DEF FirstStat, Open, Closed, Waiting
    <3>2. CASE TooManyBursts(r)
      BY <3>2 DEF TooManyBursts, Open, Closed, Waiting
    <3>3. CASE PollResolved(r)
      BY <3>3 DEF PollResolved, Open, Closed, Waiting
    <3>4. CASE serveFile(r)
      BY <3>4 DEF serveFile, Open, Closed, Waiting
    <3>5. QED
      BY <1>6, <3>1, <3>2, <3>3, <3>4
  <2>2. QED
    BY <2>1, GoKeepsViewers
<1>7. ASSUME NEW r \in Requests,
             PollFile(r) \/ BurstFailed(r) \/ WaitedTooLong(r) \/ LastPoll(r)
      PROVE  Viewers'
  <2>1. PICK pc \in {"serve"} \cup Closed : Settle(r, pc) /\ request[r].pc \in Waiting
    <3>1. CASE PollFile(r)
      BY <3>1 DEF PollFile, Waiting
    <3>2. CASE BurstFailed(r) \/ WaitedTooLong(r)
      BY <3>2 DEF BurstFailed, WaitedTooLong, Closed, Waiting
    <3>3. CASE LastPoll(r)
      BY <3>3 DEF LastPoll, Closed, Waiting
    <3>4. QED
      BY <1>7, <3>1, <3>2, <3>3
  <2>2. QED
    BY <2>1, SettleKeepsViewers
<1>8. ASSUME NEW b \in Requests, BurstStep(b) \/ FfmpegOpensPart(b) \/ FfmpegExits(b)
                                  \/ FfmpegKilled(b)
      PROVE  Viewers'
  <2>1. request' = request
    BY <1>8 DEF BurstStep, startGroupedPlayback, StartFails, CheckPart, ClearOutput, RenamePart,
       BurstEnds, JobEnds, FfmpegOpensPart, FfmpegExits, FfmpegKilled
  <2>2. \A c \in Requests \ {b} : burst'[c] = burst[c]
    BY <1>1, <1>8 DEF BurstStep, startGroupedPlayback, StartFails, CheckPart, ClearOutput,
       RenamePart, BurstEnds, JobEnds, FfmpegOpensPart, FfmpegExits, FfmpegKilled, Promoted
  <2>3. CASE startGroupedPlayback(b)
    BY <1>1, <2>1, <2>2, <2>3, BurstKeepsViewers DEF startGroupedPlayback, BurstTypes, Running
  <2>4. CASE CheckPart(b) \/ ClearOutput(b) \/ RenamePart(b)
    <3>1. /\ burst'[b].pc = burst[b].pc /\ burst'[b].aborted = burst[b].aborted
          /\ burst'[b].waiters = burst[b].waiters
      BY <1>1, <2>4 DEF CheckPart, ClearOutput, RenamePart, Promoted, BurstTypes
    <3>2. QED
      BY <2>1, <2>2, <3>1, BurstKeepsViewers DEF Running
  <2>5. CASE FfmpegOpensPart(b) \/ FfmpegExits(b) \/ FfmpegKilled(b)
    <3>1. /\ burst'[b].pc = burst[b].pc /\ burst'[b].aborted = burst[b].aborted
          /\ burst'[b].waiters = burst[b].waiters
      BY <1>1, <2>5 DEF FfmpegOpensPart, FfmpegExits, FfmpegKilled, BurstTypes
    <3>2. QED
      BY <2>1, <2>2, <3>1, BurstKeepsViewers DEF Running
  <2>6. CASE StartFails(b) \/ BurstEnds(b)
    <3>1. PICK pc \in {"resolved", "rejected"} : JobEnds(b, pc)
      BY <2>6 DEF StartFails, BurstEnds
    <3>2. burst'[b].pc = pc
      BY <1>1, <3>1 DEF JobEnds, NoBurst
    <3>3. ~Running(burst'[b])
      BY <3>2 DEF Running
    <3>4. QED
      BY <2>1, <2>2, <3>3, BurstKeepsViewers
  <2>7. QED
    BY <1>8, <2>3, <2>4, <2>5, <2>6 DEF BurstStep
<1>9. Inv'
  BY InvIsInductive
<1>10. QED
  BY <1>2, <1>3, <1>4, <1>5, <1>6, <1>7, <1>8, <1>9, LeavingKeepsViewers DEF Next, RequestStep

LEMMA ViewersHold == Spec => []Viewers
<1>1. Init => Viewers
  BY DEF Init, Viewers, Unarrived, ViewerKept, NoStaleWaiter, NoRequest, NoBurst, Waiting
<1>2. QED
  BY <1>1, InvHolds, ViewersAreInductive, PTL DEF Spec

\* A viewer's running burst is cancelled, or his waiter lost, only when another request for
\* the very same segment is over, however many viewers and bursts there are.
THEOREM ViewersAreKept == Spec => []ViewerKept
<1>1. Viewers => ViewerKept
  BY DEF Viewers
<1>2. QED
  BY <1>1, ViewersHold, PTL

\* No running burst has a waiter that nobody waits for.
THEOREM WaitersAreWaited == Spec => []NoStaleWaiter
<1>1. Viewers => NoStaleWaiter
  BY DEF Viewers
<1>2. QED
  BY <1>1, ViewersHold, PTL

-----------------------------------------------------------------------------
(* The windows of the bursts.                                              *)

\* The list is the same, and so are the windows; an aborted burst stays so.
LEMMA SameListKeepsStarts ==
  ASSUME Inv, OneProducerPerStart, listed' = listed,
         \A b \in Requests : Running(burst[b]) =>
             /\ burst'[b].at = burst[b].at
             /\ burst[b].aborted => burst'[b].aborted
  PROVE  OneProducerPerStart'
<1>1. \A i \in DOMAIN listed : listed[i] \in Requests /\ Running(burst[listed[i]])
  BY DEF Inv, TypeOK, ListShape
<1>2. QED
  BY <1>1 DEF OneProducerPerStart

\* A new burst starts outside the window of every listed one that is not aborted.
LEMMA StartKeepsStarts ==
  ASSUME Inv, OneProducerPerStart, NEW r \in Requests, startVirtualArchiveBurst(r)
  PROVE  OneProducerPerStart'
<1>1. /\ burst \in [Requests -> BurstTypes] /\ listed \in Seq(Requests)
      /\ burst[r].pc = "none" /\ request[r].at \in Nat
  BY StartsAreOutputs DEF Inv, TypeOK, RequestShape, startVirtualArchiveBurst
<1>2. /\ burst'[r].at = request[r].at
      /\ \A c \in Requests \ {r} : burst'[c] = burst[c]
  BY <1>1 DEF startVirtualArchiveBurst, BurstTypes
<1>3. /\ DOMAIN listed' = 1..Len(listed) + 1 /\ listed'[Len(listed) + 1] = r
      /\ DOMAIN listed = 1..Len(listed) /\ Len(listed) \in Nat
      /\ \A i \in DOMAIN listed : listed'[i] = listed[i]
  BY <1>1 DEF startVirtualArchiveBurst
<1>4. \A i \in DOMAIN listed : /\ listed[i] \in Requests \ {r}
                               /\ burst[listed[i]].at \in Nat
  <2>1. \A i \in DOMAIN listed : listed[i] \in Requests
    BY <1>1
  <2>2. \A i \in DOMAIN listed : Running(burst[listed[i]])
    BY DEF Inv, ListShape
  <2>3. \A c \in Requests : Running(burst[c]) => burst[c].pc # "none" /\ burst[c].at \in Starts
    BY DEF Inv, BurstShape, Shape, Running
  <2>4. QED
    BY <1>1, <2>1, <2>2, <2>3, StartsAreOutputs
<1>5. ASSUME NEW i \in DOMAIN listed', NEW j \in DOMAIN listed', i < j,
             ~burst'[listed'[i]].aborted
      PROVE  burst'[listed'[j]].at \notin
                burst'[listed'[i]].at..(burst'[listed'[i]].at + Segs * SegLen - 1)
  <2>1. i \in DOMAIN listed /\ burst'[listed'[i]] = burst[listed[i]]
    BY <1>2, <1>3, <1>4, <1>5
  <2>2. CASE j \in DOMAIN listed
    BY <1>2, <1>3, <1>4, <1>5, <2>1, <2>2 DEF OneProducerPerStart
  <2>3. CASE j = Len(listed) + 1
    <3>1. ~burstContains(burst[listed[i]], request[r].at)
      BY <2>1 DEF startVirtualArchiveBurst, Uncovered
    <3>2. burst'[listed'[j]].at = request[r].at /\ Segs * SegLen \in Nat
      BY <1>2, <1>3, <2>3, BurstAssumption
    <3> DEFINE end == Segs * SegLen
    <3>3. ~(burst[listed[i]].at <= request[r].at /\ request[r].at < burst[listed[i]].at + end)
      BY <1>5, <2>1, <3>1 DEF burstContains
    <3> HIDE DEF end
    <3>4. request[r].at \notin burst[listed[i]].at..(burst[listed[i]].at + end - 1)
      BY <1>1, <1>4, <2>1, <3>2, <3>3 DEF end
    <3>5. QED
      BY <2>1, <3>2, <3>4 DEF end
  <2>4. QED
    BY <1>3, <2>2, <2>3
<1>6. QED
  BY <1>5 DEF OneProducerPerStart

\* Taking a burst away leaves the others in their order.
LEMMA EndKeepsStarts ==
  ASSUME Inv, OneProducerPerStart, NEW b \in Requests, NEW pc, Running(burst[b]), JobEnds(b, pc)
  PROVE  OneProducerPerStart'
<1> DEFINE n == CHOOSE i \in DOMAIN listed : listed[i] = b
<1>1. /\ burst \in [Requests -> BurstTypes] /\ listed \in Seq(Requests)
      /\ Len(listed) \in Nat /\ DOMAIN listed = 1..Len(listed)
  BY DEF Inv, TypeOK
<1>2. n \in DOMAIN listed /\ \A i \in DOMAIN listed : listed[i] = b => i = n
  BY DEF Inv, ListShape
<1>3. listed' = RemoveAt(listed, n) /\ \A c \in Requests \ {b} : burst'[c] = burst[c]
  BY <1>1 DEF JobEnds, Unlisted
<1> HIDE DEF n
<1>4. /\ listed' \in Seq(Requests) /\ DOMAIN listed' = 1..Len(listed) - 1
      /\ \A i \in 1..Len(listed) - 1 :
            listed'[i] = IF i < n THEN listed[i] ELSE listed[i + 1]
  <2>1. /\ listed' \in Seq(Requests) /\ Len(listed') = Len(listed) - 1
        /\ \A i \in 1..Len(listed) - 1 :
              listed'[i] = IF i < n THEN listed[i] ELSE listed[i + 1]
    BY <1>1, <1>2, <1>3, RemoveAtFacts
  <2>2. QED
    BY <2>1
<1> DEFINE before(i) == IF i < n THEN i ELSE i + 1
<1>5. \A i \in DOMAIN listed' : /\ before(i) \in DOMAIN listed /\ before(i) # n
                               /\ listed'[i] = listed[before(i)]
  BY <1>1, <1>2, <1>4
<1>6. \A i, j \in DOMAIN listed' : i < j => before(i) < before(j)
  BY <1>1, <1>2, <1>4
<1> HIDE DEF before
<1>7. \A i \in DOMAIN listed' : burst'[listed'[i]] = burst[listed[before(i)]]
  BY <1>1, <1>2, <1>3, <1>5
<1>8. QED
  BY <1>5, <1>6, <1>7 DEF OneProducerPerStart

\* As long as a burst of the list is not aborted, no other burst is started inside its window:
\* at any number of players, requests and bursts one playback serves one stretch of archive.
THEOREM StartsAreApart == Spec => []OneProducerPerStart
<1>1. Init => OneProducerPerStart
  BY DEF Init, OneProducerPerStart
<1>2. Inv /\ OneProducerPerStart /\ [Next]_vars => OneProducerPerStart'
  <2> SUFFICES ASSUME Inv, OneProducerPerStart, [Next]_vars
               PROVE  OneProducerPerStart'
    OBVIOUS
  <2>1. /\ request \in [Requests -> RequestTypes] /\ burst \in [Requests -> BurstTypes]
    BY DEF Inv, TypeOK
  <2>2. UNCHANGED <<burst, listed>> => OneProducerPerStart'
    BY SameListKeepsStarts
  <2>3. CASE UNCHANGED vars
    BY <2>2, <2>3 DEF vars, state
  <2>4. ASSUME NEW r \in Requests,
               \/ Arrive(r) \/ FirstStat(r) \/ TooManyBursts(r) \/ PollResolved(r) \/ serveFile(r)
        PROVE  OneProducerPerStart'
    BY <2>2, <2>4 DEF Arrive, FirstStat, TooManyBursts, PollResolved, serveFile
  <2>5. ASSUME NEW r \in Requests,
               PollFile(r) \/ BurstFailed(r) \/ WaitedTooLong(r) \/ LastPoll(r)
        PROVE  OneProducerPerStart'
    <3>1. /\ listed' = listed
          /\ burst' = [burst EXCEPT ![request[r].burst].waiters = @ \ {request[r].at}]
      BY <2>5 DEF PollFile, BurstFailed, WaitedTooLong, LastPoll, Settle
    <3>2. QED
      BY <2>1, <3>1, SameListKeepsStarts DEF BurstTypes
  <2>6. ASSUME NEW r \in Requests, JoinBurst(r)
        PROVE  OneProducerPerStart'
    <3>1. PICK b : burst' = [burst EXCEPT ![b].waiters = @ \cup {request[r].at}]
      BY <2>6 DEF JoinBurst
    <3>2. QED
      BY <2>1, <2>6, <3>1, SameListKeepsStarts DEF JoinBurst, BurstTypes
  <2>7. ASSUME NEW r \in Requests, ClientLeaves(r)
        PROVE  OneProducerPerStart'
    <3>1. \A b \in Requests : Weaker(burst[b], burst'[b], request[r].at)
      BY <2>7, LeavingWeakens DEF Inv
    <3>2. QED
      BY <2>7, <3>1, SameListKeepsStarts DEF ClientLeaves, Weaker
  <2>8. ASSUME NEW b \in Requests,
               \/ startGroupedPlayback(b) \/ CheckPart(b) \/ ClearOutput(b) \/ RenamePart(b)
               \/ FfmpegOpensPart(b) \/ FfmpegExits(b) \/ FfmpegKilled(b)
        PROVE  OneProducerPerStart'
    <3>1. /\ listed' = listed
          /\ \A c \in Requests : /\ burst'[c].at = burst[c].at
                                 /\ burst'[c].aborted = burst[c].aborted
      BY <2>1, <2>8 DEF startGroupedPlayback, CheckPart, ClearOutput, RenamePart, Promoted,
         FfmpegOpensPart, FfmpegExits, FfmpegKilled, BurstTypes
    <3>2. QED
      BY <3>1, SameListKeepsStarts
  <2>9. ASSUME NEW b \in Requests, StartFails(b) \/ BurstEnds(b)
        PROVE  OneProducerPerStart'
    <3>1. PICK pc : JobEnds(b, pc) /\ Running(burst[b])
      BY <2>9 DEF StartFails, BurstEnds, Running
    <3>2. QED
      BY <3>1, EndKeepsStarts
  <2>10. QED
    BY <2>3, <2>4, <2>5, <2>6, <2>7, <2>8, <2>9, StartKeepsStarts
    DEF Next, RequestStep, BurstStep
<1>3. QED
  BY <1>1, <1>2, InvHolds, PTL DEF Spec

-----------------------------------------------------------------------------
(* What is there of a burst's segments.                                    *)

\* A file that was there once is there, or a burst is replacing it.
Present(o) == cache[o] # "none" \/ BeingReplaced(o)

\* The parts of a burst that have become files, or were dropped for one.
Made(b) == IF b.pc = "resolved" THEN b.opened ELSE b.promoted

PartsThere ==
    \A b \in Requests : \A i \in Nat : i < Made(burst[b]) => Present(burst[b].at + i * SegLen)

ServedThere == \A r \in Requests : request[r].pc = "serve" => Present(request[r].at)

\* A request waits for a burst that starts at or before its segment, and gives up on one that has
\* ended well.
WaitsAhead(r) ==
    /\ request[r].pc \in Waiting => burst[request[r].burst].at <= request[r].at
    /\ request[r].pc = "last" => burst[request[r].burst].pc = "resolved"

Files == PartsThere /\ ServedThere /\ \A r \in Requests : WaitsAhead(r)

LEMMA FilesInit == Init => Files
BY DEF Init, Files, PartsThere, ServedThere, WaitsAhead, Made, NoBurst, NoRequest, Waiting

\* The file of a part.
LEMMA PartsAreOutputs ==
    ASSUME Inv, NEW b \in Requests, burst[b].pc # "none", NEW i \in Nat, i < burst[b].opened
    PROVE  burst[b].at + i * SegLen \in Outputs
<1>1. burst[b].at \in Starts /\ burst[b].opened \in 0..Segs
  BY DEF Inv, TypeOK, BurstShape, Shape, BurstTypes
<1>2. i \in 0..Segs - 1
  BY <1>1, BurstAssumption
<1>3. QED
  BY <1>1, <1>2 DEF Outputs

\* What one step makes of a burst: its start stays, a burst that ended well stays that way,
\* one part more at most is there, and a rename ends with the file in its place.
Advances(b) ==
    /\ burst[b].pc # "none" => burst'[b].at = burst[b].at
    /\ burst[b].pc = "resolved" => burst'[b].pc = "resolved"
    /\ \/ Made(burst'[b]) <= Made(burst[b])
       \/ /\ Made(burst'[b]) = Made(burst[b]) + 1 /\ burst[b].pc # "none"
          /\ cache'[NextOutput(burst[b])] # "none"
          /\ NextOutput(burst[b]) = burst[b].at + Made(burst[b]) * SegLen
    /\ burst[b].step = "rename" =>
          \/ burst'[b].step = "rename" /\ NextOutput(burst'[b]) = NextOutput(burst[b])
          \/ cache'[NextOutput(burst[b])] # "none"

LEMMA MadeNat ==
    ASSUME TypeOK, NEW b \in Requests
    PROVE  Made(burst[b]) \in Nat
BY BurstAssumption DEF TypeOK, BurstTypes, Made

LEMMA SameAdvances ==
    ASSUME TypeOK, NEW b \in Requests,
           /\ burst'[b].pc = burst[b].pc /\ burst'[b].at = burst[b].at
           /\ burst'[b].opened = burst[b].opened /\ burst'[b].promoted = burst[b].promoted
           /\ burst'[b].step = burst[b].step
    PROVE  Advances(b)
BY MadeNat DEF Advances, Made, NextOutput

LEMMA RequestAdvances ==
    ASSUME Inv, NEW r \in Requests, Arrive(r) \/ ClientLeaves(r) \/ RequestStep(r),
           NEW b \in Requests
    PROVE  Advances(b)
<1>1. burst \in [Requests -> BurstTypes] /\ TypeOK
  BY DEF Inv, TypeOK
<1>2. CASE UNCHANGED burst
  BY <1>1, <1>2, SameAdvances
<1>3. ASSUME NEW c, NEW w, burst' = [burst EXCEPT ![c].waiters = w]
      PROVE  Advances(b)
  BY <1>1, <1>3, SameAdvances DEF BurstTypes
<1>4. CASE startVirtualArchiveBurst(r)
  <2>1. burst[r] = NoBurst
    BY <1>4 DEF startVirtualArchiveBurst, Inv, RequestShape, BurstShape, Shape
  <2>2. burst'[r].pc = "starting" /\ burst'[r].promoted = 0
    BY <1>1, <1>4, <2>1 DEF startVirtualArchiveBurst, NoBurst
  <2>3. Advances(r)
    BY <2>1, <2>2 DEF Advances, Made, NoBurst
  <2>4. b # r => burst'[b] = burst[b]
    BY <1>1, <1>4 DEF startVirtualArchiveBurst
  <2>5. QED
    BY <1>1, <2>3, <2>4, SameAdvances
<1>5. CASE JoinBurst(r)
  <2>1. PICK c : burst' = [burst EXCEPT ![c].waiters = @ \cup {request[r].at}]
    BY <1>5 DEF JoinBurst
  <2>2. QED
    BY <1>3, <2>1
<1>6. CASE ClientLeaves(r)
  <2>1. Weaker(burst[b], burst'[b], request[r].at)
    BY <1>1, <1>6, LeavingWeakens
  <2>2. QED
    BY <1>1, <2>1, SameAdvances DEF Weaker
<1>7. CASE \E pc : Settle(r, pc)
  BY <1>3, <1>7 DEF Settle
<1>8. QED
  BY <1>2, <1>4, <1>5, <1>6, <1>7
  DEF Arrive, RequestStep, FirstStat, TooManyBursts, PollFile, BurstFailed, WaitedTooLong,
      PollResolved, LastPoll, serveFile


LEMMA BurstAdvances ==
    ASSUME Inv, NEW b \in Requests,
           \/ BurstStep(b) \/ FfmpegOpensPart(b) \/ FfmpegExits(b) \/ FfmpegKilled(b),
           NEW c \in Requests
    PROVE  Advances(c)
<1>1. /\ burst \in [Requests -> BurstTypes] /\ TypeOK /\ burst[b] \in BurstTypes
      /\ Shape(burst[b]) /\ burst[b].promoted \in Nat
  BY BurstAssumption DEF Inv, TypeOK, BurstShape, BurstTypes
<1>2. c # b => burst'[c] = burst[c]
  BY <1>1 DEF BurstStep, startGroupedPlayback, StartFails, JobEnds, CheckPart, ClearOutput, RenamePart,
     Promoted, BurstEnds, FfmpegOpensPart, FfmpegExits, FfmpegKilled
<1>3. SUFFICES Advances(b)
  BY <1>1, <1>2, SameAdvances
<1>4. ASSUME /\ burst[b].pc # "resolved" /\ burst'[b].pc # "resolved"
             /\ burst'[b].at = burst[b].at /\ burst'[b].promoted = burst[b].promoted
             /\ burst[b].step = "rename" => burst'[b].step = "rename"
      PROVE  Advances(b)
  BY <1>1, <1>4 DEF Advances, Made, NextOutput
<1>5. CASE startGroupedPlayback(b)
  BY <1>1, <1>4, <1>5 DEF startGroupedPlayback, BurstTypes
<1>6. CASE FfmpegOpensPart(b) \/ FfmpegExits(b) \/ FfmpegKilled(b)
  BY <1>1, <1>4, <1>6 DEF FfmpegOpensPart, FfmpegExits, FfmpegKilled, Writing, BurstTypes
<1>7. ASSUME burst[b].pc = "producing", Promoted(b), cache'[NextOutput(burst[b])] # "none"
      PROVE  Advances(b)
  <2>1. burst'[b].promoted = burst[b].promoted + 1 /\ burst'[b].pc = "producing"
        /\ burst'[b].at = burst[b].at
    BY <1>1, <1>7 DEF Promoted, BurstTypes
  <2>2. QED
    BY <1>1, <1>7, <2>1 DEF Advances, Made, NextOutput
<1>8. CASE CheckPart(b)
  <2>1. CASE freshVirtualSegment(NextOutput(burst[b]))
    BY <1>7, <1>8, <2>1 DEF CheckPart, freshVirtualSegment
  <2>2. CASE ~freshVirtualSegment(NextOutput(burst[b]))
    BY <1>1, <1>4, <1>8, <2>2 DEF CheckPart, BurstTypes
  <2>3. QED
    BY <2>1, <2>2
<1>9. burst[b].step # "check" => /\ burst[b].pc = "producing"
                                 /\ NextOutput(burst[b]) \in Outputs
  BY <1>1, PartsAreOutputs DEF Inv, Shape, PartToPromote, NextOutput
<1>10. CASE ClearOutput(b)
  BY <1>1, <1>4, <1>9, <1>10 DEF ClearOutput, BurstTypes
<1>11. CASE RenamePart(b)
  <2>1. PartKind(burst[b]) # "none"
    BY DEF PartKind
  <2>2. cache'[NextOutput(burst[b])] = PartKind(burst[b])
    BY <1>9, <1>11 DEF RenamePart, Inv, TypeOK
  <2>3. QED
    BY <1>7, <1>9, <1>11, <2>1, <2>2 DEF RenamePart
<1>12. ASSUME NEW pc, JobEnds(b, pc), burst[b].step = "check", burst[b].pc # "resolved",
              pc = "resolved" => burst[b].promoted = burst[b].opened
       PROVE  Advances(b)
  <2>1. /\ burst'[b].pc = pc /\ burst'[b].at = burst[b].at
        /\ burst'[b].opened = burst[b].opened /\ burst'[b].promoted = 0
    BY <1>1, <1>12 DEF JobEnds, NoBurst
  <2>2. Made(burst'[b]) <= Made(burst[b])
    BY <1>1, <1>12, <2>1 DEF Made
  <2>3. QED
    BY <1>12, <2>1, <2>2 DEF Advances
<1>13. CASE StartFails(b)
  BY <1>1, <1>12, <1>13 DEF StartFails, Shape
<1>14. CASE BurstEnds(b)
  <2>1. burst[b].step = "check"
    BY <1>1, <1>14 DEF BurstEnds, Shape, PartToPromote
  <2>2. QED
    BY <1>12, <1>14, <2>1 DEF BurstEnds
<1>15. QED
  BY <1>5, <1>6, <1>8, <1>10, <1>11, <1>13, <1>14 DEF BurstStep

LEMMA AllAdvance ==
    ASSUME Inv, [Next]_vars, NEW b \in Requests
    PROVE  Advances(b)
<1>1. CASE UNCHANGED vars
  BY <1>1, SameAdvances DEF Inv, vars, state
<1>2. QED
  BY <1>1, RequestAdvances, BurstAdvances DEF Next

\* A file is taken away only to be replaced.
LEMMA FilesStay ==
    ASSUME Inv, [Next]_vars, NEW o, cache[o] # "none"
    PROVE  Present(o)'
<1>1. CASE UNCHANGED cache
  BY <1>1 DEF Present
<1>2. ASSUME NEW b \in Requests, ClearOutput(b)
      PROVE  Present(o)'
  <2>1. burst'[b].step = "rename" /\ NextOutput(burst'[b]) = NextOutput(burst[b])
    BY <1>2 DEF ClearOutput, Inv, TypeOK, BurstTypes, NextOutput
  <2>2. CASE o = NextOutput(burst[b])
    BY <2>1, <2>2 DEF Present, BeingReplaced
  <2>3. CASE o # NextOutput(burst[b])
    BY <1>2, <2>3 DEF ClearOutput, Inv, TypeOK, Present
  <2>4. QED
    BY <2>2, <2>3
<1>3. ASSUME NEW b \in Requests, RenamePart(b)
      PROVE  Present(o)'
  <2>1. PartKind(burst[b]) # "none"
    BY DEF PartKind
  <2>2. cache'[o] # "none"
    BY <1>3, <2>1 DEF RenamePart, Inv, TypeOK
  <2>3. QED
    BY <2>2 DEF Present
<1>4. QED
  BY <1>1, <1>2, <1>3
  DEF Next, vars, state, Arrive, ClientLeaves, RequestStep, FirstStat, JoinBurst,
      startVirtualArchiveBurst, TooManyBursts, PollFile, BurstFailed, WaitedTooLong,
      PollResolved, LastPoll, serveFile, BurstStep, startGroupedPlayback, StartFails,
      JobEnds, CheckPart, BurstEnds, FfmpegOpensPart, FfmpegExits, FfmpegKilled

LEMMA PresentStays ==
    ASSUME Inv, [Next]_vars, NEW o, Present(o)
    PROVE  Present(o)'
<1>1. CASE cache[o] # "none"
  BY <1>1, FilesStay
<1>2. CASE BeingReplaced(o)
  <2>1. PICK b \in Requests : burst[b].step = "rename" /\ NextOutput(burst[b]) = o
    BY <1>2 DEF BeingReplaced
  <2>2. Advances(b)
    BY AllAdvance
  <2>3. QED
    BY <2>1, <2>2 DEF Advances, Present, BeingReplaced
<1>3. QED
  BY <1>1, <1>2 DEF Present

\* What one step makes of a request: it is served what is there, waits for a burst that
\* contains its segment, and looks for the last time when that has ended well.
Moves(r) ==
    /\ request'[r].pc = "serve" =>
          /\ request'[r].at = request[r].at
          /\ request[r].pc = "serve" \/ cache[request[r].at] # "none"
    /\ request'[r].pc \in Waiting =>
          \/ /\ request[r].pc \in Waiting
             /\ request'[r].at = request[r].at /\ request'[r].burst = request[r].burst
             /\ request'[r].pc = "last" =>
                   request[r].pc = "last" \/ burst[request[r].burst].pc = "resolved"
          \/ /\ request'[r].pc = "wait" /\ request'[r].burst \in Requests
             /\ burst'[request'[r].burst].at <= request'[r].at

LEMMA SameMoves ==
    ASSUME NEW r,
           /\ request'[r].pc = request[r].pc /\ request'[r].at = request[r].at
           /\ request'[r].burst = request[r].burst
    PROVE  Moves(r)
BY DEF Moves

LEMMA RequestMoves ==
    ASSUME Inv, NEW q \in Requests, Arrive(q) \/ ClientLeaves(q) \/ RequestStep(q),
           NEW r \in Requests
    PROVE  Moves(r)
<1>1. request \in [Requests -> RequestTypes] /\ burst \in [Requests -> BurstTypes]
  BY DEF Inv, TypeOK
<1>2. ASSUME NEW pc \in Open \cup Closed, Go(q, pc),
             pc = "serve" => cache[request[q].at] # "none",
             pc \in Waiting => pc = "last" /\ request[q].pc \in Waiting /\ Job(q) = "resolved"
      PROVE  Moves(r)
  BY <1>1, <1>2, GoFacts, SameMoves DEF Moves, Job
<1>3. CASE Arrive(q)
  BY <1>1, <1>3, SameMoves DEF Arrive, Moves, RequestTypes, Waiting
<1>4. CASE ClientLeaves(q)
  BY <1>1, <1>4, SameMoves DEF ClientLeaves, RequestTypes
<1>5. CASE JoinBurst(q)
  <2>1. PICK b \in findVirtualArchiveBurst(burst, request[q].at) :
            /\ request' = [request EXCEPT ![q].pc = "wait", ![q].burst = b]
            /\ burst' = [burst EXCEPT ![b].waiters = @ \cup {request[q].at}]
    BY <1>5 DEF JoinBurst
  <2>2. b \in Requests /\ burst[b].at <= request[q].at
    BY FoundIsListed DEF burstContains
  <2>3. burst'[b].at = burst[b].at
    BY <1>1, <2>1, <2>2 DEF BurstTypes
  <2>4. /\ request'[q].pc = "wait" /\ request'[q].burst = b /\ request'[q].at = request[q].at
        /\ r # q => request'[r] = request[r]
    BY <1>1, <2>1 DEF RequestTypes
  <2>5. QED
    BY <2>2, <2>3, <2>4, SameMoves DEF Moves
<1>6. CASE startVirtualArchiveBurst(q)
  <2>1. /\ request'[q].pc = "wait" /\ request'[q].burst = q /\ request'[q].at = request[q].at
        /\ r # q => request'[r] = request[r]
    BY <1>1, <1>6 DEF startVirtualArchiveBurst, RequestTypes
  <2>2. burst'[q].at = request[q].at /\ request[q].at \in Nat
    BY <1>1, <1>6, StartsAreOutputs DEF startVirtualArchiveBurst, BurstTypes, Inv, RequestShape
  <2>3. QED
    BY <2>1, <2>2, SameMoves DEF Moves
<1>7. ASSUME NEW pc \in {"join", "refused", "404", "served"}, Go(q, pc)
      PROVE  Moves(r)
  BY <1>2, <1>7 DEF Open, Closed, Waiting
<1>8. ASSUME Go(q, "serve"), freshVirtualSegment(request[q].at)
      PROVE  Moves(r)
  BY <1>2, <1>8 DEF Open, Waiting, freshVirtualSegment
<1>9. CASE PollResolved(q)
  BY <1>2, <1>9 DEF PollResolved, Open, Waiting
<1>10. QED
  BY <1>3, <1>4, <1>5, <1>6, <1>7, <1>8, <1>9
  DEF RequestStep, FirstStat, TooManyBursts, PollFile, BurstFailed, WaitedTooLong, LastPoll,
      serveFile, Settle

LEMMA AllMove ==
    ASSUME Inv, [Next]_vars, NEW r \in Requests
    PROVE  Moves(r)
<1>1. CASE UNCHANGED vars
  BY <1>1, SameMoves DEF vars, state
<1>2. ASSUME NEW b \in Requests,
             \/ BurstStep(b) \/ FfmpegOpensPart(b) \/ FfmpegExits(b) \/ FfmpegKilled(b)
      PROVE  Moves(r)
  <2>1. request' = request
    BY <1>2 DEF BurstStep, startGroupedPlayback, StartFails, JobEnds, CheckPart, ClearOutput,
       RenamePart, BurstEnds, FfmpegOpensPart, FfmpegExits, FfmpegKilled
  <2>2. QED
    BY <2>1, SameMoves
<1>3. QED
  BY <1>1, <1>2, RequestMoves DEF Next

LEMMA FilesAreInductive == Inv /\ Files /\ [Next]_vars => Files'
<1> SUFFICES ASSUME Inv, Files, [Next]_vars
             PROVE  Files'
  OBVIOUS
<1>1. ASSUME NEW b \in Requests, NEW i \in Nat, i < Made(burst'[b])
      PROVE  Present(burst[b].at + i * SegLen)'
  <2>1. Advances(b) /\ Made(burst[b]) \in Nat /\ Shape(burst[b])
    BY AllAdvance, MadeNat DEF Inv, BurstShape
  <2>2. PICK m \in Nat : m = Made(burst[b])
    BY <2>1
  <2>3. PICK o : o = burst[b].at + i * SegLen
    OBVIOUS
  <2>4. Made(burst'[b]) \in Nat
    BY InvIsInductive, BurstAssumption DEF Inv, TypeOK, BurstTypes, Made
  <2>5. CASE i < m
    <3>1. burst[b].pc # "none"
      BY <2>1, <2>2, <2>5 DEF Shape, Made, NoBurst
    <3>2. o = burst'[b].at + i * SegLen
      BY <2>1, <2>3, <3>1 DEF Advances
    <3>3. Present(o)
      BY <2>2, <2>5, <2>3 DEF Files, PartsThere
    <3>4. Present(o)'
      BY <3>3, PresentStays
    <3>5. QED
      BY <3>2, <3>4 DEF Present, BeingReplaced
  <2>6. CASE ~(i < m)
    <3>1. /\ Made(burst'[b]) = m + 1 /\ burst[b].pc # "none"
          /\ cache'[NextOutput(burst[b])] # "none"
          /\ NextOutput(burst[b]) = burst[b].at + m * SegLen
      BY <1>1, <2>1, <2>2, <2>4, <2>6 DEF Advances
    <3>2. i = m
      BY <1>1, <2>6, <3>1
    <3>3. burst'[b].at = burst[b].at
      BY <2>1, <3>1 DEF Advances
    <3>4. QED
      BY <3>1, <3>2, <3>3 DEF Present
  <2>7. QED
    BY <2>5, <2>6
<1>2. ASSUME NEW r \in Requests, request'[r].pc = "serve"
      PROVE  Present(request[r].at)'
  <2>1. Moves(r)
    BY AllMove
  <2>2. PICK o : o = request[r].at
    OBVIOUS
  <2>3. Present(o)
    BY <1>2, <2>1, <2>2 DEF Moves, Files, ServedThere, Present
  <2>4. Present(o)'
    BY <2>3, PresentStays
  <2>5. request'[r].at = o
    BY <1>2, <2>1, <2>2 DEF Moves
  <2>6. QED
    BY <2>4, <2>5 DEF Present, BeingReplaced
<1>3. ASSUME NEW r \in Requests
      PROVE  WaitsAhead(r)'
  <2>1. Moves(r) /\ WaitsAhead(r)
    BY AllMove DEF Files
  <2>2. request[r].pc \in Waiting => /\ Advances(request[r].burst)
                                     /\ burst[request[r].burst].pc # "none"
    BY AllAdvance DEF Inv, RequestShape
  <2>3. QED
    BY <2>1, <2>2 DEF Moves, WaitsAhead, Advances, Waiting
<1>4. QED
  BY <1>1, <1>2, <1>3 DEF Files, PartsThere, ServedThere

\* A segment that the burst of a request has produced, for a request that comes no earlier
\* than the burst, is one of its parts.
LEMMA ProducedIsPart ==
    ASSUME Inv, Files, NEW r \in Requests, request[r].pc = "last",
           Produced(burst[request[r].burst], request[r].at)
    PROVE  Present(request[r].at)
<1>1. PICK b \in Requests : b = request[r].burst
  BY DEF Inv, RequestShape, Waiting
<1>2. PICK s \in Nat, a \in Nat : s = request[r].at /\ a = burst[b].at
  BY <1>1, StartsAreOutputs DEF Inv, RequestShape, BurstShape, Shape, Waiting
<1>3. a <= s /\ burst[b].pc = "resolved"
  BY <1>1, <1>2 DEF Files, WaitsAhead, Waiting
<1>4. PICK x \in Nat : x = s - a
  BY <1>3
<1>5. SegLen \in Nat \ {0} /\ x % SegLen = 0
  BY <1>1, <1>2, <1>4, BurstAssumption DEF Produced
<1>6. PICK i \in Nat : i = x \div SegLen /\ x = i * SegLen
  BY <1>5
<1>7. i < Made(burst[b])
  BY <1>1, <1>2, <1>3, <1>4, <1>6 DEF Produced, Made
<1>8. Present(burst[b].at + i * SegLen)
  BY <1>7 DEF Files, PartsThere
<1>9. burst[b].at + i * SegLen = s
  BY <1>2, <1>4, <1>6
<1>10. QED
  BY <1>2, <1>8, <1>9

\* A request of mediaRoutes.ts is told 404 only when its burst has ended without its segment or
\* the file is just being replaced: the last look of waitForBurstSegment misses no part
\* that was promoted after the look before it.
THEOREM NoSegmentMissed == Spec => MissingSegment
<1>1. ASSUME Inv, Files, [Next]_vars, NEW r \in Requests,
             request[r].pc # "404", request'[r].pc = "404"
      PROVE  \/ BeingReplaced(request[r].at)
             \/ request[r].pc = "last" /\ ~Produced(burst[request[r].burst], request[r].at)
  <2>1. \/ request[r].pc = "last" /\ ~freshVirtualSegment(request[r].at)
        \/ request[r].pc = "serve" /\ cache[request[r].at] = "none"
    <3>1. request \in [Requests -> RequestTypes] /\ request' # request
      BY <1>1 DEF Inv, TypeOK
    <3>2. PICK q \in Requests : Arrive(q) \/ ClientLeaves(q) \/ RequestStep(q)
      BY <1>1, <3>1 DEF Next, vars, state, BurstStep, startGroupedPlayback, StartFails, JobEnds,
         CheckPart, ClearOutput, RenamePart, BurstEnds, FfmpegOpensPart, FfmpegExits, FfmpegKilled
    <3>3. ASSUME NEW pc \in Open \cup Closed, Go(q, pc)
          PROVE  q = r /\ pc = "404"
      BY <1>1, <3>1, <3>3, GoFacts
    <3>4. ~(Arrive(q) \/ ClientLeaves(q) \/ JoinBurst(q) \/ startVirtualArchiveBurst(q))
      BY <1>1, <3>1 DEF Arrive, ClientLeaves, JoinBurst, startVirtualArchiveBurst, RequestTypes
    <3>5. ~(FirstStat(q) \/ TooManyBursts(q) \/ PollFile(q) \/ BurstFailed(q)
            \/ WaitedTooLong(q) \/ PollResolved(q))
      BY <3>3 DEF FirstStat, TooManyBursts, PollFile, BurstFailed, WaitedTooLong, PollResolved,
         Settle, Open, Closed, Waiting
    <3>6. CASE LastPoll(q)
      BY <3>3, <3>6 DEF LastPoll, Settle, Open, Closed
    <3>7. CASE serveFile(q)
      BY <3>3, <3>7 DEF serveFile, Open, Closed
    <3>8. QED
      BY <3>2, <3>4, <3>5, <3>6, <3>7 DEF RequestStep
  <2>2. CASE request[r].pc = "last"
    BY <1>1, <2>1, <2>2, ProducedIsPart DEF Present, freshVirtualSegment
  <2>3. CASE request[r].pc = "serve"
    BY <1>1, <2>1, <2>3 DEF Files, ServedThere, Present
  <2>4. QED
    BY <2>1, <2>2, <2>3
<1>2. Inv /\ Files /\ [Next]_vars =>
          [\A r \in Requests :
              request[r].pc # "404" /\ request'[r].pc = "404"
              => \/ BeingReplaced(request[r].at)
                 \/ request[r].pc = "last" /\ ~Produced(burst[request[r].burst], request[r].at)]_vars
  BY <1>1
<1>3. QED
  BY <1>2, FilesInit, FilesAreInductive, InvHolds, PTL DEF Spec, MissingSegment
=============================================================================
