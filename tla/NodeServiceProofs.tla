-------------------------- MODULE NodeServiceProofs --------------------------
(***************************************************************************)
(* Theorems of NodeService, for any devices, configurations and callers:   *)
(* once all is quiet the file is what is in memory, and the recorders were *)
(* last told what is in memory.                                            *)
(***************************************************************************)
EXTENDS NodeService, Integers, FiniteSetTheorems, SequenceTheorems, WellFoundedInduction, TLAPS

-----------------------------------------------------------------------------
(* The inductive invariant.                                                *)

SnapMaps == [Devices -> Snapshots \cup {Nil}]
EntryTypes == [dev : Devices, config : Configs \cup {Nil}]
RecorderTypes == [config : Configs, channels : Configs]

Points == {"idle", "discovering", "saving", "saved", "recording", "loading", "reporting"}

CallTypes ==
    [op : {Nil, "start", "syncAll", "config", "command"}, at : Points,
     then : {Nil, "sync", "record", "try", "throw"},
     dev : Devices \cup {Nil}, under : Configs \cup {Nil},
     list : Seq(EntryTypes), pos : Nat, changed : SUBSET Devices,
     wanted : [Devices -> Configs \cup {Nil}], content : SnapMaps]

TypeOK ==
    /\ snapshots \in SnapMaps /\ file \in SnapMaps
    /\ order \in Seq(Devices)
    /\ calls \in [Callers -> CallTypes]
    /\ newest \in Callers \cup {"file", Nil}
    /\ recorders \in [Devices -> RecorderTypes \cup {Nil}]
    /\ rejected \in BOOLEAN
    /\ assigned \in [Devices -> Configs \cup {Nil}]

\* A call that may write to the snapshot object of its device has one of the state, and
\* so has an entry of the array it runs over that is not of an object that left.
Sound(c, snap) ==
    /\ c.dev # Nil /\ c.then # "sync" => snap[c.dev] # Nil
    /\ c.then = "sync" => c.dev # Nil
    /\ c.at = "discovering" => c.then = Nil
    /\ c.pos = 0 => c.list = <<>>
    /\ \A i \in DOMAIN c.list : c.list[i].config = Nil => snap[c.list[i].dev] # Nil

Objects ==
    /\ \A i \in DOMAIN order : snapshots[order[i]] # Nil
    /\ \A p \in Callers : Sound(calls[p], snapshots)

\* What is in memory is in the file, or in the save that was begun last.
FileInv ==
    /\ newest = "file" => file = snapshots
    /\ newest \in Callers => /\ calls[newest].at = "saving"
                             /\ calls[newest].content = snapshots

\* Before initialize() is through nobody else has anything under way, and it runs over
\* the devices of the file.
Working == {"discovering", "saving", "saved", "recording"}
Begun(c) == c.at \in Working /\ c.then # "sync" /\ c.list = <<>> /\ c.pos > 0
StartInv ==
    /\ \A p \in Callers : calls[p].op = "start" => p = "agent"
    /\ Starting => /\ Begun(calls["agent"])
                   /\ \A p \in Callers \ {"agent"} : calls[p].at = "idle"
                   /\ order = Sorted(Known(snapshots))

\* A call that will tell the recorder manager whatever is in memory then.
WillRecord(c) == c.at \in {"saving", "saved"} /\ c.then \in {"record", "try"}

\* A call that will synchronise d, which then fails, or ends like those.
WillSyncIn(c, d, snap, arr) ==
    /\ snap[d] # Nil
    /\ \/ c.at \in {"saving", "saved"} /\ c.then = "sync" /\ c.dev = d
       \/ c.at = "discovering" /\ c.dev = d /\ IsEnabled(snap[d])
       \/ /\ c.op = "start" /\ IsEnabled(snap[d])
          /\ \E i \in DOMAIN arr : i > c.pos /\ arr[i] = d
WillSync(c, d) == WillSyncIn(c, d, snapshots, order)

Told(d) == recorders[d] = Recorded(snapshots)[d]
LastFailed(d) == snapshots[d] # Nil /\ IsEnabled(snapshots[d]) /\ snapshots[d].error

RecordersInv ==
    ~rejected => \A d \in Devices :
        \/ Told(d)
        \/ LastFailed(d)
        \/ \E p \in Callers : WillRecord(calls[p]) \/ WillSync(calls[p], d)

IInv == TypeOK /\ Objects /\ FileInv /\ StartInv /\ RecordersInv

-----------------------------------------------------------------------------
(* Numbers and sorted sequences.                                           *)

\* A set of numbers has a least one.
LEMMA LeastNat ==
    ASSUME NEW T \in SUBSET Nat, T # {}
    PROVE  \E n \in T : \A m \in T : n <= m
<1> DEFINE Less == {ss \in Nat \X Nat : ss[1] < ss[2]}
<1>1. PICK R : R = Less
  OBVIOUS
<1>2. IsWellFoundedOn(R, Nat)
  BY <1>1, NatLessThanWellFounded DEF OpToRel
<1>3. \A m, n \in Nat : m < n => <<m, n>> \in R
  BY <1>1
<1>4. PICK n \in T : \A m \in T : ~(<<m, n>> \in R)
  BY <1>2, WFMin
<1>5. ASSUME NEW m \in T
      PROVE  n <= m
  <2>1. m \in Nat /\ n \in Nat /\ ~(<<m, n>> \in R)
    BY <1>4
  <2>2. ~(m < n)
    BY <1>3, <2>1
  <2>3. QED
    BY <2>1, <2>2
<1>6. QED
  BY <1>5

LEMMA MinLeast ==
    ASSUME NEW T \in SUBSET Nat, T # {}
    PROVE  Min(T) \in T /\ \A m \in T : Min(T) <= m
<1>1. \E n \in T : \A m \in T : n <= m
  BY LeastNat
<1>2. QED
  BY <1>1 DEF Min

\* The ranks of the devices order every finite set of them.
Ranked(s) == \A i, j \in DOMAIN s : i < j => Rank[s[i]] < Rank[s[j]]

LEMMA SortsExist ==
    ASSUME ServiceAssumption, NEW S \in SUBSET Devices
    PROVE  \E s \in SetToSeqs(S) : Ranked(s)
<1> DEFINE Bad == {n \in Nat : \E T \in SUBSET Devices :
                      Cardinality(T) = n /\ ~\E s \in SetToSeqs(T) : Ranked(s)}
<1>1. ASSUME NEW T \in SUBSET Devices
      PROVE  IsFiniteSet(T) /\ Cardinality(T) \in Nat
  BY FS_Subset, FS_CardinalityType DEF ServiceAssumption
<1>2. SUFFICES ASSUME Bad # {}
               PROVE  FALSE
  BY <1>1
<1>3. PICK n \in Bad : \A m \in Bad : n <= m
  <2> HIDE DEF Bad
  <2>1. Bad \in SUBSET Nat
    BY DEF Bad
  <2>2. QED
    BY <1>2, <2>1, LeastNat
<1>4. PICK T \in SUBSET Devices : Cardinality(T) = n /\ ~\E s \in SetToSeqs(T) : Ranked(s)
  OBVIOUS
<1>5. T # {}
  <2>1. SUFFICES ASSUME T = {}
                 PROVE  FALSE
    OBVIOUS
  <2>2. Cardinality(T) = 0
    BY <2>1, FS_EmptySet
  <2>3. \A s \in [1..0 -> T] : s \in SetToSeqs(T) /\ Ranked(s)
    BY <2>2 DEF SetToSeqs, Ranked
  <2>4. [i \in 1..0 |-> i] \in [1..0 -> T]
    OBVIOUS
  <2>5. QED
    BY <1>4, <2>3, <2>4
<1>6. PICK e \in T : \A f \in T : Rank[e] <= Rank[f]
  <2>1. {Rank[f] : f \in T} \in SUBSET Nat /\ {Rank[f] : f \in T} # {}
    BY <1>5 DEF ServiceAssumption
  <2>2. PICK r \in {Rank[f] : f \in T} : \A k \in {Rank[f] : f \in T} : r <= k
    BY <2>1, LeastNat
  <2>3. QED
    BY <2>2
<1>7. n \in Nat \ {0} /\ Cardinality(T \ {e}) = n - 1
  BY <1>1, <1>4, <1>5, FS_RemoveElement, FS_EmptySet
<1>8. PICK s \in SetToSeqs(T \ {e}) : Ranked(s)
  <2>1. n - 1 \notin Bad
    BY <1>3, <1>7
  <2>2. T \ {e} \in SUBSET Devices /\ n - 1 \in Nat
    BY <1>7
  <2>3. QED
    BY <1>7, <2>1, <2>2
<1> HIDE DEF Bad
<1>9. s \in [1..(n - 1) -> T \ {e}] /\ \A i, j \in 1..(n - 1) : i # j => s[i] # s[j]
  BY <1>7, <1>8 DEF SetToSeqs
<1> DEFINE t == [i \in 1..n |-> IF i = 1 THEN e ELSE s[i - 1]]
<1>10. \A i \in 1..n : i # 1 => i - 1 \in 1..(n - 1) /\ t[i] = s[i - 1] /\ t[i] \in T \ {e}
  BY <1>7, <1>9
<1>11. t[1] = e /\ t \in [1..n -> T]
  BY <1>7, <1>10
<1>12. \A i, j \in 1..n : i # j => t[i] # t[j]
  BY <1>7, <1>9, <1>10, <1>11
<1>13. t \in SetToSeqs(T)
  BY <1>4, <1>11, <1>12 DEF SetToSeqs
<1>14. ASSUME NEW i \in 1..n, NEW j \in 1..n, i < j
       PROVE  Rank[t[i]] < Rank[t[j]]
  <2>1. j # 1 /\ t[j] \in T \ {e} /\ t[j] = s[j - 1] /\ j - 1 \in 1..(n - 1)
    BY <1>7, <1>10, <1>14
  <2>2. CASE i = 1
    <3>1. Rank[e] <= Rank[t[j]] /\ e # t[j] /\ Rank[e] \in Nat /\ Rank[t[j]] \in Nat
      BY <1>6, <2>1 DEF ServiceAssumption
    <3>2. Rank[e] # Rank[t[j]]
      BY <2>1, <3>1 DEF ServiceAssumption
    <3>3. QED
      BY <1>11, <2>2, <3>1, <3>2
  <2>3. CASE i # 1
    <3>1. i - 1 \in 1..(n - 1) /\ t[i] = s[i - 1] /\ i - 1 < j - 1
      BY <1>7, <1>10, <1>14, <2>3
    <3>2. Rank[s[i - 1]] < Rank[s[j - 1]]
      BY <1>8, <1>9, <2>1, <3>1 DEF Ranked
    <3>3. QED
      BY <2>1, <3>1, <3>2
  <2>4. QED
    BY <2>2, <2>3
<1>15. Ranked(t)
  BY <1>11, <1>14 DEF Ranked
<1>16. QED
  BY <1>4, <1>13, <1>15

\* A sequence of the elements of a set has them all, and nothing else.
LEMMA EnumerationFacts ==
    ASSUME ServiceAssumption, NEW S \in SUBSET Devices, NEW s \in SetToSeqs(S)
    PROVE  /\ s \in Seq(Devices)
           /\ \A i \in DOMAIN s : s[i] \in S
           /\ \A d \in S : \E i \in DOMAIN s : s[i] = d
<1>1. PICK n \in Nat : n = Cardinality(S) /\ IsFiniteSet(S)
  BY FS_Subset, FS_CardinalityType DEF ServiceAssumption
<1>2. s \in [1..n -> S] /\ \A i, j \in 1..n : i # j => s[i] # s[j]
  BY <1>1 DEF SetToSeqs
<1>3. s \in [1..n -> Devices]
  BY <1>2
<1>4. s \in Seq(Devices)
  BY <1>1, <1>3
<1>5. s \in Injection(1..n, S)
  BY <1>2 DEF Injection, IsInjective
<1>6. IsFiniteSet(1..n) /\ Cardinality(1..n) = n
  BY <1>1, FS_Interval
<1>7. s \in Surjection(1..n, S)
  BY <1>1, <1>5, <1>6, FS_Injection
<1>8. QED
  BY <1>2, <1>4, <1>7 DEF Surjection

LEMMA SortedFacts ==
    ASSUME ServiceAssumption, NEW S \in SUBSET Devices
    PROVE  /\ Sorted(S) \in Seq(Devices)
           /\ \A i \in DOMAIN Sorted(S) : Sorted(S)[i] \in S
           /\ \A d \in S : \E i \in DOMAIN Sorted(S) : Sorted(S)[i] = d
<1>1. \E s \in SetToSeqs(S) : \A i, j \in DOMAIN s : i < j => Rank[s[i]] < Rank[s[j]]
  BY SortsExist DEF Ranked
<1>2. Sorted(S) \in SetToSeqs(S)
  BY <1>1 DEF Sorted
<1>3. QED
  BY <1>2, EnumerationFacts

-----------------------------------------------------------------------------
(* What a call becomes.                                                    *)

Thens == {Nil, "sync", "record", "try", "throw"}

LEMMA NilIsNoName ==
    ASSUME ServiceAssumption
    PROVE  /\ Nil # "agent" /\ Nil # "file" /\ Nil # "start" /\ Nil # "syncAll" /\ Nil # "config"
           /\ Nil # "command" /\ Nil # "sync" /\ Nil # "record" /\ Nil # "try" /\ Nil # "throw"
           /\ Nil \notin Devices /\ Nil \notin Configs /\ Nil \notin Callers /\ Nil \notin Snapshots
           /\ "file" \notin Callers /\ "agent" \notin Requests /\ "agent" \notin Ticks
BY DEF ServiceAssumption, Names, Callers

LEMMA IdleFields ==
    ASSUME ServiceAssumption
    PROVE  /\ Idle \in CallTypes /\ Idle.at = "idle" /\ Idle.op = Nil /\ Idle.then = Nil
           /\ Idle.dev = Nil /\ Idle.list = <<>> /\ Idle.pos = 0
           /\ Idle.content \in SnapMaps
<1>1. <<>> \in Seq(EntryTypes)
  BY EmptySeq
<1>2. [d \in Devices |-> Nil] \in SnapMaps /\ [d \in Devices |-> Nil] \in [Devices -> Configs \cup {Nil}]
  BY DEF SnapMaps
<1>3. QED
  BY <1>1, <1>2 DEF Idle, CallTypes, Points

LEMMA CallFields ==
    ASSUME NEW c \in CallTypes
    PROVE  /\ c.op \in {Nil, "start", "syncAll", "config", "command"} /\ c.at \in Points
           /\ c.then \in Thens /\ c.dev \in Devices \cup {Nil} /\ c.under \in Configs \cup {Nil}
           /\ c.list \in Seq(EntryTypes) /\ c.pos \in Nat /\ c.changed \in SUBSET Devices
           /\ c.wanted \in [Devices -> Configs \cup {Nil}] /\ c.content \in SnapMaps
BY DEF CallTypes, Thens

LEMMA ReportingFields ==
    ASSUME ServiceAssumption
    PROVE  /\ Reporting \in CallTypes /\ Reporting.at = "reporting" /\ Reporting.op = "config"
           /\ Reporting.then = Nil /\ Reporting.dev = Nil /\ Reporting.list = <<>> /\ Reporting.pos = 0
<1>1. Idle \in CallTypes /\ Idle.at = "idle" /\ Idle.op = Nil /\ Idle.then = Nil
      /\ Idle.dev = Nil /\ Idle.list = <<>> /\ Idle.pos = 0
  BY IdleFields
<1>2. QED
  BY <1>1 DEF Reporting, CallTypes, Points

LEMMA SavingFields ==
    ASSUME NEW c \in CallTypes, NEW then \in Thens
    PROVE  /\ Saving(c, then) \in CallTypes /\ Saving(c, then).at = "saving"
           /\ Saving(c, then).then = then /\ Saving(c, then).op = c.op
           /\ Saving(c, then).dev = IF then \in {"sync", "try"} THEN c.dev ELSE Nil
           /\ Saving(c, then).list = c.list /\ Saving(c, then).pos = c.pos
<1> DEFINE dev == IF then \in {"sync", "try"} THEN c.dev ELSE Nil
           new == [c EXCEPT !.at = "saving", !.then = then, !.under = Nil, !.dev = dev]
<1>1. dev \in Devices \cup {Nil}
  BY CallFields
<1>2. Saving(c, then) = new
  BY Zenon DEF Saving
<1> HIDE DEF dev
<1>3. new \in CallTypes
  BY <1>1 DEF CallTypes, Points, Thens
<1>4. /\ new.at = "saving" /\ new.then = then /\ new.op = c.op /\ new.dev = dev
      /\ new.list = c.list /\ new.pos = c.pos
  BY DEF CallTypes
<1> HIDE DEF new
<1>5. QED
  BY <1>2, <1>3, <1>4 DEF dev

LEMMA RecordingFields ==
    ASSUME NEW c \in CallTypes
    PROVE  /\ Recording(c) \in CallTypes /\ Recording(c).at = "recording"
           /\ Recording(c).then = c.then /\ Recording(c).op = c.op /\ Recording(c).dev = c.dev
           /\ Recording(c).list = c.list /\ Recording(c).pos = c.pos
BY DEF Recording, CallTypes, Points

LEMMA DiscoveringFields ==
    ASSUME NEW c \in CallTypes, NEW d \in Devices, NEW snap \in SnapMaps, snap[d] # Nil
    PROVE  /\ Discovering(c, d, snap) \in CallTypes /\ Discovering(c, d, snap).at = "discovering"
           /\ Discovering(c, d, snap).then = Nil /\ Discovering(c, d, snap).op = c.op
           /\ Discovering(c, d, snap).dev = d /\ Discovering(c, d, snap).list = c.list
           /\ Discovering(c, d, snap).pos = c.pos
<1>1. snap[d].config \in Configs
  BY DEF SnapMaps, Snapshots
<1>2. QED
  BY <1>1 DEF Discovering, CallTypes, Points

LEMMA PosFields ==
    ASSUME NEW c \in CallTypes, NEW n \in Nat
    PROVE  /\ [c EXCEPT !.pos = n] \in CallTypes /\ [c EXCEPT !.pos = n].at = c.at
           /\ [c EXCEPT !.pos = n].then = c.then /\ [c EXCEPT !.pos = n].op = c.op
           /\ [c EXCEPT !.pos = n].dev = c.dev /\ [c EXCEPT !.pos = n].list = c.list
           /\ [c EXCEPT !.pos = n].pos = n
BY DEF CallTypes

LEMMA ContentFields ==
    ASSUME NEW c \in CallTypes, NEW snap \in SnapMaps
    PROVE  /\ [c EXCEPT !.content = snap] \in CallTypes /\ [c EXCEPT !.content = snap].at = c.at
           /\ [c EXCEPT !.content = snap].then = c.then /\ [c EXCEPT !.content = snap].op = c.op
           /\ [c EXCEPT !.content = snap].dev = c.dev /\ [c EXCEPT !.content = snap].list = c.list
           /\ [c EXCEPT !.content = snap].pos = c.pos /\ [c EXCEPT !.content = snap].content = snap
BY DEF CallTypes

-----------------------------------------------------------------------------
(* The end of a stretch of code.                                           *)

\* Another call whose loop or device may be of objects that left.
Onward(c, gone) ==
    [c EXCEPT !.dev = IF @ \in gone /\ c.then # "sync" THEN Nil ELSE @,
              !.list = IF gone = {} \/ c.pos = 0 THEN @
                       ELSE Left(IF @ = <<>> THEN Entries(order) ELSE @, gone)]

LEMMA SettleSays ==
    ASSUME NEW p \in Callers, NEW c, NEW snap, NEW arr, NEW gone,
           Settle(p, c, snap, arr, gone)
    PROVE  /\ snapshots' = snap
           /\ order' = IF c.at = "saving" THEN Sorted(Known(snap)) ELSE arr
           /\ calls' = [q \in Callers |->
                IF q = p THEN [c EXCEPT !.content = IF c.at = "saving" THEN snap ELSE Idle.content]
                ELSE Onward(calls[q], gone)]
           /\ newest' = IF c.at = "saving" THEN p ELSE IF newest = p THEN Nil ELSE newest
           /\ recorders' = IF c.at = "recording" THEN Recorded(snap) ELSE recorders
BY Zenon DEF Settle, Onward

LEMMA EntriesTypes ==
    ASSUME ServiceAssumption, TypeOK
    PROVE  /\ Entries(order) \in Seq(EntryTypes)
           /\ DOMAIN Entries(order) = DOMAIN order
           /\ \A i \in DOMAIN order : Entries(order)[i].dev = order[i] /\ Entries(order)[i].config = Nil
<1> DEFINE n == Len(order)
<1>1. n \in Nat /\ DOMAIN order = 1..n /\ \A i \in 1..n : order[i] \in Devices
  BY LenProperties DEF TypeOK
<1> HIDE DEF n
<1>2. Entries(order) \in [1..n -> EntryTypes]
  BY <1>1 DEF Entries, EntryTypes
<1>3. QED
  BY <1>1, <1>2 DEF Entries

\* Entries of the state, or of objects that left it.
LEMMA LeftTypes ==
    ASSUME ServiceAssumption, TypeOK, NEW list \in Seq(EntryTypes), NEW gone \in SUBSET Devices,
           \A i \in DOMAIN list : list[i].config = Nil => snapshots[list[i].dev] # Nil
    PROVE  /\ Left(list, gone) \in Seq(EntryTypes)
           /\ DOMAIN Left(list, gone) = DOMAIN list
           /\ \A i \in DOMAIN list : /\ Left(list, gone)[i].dev = list[i].dev
                                     /\ Left(list, gone)[i].config = Nil =>
                                          list[i].config = Nil /\ list[i].dev \notin gone
<1> DEFINE n == Len(list)
<1>1. n \in Nat /\ DOMAIN list = 1..n /\ \A i \in 1..n : list[i] \in EntryTypes
  BY LenProperties
<1> HIDE DEF n
<1>2. ASSUME NEW i \in 1..n
      PROVE  /\ Left(list, gone)[i] \in EntryTypes
             /\ Left(list, gone)[i].dev = list[i].dev
             /\ Left(list, gone)[i].config = Nil => list[i].config = Nil /\ list[i].dev \notin gone
  <2>1. list[i] \in EntryTypes /\ list[i].dev \in Devices
    BY <1>1 DEF EntryTypes
  <2>2. CASE list[i].config = Nil /\ list[i].dev \in gone
    <3>1. snapshots[list[i].dev].config \in Configs
      BY <1>1, <2>1, <2>2 DEF TypeOK, SnapMaps, Snapshots
    <3>2. Left(list, gone)[i] = [list[i] EXCEPT !.config = snapshots[list[i].dev].config]
      BY <1>1, <2>2 DEF Left
    <3>3. QED
      BY <2>1, <3>1, <3>2, NilIsNoName DEF EntryTypes
  <2>3. CASE ~(list[i].config = Nil /\ list[i].dev \in gone)
    <3>1. Left(list, gone)[i] = list[i]
      BY <1>1, <2>3 DEF Left
    <3>2. QED
      BY <2>1, <2>3, <3>1
  <2>4. QED
    BY <2>2, <2>3
<1>3. Left(list, gone) \in [1..n -> EntryTypes]
  BY <1>1, <1>2 DEF Left
<1>4. QED
  BY <1>1, <1>2, <1>3 DEF Left

\* What is left of another call.
LEMMA OnwardFields ==
    ASSUME ServiceAssumption, TypeOK, Objects, NEW c \in CallTypes, Sound(c, snapshots),
           NEW gone \in SUBSET Devices
    PROVE  /\ Onward(c, gone) \in CallTypes
           /\ Onward(c, gone).at = c.at /\ Onward(c, gone).then = c.then
           /\ Onward(c, gone).op = c.op /\ Onward(c, gone).pos = c.pos
           /\ Onward(c, gone).content = c.content
           /\ Onward(c, gone).dev = IF c.dev \in gone /\ c.then # "sync" THEN Nil ELSE c.dev
           /\ gone = {} => Onward(c, gone).list = c.list
           /\ c.pos = 0 => Onward(c, gone).list = <<>>
           /\ \A i \in DOMAIN Onward(c, gone).list :
                Onward(c, gone).list[i].config = Nil =>
                   /\ snapshots[Onward(c, gone).list[i].dev] # Nil
                   /\ Onward(c, gone).list[i].dev \in Devices \ gone
<1> DEFINE d == IF c.dev \in gone /\ c.then # "sync" THEN Nil ELSE c.dev
           base == IF c.list = <<>> THEN Entries(order) ELSE c.list
           list == IF gone = {} \/ c.pos = 0 THEN c.list ELSE Left(base, gone)
<1>1. Onward(c, gone) = [c EXCEPT !.dev = d, !.list = list]
  BY DEF Onward
<1>2. d \in Devices \cup {Nil} /\ c.list \in Seq(EntryTypes) /\ c.pos \in Nat
  BY CallFields
<1>3. base \in Seq(EntryTypes)
  BY <1>2, EntriesTypes
<1>4. \A i \in DOMAIN base : base[i].config = Nil => snapshots[base[i].dev] # Nil
  <2>1. CASE c.list = <<>>
    BY <2>1, EntriesTypes DEF Objects
  <2>2. CASE c.list # <<>>
    BY <2>2 DEF Sound
  <2>3. QED
    BY <2>1, <2>2
<1> HIDE DEF base
<1>5. /\ Left(base, gone) \in Seq(EntryTypes)
      /\ DOMAIN Left(base, gone) = DOMAIN base
      /\ \A i \in DOMAIN base : /\ Left(base, gone)[i].dev = base[i].dev
                                /\ Left(base, gone)[i].config = Nil =>
                                     base[i].config = Nil /\ base[i].dev \notin gone
  BY <1>3, <1>4, LeftTypes
<1>6. list \in Seq(EntryTypes)
  BY <1>2, <1>5
<1>7. \A l \in Seq(EntryTypes) : \A i \in DOMAIN l : l[i].dev \in Devices
  <2>1. ASSUME NEW l \in Seq(EntryTypes), NEW i \in DOMAIN l
        PROVE  l[i].dev \in Devices
    <3>1. l[i] \in EntryTypes
      BY <2>1, LenProperties, ElementOfSeq
    <3>2. QED
      BY <3>1 DEF EntryTypes
  <2>2. QED
    BY <2>1
<1>8. ASSUME NEW i \in DOMAIN list, list[i].config = Nil
      PROVE  snapshots[list[i].dev] # Nil /\ list[i].dev \in Devices \ gone
  <2>1. list[i].dev \in Devices
    BY <1>6, <1>7
  <2>2. CASE gone = {}
    BY <1>8, <2>1, <2>2 DEF Sound
  <2>3. CASE c.pos = 0
    BY <1>8, <2>3, EmptySeq DEF Sound
  <2>4. CASE ~(gone = {} \/ c.pos = 0)
    BY <1>4, <1>5, <1>8, <2>1, <2>4
  <2>5. QED
    BY <2>2, <2>3, <2>4
<1>9. (gone = {} => list = c.list) /\ (c.pos = 0 => list = <<>>)
  BY DEF Sound
<1> DEFINE r == [c EXCEPT !.dev = d, !.list = list]
<1>10. /\ r \in CallTypes /\ r.at = c.at /\ r.then = c.then /\ r.op = c.op /\ r.dev = d
       /\ r.list = list /\ r.pos = c.pos /\ r.content = c.content
  <2>1. PICK e \in Devices \cup {Nil} : e = d
    BY <1>2
  <2>2. PICK l \in Seq(EntryTypes) : l = list
    BY <1>6
  <2>3. r = [c EXCEPT !.dev = e, !.list = l]
    BY <2>1, <2>2
  <2> HIDE DEF d, list, r
  <2>4. QED
    BY <2>1, <2>2, <2>3 DEF CallTypes
<1>11. Onward(c, gone) = r
  BY <1>1
<1> HIDE DEF r, list
<1>12. QED
  BY <1>8, <1>9, <1>10, <1>11

\* What a stretch of code leaves: the call c of p, and snapshots snap in the array arr, of
\* which the objects of the devices gone are new or no more.
Leaves(c, snap, arr, gone) ==
    /\ c \in CallTypes /\ snap \in SnapMaps /\ arr \in Seq(Devices) /\ gone \in SUBSET Devices
    /\ Sound(c, snap)
    /\ c.at # "saving" => \A i \in DOMAIN arr : snap[arr[i]] # Nil
    /\ \A d \in Devices : snapshots[d] # Nil /\ snap[d] = Nil => d \in gone
    /\ c.at # "saving" => snap = snapshots

\* The stretch is one of initialize(), or of a call that may be made after it.
LeavesStart(p, c, snap, arr) ==
    /\ c.op = "start" => p = "agent"
    /\ p # "agent" => ~Starting
    /\ c.op = "start" => /\ Starting /\ Begun(c)
                         /\ Known(snap) = Known(snapshots) /\ arr = order

LEMMA CallSettled ==
    ASSUME ServiceAssumption, NEW p \in Callers, NEW c, NEW snap, NEW arr, NEW gone,
           Leaves(c, snap, arr, gone), Settle(p, c, snap, arr, gone)
    PROVE  /\ calls'[p] \in CallTypes
           /\ calls'[p].at = c.at /\ calls'[p].then = c.then /\ calls'[p].op = c.op
           /\ calls'[p].dev = c.dev /\ calls'[p].list = c.list /\ calls'[p].pos = c.pos
           /\ calls'[p].content = IF c.at = "saving" THEN snap ELSE Idle.content
<1>1. PICK r \in SnapMaps : r = IF c.at = "saving" THEN snap ELSE Idle.content
  BY IdleFields DEF Leaves
<1>2. calls'[p] = [c EXCEPT !.content = r]
  BY <1>1, SettleSays
<1>3. c \in CallTypes
  BY DEF Leaves
<1>4. QED
  BY <1>1, <1>2, <1>3 DEF CallTypes

LEMMA SettleTypes ==
    ASSUME ServiceAssumption, TypeOK, Objects, NEW p \in Callers, NEW c, NEW snap, NEW arr, NEW gone,
           Leaves(c, snap, arr, gone), Settle(p, c, snap, arr, gone),
           UNCHANGED file, rejected' \in BOOLEAN, assigned' \in [Devices -> Configs \cup {Nil}]
    PROVE  TypeOK' /\ Objects'
<1>1. /\ snapshots' = snap
      /\ order' = IF c.at = "saving" THEN Sorted(Known(snap)) ELSE arr
      /\ newest' = IF c.at = "saving" THEN p ELSE IF newest = p THEN Nil ELSE newest
      /\ recorders' = IF c.at = "recording" THEN Recorded(snap) ELSE recorders
      /\ \A q \in Callers \ {p} : calls'[q] = Onward(calls[q], gone)
      /\ calls' = [q \in Callers |-> calls'[q]]
  BY SettleSays
<1>2. /\ snap \in SnapMaps /\ arr \in Seq(Devices) /\ gone \in SUBSET Devices
      /\ c.at # "saving" => \A i \in DOMAIN arr : snap[arr[i]] # Nil
      /\ \A d \in Devices : snapshots[d] # Nil /\ snap[d] = Nil => d \in gone
  BY DEF Leaves
<1>3. Known(snap) \in SUBSET Devices /\ \A d \in Known(snap) : snap[d] # Nil
  BY DEF Known
<1>4. order' \in Seq(Devices) /\ \A i \in DOMAIN order' : snap[order'[i]] # Nil
  BY <1>1, <1>2, <1>3, SortedFacts
<1>5. Recorded(snap) \in [Devices -> RecorderTypes \cup {Nil}]
  <2>1. ASSUME NEW d \in Devices, snap[d] # Nil, snap[d].channels # Nil
        PROVE  [config |-> snap[d].config, channels |-> snap[d].channels] \in RecorderTypes
    BY <1>2, <2>1 DEF SnapMaps, Snapshots, RecorderTypes
  <2>2. QED
    BY <2>1 DEF Recorded
<1>6. ASSUME NEW q \in Callers
      PROVE  calls'[q] \in CallTypes /\ Sound(calls'[q], snap)
  <2>1. CASE q = p
    BY <2>1, CallSettled DEF Sound, Leaves
  <2>2. CASE q # p
    <3>1. calls[q] \in CallTypes /\ Sound(calls[q], snapshots) /\ calls'[q] = Onward(calls[q], gone)
      BY <1>1, <2>2 DEF TypeOK, Objects
    <3>2. PICK r : r = calls[q]
      OBVIOUS
    <3>3. PICK s : s = Onward(r, gone)
      OBVIOUS
    <3>4. /\ s \in CallTypes /\ s.at = r.at /\ s.then = r.then /\ s.pos = r.pos
          /\ s.dev = IF r.dev \in gone /\ r.then # "sync" THEN Nil ELSE r.dev
          /\ r.pos = 0 => s.list = <<>>
          /\ \A i \in DOMAIN s.list : s.list[i].config = Nil =>
               snapshots[s.list[i].dev] # Nil /\ s.list[i].dev \in Devices \ gone
      BY <1>2, <3>1, <3>2, <3>3, OnwardFields
    <3>5. /\ r.dev \in Devices \cup {Nil} /\ (r.dev # Nil /\ r.then # "sync" => snapshots[r.dev] # Nil)
          /\ (r.then = "sync" => r.dev # Nil) /\ (r.at = "discovering" => r.then = Nil)
      BY <3>1, <3>2, CallFields DEF Sound
    <3>6. Sound(s, snap)
      <4>1. s.dev # Nil /\ s.then # "sync" => snap[s.dev] # Nil
        BY <1>2, <3>4, <3>5
      <4>2. \A i \in DOMAIN s.list : s.list[i].config = Nil => snap[s.list[i].dev] # Nil
        BY <1>2, <3>4
      <4>3. QED
        BY <3>4, <3>5, <4>1, <4>2 DEF Sound
    <3>7. QED
      BY <3>1, <3>2, <3>3, <3>4, <3>6
  <2>3. QED
    BY <2>1, <2>2
<1>7. TypeOK'
  BY <1>1, <1>2, <1>4, <1>5, <1>6 DEF TypeOK
<1>8. QED
  BY <1>1, <1>4, <1>6, <1>7 DEF Objects

LEMMA SettleFile ==
    ASSUME ServiceAssumption, TypeOK, Objects, FileInv,
           NEW p \in Callers, NEW c, NEW snap, NEW arr, NEW gone,
           Leaves(c, snap, arr, gone), Settle(p, c, snap, arr, gone), UNCHANGED file
    PROVE  FileInv'
<1>1. /\ snapshots' = snap
      /\ newest' = IF c.at = "saving" THEN p ELSE IF newest = p THEN Nil ELSE newest
      /\ \A q \in Callers \ {p} : calls'[q] = Onward(calls[q], gone)
  BY SettleSays
<1>2. p # "file" /\ Nil \notin Callers
  BY NilIsNoName
<1>3. CASE c.at = "saving"
  BY <1>1, <1>2, <1>3, CallSettled DEF FileInv
<1>4. CASE c.at # "saving"
  <2>1. snap = snapshots /\ gone \in SUBSET Devices
    BY <1>4 DEF Leaves
  <2>2. CASE newest = p
    BY <1>1, <1>2, <1>4, <2>2, NilIsNoName DEF FileInv
  <2>3. CASE newest \in Callers \ {p}
    <3>1. PICK q \in Callers : q = newest
      BY <2>3
    <3>2. calls'[q] = Onward(calls[q], gone) /\ calls[q] \in CallTypes /\ Sound(calls[q], snapshots)
      BY <1>1, <2>3, <3>1 DEF TypeOK, Objects
    <3>3. calls'[q].at = calls[q].at /\ calls'[q].content = calls[q].content
      BY <2>1, <3>2, OnwardFields
    <3>4. newest' = q /\ q # "file"
      BY <1>1, <1>4, <2>3, <3>1, NilIsNoName
    <3>5. QED
      BY <1>1, <2>1, <3>1, <3>3, <3>4 DEF FileInv
  <2>4. CASE newest \notin Callers
    BY <1>1, <1>4, <2>1, <2>4 DEF FileInv
  <2>5. QED
    BY <2>2, <2>3, <2>4
<1>5. QED
  BY <1>3, <1>4

LEMMA SettleStart ==
    ASSUME ServiceAssumption, TypeOK, Objects, StartInv,
           NEW p \in Callers, NEW c, NEW snap, NEW arr, NEW gone,
           Leaves(c, snap, arr, gone), LeavesStart(p, c, snap, arr), Settle(p, c, snap, arr, gone)
    PROVE  StartInv'
<1>1. /\ snapshots' = snap
      /\ order' = IF c.at = "saving" THEN Sorted(Known(snap)) ELSE arr
      /\ \A q \in Callers \ {p} : calls'[q] = Onward(calls[q], gone)
  BY SettleSays
<1>2. ASSUME NEW q \in Callers \ {p}
      PROVE  calls'[q].at = calls[q].at /\ calls'[q].op = calls[q].op
  <2>1. calls[q] \in CallTypes /\ Sound(calls[q], snapshots) /\ gone \in SUBSET Devices
    BY DEF TypeOK, Objects, Leaves
  <2>2. QED
    BY <1>1, <2>1, OnwardFields
<1>3. /\ calls'[p].at = c.at /\ calls'[p].then = c.then /\ calls'[p].op = c.op
      /\ calls'[p].list = c.list /\ calls'[p].pos = c.pos
  BY CallSettled
<1>4. \A q \in Callers : calls'[q].op = "start" => q = "agent"
  BY <1>2, <1>3 DEF StartInv, LeavesStart
<1>5. "agent" \in Callers
  BY DEF Callers
<1>6. ASSUME Starting'
      PROVE  /\ Begun(calls["agent"])'
             /\ \A q \in Callers \ {"agent"} : calls'[q].at = "idle"
             /\ order' = Sorted(Known(snapshots'))
  <2>1. p = "agent" /\ c.op = "start"
    BY <1>2, <1>3, <1>5, <1>6 DEF Starting, LeavesStart
  <2>2. Starting /\ Begun(c) /\ Known(snap) = Known(snapshots) /\ arr = order
    BY <2>1 DEF LeavesStart
  <2>3. order = Sorted(Known(snapshots)) /\ \A q \in Callers \ {"agent"} : calls[q].at = "idle"
    BY <2>2 DEF StartInv
  <2>4. order' = Sorted(Known(snap))
    BY <1>1, <2>2, <2>3
  <2>5. Begun(calls["agent"])'
    BY <1>3, <2>1, <2>2 DEF Begun
  <2>6. QED
    BY <1>1, <1>2, <2>1, <2>3, <2>4, <2>5
<1>7. QED
  BY <1>4, <1>6 DEF StartInv

\* What the snapshots that a stretch leaves owe to the recorder manager, and the call p
\* was about to make, is still to come.
KeepsSource(d, snap) ==
    \/ snap[d] = snapshots[d]
    \/ /\ snap[d] # Nil /\ snapshots[d] # Nil
       /\ snap[d].config = snapshots[d].config
       /\ snap[d].channels = snapshots[d].channels
       /\ snap[d].error

HandsOn(p, c, snap, arr, gone) ==
    \/ c.at = "recording"
    \/ WillRecord(c)
    \/ /\ \A d \in gone : snapshots[d] = Nil
       /\ \A d \in Devices :
            \/ c.at = "saving" /\ c.then = "sync" /\ c.dev = d /\ snap[d] # Nil
            \/ KeepsSource(d, snap)
       /\ ~WillRecord(calls[p])
       /\ \A d \in Devices : WillSync(calls[p], d) =>
            \/ snap[d] # Nil /\ IsEnabled(snap[d]) /\ snap[d].error
            \/ WillSyncIn(c, d, snap, arr)

LEMMA SettleRecorders ==
    ASSUME ServiceAssumption, IInv, NEW p \in Callers, NEW c, NEW snap, NEW arr, NEW gone,
           Leaves(c, snap, arr, gone), LeavesStart(p, c, snap, arr), HandsOn(p, c, snap, arr, gone),
           Settle(p, c, snap, arr, gone), ~rejected' => ~rejected
    PROVE  RecordersInv'
<1>1. /\ snapshots' = snap
      /\ order' = IF c.at = "saving" THEN Sorted(Known(snap)) ELSE arr
      /\ recorders' = IF c.at = "recording" THEN Recorded(snap) ELSE recorders
      /\ \A q \in Callers \ {p} : calls'[q] = Onward(calls[q], gone)
  BY SettleSays
<1>2. /\ calls'[p].at = c.at /\ calls'[p].then = c.then /\ calls'[p].op = c.op
      /\ calls'[p].dev = c.dev /\ calls'[p].pos = c.pos
  BY CallSettled
<1>3. SUFFICES ASSUME ~rejected', NEW d \in Devices
               PROVE  \/ Told(d)'
                      \/ LastFailed(d)'
                      \/ \E q \in Callers : WillRecord(calls[q])' \/ WillSync(calls[q], d)'
  BY DEF RecordersInv
<1>4. CASE c.at = "recording"
  <2>1. recorders' = Recorded(snapshots')
    BY <1>1, <1>4
  <2>2. QED
    BY <2>1 DEF Told, Recorded
<1>5. CASE WillRecord(c)
  BY <1>2, <1>5 DEF WillRecord
<1>6. CASE /\ c.at # "recording"
           /\ \A e \in gone : snapshots[e] = Nil
           /\ \A e \in Devices :
                \/ c.at = "saving" /\ c.then = "sync" /\ c.dev = e /\ snap[e] # Nil
                \/ KeepsSource(e, snap)
           /\ ~WillRecord(calls[p])
           /\ \A e \in Devices : WillSync(calls[p], e) =>
                \/ snap[e] # Nil /\ IsEnabled(snap[e]) /\ snap[e].error
                \/ WillSyncIn(c, e, snap, arr)
  <2>1. CASE c.at = "saving" /\ c.then = "sync" /\ c.dev = d /\ snap[d] # Nil
    BY <1>1, <1>2, <2>1 DEF WillSync, WillSyncIn
  <2>2. CASE KeepsSource(d, snap)
    <3>1. Told(d) => Told(d)'
      <4>1. Recorded(snap)[d] = Recorded(snapshots)[d]
        BY <2>2 DEF KeepsSource, Recorded
      <4>2. recorders' = recorders /\ Recorded(snapshots)' = Recorded(snap)
        BY <1>1, <1>6 DEF Recorded
      <4>3. QED
        BY <4>1, <4>2 DEF Told
    <3>2. LastFailed(d) => LastFailed(d)'
      BY <1>1, <2>2 DEF LastFailed, KeepsSource, IsEnabled
    <3>3. ASSUME NEW q \in Callers \ {p}, WillRecord(calls[q]) \/ WillSync(calls[q], d)
          PROVE  WillRecord(calls[q])' \/ WillSync(calls[q], d)'
      <4>1. calls[q] \in CallTypes /\ Sound(calls[q], snapshots) /\ gone \in SUBSET Devices
        BY DEF IInv, TypeOK, Objects, Leaves
      <4>2. PICK r : r = calls[q]
        OBVIOUS
      <4>3. PICK s : s = Onward(r, gone)
        OBVIOUS
      <4>4. /\ s.at = r.at /\ s.then = r.then
            /\ s.dev = IF r.dev \in gone /\ r.then # "sync" THEN Nil ELSE r.dev
        BY <4>1, <4>2, <4>3, OnwardFields DEF IInv
      <4>5. calls'[q] = s
        BY <1>1, <1>6, <4>2, <4>3
      <4>6. CASE WillRecord(r)
        BY <4>4, <4>5, <4>6 DEF WillRecord
      <4>7. CASE WillSync(r, d)
        <5>1. r.op # "start"
          BY <4>2 DEF IInv, StartInv, LeavesStart, Starting
        <5>2. snap[d] # Nil /\ (IsEnabled(snapshots[d]) => IsEnabled(snap[d]))
          BY <2>2, <4>7 DEF KeepsSource, IsEnabled, WillSync, WillSyncIn
        <5>3. r.dev = d => s.dev = d
          BY <1>6, <4>4, <4>7 DEF WillSync, WillSyncIn
        <5>4. QED
          BY <1>1, <4>4, <4>5, <4>7, <5>1, <5>2, <5>3 DEF WillSync, WillSyncIn
      <4>8. QED
        BY <3>3, <4>2, <4>6, <4>7
    <3>4. ASSUME WillSync(calls[p], d)
          PROVE  LastFailed(d)' \/ WillSync(calls[p], d)'
      <4>1. CASE snap[d] # Nil /\ IsEnabled(snap[d]) /\ snap[d].error
        BY <1>1, <4>1 DEF LastFailed, IsEnabled
      <4>2. CASE WillSyncIn(c, d, snap, arr)
        <5>1. c.op = "start" => order' = arr
          <6>1. ASSUME c.op = "start"
                PROVE  order = Sorted(Known(snap)) /\ arr = order
            BY <6>1 DEF IInv, StartInv, LeavesStart
          <6>2. QED
            BY <1>1, <6>1
        <5>2. QED
          BY <1>1, <1>2, <4>2, <5>1 DEF WillSync, WillSyncIn, IsEnabled
      <4>3. QED
        BY <1>6, <3>4, <4>1, <4>2
    <3>5. \/ Told(d) \/ LastFailed(d)
          \/ \E q \in Callers : WillRecord(calls[q]) \/ WillSync(calls[q], d)
      BY <1>3 DEF IInv, RecordersInv
    <3>6. QED
      BY <1>6, <3>1, <3>2, <3>3, <3>4, <3>5
  <2>3. QED
    BY <1>6, <2>1, <2>2
<1>7. QED
  BY <1>4, <1>5, <1>6 DEF HandsOn

\* A stretch of code of the call p that keeps the invariant.
Carried(p) ==
    \E c, snap, arr, gone :
       /\ Settle(p, c, snap, arr, gone)
       /\ Leaves(c, snap, arr, gone)
       /\ LeavesStart(p, c, snap, arr)
       /\ rejected' \/ HandsOn(p, c, snap, arr, gone)

Stretch(p) ==
    /\ Carried(p)
    /\ rejected' = rejected \/ rejected' = TRUE
    /\ UNCHANGED <<file, assigned>>

LEMMA StretchKeeps ==
    ASSUME ServiceAssumption, IInv, NEW p \in Callers, Stretch(p)
    PROVE  IInv'
<1>1. PICK c, snap, arr, gone : /\ Settle(p, c, snap, arr, gone)
                                /\ Leaves(c, snap, arr, gone)
                                /\ LeavesStart(p, c, snap, arr)
                                /\ rejected' \/ HandsOn(p, c, snap, arr, gone)
  BY DEF Stretch, Carried
<1>2. /\ rejected' \in BOOLEAN /\ UNCHANGED file /\ (~rejected' => ~rejected)
      /\ assigned' \in [Devices -> Configs \cup {Nil}]
  <2>1. /\ rejected' = rejected \/ rejected' = TRUE
        /\ file' = file /\ assigned' = assigned
    BY DEF Stretch
  <2>2. rejected \in BOOLEAN /\ assigned \in [Devices -> Configs \cup {Nil}]
    BY DEF IInv, TypeOK
  <2>3. QED
    BY <2>1, <2>2
<1>3. TypeOK' /\ Objects'
  BY <1>1, <1>2, SettleTypes DEF IInv
<1>4. FileInv'
  BY <1>1, <1>2, SettleFile DEF IInv
<1>5. StartInv'
  BY <1>1, SettleStart DEF IInv
<1>6. RecordersInv'
  <2>1. CASE rejected'
    BY <2>1 DEF RecordersInv
  <2>2. CASE ~rejected'
    BY <1>1, <1>2, <2>2, SettleRecorders
  <2>3. QED
    BY <2>1, <2>2
<1>7. QED
  BY <1>3, <1>4, <1>5, <1>6 DEF IInv

-----------------------------------------------------------------------------
(* Synchronisations and loops.                                             *)

\* The call c may go on for p.
Ready(p, c) ==
    /\ c \in CallTypes
    /\ c.pos = 0 => c.list = <<>>
    /\ \A i \in DOMAIN c.list : c.list[i].config = Nil => snapshots[c.list[i].dev] # Nil
    /\ c.op = "start" => p = "agent" /\ Starting /\ c.list = <<>> /\ c.pos > 0
    /\ p # "agent" => ~Starting

\* The loop of initialize() still comes to d.
InLoop(c, d) ==
    /\ c.op = "start" /\ snapshots[d] # Nil /\ IsEnabled(snapshots[d])
    /\ \E i \in DOMAIN order : i > c.pos /\ order[i] = d

LEMMA ReadyNow ==
    ASSUME ServiceAssumption, IInv, NEW p \in Callers, calls[p].at # "idle"
    PROVE  Ready(p, calls[p])
<1>1. calls[p] \in CallTypes /\ Sound(calls[p], snapshots)
  BY DEF IInv, TypeOK, Objects
<1>2. p # "agent" => ~Starting
  BY DEF IInv, StartInv
<1>3. calls[p].op = "start" => p = "agent" /\ Starting /\ Begun(calls[p])
  BY DEF IInv, StartInv, Starting
<1>4. QED
  BY <1>1, <1>2, <1>3 DEF Ready, Sound, Begun

LEMMA ReadyAnew ==
    ASSUME ServiceAssumption, IInv, NEW p \in Callers, ~Starting,
           NEW op \in {Nil, "syncAll", "config", "command"}
    PROVE  /\ Ready(p, [Idle EXCEPT !.op = op])
           /\ [Idle EXCEPT !.op = op].op = op /\ [Idle EXCEPT !.op = op].pos = 0
           /\ [Idle EXCEPT !.op = op].dev = Nil /\ [Idle EXCEPT !.op = op].list = <<>>
<1>1. Idle \in CallTypes /\ Idle.list = <<>> /\ Idle.pos = 0 /\ Idle.dev = Nil
  BY IdleFields
<1>2. PICK r : r = [Idle EXCEPT !.op = op]
  OBVIOUS
<1>3. r \in CallTypes /\ r.list = <<>> /\ r.pos = 0 /\ r.op = op /\ r.dev = Nil
  BY <1>1, <1>2 DEF CallTypes
<1>4. op # "start"
  BY NilIsNoName
<1>5. Ready(p, r)
  BY <1>3, <1>4 DEF Ready
<1>6. QED
  BY <1>2, <1>3, <1>5

\* A call of the same objects and snapshots.
LEMMA GoesCarries ==
    ASSUME ServiceAssumption, IInv, NEW p \in Callers, NEW c \in CallTypes,
           Sound(c, snapshots), Goes(p, c),
           c.at # "saving",
           c.op = "start" => p = "agent",
           p # "agent" => ~Starting,
           c.op = "start" => Starting /\ Begun(c),
           rejected' \/ HandsOn(p, c, snapshots, order, {})
    PROVE  Carried(p)
<1>1. Leaves(c, snapshots, order, {})
  BY DEF Leaves, IInv, TypeOK, Objects
<1>2. LeavesStart(p, c, snapshots, order)
  BY DEF LeavesStart
<1>3. Settle(p, c, snapshots, order, {})
  BY DEF Goes
<1>4. QED
  BY <1>1, <1>2, <1>3 DEF Carried

LEMMA GoesNowhere ==
    ASSUME ServiceAssumption, IInv, NEW p \in Callers, NEW c \in {Idle, Reporting}, Goes(p, c),
           p # "agent" => ~Starting,
           rejected' \/ (~WillRecord(calls[p]) /\ \A e \in Devices : ~WillSync(calls[p], e))
    PROVE  Carried(p)
<1>1. /\ c \in CallTypes /\ c.at \notin {"saving", "discovering"} /\ c.op # "start"
      /\ c.pos = 0 /\ c.list = <<>> /\ c.dev = Nil /\ c.then = Nil
  BY IdleFields, ReportingFields, NilIsNoName
<1>2. Sound(c, snapshots)
  BY <1>1, NilIsNoName DEF Sound
<1>3. rejected' \/ HandsOn(p, c, snapshots, order, {})
  BY DEF HandsOn, KeepsSource
<1>4. QED
  BY <1>1, <1>2, <1>3, GoesCarries

LEMMA SyncCarries ==
    ASSUME ServiceAssumption, IInv, NEW p \in Callers, NEW c \in CallTypes, Ready(p, c),
           NEW d \in Devices, snapshots[d] # Nil, SyncBegins(p, c, d),
           rejected' \/ /\ ~WillRecord(calls[p])
                        /\ \A e \in Devices : WillSync(calls[p], e) => e = d \/ InLoop(c, e)
    PROVE  Carried(p)
<1>1. snapshots \in SnapMaps /\ order \in Seq(Devices)
  BY DEF IInv, TypeOK
<1>2. CASE IsEnabled(snapshots[d])
  <2>1. PICK r : r = Discovering(c, d, snapshots)
    OBVIOUS
  <2>2. /\ r \in CallTypes /\ r.at = "discovering" /\ r.then = Nil /\ r.op = c.op /\ r.dev = d
        /\ r.list = c.list /\ r.pos = c.pos
    BY <1>1, <2>1, DiscoveringFields
  <2>3. Goes(p, r)
    BY <1>2, <2>1 DEF SyncBegins
  <2>4. Sound(r, snapshots)
    BY <2>2, NilIsNoName DEF Sound, Ready
  <2>5. c.op = "start" => Starting /\ Begun(r)
    BY <2>2, NilIsNoName DEF Begun, Ready, Working
  <2>6. rejected' \/ HandsOn(p, r, snapshots, order, {})
    <3>1. SUFFICES ASSUME ~rejected'
                   PROVE  HandsOn(p, r, snapshots, order, {})
      OBVIOUS
    <3>2. ASSUME NEW e \in Devices, WillSync(calls[p], e)
          PROVE  WillSyncIn(r, e, snapshots, order)
      <4>1. CASE e = d
        BY <1>2, <2>2, <4>1 DEF WillSyncIn
      <4>2. CASE InLoop(c, e)
        BY <2>2, <4>2 DEF WillSyncIn, InLoop
      <4>3. QED
        BY <3>1, <3>2, <4>1, <4>2
    <3>3. QED
      BY <3>1, <3>2 DEF HandsOn, KeepsSource
  <2>7. /\ r.at # "saving" /\ (r.op = "start" => p = "agent") /\ (p # "agent" => ~Starting)
        /\ (r.op = "start" => Starting /\ Begun(r))
    BY <2>2, <2>5 DEF Ready
  <2>8. QED
    BY <2>2, <2>3, <2>4, <2>6, <2>7, GoesCarries
<1>3. CASE ~IsEnabled(snapshots[d])
  <2>1. PICK r : r = Saving(c, "record")
    OBVIOUS
  <2>2. /\ r \in CallTypes /\ r.at = "saving" /\ r.then = "record" /\ r.op = c.op /\ r.dev = Nil
        /\ r.list = c.list /\ r.pos = c.pos
    BY <2>1, SavingFields DEF Thens
  <2>3. PICK snap : snap = [snapshots EXCEPT ![d].error = TRUE]
    OBVIOUS
  <2>4. snap \in SnapMaps /\ \A e \in Devices : snap[e] = Nil <=> snapshots[e] = Nil
    BY <1>1, <2>3, NilIsNoName DEF SnapMaps, Snapshots
  <2>5. Settle(p, r, snap, order, {})
    BY <1>3, <2>1, <2>3 DEF SyncBegins
  <2>6. Sound(r, snap)
    <3>1. \A i \in DOMAIN c.list : c.list[i].dev \in Devices
      <4>1. ASSUME NEW i \in DOMAIN c.list
            PROVE  c.list[i].dev \in Devices
        <5>1. c.list[i] \in EntryTypes
          BY <4>1, CallFields, LenProperties, ElementOfSeq
        <5>2. QED
          BY <5>1 DEF EntryTypes
      <4>2. QED
        BY <4>1
    <3>2. QED
      BY <2>2, <2>4, <3>1 DEF Sound, Ready
  <2>7. Leaves(r, snap, order, {})
    <3>1. \A i \in DOMAIN order : snapshots[order[i]] # Nil /\ order[i] \in Devices
      BY <1>1, LenProperties, ElementOfSeq DEF IInv, Objects
    <3>2. QED
      BY <1>1, <2>2, <2>4, <2>6, <3>1 DEF Leaves
  <2>8. LeavesStart(p, r, snap, order)
    <3>1. Known(snap) = Known(snapshots)
      BY <2>4 DEF Known
    <3>2. QED
      BY <2>2, <3>1 DEF LeavesStart, Ready, Begun, Working
  <2>9. HandsOn(p, r, snap, order, {})
    BY <2>2 DEF HandsOn, WillRecord
  <2>10. QED
    BY <2>5, <2>7, <2>8, <2>9 DEF Carried
<1>4. QED
  BY <1>2, <1>3

\* What a loop still owes is in its next round, or there is none.
LEMMA RoundCarries ==
    ASSUME ServiceAssumption, IInv, NEW p \in Callers, NEW c \in CallTypes, Ready(p, c), Round(p, c),
           rejected' \/ /\ ~WillRecord(calls[p])
                        /\ \A e \in Devices : WillSync(calls[p], e) => InLoop(c, e)
    PROVE  Carried(p)
<1> DEFINE devs == IF c.list = <<>> THEN Entries(order) ELSE c.list
           On(e) == IF e.config = Nil THEN IsEnabled(snapshots[e.dev]) ELSE e.config \in Enabled
           due == {i \in DOMAIN devs : /\ i > c.pos
                                       /\ On(devs[i]) /\ snapshots[devs[i].dev] # Nil
                                       /\ c.op = "config" => devs[i].dev \in c.changed}
<1>1. IF due # {} THEN SyncBegins(p, [c EXCEPT !.pos = Min(due)], devs[Min(due)].dev)
      ELSE Goes(p, IF c.op \in {"config", "command"} THEN Reporting ELSE Idle)
  BY DEF Round
<1>2. /\ TypeOK /\ c.list \in Seq(EntryTypes) /\ c.pos \in Nat
      /\ order \in Seq(Devices) /\ \A i \in DOMAIN order : order[i] \in Devices
  BY CallFields, LenProperties, ElementOfSeq DEF IInv, TypeOK
<1>3. /\ Entries(order) \in Seq(EntryTypes)
      /\ DOMAIN Entries(order) = DOMAIN order
      /\ \A i \in DOMAIN order : Entries(order)[i].dev = order[i] /\ Entries(order)[i].config = Nil
  BY <1>2, EntriesTypes
<1>4. devs \in Seq(EntryTypes)
  BY <1>2, <1>3
<1> HIDE DEF devs
<1>5. \A i \in DOMAIN devs : i \in Nat /\ devs[i].dev \in Devices
  <2>1. ASSUME NEW i \in DOMAIN devs
        PROVE  i \in Nat /\ devs[i].dev \in Devices
    <3>1. i \in 1..Len(devs) /\ Len(devs) \in Nat /\ devs[i] \in EntryTypes
      BY <1>4, <2>1, LenProperties, ElementOfSeq
    <3>2. QED
      BY <3>1 DEF EntryTypes
  <2>2. QED
    BY <2>1
<1>6. ASSUME NEW e \in Devices, InLoop(c, e)
      PROVE  \E i \in due : i > c.pos /\ order[i] = e /\ i \in DOMAIN order
  <2>1. PICK i \in DOMAIN order : i > c.pos /\ order[i] = e
    BY <1>6 DEF InLoop
  <2>2. c.op = "start" /\ c.list = <<>> /\ snapshots[e] # Nil /\ IsEnabled(snapshots[e])
    BY <1>6 DEF InLoop, Ready
  <2>3. devs = Entries(order)
    BY <2>2 DEF devs
  <2>4. QED
    BY <1>3, <2>1, <2>2, <2>3
<1>7. due \in SUBSET Nat
  BY <1>5
<1>8. CASE due = {}
  <2>1. p # "agent" => ~Starting
    BY DEF Ready
  <2>2. \A e \in Devices : ~InLoop(c, e)
    BY <1>6, <1>8
  <2>3. rejected' \/ (~WillRecord(calls[p]) /\ \A e \in Devices : ~WillSync(calls[p], e))
    BY <2>2
  <2>4. PICK g \in {Idle, Reporting} : g = IF c.op \in {"config", "command"} THEN Reporting ELSE Idle
    OBVIOUS
  <2>5. Goes(p, g)
    BY <1>1, <1>8, <2>4
  <2>6. QED
    BY <2>1, <2>3, <2>5, GoesNowhere
<1>9. CASE due # {}
  <2>1. Min(due) \in due /\ \A i \in due : Min(due) <= i
    <3> HIDE DEF due
    <3>1. QED
      BY <1>7, <1>9, MinLeast
  <2>2. PICK n \in due : n = Min(due)
    BY <2>1
  <2>3. n \in DOMAIN devs /\ n \in Nat /\ n > c.pos /\ snapshots[devs[n].dev] # Nil
    BY <1>5
  <2>4. PICK d \in Devices : d = devs[n].dev
    BY <1>5, <2>3
  <2>5. PICK r : r = [c EXCEPT !.pos = n]
    OBVIOUS
  <2>6. /\ r \in CallTypes /\ r.op = c.op /\ r.list = c.list /\ r.pos = n
    BY <2>3, <2>5 DEF CallTypes
  <2>7. SyncBegins(p, r, d)
    BY <1>1, <1>9, <2>2, <2>4, <2>5
  <2>8. Ready(p, r)
    BY <1>2, <2>3, <2>6 DEF Ready
  <2>9. ASSUME NEW e \in Devices, InLoop(c, e)
        PROVE  e = d \/ InLoop(r, e)
    <3>1. PICK i \in due : i > c.pos /\ order[i] = e /\ i \in DOMAIN order
      BY <1>6, <2>9
    <3>2. n <= i /\ i \in Nat
      BY <1>7, <2>1, <2>2
    <3>3. devs = Entries(order)
      BY <2>9 DEF devs, InLoop, Ready
    <3>4. d = order[n]
      BY <1>3, <2>3, <2>4, <3>3
    <3>5. n = i \/ i > n
      BY <2>3, <3>2
    <3>6. QED
      BY <2>6, <2>9, <3>1, <3>4, <3>5 DEF InLoop
  <2>10. rejected' \/ /\ ~WillRecord(calls[p])
                      /\ \A e \in Devices : WillSync(calls[p], e) => e = d \/ InLoop(r, e)
    BY <2>9
  <2>11. snapshots[d] # Nil
    BY <2>3, <2>4
  <2>12. QED
    BY <2>6, <2>7, <2>8, <2>10, <2>11, SyncCarries
<1>10. QED
  BY <1>8, <1>9

LEMMA ReturnsCarries ==
    ASSUME ServiceAssumption, IInv, NEW p \in Callers, NEW c \in CallTypes, Ready(p, c), Returns(p, c),
           rejected' \/ /\ ~WillRecord(calls[p])
                        /\ \A e \in Devices : WillSync(calls[p], e) => InLoop(c, e)
    PROVE  Carried(p)
<1>1. CASE c.pos > 0
  BY <1>1, RoundCarries DEF Returns
<1>2. CASE ~(c.pos > 0)
  <2>1. PICK g \in {Idle, Reporting} : g = IF c.op = "command" THEN Reporting ELSE Idle
    OBVIOUS
  <2>2. Goes(p, g)
    BY <1>2, <2>1 DEF Returns
  <2>3. \A e \in Devices : ~InLoop(c, e)
    BY <1>2 DEF InLoop, Ready
  <2>4. p # "agent" => ~Starting
    BY DEF Ready
  <2>5. QED
    BY <2>2, <2>3, <2>4, GoesNowhere
<1>3. QED
  BY <1>1, <1>2

-----------------------------------------------------------------------------
(* The calls and what they wait for.                                       *)

\* A call that waits for nothing of the node owes nothing.
LEMMA OwesNothing ==
    ASSUME ServiceAssumption, IInv, NEW p \in Callers,
           calls[p].at \in {"idle", "loading", "reporting"}
    PROVE  /\ ~WillRecord(calls[p])
           /\ \A e \in Devices : ~WillSync(calls[p], e)
           /\ p = "agent" => ~Starting
<1>1. ~WillRecord(calls[p])
  BY DEF WillRecord
<1>2. p = "agent" => ~Starting
  BY DEF IInv, StartInv, Begun, Working
<1>3. calls[p].op # "start"
  BY <1>2 DEF IInv, StartInv, Starting
<1>4. \A e \in Devices : ~WillSync(calls[p], e)
  BY <1>3 DEF WillSync, WillSyncIn
<1>5. QED
  BY <1>1, <1>2, <1>4

\* A save of the state, other snapshots perhaps in it.
LEMMA SavesCarries ==
    ASSUME ServiceAssumption, IInv, NEW p \in Callers, NEW c \in CallTypes, NEW then \in Thens,
           NEW snap \in SnapMaps, NEW gone \in SUBSET Devices, NEW arr \in Seq(Devices),
           Settle(p, Saving(c, then), snap, arr, gone),
           c.dev # Nil /\ then = "try" => snap[c.dev] # Nil,
           then = "sync" => c.dev # Nil,
           c.pos = 0 => c.list = <<>>,
           \A i \in DOMAIN c.list : c.list[i].config = Nil => snap[c.list[i].dev] # Nil,
           \A d \in Devices : snapshots[d] # Nil /\ snap[d] = Nil => d \in gone,
           c.op = "start" => /\ p = "agent" /\ Starting /\ then # "sync"
                             /\ c.list = <<>> /\ c.pos > 0
                             /\ Known(snap) = Known(snapshots) /\ arr = order,
           p # "agent" => ~Starting,
           rejected' \/ HandsOn(p, Saving(c, then), snap, arr, gone)
    PROVE  Carried(p)
<1>1. PICK r : r = Saving(c, then)
  OBVIOUS
<1>2. /\ r \in CallTypes /\ r.at = "saving" /\ r.then = then /\ r.op = c.op
      /\ r.dev = IF then \in {"sync", "try"} THEN c.dev ELSE Nil
      /\ r.list = c.list /\ r.pos = c.pos
  BY <1>1, SavingFields
<1>3. Leaves(r, snap, arr, gone)
  BY <1>2 DEF Leaves, Sound
<1>4. LeavesStart(p, r, snap, arr)
  BY <1>2 DEF LeavesStart, Begun, Working
<1>5. Settle(p, r, snap, arr, gone) /\ (rejected' \/ HandsOn(p, r, snap, arr, gone))
  BY <1>1
<1>6. QED
  BY <1>3, <1>4, <1>5 DEF Carried

LEMMA UpsertCarries ==
    ASSUME ServiceAssumption, IInv, NEW p \in Requests, NEW d \in Devices, NEW config \in Configs,
           upsertDevice(p, d, config)
    PROVE  Stretch(p)
<1>1. p \in Callers /\ calls[p].at = "idle" /\ ~Starting /\ UNCHANGED <<file, rejected, assigned>>
  BY DEF upsertDevice, Callers
<1>2. PICK snap : snap = [snapshots EXCEPT ![d] = IF @ = Nil THEN New(config)
                                                 ELSE [@ EXCEPT !.config = config]]
  OBVIOUS
<1>3. PICK c : c = [Idle EXCEPT !.dev = d]
  OBVIOUS
<1>4. Settle(p, Saving(c, "sync"), snap, order, {})
  BY <1>2, <1>3 DEF upsertDevice
<1>5. /\ c \in CallTypes /\ c.op = Nil /\ c.dev = d /\ c.list = <<>> /\ c.pos = 0
  BY <1>3, IdleFields DEF CallTypes
<1>6. snapshots \in SnapMaps /\ order \in Seq(Devices)
  BY DEF IInv, TypeOK
<1>7. snap \in SnapMaps /\ snap[d] # Nil /\ \A e \in Devices : e # d => snap[e] = snapshots[e]
  <2>1. New(config) \in Snapshots
    BY DEF New, Snapshots
  <2>2. snapshots[d] # Nil => [snapshots[d] EXCEPT !.config = config] \in Snapshots
    BY <1>6 DEF SnapMaps, Snapshots
  <2>3. snap = [snapshots EXCEPT ![d] = IF snapshots[d] = Nil THEN New(config)
                                       ELSE [snapshots[d] EXCEPT !.config = config]]
    BY <1>2, <1>6 DEF SnapMaps
  <2>4. QED
    BY <1>6, <2>1, <2>2, <2>3, NilIsNoName DEF SnapMaps
<1>8. PICK r : r = Saving(c, "sync")
  OBVIOUS
<1>9. r.at = "saving" /\ r.then = "sync" /\ r.dev = d
  BY <1>5, <1>8, SavingFields DEF Thens
<1>10. HandsOn(p, r, snap, order, {})
  <2>1. ~WillRecord(calls[p]) /\ \A e \in Devices : ~WillSync(calls[p], e)
    BY <1>1, OwesNothing
  <2>2. \A e \in Devices : \/ r.at = "saving" /\ r.then = "sync" /\ r.dev = e /\ snap[e] # Nil
                           \/ KeepsSource(e, snap)
    BY <1>7, <1>9 DEF KeepsSource
  <2>3. QED
    BY <2>1, <2>2 DEF HandsOn
<1>11. "sync" \in Thens /\ {} \in SUBSET Devices /\ c.op # "start" /\ c.dev # Nil
  BY <1>5, NilIsNoName DEF Thens
<1>12. \A e \in Devices : snapshots[e] # Nil /\ snap[e] = Nil => e \in {}
  BY <1>7
<1>13. Carried(p)
  BY <1>1, <1>4, <1>5, <1>6, <1>7, <1>8, <1>10, <1>11, <1>12, SavesCarries
<1>14. QED
  BY <1>1, <1>13 DEF Stretch

LEMMA RemoveCarries ==
    ASSUME ServiceAssumption, IInv, NEW p \in Requests, NEW d \in Devices, removeDevice(p, d)
    PROVE  Stretch(p)
<1>1. p \in Callers /\ calls[p].at = "idle" /\ ~Starting /\ UNCHANGED <<file, rejected, assigned>>
  BY DEF removeDevice, Callers
<1>2. PICK snap : snap = [snapshots EXCEPT ![d] = Nil]
  OBVIOUS
<1>3. Settle(p, IF snapshots[d] = Nil THEN Idle ELSE Saving(Idle, "record"), snap, order, {d})
  BY <1>2 DEF removeDevice
<1>4. snapshots \in SnapMaps /\ order \in Seq(Devices)
  BY DEF IInv, TypeOK
<1>5. snap \in SnapMaps /\ \A e \in Devices : snapshots[e] # Nil /\ snap[e] = Nil => e \in {d}
  BY <1>2, <1>4 DEF SnapMaps
<1>6. "record" \in Thens /\ {d} \in SUBSET Devices /\ Idle.op # "start"
  BY IdleFields, NilIsNoName DEF Thens
<1>7. CASE snapshots[d] # Nil
  <2>1. Settle(p, Saving(Idle, "record"), snap, order, {d})
    BY <1>3, <1>7
  <2>2. HandsOn(p, Saving(Idle, "record"), snap, order, {d})
    BY IdleFields, SavingFields DEF HandsOn, WillRecord, Thens
  <2>3. Carried(p)
    BY <1>1, <1>4, <1>5, <1>6, <2>1, <2>2, IdleFields, SavesCarries
  <2>4. QED
    BY <1>1, <2>3 DEF Stretch
<1>8. CASE snapshots[d] = Nil
  <2>1. snap = snapshots
    BY <1>2, <1>4, <1>8 DEF SnapMaps
  <2>2. Settle(p, Idle, snapshots, order, {d})
    BY <1>3, <1>8, <2>1
  <2>3. Leaves(Idle, snapshots, order, {d})
    BY <1>4, <1>6, IdleFields, NilIsNoName DEF Leaves, Sound, IInv, Objects
  <2>4. LeavesStart(p, Idle, snapshots, order)
    BY <1>1, <1>6 DEF LeavesStart
  <2>5. HandsOn(p, Idle, snapshots, order, {d})
    <3>1. ~WillRecord(calls[p]) /\ \A e \in Devices : ~WillSync(calls[p], e)
      BY <1>1, OwesNothing
    <3>2. QED
      BY <1>8, <3>1 DEF HandsOn, KeepsSource
  <2>6. Carried(p)
    BY <2>2, <2>3, <2>4, <2>5 DEF Carried
  <2>7. QED
    BY <1>1, <2>6 DEF Stretch
<1>9. QED
  BY <1>7, <1>8

LEMMA SyncDeviceCarries ==
    ASSUME ServiceAssumption, IInv, NEW p \in Requests, NEW d \in Devices, syncDevice(p, d)
    PROVE  Stretch(p)
<1>1. /\ p \in Callers /\ calls[p].at = "idle" /\ ~Starting /\ UNCHANGED <<file, rejected, assigned>>
      /\ snapshots[d] # Nil /\ SyncBegins(p, Idle, d)
  BY DEF syncDevice, Callers
<1>2. Idle \in CallTypes /\ Ready(p, Idle)
  BY <1>1, IdleFields, NilIsNoName DEF Ready
<1>3. ~WillRecord(calls[p]) /\ \A e \in Devices : ~WillSync(calls[p], e)
  BY <1>1, OwesNothing
<1>4. Carried(p)
  BY <1>1, <1>2, <1>3, SyncCarries
<1>5. QED
  BY <1>1, <1>4 DEF Stretch

LEMMA SyncAllCarries ==
    ASSUME ServiceAssumption, IInv, NEW p \in Ticks, syncAll(p)
    PROVE  Stretch(p)
<1>1. PICK c : c = [Idle EXCEPT !.op = "syncAll"]
  OBVIOUS
<1>2. /\ p \in Callers /\ calls[p].at = "idle" /\ ~Starting /\ UNCHANGED <<file, rejected, assigned>>
      /\ Round(p, c)
  BY <1>1 DEF syncAll, Callers
<1>3. Ready(p, c)
  BY <1>1, <1>2, ReadyAnew
<1>4. ~WillRecord(calls[p]) /\ \A e \in Devices : ~WillSync(calls[p], e)
  BY <1>2, OwesNothing
<1>5. c \in CallTypes
  BY <1>3 DEF Ready
<1>6. Carried(p)
  BY <1>2, <1>3, <1>4, <1>5, RoundCarries
<1>7. QED
  BY <1>2, <1>6 DEF Stretch

\* A call that has saved for the last time, or that the recorder manager has answered,
\* owes what its loop does.
LEMMA OwesLoop ==
    ASSUME NEW p \in Callers,
           \/ calls[p].at = "recording"
           \/ calls[p].at = "saved" /\ calls[p].then = "throw"
    PROVE  /\ ~WillRecord(calls[p])
           /\ \A e \in Devices : WillSync(calls[p], e) => InLoop(calls[p], e)
BY DEF WillRecord, WillSync, WillSyncIn, InLoop

\* Only the error of a snapshot that is there is set.
LEMMA FailedFacts ==
    ASSUME ServiceAssumption, IInv, NEW p \in Callers, calls[p].then # "sync"
    PROVE  /\ Failed(calls[p], snapshots) \in SnapMaps
           /\ \A e \in Devices : /\ KeepsSource(e, Failed(calls[p], snapshots))
                                 /\ Failed(calls[p], snapshots)[e] = Nil <=> snapshots[e] = Nil
           /\ calls[p].dev # Nil => /\ Failed(calls[p], snapshots)[calls[p].dev] # Nil
                                    /\ Failed(calls[p], snapshots)[calls[p].dev].error
<1>1. calls[p] \in CallTypes /\ Sound(calls[p], snapshots) /\ snapshots \in SnapMaps
  BY DEF IInv, TypeOK, Objects
<1>2. PICK d : d = calls[p].dev
  OBVIOUS
<1>3. d \in Devices \cup {Nil} /\ (d # Nil => snapshots[d] # Nil)
  BY <1>1, <1>2, CallFields DEF Sound
<1>4. PICK snap : snap = Failed(calls[p], snapshots)
  OBVIOUS
<1>5. CASE d = Nil
  <2>1. snap = snapshots
    BY <1>2, <1>4, <1>5 DEF Failed
  <2>2. QED
    BY <1>1, <1>2, <1>4, <1>5, <2>1 DEF KeepsSource
<1>6. CASE d # Nil
  <2>1. snap = [snapshots EXCEPT ![d].error = TRUE] /\ d \in Devices /\ snapshots[d] \in Snapshots
    BY <1>1, <1>2, <1>3, <1>4, <1>6 DEF Failed, SnapMaps
  <2>2. PICK s : s = [snapshots[d] EXCEPT !.error = TRUE]
    OBVIOUS
  <2>3. /\ s \in Snapshots /\ s.error /\ s # Nil
        /\ s.config = snapshots[d].config /\ s.channels = snapshots[d].channels
    BY <2>1, <2>2, NilIsNoName DEF Snapshots
  <2>4. snap \in SnapMaps /\ snap[d] = s /\ \A e \in Devices : e # d => snap[e] = snapshots[e]
    BY <1>1, <2>1, <2>2, <2>3 DEF SnapMaps
  <2>5. \A e \in Devices : KeepsSource(e, snap) /\ (snap[e] = Nil <=> snapshots[e] = Nil)
    BY <1>3, <1>6, <2>3, <2>4 DEF KeepsSource
  <2>6. QED
    BY <1>2, <1>4, <2>3, <2>4, <2>5
<1>7. QED
  BY <1>5, <1>6

\* A call that notes a failure and saves it.
LEMMA FailsCarries ==
    ASSUME ServiceAssumption, IInv, NEW p \in Callers, calls[p].at # "idle", calls[p].then # "sync",
           Settle(p, Saving(calls[p], "throw"), Failed(calls[p], snapshots), order, {}),
           rejected' \/ calls[p].at = "discovering"
    PROVE  Carried(p)
<1>1. PICK c : c = calls[p]
  OBVIOUS
<1>2. PICK snap : snap = Failed(calls[p], snapshots)
  OBVIOUS
<1>3. /\ snap \in SnapMaps
      /\ \A e \in Devices : KeepsSource(e, snap) /\ (snap[e] = Nil <=> snapshots[e] = Nil)
      /\ c.dev # Nil => snap[c.dev] # Nil /\ snap[c.dev].error
  BY <1>1, <1>2, FailedFacts
<1>4. c \in CallTypes /\ Ready(p, c)
  BY <1>1, ReadyNow DEF Ready
<1>5. order \in Seq(Devices) /\ Known(snap) = Known(snapshots) /\ "throw" \in Thens
  BY <1>3 DEF IInv, TypeOK, Known, Thens
<1>6. \A i \in DOMAIN c.list : c.list[i].config = Nil => snap[c.list[i].dev] # Nil
  <2>1. ASSUME NEW i \in DOMAIN c.list
        PROVE  c.list[i].dev \in Devices
    <3>1. c.list[i] \in EntryTypes
      BY <1>4, <2>1, CallFields, LenProperties, ElementOfSeq
    <3>2. QED
      BY <3>1 DEF EntryTypes
  <2>2. QED
    BY <1>3, <1>4, <2>1 DEF Ready
<1>7. PICK r : r = Saving(c, "throw")
  OBVIOUS
<1>8. r.at = "saving" /\ r.op = c.op /\ r.pos = c.pos
  BY <1>4, <1>5, <1>7, SavingFields
<1>9. rejected' \/ HandsOn(p, r, snap, order, {})
  <2>1. SUFFICES ASSUME c.at = "discovering"
                 PROVE  HandsOn(p, r, snap, order, {})
    BY <1>1
  <2>2. ~WillRecord(calls[p])
    BY <1>1, <2>1 DEF WillRecord
  <2>3. ASSUME NEW e \in Devices, WillSync(calls[p], e)
        PROVE  \/ snap[e] # Nil /\ IsEnabled(snap[e]) /\ snap[e].error
               \/ WillSyncIn(r, e, snap, order)
    <3>1. snap[e] # Nil /\ IsEnabled(snap[e])
      BY <1>1, <1>3, <2>1, <2>3 DEF WillSync, WillSyncIn, KeepsSource, IsEnabled
    <3>2. c.dev = e \/ (c.op = "start" /\ \E i \in DOMAIN order : i > c.pos /\ order[i] = e)
      BY <1>1, <2>1, <2>3 DEF WillSync, WillSyncIn
    <3>3. e # Nil
      BY NilIsNoName
    <3>4. QED
      BY <1>3, <1>8, <3>1, <3>2, <3>3 DEF WillSyncIn
  <2>4. QED
    BY <1>3, <2>2, <2>3 DEF HandsOn
<1>10. /\ c.pos = 0 => c.list = <<>>
       /\ c.op = "start" => /\ p = "agent" /\ Starting /\ c.list = <<>> /\ c.pos > 0
       /\ p # "agent" => ~Starting
  BY <1>4 DEF Ready
<1>11. Settle(p, Saving(c, "throw"), snap, order, {})
  BY <1>1, <1>2
<1>12. {} \in SUBSET Devices /\ \A e \in Devices : snapshots[e] # Nil /\ snap[e] = Nil => e \in {}
  BY <1>3
<1>13. rejected' \/ HandsOn(p, Saving(c, "throw"), snap, order, {})
  BY <1>7, <1>9
<1>14. QED
  BY <1>3, <1>4, <1>5, <1>6, <1>10, <1>11, <1>12, <1>13, SavesCarries

LEMMA FoundCarries ==
    ASSUME ServiceAssumption, IInv, NEW p \in Callers, calls[p].at = "discovering",
           Settle(p, Saving(calls[p], "try"),
                  IF calls[p].dev # Nil
                  THEN [snapshots EXCEPT ![calls[p].dev].channels = calls[p].under,
                                         ![calls[p].dev].error = FALSE]
                  ELSE snapshots, order, {})
    PROVE  Carried(p)
<1>1. PICK c : c = calls[p]
  OBVIOUS
<1>2. PICK snap : snap = IF calls[p].dev # Nil
                         THEN [snapshots EXCEPT ![calls[p].dev].channels = calls[p].under,
                                                ![calls[p].dev].error = FALSE]
                         ELSE snapshots
  OBVIOUS
<1>3. /\ c \in CallTypes /\ Ready(p, c) /\ snapshots \in SnapMaps /\ order \in Seq(Devices)
      /\ c.dev # Nil => snapshots[c.dev] # Nil
  BY <1>1, ReadyNow, NilIsNoName DEF IInv, TypeOK, Objects, Sound
<1>4. c.dev \in Devices \cup {Nil} /\ c.under \in Configs \cup {Nil}
  BY <1>3, CallFields
<1>5. /\ snap \in SnapMaps
      /\ \A e \in Devices : snap[e] = Nil <=> snapshots[e] = Nil
  <2>1. CASE c.dev = Nil
    BY <1>1, <1>2, <1>3, <2>1
  <2>2. CASE c.dev # Nil
    <3>1. PICK d \in Devices : d = c.dev
      BY <1>4, <2>2
    <3>2. PICK s : s = [snapshots[d] EXCEPT !.channels = c.under, !.error = FALSE]
      OBVIOUS
    <3>3. snapshots[d] \in Snapshots
      BY <1>3, <2>2, <3>1 DEF SnapMaps
    <3>4. s \in Snapshots /\ s # Nil
      BY <1>4, <3>2, <3>3, NilIsNoName DEF Snapshots
    <3>5. snap = [snapshots EXCEPT ![d] = s]
      BY <1>1, <1>2, <1>3, <2>2, <3>1, <3>2 DEF SnapMaps
    <3>6. QED
      BY <1>3, <2>2, <3>1, <3>4, <3>5 DEF SnapMaps
  <2>3. QED
    BY <2>1, <2>2
<1>6. Known(snap) = Known(snapshots) /\ "try" \in Thens /\ {} \in SUBSET Devices
  BY <1>5 DEF Known, Thens
<1>7. \A i \in DOMAIN c.list : c.list[i].config = Nil => snap[c.list[i].dev] # Nil
  <2>1. ASSUME NEW i \in DOMAIN c.list
        PROVE  c.list[i].dev \in Devices
    <3>1. c.list[i] \in EntryTypes
      BY <1>3, <2>1, CallFields, LenProperties, ElementOfSeq
    <3>2. QED
      BY <3>1 DEF EntryTypes
  <2>2. QED
    BY <1>3, <1>5, <2>1 DEF Ready
<1>8. HandsOn(p, Saving(c, "try"), snap, order, {})
  BY <1>3, <1>6, SavingFields DEF HandsOn, WillRecord
<1>9. /\ c.pos = 0 => c.list = <<>>
      /\ c.op = "start" => /\ p = "agent" /\ Starting /\ c.list = <<>> /\ c.pos > 0
      /\ p # "agent" => ~Starting
      /\ c.dev # Nil => snap[c.dev] # Nil
  BY <1>3, <1>4, <1>5 DEF Ready
<1>10. Settle(p, Saving(c, "try"), snap, order, {})
  BY <1>1, <1>2
<1>11. \A e \in Devices : snapshots[e] # Nil /\ snap[e] = Nil => e \in {}
  BY <1>5
<1>12. QED
  BY <1>3, <1>5, <1>6, <1>7, <1>8, <1>9, <1>10, <1>11, SavesCarries

LEMMA DiscoveryCarries ==
    ASSUME ServiceAssumption, IInv, NEW p \in Callers, NEW found \in BOOLEAN, DiscoveryEnds(p, found)
    PROVE  Stretch(p)
<1>1. calls[p].at = "discovering" /\ UNCHANGED <<file, rejected, assigned>>
  BY DEF DiscoveryEnds
<1>2. calls[p].then # "sync"
  BY <1>1, NilIsNoName DEF IInv, Objects, Sound
<1>3. CASE found
  <2>1. Carried(p)
    BY <1>1, <1>3, FoundCarries DEF DiscoveryEnds
  <2>2. QED
    BY <1>1, <2>1 DEF Stretch
<1>4. CASE ~found
  <2>1. Settle(p, Saving(calls[p], "throw"), Failed(calls[p], snapshots), order, {})
    BY <1>4 DEF DiscoveryEnds
  <2>2. Carried(p)
    BY <1>1, <1>2, <2>1, FailsCarries
  <2>3. QED
    BY <1>1, <2>2 DEF Stretch
<1>5. QED
  BY <1>3, <1>4

LEMMA SaveReturnsCarries ==
    ASSUME ServiceAssumption, IInv, NEW p \in Callers, SaveReturns(p)
    PROVE  Stretch(p)
<1>1. PICK c : c = calls[p]
  OBVIOUS
<1>2. /\ c.at = "saved" /\ UNCHANGED <<file, rejected, assigned>>
      /\ \/ c.then = "sync" /\ snapshots[c.dev] # Nil /\ SyncBegins(p, c, c.dev)
         \/ c.then = "sync" /\ snapshots[c.dev] = Nil /\ Goes(p, Idle)
         \/ c.then \in {"record", "try"} /\ Goes(p, Recording(c))
         \/ c.then = "throw" /\ Returns(p, c)
  BY <1>1 DEF SaveReturns
<1>3. c \in CallTypes /\ Ready(p, c) /\ Sound(c, snapshots)
  BY <1>1, <1>2, ReadyNow DEF Ready, IInv, Objects
<1>4. ASSUME c.then = "sync"
      PROVE  /\ c.dev \in Devices /\ ~WillRecord(calls[p])
             /\ \A e \in Devices : WillSync(calls[p], e) => e = c.dev /\ snapshots[e] # Nil
  <2>1. c.op # "start"
    BY <1>1, <1>3, <1>4 DEF Ready, IInv, StartInv, Begun, Starting
  <2>2. QED
    BY <1>1, <1>2, <1>3, <1>4, <2>1, CallFields DEF Sound, WillRecord, WillSync, WillSyncIn
<1>5. CASE c.then = "sync" /\ snapshots[c.dev] # Nil /\ SyncBegins(p, c, c.dev)
  <2>1. Carried(p)
    BY <1>3, <1>4, <1>5, SyncCarries
  <2>2. QED
    BY <1>2, <2>1 DEF Stretch
<1>6. CASE c.then = "sync" /\ snapshots[c.dev] = Nil /\ Goes(p, Idle)
  <2>1. ~WillRecord(calls[p]) /\ \A e \in Devices : ~WillSync(calls[p], e)
    BY <1>4, <1>6
  <2>2. p # "agent" => ~Starting
    BY <1>3 DEF Ready
  <2>3. Carried(p)
    BY <1>6, <2>1, <2>2, GoesNowhere
  <2>4. QED
    BY <1>2, <2>3 DEF Stretch
<1>7. CASE c.then \in {"record", "try"} /\ Goes(p, Recording(c))
  <2>1. PICK r : r = Recording(c)
    OBVIOUS
  <2>2. /\ r \in CallTypes /\ r.at = "recording" /\ r.then = c.then /\ r.op = c.op /\ r.dev = c.dev
        /\ r.list = c.list /\ r.pos = c.pos
    BY <1>3, <2>1, RecordingFields
  <2>3. Sound(r, snapshots)
    BY <1>3, <2>2 DEF Sound
  <2>4. /\ r.op = "start" => p = "agent" /\ Starting /\ Begun(r)
        /\ p # "agent" => ~Starting
    BY <1>3, <1>7, <2>2 DEF Ready, Begun, Working
  <2>5. HandsOn(p, r, snapshots, order, {})
    BY <2>2 DEF HandsOn
  <2>6. Goes(p, r)
    BY <1>7, <2>1
  <2>7. Carried(p)
    BY <2>2, <2>3, <2>4, <2>5, <2>6, GoesCarries
  <2>8. QED
    BY <1>2, <2>7 DEF Stretch
<1>8. CASE c.then = "throw" /\ Returns(p, c)
  <2>1. ~WillRecord(calls[p]) /\ \A e \in Devices : WillSync(calls[p], e) => InLoop(c, e)
    BY <1>1, <1>2, <1>8, OwesLoop
  <2>2. Carried(p)
    BY <1>3, <1>8, <2>1, ReturnsCarries
  <2>3. QED
    BY <1>2, <2>2 DEF Stretch
<1>9. QED
  BY <1>2, <1>5, <1>6, <1>7, <1>8

LEMMA ReconcileReturnsCarries ==
    ASSUME ServiceAssumption, IInv, NEW p \in Callers, ReconcileReturns(p)
    PROVE  Stretch(p)
<1>1. /\ calls[p].at = "recording" /\ UNCHANGED <<file, rejected, assigned>>
      /\ Round(p, calls[p]) \/ Returns(p, calls[p])
  BY DEF ReconcileReturns
<1>2. calls[p] \in CallTypes /\ Ready(p, calls[p])
  BY <1>1, ReadyNow DEF Ready
<1>3. ~WillRecord(calls[p]) /\ \A e \in Devices : WillSync(calls[p], e) => InLoop(calls[p], e)
  BY <1>1, OwesLoop
<1>4. Carried(p)
  BY <1>1, <1>2, <1>3, RoundCarries, ReturnsCarries
<1>5. QED
  BY <1>1, <1>4 DEF Stretch

LEMMA RejectedCarries ==
    ASSUME ServiceAssumption, IInv, NEW p \in Callers, Rejected(p)
    PROVE  Stretch(p)
<1>1. calls[p].at \in {"saving", "saved", "recording"} /\ rejected' = TRUE /\ UNCHANGED <<file, assigned>>
  BY DEF Rejected
<1>2. calls[p] \in CallTypes /\ Ready(p, calls[p])
  BY <1>1, ReadyNow DEF Ready
<1>3. CASE calls[p].then = "try"
  <2>1. Settle(p, Saving(calls[p], "throw"), Failed(calls[p], snapshots), order, {})
    BY <1>3 DEF Rejected
  <2>2. Carried(p)
    BY <1>1, <1>3, <2>1, FailsCarries
  <2>3. QED
    BY <1>1, <2>2 DEF Stretch
<1>4. CASE calls[p].then # "try"
  <2>1. Returns(p, calls[p])
    BY <1>4 DEF Rejected
  <2>2. Carried(p)
    BY <1>1, <1>2, <2>1, ReturnsCarries
  <2>3. QED
    BY <1>1, <2>2 DEF Stretch
<1>5. QED
  BY <1>3, <1>4

-----------------------------------------------------------------------------
(* The agent.                                                              *)

\* Nothing to save in the master's answer is nothing to change.
LEMMA MasterCarries ==
    ASSUME ServiceAssumption, IInv, reconcileMasterDevices
    PROVE  Stretch("agent")
<1> DEFINE wanted == calls["agent"].wanted
           named == {d \in Devices : wanted[d] # Nil}
           changed == {d \in named : Changed(d, wanted[d])}
           next == NextDevices(wanted)
           saves == NeedsSave(changed # {}, Known(snapshots) \ named # {})
<1>1. PICK c : c = [Idle EXCEPT !.op = "config", !.changed = changed, !.then = "record"]
  OBVIOUS
<1>2. /\ calls["agent"].at = "loading" /\ UNCHANGED <<file, rejected, assigned>>
      /\ \E arr \in SetToSeqs(named) :
           Settle("agent", IF saves THEN Saving(c, "record") ELSE Recording(c), next, arr, Devices)
  BY <1>1 DEF reconcileMasterDevices
<1>3. "agent" \in Callers /\ ~Starting
  BY <1>2, OwesNothing DEF Callers
<1>4. wanted \in [Devices -> Configs \cup {Nil}] /\ snapshots \in SnapMaps /\ named \in SUBSET Devices
  BY <1>3, CallFields DEF IInv, TypeOK
<1>5. PICK ch \in SUBSET Devices : ch = changed
  BY <1>4
<1>6. /\ c \in CallTypes /\ c.op = "config" /\ c.then = "record" /\ c.dev = Nil
      /\ c.list = <<>> /\ c.pos = 0
  BY <1>1, <1>5, IdleFields DEF CallTypes
<1>7. PICK snap : snap = next
  OBVIOUS
<1>8. snap \in SnapMaps /\ \A d \in Devices : snap[d] = Nil <=> d \notin named
  <2>1. ASSUME NEW d \in Devices, wanted[d] # Nil
        PROVE  (IF snapshots[d] = Nil THEN New(wanted[d])
                ELSE [snapshots[d] EXCEPT !.config = wanted[d]]) \in Snapshots
    BY <1>4, <2>1 DEF SnapMaps, Snapshots, New
  <2>2. \A d \in Devices : snap[d] = IF wanted[d] = Nil THEN Nil
                      ELSE IF snapshots[d] = Nil THEN New(wanted[d])
                      ELSE [snapshots[d] EXCEPT !.config = wanted[d]]
    BY <1>7 DEF NextDevices
  <2>3. \A d \in Devices : snap[d] = Nil <=> d \notin named
    BY <2>1, <2>2, NilIsNoName
  <2>4. \A d \in Devices : snap[d] \in Snapshots \cup {Nil}
    BY <2>1, <2>2
  <2>5. snap = [d \in Devices |-> snap[d]]
    BY <1>7 DEF NextDevices
  <2>6. QED
    BY <2>3, <2>4, <2>5 DEF SnapMaps
<1>9. ASSUME ~saves
      PROVE  snap = snapshots
  <2>1. changed = {} /\ Known(snapshots) \ named = {}
    BY <1>9 DEF NeedsSave
  <2>2. ASSUME NEW d \in Devices
        PROVE  next[d] = snapshots[d]
    <3>1. CASE wanted[d] = Nil
      <4>1. snapshots[d] = Nil
        BY <2>1, <3>1 DEF Known
      <4>2. QED
        BY <3>1, <4>1 DEF NextDevices
    <3>2. CASE wanted[d] # Nil
      <4>1. ~Changed(d, wanted[d])
        BY <2>1, <3>2
      <4>2. snapshots[d] # Nil /\ snapshots[d].config = wanted[d]
        BY <4>1 DEF Changed
      <4>3. snapshots[d] \in Snapshots
        BY <1>4, <4>2 DEF SnapMaps
      <4>4. [snapshots[d] EXCEPT !.config = wanted[d]] = snapshots[d]
        BY <4>2, <4>3 DEF Snapshots
      <4>5. QED
        BY <3>2, <4>2, <4>4 DEF NextDevices
    <3>3. QED
      BY <3>1, <3>2
  <2>3. next = [d \in Devices |-> next[d]] /\ snapshots = [d \in Devices |-> snapshots[d]]
    BY <1>4 DEF NextDevices, SnapMaps
  <2>4. QED
    BY <1>7, <2>2, <2>3
<1>10. PICK arr \in SetToSeqs(named) :
         Settle("agent", IF saves THEN Saving(c, "record") ELSE Recording(c), snap, arr, Devices)
  BY <1>2, <1>7
<1>11. arr \in Seq(Devices) /\ \A i \in DOMAIN arr : arr[i] \in named
  <2> HIDE DEF named
  <2>1. QED
    BY <1>4, <1>10, EnumerationFacts
<1>12. CASE saves
  <2>1. Settle("agent", Saving(c, "record"), snap, arr, Devices)
    BY <1>10, <1>12
  <2>2. "record" \in Thens /\ Devices \in SUBSET Devices
    BY DEF Thens
  <2>3. HandsOn("agent", Saving(c, "record"), snap, arr, Devices)
    BY <1>6, <2>2, SavingFields DEF HandsOn, WillRecord
  <2>4. \A i \in DOMAIN c.list : c.list[i].config = Nil => snap[c.list[i].dev] # Nil
    BY <1>6, EmptySeq
  <2>5. Carried("agent")
    BY <1>3, <1>6, <1>8, <1>11, <2>1, <2>2, <2>3, <2>4, SavesCarries
  <2>6. QED
    BY <1>2, <2>5 DEF Stretch
<1>13. CASE ~saves
  <2>1. PICK r : r = Recording(c)
    OBVIOUS
  <2>2. /\ r \in CallTypes /\ r.at = "recording" /\ r.then = "record" /\ r.op = "config"
        /\ r.dev = Nil /\ r.list = <<>> /\ r.pos = 0
    BY <1>6, <2>1, RecordingFields
  <2>3. Settle("agent", r, snap, arr, Devices) /\ snap = snapshots
    BY <1>9, <1>10, <1>13, <2>1
  <2>4. Sound(r, snap)
    BY <2>2, EmptySeq DEF Sound
  <2>5. \A i \in DOMAIN arr : snap[arr[i]] # Nil
    BY <1>4, <1>8, <1>11
  <2>6. Leaves(r, snap, arr, Devices)
    BY <1>8, <1>11, <2>2, <2>3, <2>4, <2>5 DEF Leaves
  <2>7. LeavesStart("agent", r, snap, arr) /\ HandsOn("agent", r, snap, arr, Devices)
    BY <2>2 DEF LeavesStart, HandsOn
  <2>8. Carried("agent")
    BY <2>3, <2>6, <2>7 DEF Carried
  <2>9. QED
    BY <1>2, <2>8 DEF Stretch
<1>14. QED
  BY <1>12, <1>13

LEMMA CommandCarries ==
    ASSUME ServiceAssumption, IInv, Command
    PROVE  Stretch("agent")
<1>1. PICK c : c = [Idle EXCEPT !.op = "command"]
  OBVIOUS
<1>2. /\ calls["agent"].at = "reporting" /\ UNCHANGED <<file, rejected, assigned>>
      /\ Round("agent", c) \/ Goes("agent", Recording(c))
  BY <1>1 DEF Command
<1>3. /\ "agent" \in Callers /\ ~Starting /\ ~WillRecord(calls["agent"])
      /\ \A e \in Devices : ~WillSync(calls["agent"], e)
  BY <1>2, OwesNothing DEF Callers
<1>4. Ready("agent", c) /\ c.op = "command" /\ c.pos = 0 /\ c.dev = Nil /\ c.list = <<>>
  BY <1>1, <1>3, ReadyAnew
<1>5. c \in CallTypes
  BY <1>4 DEF Ready
<1>6. c.then = Nil
  BY <1>1, IdleFields DEF CallTypes
<1>7. CASE Round("agent", c)
  <2>1. Carried("agent")
    BY <1>3, <1>4, <1>5, <1>7, RoundCarries
  <2>2. QED
    BY <1>2, <2>1 DEF Stretch
<1>8. CASE Goes("agent", Recording(c))
  <2>1. PICK r : r = Recording(c)
    OBVIOUS
  <2>2. /\ r \in CallTypes /\ r.at = "recording" /\ r.then = Nil /\ r.op = "command" /\ r.dev = Nil
        /\ r.list = <<>> /\ r.pos = 0
    BY <1>4, <1>5, <1>6, <2>1, RecordingFields
  <2>3. Sound(r, snapshots)
    BY <2>2, NilIsNoName, EmptySeq DEF Sound
  <2>4. HandsOn("agent", r, snapshots, order, {})
    BY <2>2 DEF HandsOn
  <2>5. Goes("agent", r)
    BY <1>8, <2>1
  <2>6. Carried("agent")
    BY <1>3, <2>2, <2>3, <2>4, <2>5, GoesCarries
  <2>7. QED
    BY <1>2, <2>6 DEF Stretch
<1>9. QED
  BY <1>2, <1>7, <1>8

LEMMA PassCarries ==
    ASSUME ServiceAssumption, IInv, PassEnds
    PROVE  Stretch("agent")
<1>1. calls["agent"].at = "reporting" /\ UNCHANGED <<file, rejected, assigned>> /\ Goes("agent", Idle)
  BY DEF PassEnds
<1>2. /\ "agent" \in Callers /\ ~Starting /\ ~WillRecord(calls["agent"])
      /\ \A e \in Devices : ~WillSync(calls["agent"], e)
  BY <1>1, OwesNothing DEF Callers
<1>3. Carried("agent")
  BY <1>1, <1>2, GoesNowhere
<1>4. QED
  BY <1>1, <1>3 DEF Stretch

-----------------------------------------------------------------------------
(* Steps that change one call only, or none.                               *)

LEMMA CallChanges ==
    ASSUME ServiceAssumption, IInv, NEW p \in Callers, NEW c \in CallTypes,
           calls' = [calls EXCEPT ![p] = c],
           UNCHANGED <<snapshots, order, recorders, rejected, assigned>>,
           file' \in SnapMaps, newest' \in Callers \cup {"file", Nil},
           Sound(c, snapshots),
           c.op = calls[p].op \/ (c.op # "start" /\ calls[p].op # "start"),
           c.op = "start" => Begun(c),
           p # "agent" => ~Starting \/ c.at = "idle",
           WillRecord(calls[p]) => WillRecord(c),
           \A d \in Devices : WillSync(calls[p], d) => WillSync(c, d)
    PROVE  TypeOK' /\ Objects' /\ StartInv' /\ RecordersInv'
<1>1. /\ calls \in [Callers -> CallTypes] /\ calls' \in [Callers -> CallTypes]
      /\ calls'[p] = c /\ \A q \in Callers : q # p => calls'[q] = calls[q]
  BY DEF IInv, TypeOK
<1>2. TypeOK'
  BY <1>1 DEF IInv, TypeOK
<1>3. Objects'
  BY <1>1 DEF IInv, Objects, Sound
<1>4. StartInv'
  <2>1. "agent" \in Callers
    BY DEF Callers
  <2>2. \A q \in Callers : calls'[q].op = "start" <=> calls[q].op = "start"
    BY <1>1
  <2>3. Starting' => Starting
    BY <2>1, <2>2 DEF Starting
  <2>4. \A q \in Callers : calls'[q].op = "start" => q = "agent"
    BY <2>2 DEF IInv, StartInv
  <2>5. ASSUME Starting
        PROVE  /\ Starting' => Begun(calls'["agent"])
               /\ \A q \in Callers \ {"agent"} : calls'[q].at = "idle"
               /\ order' = Sorted(Known(snapshots))
    <3>1. Begun(calls["agent"]) /\ (\A q \in Callers \ {"agent"} : calls[q].at = "idle")
          /\ order = Sorted(Known(snapshots))
      BY <2>5 DEF IInv, StartInv
    <3>2. Starting' => Begun(calls'["agent"])
      BY <1>1, <2>1, <3>1 DEF Starting
    <3>3. \A q \in Callers \ {"agent"} : calls'[q].at = "idle"
      BY <1>1, <2>5, <3>1
    <3>4. QED
      BY <3>1, <3>2, <3>3
  <2>6. Sorted(Known(snapshots))' = Sorted(Known(snapshots))
    BY DEF Sorted, Known
  <2>7. Begun(calls["agent"])' <=> Begun(calls'["agent"])
    BY DEF Begun
  <2>8. QED
    BY <2>3, <2>4, <2>5, <2>6, <2>7 DEF StartInv
<1>5. RecordersInv'
  <2>1. SUFFICES ASSUME ~rejected', NEW d \in Devices
                 PROVE  \/ Told(d)' \/ LastFailed(d)'
                        \/ \E q \in Callers : WillRecord(calls[q])' \/ WillSync(calls[q], d)'
    BY DEF RecordersInv
  <2>2. (Told(d) => Told(d)') /\ (LastFailed(d) => LastFailed(d)')
    BY DEF Told, LastFailed, Recorded, IsEnabled
  <2>3. \A q \in Callers : WillRecord(calls[q]) => WillRecord(calls[q])'
    BY <1>1 DEF WillRecord
  <2>4. ASSUME NEW q \in Callers, WillSync(calls[q], d)
        PROVE  WillSync(calls[q], d)'
    <3>1. PICK r : r = calls'[q]
      OBVIOUS
    <3>2. WillSync(r, d)
      BY <1>1, <2>4, <3>1
    <3>3. QED
      BY <3>1, <3>2 DEF WillSync, WillSyncIn, IsEnabled
  <2>5. \/ Told(d) \/ LastFailed(d)
        \/ \E q \in Callers : WillRecord(calls[q]) \/ WillSync(calls[q], d)
    BY <2>1 DEF IInv, RecordersInv
  <2>6. QED
    BY <2>2, <2>3, <2>4, <2>5
<1>6. QED
  BY <1>2, <1>3, <1>4, <1>5

LEMMA LoadKeeps ==
    ASSUME ServiceAssumption, IInv, LoadConfig
    PROVE  IInv'
<1>1. PICK c : c = [Idle EXCEPT !.op = "config", !.at = "loading", !.wanted = assigned]
  OBVIOUS
<1>2. /\ calls["agent"].at = "idle" /\ calls' = [calls EXCEPT !["agent"] = c]
      /\ UNCHANGED <<snapshots, order, file, newest, recorders, rejected, assigned>>
  BY <1>1 DEF LoadConfig
<1>3. "agent" \in Callers /\ assigned \in [Devices -> Configs \cup {Nil}]
  BY DEF Callers, IInv, TypeOK
<1>4. /\ c \in CallTypes /\ c.op = "config" /\ c.at = "loading" /\ c.then = Nil /\ c.dev = Nil
      /\ c.list = <<>> /\ c.pos = 0
  BY <1>1, <1>3, IdleFields DEF CallTypes, Points
<1>5. Sound(c, snapshots)
  BY <1>4, EmptySeq, NilIsNoName DEF Sound
<1>6. ~WillRecord(calls["agent"]) /\ \A d \in Devices : ~WillSync(calls["agent"], d)
  BY <1>2, <1>3, OwesNothing
<1>7. calls["agent"].op # "start"
  BY <1>2 DEF IInv, StartInv, Starting, Begun, Working
<1>8. file' \in SnapMaps /\ newest' \in Callers \cup {"file", Nil}
  BY <1>2 DEF IInv, TypeOK
<1>9. TypeOK' /\ Objects' /\ StartInv' /\ RecordersInv'
  BY <1>2, <1>3, <1>4, <1>5, <1>6, <1>7, <1>8, CallChanges
<1>10. FileInv'
  <2>1. newest # "agent"
    BY <1>2, <1>3 DEF IInv, FileInv
  <2>2. QED
    BY <1>2, <2>1 DEF IInv, TypeOK, FileInv
<1>11. QED
  BY <1>9, <1>10 DEF IInv

LEMMA FailKeeps ==
    ASSUME ServiceAssumption, IInv, RequestFails
    PROVE  IInv'
<1>1. /\ calls["agent"].at \in {"loading", "reporting"} /\ calls' = [calls EXCEPT !["agent"] = Idle]
      /\ UNCHANGED <<snapshots, order, file, newest, recorders, rejected, assigned>>
  BY DEF RequestFails
<1>2. "agent" \in Callers
  BY DEF Callers
<1>3. Idle \in CallTypes /\ Idle.op # "start" /\ Sound(Idle, snapshots)
  BY IdleFields, EmptySeq, NilIsNoName DEF Sound
<1>4. ~WillRecord(calls["agent"]) /\ \A d \in Devices : ~WillSync(calls["agent"], d)
  BY <1>1, <1>2, OwesNothing
<1>5. calls["agent"].op # "start"
  BY <1>1 DEF IInv, StartInv, Starting, Begun, Working
<1>6. file' \in SnapMaps /\ newest' \in Callers \cup {"file", Nil}
  BY <1>1 DEF IInv, TypeOK
<1>7. TypeOK' /\ Objects' /\ StartInv' /\ RecordersInv'
  BY <1>1, <1>2, <1>3, <1>4, <1>5, <1>6, CallChanges
<1>8. FileInv'
  <2>1. newest # "agent"
    BY <1>1, <1>2 DEF IInv, FileInv
  <2>2. QED
    BY <1>1, <2>1 DEF IInv, TypeOK, FileInv
<1>9. QED
  BY <1>7, <1>8 DEF IInv

\* The newest save has what is in memory, so that the file has it then.
LEMMA RenameKeeps ==
    ASSUME ServiceAssumption, IInv, NEW p \in Callers, SaveRenames(p)
    PROVE  IInv'
<1>1. PICK c : c = [calls[p] EXCEPT !.at = "saved", !.content = Idle.content]
  OBVIOUS
<1>2. calls \in [Callers -> CallTypes] /\ calls[p] \in CallTypes
  BY DEF IInv, TypeOK
<1>3. /\ calls[p].at = "saving" /\ file' = calls[p].content
      /\ newest' = IF newest = p THEN "file" ELSE IF newest = "file" THEN Nil ELSE newest
      /\ UNCHANGED <<snapshots, order, recorders, rejected, assigned>>
  BY DEF SaveRenames
<1>4. calls' = [calls EXCEPT ![p] = c]
  <2>1. calls' = [calls EXCEPT ![p].at = "saved", ![p].content = Idle.content]
    BY DEF SaveRenames
  <2>2. QED
    BY <1>1, <1>2, <2>1
<1>5. /\ c \in CallTypes /\ c.at = "saved" /\ c.op = calls[p].op /\ c.then = calls[p].then
      /\ c.dev = calls[p].dev /\ c.list = calls[p].list /\ c.pos = calls[p].pos
  BY <1>1, <1>2, IdleFields DEF CallTypes, Points
<1>6. Sound(c, snapshots)
  BY <1>3, <1>5 DEF IInv, Objects, Sound
<1>7. p # "agent" => ~Starting
  BY <1>3 DEF IInv, StartInv
<1>8. c.op = "start" => Begun(c)
  BY <1>3, <1>5 DEF IInv, StartInv, Starting, Begun, Working
<1>9. (WillRecord(calls[p]) => WillRecord(c)) /\ \A d \in Devices : WillSync(calls[p], d) => WillSync(c, d)
  BY <1>3, <1>5 DEF WillRecord, WillSync, WillSyncIn
<1>10. file' \in SnapMaps /\ newest' \in Callers \cup {"file", Nil}
  BY <1>2, <1>3, CallFields DEF IInv, TypeOK
<1>11. TypeOK' /\ Objects' /\ StartInv' /\ RecordersInv'
  <2>1. c \in CallTypes /\ (c.op = calls[p].op \/ (c.op # "start" /\ calls[p].op # "start"))
    BY <1>5
  <2>2. UNCHANGED <<snapshots, order, recorders, rejected, assigned>>
    BY <1>3
  <2>3. p # "agent" => ~Starting \/ c.at = "idle"
    BY <1>7
  <2>4. QED
    BY <1>4, <1>6, <1>8, <1>9, <1>10, <2>1, <2>2, <2>3, CallChanges
<1>12. FileInv'
  <2>1. CASE newest = p
    BY <1>3, <2>1, NilIsNoName DEF IInv, FileInv
  <2>2. CASE newest # p
    BY <1>2, <1>3, <1>4, <2>2, NilIsNoName DEF IInv, FileInv
  <2>3. QED
    BY <2>1, <2>2
<1>13. QED
  BY <1>11, <1>12 DEF IInv

LEMMA NothingKeeps ==
    ASSUME ServiceAssumption, IInv, assigned' \in [Devices -> Configs \cup {Nil}],
           UNCHANGED <<snapshots, order, file, calls, newest, recorders, rejected>>
    PROVE  IInv'
<1>1. TypeOK'
  BY DEF IInv, TypeOK
<1>2. Objects'
  BY DEF IInv, Objects, Sound
<1>3. FileInv'
  BY DEF IInv, FileInv
<1>4. StartInv'
  BY DEF IInv, StartInv, Starting, Begun, Sorted, Known
<1>5. RecordersInv'
  <2>1. \A d \in Devices : (Told(d) => Told(d)') /\ (LastFailed(d) => LastFailed(d)')
    BY DEF Told, LastFailed, Recorded, IsEnabled
  <2>2. \A q \in Callers : WillRecord(calls[q]) => WillRecord(calls[q])'
    BY DEF WillRecord
  <2>3. \A q \in Callers, d \in Devices : WillSync(calls[q], d) => WillSync(calls[q], d)'
    BY DEF WillSync, WillSyncIn, IsEnabled
  <2>4. QED
    BY <2>1, <2>2, <2>3 DEF IInv, RecordersInv
<1>6. QED
  BY <1>1, <1>2, <1>3, <1>4, <1>5 DEF IInv

LEMMA AssignKeeps ==
    ASSUME ServiceAssumption, IInv, NEW d \in Devices, NEW config \in Configs \cup {Nil},
           Assign(d, config)
    PROVE  IInv'
<1>1. /\ assigned' = [assigned EXCEPT ![d] = config]
      /\ UNCHANGED <<snapshots, order, file, calls, newest, recorders, rejected>>
  BY DEF Assign
<1>2. assigned' \in [Devices -> Configs \cup {Nil}]
  BY <1>1 DEF IInv, TypeOK
<1>3. QED
  BY <1>1, <1>2, NothingKeeps

-----------------------------------------------------------------------------
(* A node that starts.                                                     *)

\* The call of initialize() is at the first device of the file that is enabled.
Initializes(c, content, arr) ==
    /\ c \in CallTypes /\ c.op = "start" /\ c.at = "discovering" /\ c.then = Nil /\ c.list = <<>>
    /\ c.pos > 0 /\ c.dev \in Devices /\ content[c.dev] # Nil
    /\ \A d \in Devices : content[d] # Nil /\ IsEnabled(content[d]) =>
         c.dev = d \/ \E i \in DOMAIN arr : i > c.pos /\ arr[i] = d

LEMMA StartFacts ==
    ASSUME ServiceAssumption, NEW content \in SnapMaps
    PROVE  /\ Start(content).order = Sorted(Known(content))
           /\ Start(content).order \in Seq(Devices)
           /\ \A i \in DOMAIN Start(content).order : content[Start(content).order[i]] # Nil
           /\ Start(content).calls \in [Callers -> CallTypes]
           /\ \A q \in Callers \ {"agent"} : Start(content).calls[q] = Idle
           /\ \/ Initializes(Start(content).calls["agent"], content, Start(content).order)
              \/ /\ Start(content).calls["agent"] = Idle
                 /\ \A d \in Devices : content[d] # Nil => ~IsEnabled(content[d])
<1> DEFINE arr == Sorted(Known(content))
           on == {i \in DOMAIN arr : IsEnabled(content[arr[i]])}
<1>1. PICK first : first = Discovering([Idle EXCEPT !.op = "start", !.pos = Min(on)], arr[Min(on)], content)
  OBVIOUS
<1>2. /\ Start(content).order = arr
      /\ Start(content).calls = [q \in Callers |-> IF q = "agent" /\ on # {} THEN first ELSE Idle]
  BY <1>1 DEF Start
<1>3. Known(content) \in SUBSET Devices /\ \A d \in Devices : d \in Known(content) <=> content[d] # Nil
  BY DEF Known
<1>4. /\ arr \in Seq(Devices)
      /\ \A i \in DOMAIN arr : arr[i] \in Known(content)
      /\ \A d \in Known(content) : \E i \in DOMAIN arr : arr[i] = d
  BY <1>3, SortedFacts
<1> HIDE DEF arr
<1>5. \A i \in DOMAIN arr : i \in Nat \ {0}
  BY <1>4, LenProperties
<1>6. "agent" \in Callers /\ Idle \in CallTypes
  BY IdleFields DEF Callers
<1>7. CASE on = {}
  <2>1. \A d \in Devices : content[d] # Nil => ~IsEnabled(content[d])
    BY <1>3, <1>4, <1>7
  <2>2. Start(content).calls = [q \in Callers |-> Idle]
    BY <1>2, <1>7
  <2>3. QED
    BY <1>2, <1>3, <1>4, <1>6, <2>1, <2>2 DEF arr
<1>8. CASE on # {}
  <2>1. on \in SUBSET Nat
    BY <1>5
  <2>2. Min(on) \in on /\ \A i \in on : Min(on) <= i
    <3> HIDE DEF on
    <3>1. QED
      BY <1>8, <2>1, MinLeast
  <2>3. PICK n \in on : n = Min(on)
    BY <2>2
  <2>4. n \in DOMAIN arr /\ n \in Nat \ {0} /\ arr[n] \in Devices /\ content[arr[n]] # Nil
    BY <1>3, <1>4, <1>5
  <2>5. PICK d \in Devices : d = arr[n]
    BY <2>4
  <2>6. PICK r : r = [Idle EXCEPT !.op = "start", !.pos = n]
    OBVIOUS
  <2>7. r \in CallTypes /\ r.op = "start" /\ r.pos = n /\ r.list = <<>>
    BY <1>6, <2>4, <2>6, IdleFields DEF CallTypes
  <2>8. first = Discovering(r, d, content)
    BY <1>1, <2>3, <2>5, <2>6
  <2>9. /\ first \in CallTypes /\ first.at = "discovering" /\ first.then = Nil /\ first.op = "start"
        /\ first.dev = d /\ first.list = <<>> /\ first.pos = n
    BY <2>4, <2>5, <2>7, <2>8, DiscoveringFields
  <2>10. ASSUME NEW e \in Devices, content[e] # Nil, IsEnabled(content[e])
         PROVE  e = d \/ \E i \in DOMAIN arr : i > n /\ arr[i] = e
    <3>1. PICK i \in DOMAIN arr : arr[i] = e
      BY <1>3, <1>4, <2>10
    <3>2. i \in on /\ i \in Nat /\ n <= i
      BY <1>5, <2>2, <2>3, <2>10, <3>1
    <3>3. QED
      BY <2>4, <2>5, <3>1, <3>2
  <2>11. first.pos > 0 /\ first.dev \in Devices /\ content[first.dev] # Nil
    BY <2>4, <2>5, <2>9
  <2>12. Initializes(first, content, arr)
    BY <2>9, <2>10, <2>11 DEF Initializes
  <2>13. Start(content).calls = [q \in Callers |-> IF q = "agent" THEN first ELSE Idle]
    BY <1>2, <1>8
  <2>14. Start(content).calls["agent"] = first /\ Start(content).calls \in [Callers -> CallTypes]
         /\ \A q \in Callers \ {"agent"} : Start(content).calls[q] = Idle
    BY <1>6, <2>9, <2>13
  <2>15. QED
    BY <1>2, <1>3, <1>4, <2>12, <2>14 DEF arr
<1>9. QED
  BY <1>7, <1>8

\* Whatever the snapshots of the file, the first state of a node has the invariant.
LEMMA FreshCalls ==
    ASSUME ServiceAssumption, NEW content \in SnapMaps, NEW cs \in [Callers -> CallTypes], NEW arr,
           \A q \in Callers \ {"agent"} : cs[q] = Idle,
           \/ Initializes(cs["agent"], content, arr)
           \/ /\ cs["agent"] = Idle
              /\ \A d \in Devices : content[d] # Nil => ~IsEnabled(content[d])
    PROVE  /\ \A q \in Callers : Sound(cs[q], content)
           /\ \A q \in Callers : cs[q].op = "start" => q = "agent"
           /\ cs["agent"].op = "start" => Begun(cs["agent"])
           /\ \A q \in Callers \ {"agent"} : cs[q].at = "idle"
           /\ \A d \in Devices : content[d] # Nil /\ IsEnabled(content[d]) =>
                WillSyncIn(cs["agent"], d, content, arr)
<1>1. "agent" \in Callers
  BY DEF Callers
<1>2. Idle.at = "idle" /\ Idle.op # "start" /\ Sound(Idle, content)
  BY IdleFields, EmptySeq, NilIsNoName DEF Sound
<1>3. CASE Initializes(cs["agent"], content, arr)
  <2>1. PICK c : c = cs["agent"]
    OBVIOUS
  <2>2. Initializes(c, content, arr)
    BY <1>3, <2>1
  <2>3. Sound(c, content) /\ Begun(c)
    BY <2>2, EmptySeq, NilIsNoName DEF Initializes, Sound, Begun, Working
  <2>4. \A d \in Devices : content[d] # Nil /\ IsEnabled(content[d]) => WillSyncIn(c, d, content, arr)
    BY <2>2 DEF Initializes, WillSyncIn
  <2>5. \A q \in Callers : q # "agent" => cs[q] = Idle
    OBVIOUS
  <2>6. QED
    BY <1>1, <1>2, <2>1, <2>3, <2>4, <2>5
<1>4. CASE /\ cs["agent"] = Idle
           /\ \A d \in Devices : content[d] # Nil => ~IsEnabled(content[d])
  <2>1. \A q \in Callers : cs[q] = Idle
    BY <1>4
  <2>2. QED
    BY <1>1, <1>2, <1>4, <2>1
<1>5. QED
  BY <1>3, <1>4

LEMMA InitEstablishes ==
    ASSUME ServiceAssumption, Init
    PROVE  IInv
<1>1. file \in SnapMaps
  <2>1. [config : Configs, channels : Enabled, error : {FALSE}] \subseteq Snapshots
    BY DEF ServiceAssumption, Snapshots
  <2>2. file \in [Devices -> [config : Configs, channels : Enabled, error : {FALSE}] \cup {Nil}]
    BY DEF Init
  <2>3. QED
    BY <2>1, <2>2 DEF SnapMaps
<1>2. PICK content \in SnapMaps : content = file
  BY <1>1
<1>3. PICK arr : arr = Start(content).order
  OBVIOUS
<1>4. PICK cs : cs = Start(content).calls
  OBVIOUS
<1>5. /\ snapshots = content /\ order = arr /\ calls = cs /\ newest = "file"
      /\ recorders = [d \in Devices |-> Nil] /\ rejected = FALSE
      /\ assigned \in [Devices -> Configs \cup {Nil}]
  BY <1>2, <1>3, <1>4 DEF Init
<1>6. /\ arr = Sorted(Known(content)) /\ arr \in Seq(Devices)
      /\ \A i \in DOMAIN arr : content[arr[i]] # Nil
      /\ cs \in [Callers -> CallTypes]
      /\ \A q \in Callers \ {"agent"} : cs[q] = Idle
      /\ \/ Initializes(cs["agent"], content, arr)
         \/ /\ cs["agent"] = Idle
            /\ \A d \in Devices : content[d] # Nil => ~IsEnabled(content[d])
  BY <1>3, <1>4, StartFacts
<1>7. /\ \A q \in Callers : Sound(cs[q], content)
      /\ \A q \in Callers : cs[q].op = "start" => q = "agent"
      /\ cs["agent"].op = "start" => Begun(cs["agent"])
      /\ \A q \in Callers \ {"agent"} : cs[q].at = "idle"
      /\ \A d \in Devices : content[d] # Nil /\ IsEnabled(content[d]) =>
           WillSyncIn(cs["agent"], d, content, arr)
  BY <1>6, FreshCalls
<1>8. TypeOK
  BY <1>1, <1>2, <1>5, <1>6 DEF TypeOK
<1>9. Objects
  BY <1>5, <1>6, <1>7 DEF Objects
<1>10. FileInv
  BY <1>2, <1>5, NilIsNoName DEF FileInv
<1>11. StartInv
  BY <1>5, <1>6, <1>7 DEF StartInv, Starting
<1>12. RecordersInv
  <2>1. ASSUME NEW d \in Devices
        PROVE  \/ Told(d)
               \/ \E p \in Callers : WillSync(calls[p], d)
    <3>1. CASE snapshots[d] # Nil /\ IsEnabled(snapshots[d])
      <4>1. "agent" \in Callers
        BY DEF Callers
      <4>2. WillSync(calls["agent"], d)
        BY <1>5, <1>7, <3>1 DEF WillSync
      <4>3. QED
        BY <4>1, <4>2
    <3>2. CASE ~(snapshots[d] # Nil /\ IsEnabled(snapshots[d]))
      BY <1>5, <3>2 DEF Told, Recorded, IsEnabled
    <3>3. QED
      BY <3>1, <3>2
  <2>2. QED
    BY <2>1 DEF RecordersInv
<1>13. QED
  BY <1>8, <1>9, <1>10, <1>11, <1>12 DEF IInv

LEMMA RestartKeeps ==
    ASSUME ServiceAssumption, IInv, Restart
    PROVE  IInv'
<1>1. file \in SnapMaps /\ assigned \in [Devices -> Configs \cup {Nil}]
  BY DEF IInv, TypeOK
<1>2. PICK content \in SnapMaps : content = file
  BY <1>1
<1>3. PICK arr : arr = Start(content).order
  OBVIOUS
<1>4. PICK cs : cs = Start(content).calls
  OBVIOUS
<1>5. /\ snapshots' = content /\ order' = arr /\ calls' = cs /\ newest' = "file"
      /\ recorders' = [d \in Devices |-> Nil] /\ rejected' = FALSE
      /\ file' = content /\ assigned' = assigned
  BY <1>2, <1>3, <1>4 DEF Restart
<1>6. /\ arr = Sorted(Known(content)) /\ arr \in Seq(Devices)
      /\ \A i \in DOMAIN arr : content[arr[i]] # Nil
      /\ cs \in [Callers -> CallTypes]
      /\ \A q \in Callers \ {"agent"} : cs[q] = Idle
      /\ \/ Initializes(cs["agent"], content, arr)
         \/ /\ cs["agent"] = Idle
            /\ \A d \in Devices : content[d] # Nil => ~IsEnabled(content[d])
  BY <1>3, <1>4, StartFacts
<1>7. /\ \A q \in Callers : Sound(cs[q], content)
      /\ \A q \in Callers : cs[q].op = "start" => q = "agent"
      /\ cs["agent"].op = "start" => Begun(cs["agent"])
      /\ \A q \in Callers \ {"agent"} : cs[q].at = "idle"
      /\ \A d \in Devices : content[d] # Nil /\ IsEnabled(content[d]) =>
           WillSyncIn(cs["agent"], d, content, arr)
  BY <1>6, FreshCalls
<1>8. TypeOK'
  BY <1>1, <1>2, <1>5, <1>6 DEF TypeOK
<1>9. Objects'
  BY <1>5, <1>6, <1>7 DEF Objects
<1>10. FileInv'
  BY <1>5, NilIsNoName DEF FileInv
<1>11. StartInv'
  <2>1. Sorted(Known(snapshots))' = Sorted(Known(content))
    BY <1>5 DEF Sorted, Known
  <2>2. QED
    BY <1>5, <1>6, <1>7, <2>1 DEF StartInv, Starting, Begun
<1>12. RecordersInv'
  <2>1. ASSUME NEW d \in Devices
        PROVE  \/ Told(d)'
               \/ \E p \in Callers : WillSync(calls[p], d)'
    <3>1. CASE content[d] # Nil /\ IsEnabled(content[d])
      <4>1. "agent" \in Callers
        BY DEF Callers
      <4>2. WillSyncIn(cs["agent"], d, content, arr)
        BY <1>7, <3>1
      <4>3. WillSync(calls["agent"], d)'
        BY <1>5, <4>2 DEF WillSync, WillSyncIn, IsEnabled
      <4>4. QED
        BY <4>1, <4>3
    <3>2. CASE ~(content[d] # Nil /\ IsEnabled(content[d]))
      BY <1>5, <3>2 DEF Told, Recorded, IsEnabled
    <3>3. QED
      BY <3>1, <3>2
  <2>2. QED
    BY <2>1 DEF RecordersInv
<1>13. QED
  BY <1>8, <1>9, <1>10, <1>11, <1>12 DEF IInv

-----------------------------------------------------------------------------
(* The theorems.                                                           *)

LEMMA NextKeeps ==
    ASSUME ServiceAssumption, IInv, [Next]_vars
    PROVE  IInv'
<1>1. ASSUME NEW p \in Requests, NEW d \in Devices, NEW config \in Configs, upsertDevice(p, d, config)
      PROVE  IInv'
  BY <1>1, UpsertCarries, StretchKeeps DEF Callers
<1>2. ASSUME NEW p \in Requests, NEW d \in Devices, removeDevice(p, d)
      PROVE  IInv'
  BY <1>2, RemoveCarries, StretchKeeps DEF Callers
<1>3. ASSUME NEW p \in Requests, NEW d \in Devices, syncDevice(p, d)
      PROVE  IInv'
  BY <1>3, SyncDeviceCarries, StretchKeeps DEF Callers
<1>4. ASSUME NEW p \in Ticks, syncAll(p)
      PROVE  IInv'
  BY <1>4, SyncAllCarries, StretchKeeps DEF Callers
<1>5. ASSUME NEW p \in Callers, Awaited(p) \/ Rejected(p)
      PROVE  IInv'
  <2>1. CASE \E found \in BOOLEAN : DiscoveryEnds(p, found)
    BY <2>1, DiscoveryCarries, StretchKeeps
  <2>2. CASE SaveRenames(p)
    BY <2>2, RenameKeeps
  <2>3. CASE SaveReturns(p)
    BY <2>3, SaveReturnsCarries, StretchKeeps
  <2>4. CASE ReconcileReturns(p)
    BY <2>4, ReconcileReturnsCarries, StretchKeeps
  <2>5. CASE Rejected(p)
    BY <2>5, RejectedCarries, StretchKeeps
  <2>6. QED
    BY <1>5, <2>1, <2>2, <2>3, <2>4, <2>5 DEF Awaited
<1>6. "agent" \in Callers
  BY DEF Callers
<1>7. CASE LoadConfig
  BY <1>7, LoadKeeps
<1>8. CASE reconcileMasterDevices
  BY <1>6, <1>8, MasterCarries, StretchKeeps
<1>9. CASE RequestFails
  BY <1>9, FailKeeps
<1>10. CASE Command
  BY <1>6, <1>10, CommandCarries, StretchKeeps
<1>11. CASE PassEnds
  BY <1>6, <1>11, PassCarries, StretchKeeps
<1>12. ASSUME NEW d \in Devices, NEW config \in Configs \cup {Nil}, Assign(d, config)
       PROVE  IInv'
  BY <1>12, AssignKeeps
<1>13. CASE Restart
  BY <1>13, RestartKeeps
<1>14. CASE UNCHANGED vars
  BY <1>14, NothingKeeps DEF vars, IInv, TypeOK
<1>15. QED
  BY <1>1, <1>2, <1>3, <1>4, <1>5, <1>7, <1>8, <1>9, <1>10, <1>11, <1>12, <1>13, <1>14 DEF Next

\* The inductive invariant: what every state of the service is like.
THEOREM ServiceInvariant ==
    ASSUME ServiceAssumption
    PROVE  Spec => []IInv
<1>1. Init => IInv
  BY InitEstablishes
<1>2. IInv /\ [Next]_vars => IInv'
  BY NextKeeps
<1>3. QED
  BY <1>1, <1>2, PTL DEF Spec

\* Whatever requests, passes of the timer and polls of the master overlap, and wherever the
\* node is killed, once all is quiet the file of the store is what is in memory, unless the
\* newest save was rejected or an older one came through after it (service.ts persist(),
\* encryptedStore.ts save()).
THEOREM FileIsCurrent ==
    ASSUME ServiceAssumption
    PROVE  Spec => []FileCurrent
<1>1. IInv => FileCurrent
  BY DEF IInv, TypeOK, FileInv, Quiet, FileCurrent
<1>2. QED
  BY <1>1, ServiceInvariant, PTL

\* Once all is quiet and nothing was rejected, the recorder manager was last told to record
\* what is in memory, or the last synchronisation of the device failed (service.ts
\* reconcileRecorders() and those who call it).
THEOREM RecordersAreCurrent ==
    ASSUME ServiceAssumption
    PROVE  Spec => []RecordersCurrent
<1>1. IInv => RecordersCurrent
  <2>1. SUFFICES ASSUME IInv, Quiet, ~rejected, NEW d \in Devices
                 PROVE  \/ snapshots[d] # Nil /\ IsEnabled(snapshots[d]) /\ snapshots[d].error
                        \/ recorders[d] = Recorded(snapshots)[d]
    BY DEF RecordersCurrent
  <2>2. \A p \in Callers : ~WillRecord(calls[p]) /\ ~WillSync(calls[p], d)
    <3>1. \A p \in Callers : calls[p].at \in {"idle", "loading", "reporting"}
      BY <2>1 DEF Quiet
    <3>2. \A p \in Callers : calls[p].op # "start"
      BY <2>1, <3>1 DEF IInv, StartInv, Starting, Begun, Working
    <3>3. QED
      BY <3>1, <3>2 DEF WillRecord, WillSync, WillSyncIn
  <2>3. QED
    BY <2>1, <2>2 DEF IInv, RecordersInv, Told, LastFailed
<1>2. QED
  BY <1>1, ServiceInvariant, PTL
=============================================================================
