--------------------------- MODULE SlotPoolProofs ---------------------------
(***************************************************************************)
(* The slot pool never exceeds its limits, for every finite set of         *)
(* sessions, all workers and all limits.                                   *)
(***************************************************************************)
EXTENDS SlotPool, FiniteSetTheorems, TLAPS

\* The type of the assignment map is kept by every operation of the pool.
THEOREM TypeCorrect == Spec => []TypeOK
<1>1. Init => TypeOK
  BY DEF Init, TypeOK
<1>2. TypeOK /\ [Next]_assigned => TypeOK'
  BY DEF TypeOK, Next, Acquire, Release, LoseWorker, Clear
<1>3. QED
  BY <1>1, <1>2, PTL DEF Spec

\* Taking slots away from sessions lowers every count or leaves it.
LEMMA FewerHolders ==
    ASSUME SlotPoolAssumption,
           TypeOK,
           \A s \in Sessions : assigned'[s] \in {assigned[s], NoWorker}
    PROVE  /\ Cardinality(AllHolders') <= Cardinality(AllHolders)
           /\ \A w \in Workers : Cardinality(Holders(w)') <= Cardinality(Holders(w))
<1>1. AllHolders' \subseteq AllHolders
  BY DEF AllHolders
<1>2. \A w \in Workers : Holders(w)' \subseteq Holders(w)
  BY DEF SlotPoolAssumption, Holders
<1>3. IsFiniteSet(AllHolders) /\ \A w \in Workers : IsFiniteSet(Holders(w))
  BY FS_Subset DEF SlotPoolAssumption, AllHolders, Holders
<1>4. QED
  BY <1>1, <1>2, <1>3, FS_Subset

\* The empty pool is within its limits.
LEMMA InitCapacity == SlotPoolAssumption /\ Init => Capacity
<1> SUFFICES ASSUME SlotPoolAssumption, Init
             PROVE  Capacity
  OBVIOUS
<1>1. AllHolders = {} /\ \A w \in Workers : Holders(w) = {}
  BY DEF Init, AllHolders, Holders, SlotPoolAssumption
<1>2. QED
  BY <1>1, FS_EmptySet DEF Capacity, SlotPoolAssumption

\* Every operation keeps a pool within its limits.
LEMMA CapacityPreserved ==
    SlotPoolAssumption /\ TypeOK /\ Capacity /\ [Next]_assigned => Capacity'
<1> SUFFICES ASSUME SlotPoolAssumption, TypeOK, Capacity, [Next]_assigned
             PROVE  Capacity'
  OBVIOUS
<1>0. /\ IsFiniteSet(AllHolders)
      /\ \A w \in Workers : IsFiniteSet(Holders(w))
  BY FS_Subset DEF SlotPoolAssumption, AllHolders, Holders
<1>1. ASSUME NEW s \in Sessions, NEW w \in Workers, Acquire(s, w)
      PROVE  Capacity'
  <2>1. /\ AllHolders' = AllHolders \cup {s}
        /\ Holders(w)' = Holders(w) \cup {s}
        /\ \A v \in Workers \ {w} : Holders(v)' = Holders(v)
    BY <1>1 DEF SlotPoolAssumption, Acquire, AllHolders, Holders, TypeOK
  <2>2. s \notin AllHolders /\ s \notin Holders(w)
    BY <1>1 DEF SlotPoolAssumption, Acquire, AllHolders, Holders
  <2>3. /\ Cardinality(AllHolders') = Cardinality(AllHolders) + 1
        /\ Cardinality(Holders(w)') = Cardinality(Holders(w)) + 1
    BY <1>0, <2>1, <2>2, FS_AddElement
  <2>4. /\ Cardinality(AllHolders) \in Nat
        /\ Cardinality(Holders(w)) \in Nat
    BY <1>0, FS_CardinalityType
  <2>5. /\ Cardinality(AllHolders') <= MaxPerDvr
        /\ Cardinality(Holders(w)') <= MaxPerWorker
    BY <1>1, <2>3, <2>4 DEF SlotPoolAssumption, Acquire
  <2>6. \A v \in Workers \ {w} : Cardinality(Holders(v)') <= MaxPerWorker
    BY <2>1 DEF Capacity
  <2>7. QED
    BY <2>5, <2>6 DEF Capacity
<1>2. ASSUME \A s \in Sessions : assigned'[s] \in {assigned[s], NoWorker}
      PROVE  Capacity'
  <2>1. /\ Cardinality(AllHolders') <= Cardinality(AllHolders)
        /\ \A w \in Workers : Cardinality(Holders(w)') <= Cardinality(Holders(w))
    BY <1>2, FewerHolders
  <2>2. IsFiniteSet(AllHolders') /\ \A w \in Workers : IsFiniteSet(Holders(w)')
    BY FS_Subset DEF SlotPoolAssumption, AllHolders, Holders
  <2>3. /\ Cardinality(AllHolders) \in Nat
        /\ Cardinality(AllHolders') \in Nat
        /\ \A w \in Workers : /\ Cardinality(Holders(w)) \in Nat
                              /\ Cardinality(Holders(w)') \in Nat
    BY <1>0, <2>2, FS_CardinalityType
  <2>4. QED
    BY <2>1, <2>3 DEF SlotPoolAssumption, Capacity
<1>3. CASE \E s \in Sessions : Release(s)
  BY <1>2, <1>3 DEF Release, TypeOK
<1>4. CASE \E w \in Workers : LoseWorker(w)
  BY <1>2, <1>4 DEF LoseWorker
<1>5. CASE Clear
  BY <1>2, <1>5 DEF Clear
<1>6. CASE UNCHANGED assigned
  BY <1>2, <1>6
<1>7. QED
  BY <1>1, <1>3, <1>4, <1>5, <1>6 DEF Next

\* No worker and no DVR is ever given more sessions than its configured limit
\* (selectArchiveWorker tests both counts, and every other step only releases).
THEOREM CapacityKept ==
    ASSUME SlotPoolAssumption
    PROVE  Spec => []Capacity
BY InitCapacity, CapacityPreserved, TypeCorrect, PTL DEF Spec
=============================================================================
