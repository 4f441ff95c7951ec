--------------------------- MODULE RunCacheProofs ---------------------------
(***************************************************************************)
(* The properties of the sticky cache, for any set of runs and any size.   *)
(***************************************************************************)
EXTENDS RunCache, FiniteSetTheorems, TLAPS

\* Taking a slot of a cache that is not full and was never overfull does not
\* overfill it: this is why is_full may be an equality test.
LEMMA RoomForOneMore ==
    ASSUME RoomForOne, NoOverflow, ~Full, NEW r
    PROVE  /\ IsFiniteSet(cached \cup {r})
           /\ Cardinality(cached \cup {r}) <= Size
<1>1. Cardinality(cached) \in Nat /\ Cardinality(cached) <= Size
  BY FS_CardinalityType DEF NoOverflow
<1>2. Cardinality(cached) < Size
  BY <1>1 DEF Full, RoomForOne
<1>3. /\ IsFiniteSet(cached \cup {r})
      /\ Cardinality(cached \cup {r}) = Cardinality(cached)
         \/ Cardinality(cached \cup {r}) = Cardinality(cached) + 1
  BY FS_AddElement DEF NoOverflow
<1> QED
  BY <1>1, <1>2, <1>3 DEF RoomForOne

\* A slot passed on from the run that leaves to another run.
LEMMA SlotPassedOn ==
    ASSUME RoomForOne, NoOverflow, NEW r \in cached, NEW s
    PROVE  LET C == (cached \ {r}) \cup {s}
           IN  IsFiniteSet(C) /\ Cardinality(C) <= Size
<1> DEFINE D == cached \ {r}
<1>1. /\ IsFiniteSet(D)
      /\ Cardinality(D) = Cardinality(cached) - 1
  BY FS_RemoveElement DEF NoOverflow
<1>2. Cardinality(cached) \in Nat /\ Cardinality(cached) <= Size
  BY FS_CardinalityType DEF NoOverflow
<1>3. /\ IsFiniteSet(D \cup {s})
      /\ \/ Cardinality(D \cup {s}) = Cardinality(D)
         \/ Cardinality(D \cup {s}) = Cardinality(D) + 1
  BY <1>1, FS_AddElement
<1> QED
  BY <1>1, <1>2, <1>3 DEF RoomForOne

\* A run that leaves makes room.
LEMMA SlotFreed ==
    ASSUME RoomForOne, NoOverflow, NEW r \in cached
    PROVE  IsFiniteSet(cached \ {r}) /\ Cardinality(cached \ {r}) <= Size
<1>1. /\ IsFiniteSet(cached \ {r})
      /\ Cardinality(cached \ {r}) = Cardinality(cached) - 1
  BY FS_RemoveElement DEF NoOverflow
<1>2. Cardinality(cached) \in Nat /\ Cardinality(cached) <= Size
  BY FS_CardinalityType DEF NoOverflow
<1> QED
  BY <1>1, <1>2 DEF RoomForOne

-----------------------------------------------------------------------------
(* The inductive invariant.                                                *)

IInv == TypeOK /\ NoOverflow /\ WaitsOnce

\* An empty cache is within its size.
LEMMA InitInv == RoomForOne /\ Init => IInv
<1> SUFFICES ASSUME RoomForOne, Init PROVE IInv
  OBVIOUS
<1>1. TypeOK
  BY DEF Init, TypeOK
<1>2. NoOverflow
  BY FS_EmptySet DEF Init, NoOverflow, RoomForOne
<1>3. WaitsOnce
  BY DEF Init, WaitsOnce
<1> QED
  BY <1>1, <1>2, <1>3 DEF IInv

\* Eviction requests only concern cached runs.
LEMMA RequestsType ==
    ASSUME NEW gone, MayRequestEvictions(gone)
    PROVE  evicting' \subseteq cached'
BY DEF MayRequestEvictions

\* A run that does not wait yet may join the queue, and the first may leave it.
LEMMA QueueFacts ==
    ASSUME TypeOK, WaitsOnce
    PROVE  /\ \A r \in Run : ~Waits(r) =>
                 /\ Append(waiting, r) \in Seq(Run)
                 /\ \A i, j \in 1 .. Len(Append(waiting, r)) :
                       Append(waiting, r)[i] = Append(waiting, r)[j] => i = j
           /\ waiting # <<>> =>
                 /\ Head(waiting) \in Run
                 /\ Tail(waiting) \in Seq(Run)
                 /\ \A i, j \in 1 .. Len(Tail(waiting)) :
                       Tail(waiting)[i] = Tail(waiting)[j] => i = j
<1>1. waiting \in Seq(Run)
  BY DEF TypeOK
<1>2. ASSUME NEW r \in Run, ~Waits(r)
      PROVE  /\ Append(waiting, r) \in Seq(Run)
             /\ \A i, j \in 1 .. Len(Append(waiting, r)) :
                   Append(waiting, r)[i] = Append(waiting, r)[j] => i = j
  BY <1>1, <1>2 DEF Waits, WaitsOnce
<1>3. ASSUME waiting # <<>>
      PROVE  /\ Head(waiting) \in Run
             /\ Tail(waiting) \in Seq(Run)
             /\ \A i, j \in 1 .. Len(Tail(waiting)) :
                   Tail(waiting)[i] = Tail(waiting)[j] => i = j
  <2>1. /\ Head(waiting) = waiting[1]
        /\ Tail(waiting) \in Seq(Run)
        /\ Len(waiting) \in Nat \ {0}
        /\ Len(Tail(waiting)) = Len(waiting) - 1
        /\ \A i \in 1 .. Len(Tail(waiting)) : Tail(waiting)[i] = waiting[i + 1]
    BY <1>1, <1>3
  <2> QED
    BY <1>1, <2>1 DEF WaitsOnce
<1> QED
  BY <1>2, <1>3

\* Every step keeps the cache within its size and the queue without repetition.
LEMMA NextInv == RoomForOne /\ IInv /\ [Next]_vars => IInv'
<1> SUFFICES ASSUME RoomForOne, IInv, [Next]_vars PROVE IInv'
  OBVIOUS
<1> USE DEF IInv
<1>1. CASE RequestEviction
  <2>1. evicting' \subseteq cached' /\ cached' = cached /\ waiting' = waiting
    BY <1>1, RequestsType DEF RequestEviction
  <2> QED
    BY <2>1 DEF TypeOK, NoOverflow, WaitsOnce
<1>2. ASSUME NEW r \in Run, Instantiate(r) PROVE IInv'
  <2>1. /\ evicting' \subseteq cached'
        /\ cached' = cached \cup {r}
        /\ waiting' = waiting
        /\ ~Full
    BY <1>2, RequestsType DEF Instantiate
  <2>2. NoOverflow'
    BY <2>1, RoomForOneMore DEF NoOverflow
  <2>3. TypeOK' /\ WaitsOnce'
    BY <2>1 DEF TypeOK, WaitsOnce
  <2> QED
    BY <2>2, <2>3
<1>3. ASSUME NEW r \in Run, BufferPoll(r) PROVE IInv'
  <2>1. /\ evicting' \subseteq cached'
        /\ cached' = cached
        /\ waiting' = IF Waits(r) THEN waiting ELSE Append(waiting, r)
    BY <1>3, RequestsType DEF BufferPoll
  <2>2. NoOverflow'
    BY <2>1 DEF NoOverflow
  <2>3. TypeOK'
    BY <2>1, QueueFacts DEF TypeOK
  <2>4. WaitsOnce'
    <3>1. CASE Waits(r)
      BY <2>1, <3>1 DEF WaitsOnce
    <3>2. CASE ~Waits(r)
      BY <2>1, <3>2, QueueFacts DEF WaitsOnce
    <3> QED
      BY <3>1, <3>2
  <2> QED
    BY <2>2, <2>3, <2>4
<1>4. ASSUME NEW r \in Run, Evict(r) PROVE IInv'
  <2>1. r \in cached /\ evicting' \subseteq cached'
    BY <1>4, RequestsType DEF Evict, TypeOK
  <2>2. CASE cached' \in {cached, cached \ {r}} /\ waiting' = waiting
    <3>1. NoOverflow'
      BY <2>1, <2>2, SlotFreed DEF NoOverflow
    <3>2. TypeOK' /\ WaitsOnce'
      BY <2>1, <2>2 DEF TypeOK, WaitsOnce
    <3> QED
      BY <3>1, <3>2
  <2>3. CASE /\ waiting # <<>>
             /\ waiting' = Tail(waiting)
             /\ cached' \in {cached \ {r}, (cached \ {r}) \cup {Head(waiting)}}
    <3>1. NoOverflow'
      BY <2>1, <2>3, SlotFreed, SlotPassedOn DEF NoOverflow
    <3>2. TypeOK'
      BY <2>1, <2>3, QueueFacts DEF TypeOK
    <3>3. WaitsOnce'
      BY <2>3, QueueFacts DEF WaitsOnce
    <3> QED
      BY <3>1, <3>2, <3>3
  <2> QED
    BY <1>4, <2>2, <2>3 DEF Evict
<1>5. CASE UNCHANGED vars
  BY <1>5 DEF vars, TypeOK, NoOverflow, WaitsOnce
<1> QED
  BY <1>1, <1>2, <1>3, <1>4, <1>5 DEF Next

\* The strengthened invariant holds throughout.
THEOREM Invariance == RoomForOne /\ Spec => []IInv
<1>1. RoomForOne' <=> RoomForOne
  BY DEF RoomForOne
<1> QED
  BY <1>1, InitInv, NextInv, PTL DEF Spec

\* Cached runs are runs, and only cached runs are being evicted.
THEOREM TypeCorrect == RoomForOne /\ Spec => []TypeOK
<1>1. IInv => TypeOK
  BY DEF IInv
<1> QED
  BY <1>1, Invariance, PTL

\* "Overflowed run cache! Cache owner is expected to avoid this!" is not reached,
\* whatever the size of the cache.
THEOREM CacheNeverOverflows == RoomForOne /\ Spec => []NoOverflow
<1>1. IInv => NoOverflow
  BY DEF IInv
<1> QED
  BY <1>1, Invariance, PTL

\* All the tasks of a run that wait for a slot wait in one place.
THEOREM QueueHasNoDuplicates == RoomForOne /\ Spec => []WaitsOnce
<1>1. IInv => WaitsOnce
  BY DEF IInv
<1> QED
  BY <1>1, Invariance, PTL

=============================================================================
