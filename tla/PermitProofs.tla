----------------------------- MODULE PermitProofs -----------------------------
(* The permits of a worker, for every configuration: any number of pollers,     *)
(* slots, tasks and eager starts.  A permit is always in one place, and the     *)
(* maximum is exceeded by the pollers that passed the check together at most.   *)
EXTENDS Worker, FiniteSetTheorems, SequenceTheorems, TLAPS

(* Time for the leaves with the larger records *)
USE SMTT(30)

Bit(b) == IF b THEN 1 ELSE 0

(* What each part may hold: one permit, or none                                 *)
Permits == [kind : Buffers, used : Buffers \cup {"no"}]
One == {s \in Seq(Permits) : Len(s) = 1}
Items == [res : {"task", "empty", "bad"}, slot : One] \cup [res : {"error"}, slot : {NoSlot}]
Outs == [permit : Permits, la : {"no", "queued", "running"}]

\* A sequence of one permit is not empty.
LEMMA OneSlot ==
    ASSUME NEW s \in One
    PROVE  s # NoSlot /\ Len(s) = 1 /\ s \in Seq(Permits) /\ s[1] \in Permits
BY DEF One, NoSlot

\* The permit a poller asks for.
LEMMA PermitIsOne ==
    ASSUME NEW b \in Buffers
    PROVE  <<Permit(b)>> \in One
<1>1. Permit(b) \in Permits
  BY DEF Permit, Permits
<1> QED
  BY <1>1 DEF One

\* An answer holds a permit unless it is an error.
LEMMA ItemSlot ==
    ASSUME NEW it \in Items
    PROVE  /\ Len(it.slot) = Bit(it.slot # NoSlot)
           /\ it.res = "error" => it.slot = NoSlot
           /\ it.res # "error" => it.slot \in One /\ it.slot # NoSlot
           /\ it.res \in {"task", "empty", "bad", "error"}
<1>1. CASE it \in [res : {"task", "empty", "bad"}, slot : One]
  BY <1>1, OneSlot DEF Bit
<1>2. CASE it \in [res : {"error"}, slot : {NoSlot}]
  BY <1>2 DEF Bit, NoSlot
<1> QED
  BY <1>1, <1>2 DEF Items

\* The number of permits in a buffer is a number.
LEMMA SlotsFinite ==
    ASSUME NEW items \in Seq(Items)
    PROVE  /\ IsFiniteSet({i \in DOMAIN items : items[i].slot # NoSlot})
           /\ SlotsOf(items) \in Nat
<1> DEFINE S == {i \in DOMAIN items : items[i].slot # NoSlot}
<1>1. IsFiniteSet(1..Len(items))
  BY FS_Interval
<1>2. S \in SUBSET (1..Len(items))
  OBVIOUS
<1>3. IsFiniteSet(S)
  BY <1>1, <1>2, FS_Subset
<1> QED
  BY <1>3, FS_CardinalityType DEF SlotsOf

\* An answer put into a buffer adds the permit it holds.
LEMMA SlotsAppend ==
    ASSUME NEW items \in Seq(Items), NEW x \in Items
    PROVE  SlotsOf(Append(items, x)) = SlotsOf(items) + Bit(x.slot # NoSlot)
<1> DEFINE S == {i \in DOMAIN items : items[i].slot # NoSlot}
           more == Append(items, x)
           T == {i \in DOMAIN more : more[i].slot # NoSlot}
<1>1. IsFiniteSet(S) /\ Cardinality(S) \in Nat
  BY SlotsFinite DEF SlotsOf
<1>2. /\ DOMAIN more = 1..(Len(items) + 1) /\ more[Len(items) + 1] = x
      /\ DOMAIN items = 1..Len(items) /\ Len(items) \in Nat
      /\ \A i \in 1..Len(items) : more[i] = items[i]
  OBVIOUS
<1> HIDE DEF more
<1>3. CASE x.slot # NoSlot
  <2>1. T = S \cup {Len(items) + 1} /\ Len(items) + 1 \notin S
    BY <1>2, <1>3
  <2> HIDE DEF S, T
  <2>2. Cardinality(T) = Cardinality(S) + 1
    BY Zenon, <1>1, <2>1, FS_AddElement
  <2> QED
    BY Zenon, <1>3, <2>2 DEF SlotsOf, S, T, more, Bit
<1>4. CASE x.slot = NoSlot
  <2>1. T = S
    BY <1>2, <1>4
  <2>2. Bit(x.slot # NoSlot) = 0
    BY <1>4 DEF Bit
  <2> HIDE DEF S, T
  <2>3. Cardinality(T) = Cardinality(S) + 0
    BY <1>1, <2>1
  <2> QED
    BY Zenon, <2>2, <2>3 DEF SlotsOf, S, T, more
<1> QED
  BY <1>3, <1>4

\* An answer taken from a buffer takes along the permit it holds.
LEMMA SlotsTail ==
    ASSUME NEW items \in Seq(Items), items # <<>>
    PROVE  /\ Head(items) \in Items /\ Tail(items) \in Seq(Items)
           /\ SlotsOf(Tail(items)) = SlotsOf(items) - Bit(Head(items).slot # NoSlot)
<1> DEFINE S == {i \in DOMAIN items : items[i].slot # NoSlot}
           rest == Tail(items)
           T == {i \in DOMAIN rest : rest[i].slot # NoSlot}
<1>1. Head(items) \in Items /\ rest \in Seq(Items)
  BY HeadTailProperties
<1>2. IsFiniteSet(S) /\ Cardinality(S) \in Nat
  BY SlotsFinite DEF SlotsOf
<1>3. IsFiniteSet(T) /\ Cardinality(T) \in Nat
  BY Zenon, <1>1, SlotsFinite DEF SlotsOf
<1>4. /\ DOMAIN items = 1..Len(items) /\ Len(items) \in Nat /\ Len(items) > 0
      /\ DOMAIN rest = 1..(Len(items) - 1) /\ items[1] = Head(items)
      /\ \A i \in 1..(Len(items) - 1) : rest[i] = items[i + 1]
  OBVIOUS
<1> HIDE DEF rest
<1>5. Cardinality(S \ {1}) = Cardinality(T)
  <2> DEFINE f == [i \in T |-> i + 1]
  <2>1. f \in [T -> S \ {1}] /\ \A i, j \in T : f[i] = f[j] => i = j
    BY <1>4
  <2>2. ASSUME NEW k \in S \ {1} PROVE \E i \in T : f[i] = k
    <3>1. k - 1 \in T /\ f[k - 1] = k
      BY <1>4, <2>2
    <3> QED
      BY <3>1
  <2> HIDE DEF f, S, T
  <2>3. f \in Bijection(T, S \ {1})
    BY <2>1, <2>2 DEF Bijection, Injection, Surjection, IsInjective
  <2> QED
    BY <1>3, <2>3, FS_Bijection DEF ExistsBijection
<1>6. 1 \in S <=> Head(items).slot # NoSlot
  BY <1>4
<1> HIDE DEF S, T
<1>7. Cardinality(T) = IF 1 \in S THEN Cardinality(S) - 1 ELSE Cardinality(S)
  BY Zenon, <1>2, <1>5, FS_RemoveElement
<1>8. Bit(Head(items).slot # NoSlot) = IF 1 \in S THEN 1 ELSE 0
  BY <1>6 DEF Bit
<1>9. Cardinality(T) = Cardinality(S) - Bit(Head(items).slot # NoSlot)
  BY <1>2, <1>7, <1>8
<1> QED
  BY Zenon, <1>1, <1>9 DEF SlotsOf, S, T, rest
-----------------------------------------------------------------------------
(* Dealers: how the extant permits and the semaphore change together            *)
DealerOK(d) ==
  /\ DOMAIN d = {"max", "extant", "unused", "supplier"}
  /\ d.max \in Nat /\ d.extant \in Int
  /\ "type" \in DOMAIN d.supplier /\ d.supplier.type \in {"fixed", "resource"}
  /\ d.supplier.type = "fixed" => d.supplier.free \in Int

Goes(d, e, n) ==
  /\ DealerOK(e)
  /\ e.max = d.max /\ e.extant = d.extant + n /\ e.supplier.type = d.supplier.type
  /\ d.supplier.type = "fixed" => e.supplier.free = d.supplier.free - n

\* build_owned adds a permit, and takes a slot of the semaphore.
LEMMA BuildGoes ==
    ASSUME NEW d, DealerOK(d), NEW kind \in Buffers
    PROVE  Goes(d, BuildOwned(d, kind), 1)
<1> DEFINE s == ReserveSlot(d.supplier, kind)
<1>1. /\ "type" \in DOMAIN s /\ s.type = d.supplier.type
      /\ d.supplier.type = "fixed" => s.free = d.supplier.free - 1
  <2>1. CASE d.supplier.type = "fixed"
    BY <2>1 DEF ReserveSlot, FixedSizeSlots
  <2>2. CASE d.supplier.type # "fixed"
    BY <2>2 DEF ReserveSlot, IssueSlot, Buffers, WftBuffers, DealerOK
  <2> QED
    BY <2>1, <2>2
<1> HIDE DEF s
<1>2. BuildOwned(d, kind) = Dealer(d.max, d.extant + 1, d.unused + 1, s)
  BY DEF BuildOwned, s
<1> QED
  BY <1>1, <1>2 DEF Goes, DealerOK, Dealer

\* Permits dropped unused give their slots back to the semaphore.
LEMMA UnusedGoes ==
    ASSUME NEW d, DealerOK(d), NEW n \in Nat
    PROVE  Goes(d, ReleaseUnused(d, n), 0 - n)
<1>1. CASE d.supplier.type = "fixed"
  <2>1. ReleaseUnused(d, n) =
          Dealer(d.max, d.extant - n, d.unused - n, FixedSizeSlots(d.supplier.free + n))
    BY <1>1 DEF ReleaseUnused
  <2> QED
    BY <1>1, <2>1 DEF Goes, DealerOK, Dealer, FixedSizeSlots
<1>2. CASE d.supplier.type # "fixed"
  <2>1. ReleaseUnused(d, n) = Dealer(d.max, d.extant - n, d.unused - n, d.supplier)
    BY <1>2 DEF ReleaseUnused
  <2> QED
    BY <1>2, <2>1 DEF Goes, DealerOK, Dealer
<1> QED
  BY <1>1, <1>2

\* So does a permit dropped with its task.
LEMMA ReleaseGoes ==
    ASSUME NEW d, DealerOK(d), NEW p \in Permits
    PROVE  Goes(d, Release(d, p), 0 - 1)
<1> DEFINE s == ReleaseSlot(d.supplier, p)
<1>1. /\ "type" \in DOMAIN s /\ s.type = d.supplier.type
      /\ d.supplier.type = "fixed" => s.free = d.supplier.free + 1
  <2>1. CASE d.supplier.type = "fixed"
    BY <2>1 DEF ReleaseSlot, FixedSizeSlots
  <2>2. CASE d.supplier.type = "resource" /\ p.used \in WorkflowKinds
    BY <2>2 DEF ReleaseSlot, WorkflowKinds, DealerOK
  <2>3. CASE d.supplier.type = "resource" /\ p.used \notin WorkflowKinds
    BY <2>3 DEF ReleaseSlot, DealerOK
  <2> QED
    BY <2>1, <2>2, <2>3 DEF DealerOK
<1> HIDE DEF s
<1>2. Release(d, p) = Dealer(d.max, d.extant - 1, d.unused, s)
  BY DEF Release, s
<1> QED
  BY <1>1, <1>2 DEF Goes, DealerOK, Dealer

\* Using a permit keeps it extant.
LEMMA UsedGoes ==
    ASSUME NEW d, DealerOK(d)
    PROVE  Goes(d, IntoUsed(d), 0) /\ Goes(d, d, 0)
BY DEF Goes, DealerOK, IntoUsed, Dealer
-----------------------------------------------------------------------------
(* The invariant: where permits may be, that every extant one is in one place,  *)
(* and that pollers past the check are counted with the permits                 *)
PollerOK(r) ==
  /\ {"at", "permit"} \subseteq DOMAIN r
  /\ IF r.at = "poll" THEN r.permit \in One ELSE r.permit = NoSlot

PollersFinite == IsFiniteSet(DOMAIN pollers)
PollersType == \A p \in DOMAIN pollers : p[1] \in Buffers /\ PollerOK(pollers[p])

Buffer == [items : Seq(Items), started : BOOLEAN]
BufsType == bufs \in [Buffers -> Buffer]

OutType == "out" \in DOMAIN wfs /\ wfs.out \in Seq(Outs)

CallOK(r) ==
  /\ {"at", "slot", "call"} \subseteq DOMAIN r
  /\ r.slot = NoSlot \/ r.slot \in One
  /\ r.at # "flight" => r.slot = NoSlot

CallsFinite == IsFiniteSet(DOMAIN eager.calls)
EagerType ==
  /\ {"calls", "queue"} \subseteq DOMAIN eager
  /\ eager.queue \in Seq(Permits)
  /\ \A c \in DOMAIN eager.calls : CallOK(eager.calls[c])

HandlersType == handlers \in Seq({"running", "reporting", "done"})

DealersType ==
  /\ DOMAIN dealers = {"wft", "nexus"}
  /\ DealerOK(dealers.wft) /\ DealerOK(dealers.nexus)

TunerKept == {"tuner", "wft", "nexus"} \subseteq DOMAIN plan

PermitTypes ==
  /\ PollersFinite /\ PollersType /\ BufsType /\ OutType /\ CallsFinite /\ EagerType
  /\ HandlersType /\ DealersType /\ TunerKept

PermitInv == PermitTypes /\ PermitsAccounted /\ OvershootBounded
-----------------------------------------------------------------------------
(* Counting                                                                     *)

\* Sets that differ in one element.
LEMMA SameBut ==
    ASSUME NEW A, NEW B, NEW x, IsFiniteSet(A), A \ {x} = B \ {x}
    PROVE  /\ IsFiniteSet(B) /\ Cardinality(A) \in Nat /\ Cardinality(B) \in Nat
           /\ Cardinality(B) = Cardinality(A) + Bit(x \in B) - Bit(x \in A)
<1>1. IsFiniteSet(A \ {x}) /\ Cardinality(A \ {x}) = IF x \in A THEN Cardinality(A) - 1
                                                                 ELSE Cardinality(A)
  BY FS_RemoveElement
<1>2. IsFiniteSet(B)
  <2>1. CASE x \in B
    <3>1. B = (A \ {x}) \cup {x}
      BY <2>1
    <3> QED
      BY <1>1, <3>1, FS_AddElement
  <2>2. CASE x \notin B
    <3>1. B = A \ {x}
      BY <2>2
    <3> QED
      BY <1>1, <3>1
  <2> QED
    BY <2>1, <2>2
<1>3. Cardinality(B \ {x}) = IF x \in B THEN Cardinality(B) - 1 ELSE Cardinality(B)
  BY <1>2, FS_RemoveElement
<1>4. Cardinality(A) \in Nat /\ Cardinality(B) \in Nat
  BY <1>2, FS_CardinalityType
<1>5. Bit(x \in A) = (IF x \in A THEN 1 ELSE 0) /\ Bit(x \in B) = IF x \in B THEN 1 ELSE 0
  BY DEF Bit
<1> QED
  BY <1>1, <1>2, <1>3, <1>4, <1>5

Reserving == {p \in WftPollers : pollers[p].at = "reserve"}
Polling(ps, bs) == {p \in DOMAIN ps : p[1] \in bs /\ ps[p].at = "poll"}

(* A step of one poller, and how it changes what is counted                      *)
OnlyPoller(p) ==
  DOMAIN pollers' = DOMAIN pollers /\ \A q \in DOMAIN pollers \ {p} : pollers'[q] = pollers[q]

PollingMoves(p, bs) ==
  Cardinality(Polling(pollers', bs)) = Cardinality(Polling(pollers, bs))
    + Bit(p[1] \in bs /\ pollers'[p].at = "poll") - Bit(p[1] \in bs /\ pollers[p].at = "poll")

ReservingMoves(p) ==
  Cardinality(Reserving') = Cardinality(Reserving)
    + Bit(p[1] \in WftBuffers /\ pollers'[p].at = "reserve")
    - Bit(p[1] \in WftBuffers /\ pollers[p].at = "reserve")

\* It changes what is counted by at most that poller.
LEMMA PollerMoves ==
    ASSUME PollersFinite, NEW p \in DOMAIN pollers, OnlyPoller(p), NEW bs
    PROVE  PollersFinite' /\ WftPollers' = WftPollers /\ PollingMoves(p, bs) /\ ReservingMoves(p)
<1>1. /\ DOMAIN pollers' = DOMAIN pollers
      /\ \A q \in DOMAIN pollers : q # p => pollers'[q] = pollers[q]
  BY DEF OnlyPoller
<1>2. PollersFinite' /\ WftPollers' = WftPollers
  BY <1>1 DEF PollersFinite, WftPollers
<1>3. Polling(pollers, bs) \in SUBSET DOMAIN pollers /\ Reserving \in SUBSET DOMAIN pollers
  BY DEF Polling, Reserving, WftPollers
<1>4. IsFiniteSet(Polling(pollers, bs)) /\ IsFiniteSet(Reserving)
  BY <1>3, FS_Subset DEF PollersFinite
<1>5. Polling(pollers, bs) \ {p} = Polling(pollers', bs) \ {p} /\ Reserving \ {p} = Reserving' \ {p}
  BY <1>1 DEF Polling, Reserving, WftPollers
<1>6. /\ p \in Polling(pollers, bs) <=> p[1] \in bs /\ pollers[p].at = "poll"
      /\ p \in Polling(pollers', bs) <=> p[1] \in bs /\ pollers'[p].at = "poll"
      /\ p \in Reserving <=> p[1] \in WftBuffers /\ pollers[p].at = "reserve"
      /\ p \in Reserving' <=> p[1] \in WftBuffers /\ pollers'[p].at = "reserve"
  BY <1>1 DEF Polling, Reserving, WftPollers
<1>7. /\ Cardinality(Polling(pollers, bs)) \in Nat /\ Cardinality(Polling(pollers', bs)) \in Nat
      /\ Cardinality(Polling(pollers', bs)) =
           Cardinality(Polling(pollers, bs))
              + Bit(p \in Polling(pollers', bs)) - Bit(p \in Polling(pollers, bs))
  BY <1>4, <1>5, SameBut
<1>8. /\ Cardinality(Reserving) \in Nat /\ Cardinality(Reserving') \in Nat
      /\ Cardinality(Reserving') =
           Cardinality(Reserving) + Bit(p \in Reserving') - Bit(p \in Reserving)
  BY <1>4, <1>5, SameBut
<1>9. /\ Bit(p \in Polling(pollers, bs)) = Bit(p[1] \in bs /\ pollers[p].at = "poll")
      /\ Bit(p \in Polling(pollers', bs)) = Bit(p[1] \in bs /\ pollers'[p].at = "poll")
      /\ Bit(p \in Reserving) = Bit(p[1] \in WftBuffers /\ pollers[p].at = "reserve")
      /\ Bit(p \in Reserving') = Bit(p[1] \in WftBuffers /\ pollers'[p].at = "reserve")
  BY <1>6 DEF Bit
<1> QED
  BY <1>2, <1>7, <1>8, <1>9 DEF PollingMoves, ReservingMoves

NexusPolling == InPollers({"nexus"})
Calling == {c \in DOMAIN eager.calls : eager.calls[c].slot # NoSlot}
Handling == {t \in DOMAIN handlers : handlers[t] # "done"}

\* What is counted is finite.
LEMMA Numbers ==
    ASSUME PermitTypes
    PROVE  /\ Cardinality(InPollers(WftBuffers)) \in Nat /\ Cardinality(NexusPolling) \in Nat
           /\ Cardinality(Reserving) \in Nat /\ Cardinality(WftPollers) \in Nat
           /\ Cardinality(Reserving) <= Cardinality(WftPollers)
           /\ IsFiniteSet(WftPollers)
           /\ IsFiniteSet(Calling) /\ Cardinality(Calling) \in Nat
           /\ IsFiniteSet(Handling) /\ Cardinality(Handling) \in Nat
           /\ \A b \in Buffers : SlotsOf(bufs[b].items) \in Nat
           /\ HeldSlots \in Nat /\ Len(eager.queue) \in Nat /\ Len(wfs.out) \in Nat
<1>1. /\ IsFiniteSet(InPollers(WftBuffers)) /\ IsFiniteSet(NexusPolling)
      /\ IsFiniteSet(WftPollers)
  <2>1. /\ InPollers(WftBuffers) \in SUBSET DOMAIN pollers
        /\ NexusPolling \in SUBSET DOMAIN pollers /\ WftPollers \in SUBSET DOMAIN pollers
    BY DEF InPollers, WftPollers, NexusPolling
  <2> QED
    BY <2>1, FS_Subset DEF PermitTypes, PollersFinite
<1>2. IsFiniteSet(Reserving) /\ Cardinality(Reserving) <= Cardinality(WftPollers)
  <2>1. Reserving \in SUBSET WftPollers
    BY DEF Reserving
  <2> QED
    BY <1>1, <2>1, FS_Subset
<1>3. IsFiniteSet(Calling)
  <2>1. Calling \in SUBSET DOMAIN eager.calls
    BY DEF Calling
  <2> QED
    BY <2>1, FS_Subset DEF PermitTypes, CallsFinite
<1>4. IsFiniteSet(Handling)
  <2>1. Handling \in SUBSET (1..Len(handlers)) /\ Len(handlers) \in Nat
    BY DEF Handling, PermitTypes, HandlersType
  <2>2. IsFiniteSet(1..Len(handlers))
    BY <2>1, FS_Interval
  <2> QED
    BY Zenon, <2>1, <2>2, FS_Subset
<1>5. \A b \in Buffers : SlotsOf(bufs[b].items) \in Nat
  BY Zenon, SlotsFinite DEF PermitTypes, BufsType, Buffer
<1>6. HeldSlots \in Nat
  BY <1>5 DEF HeldSlots, Buffers, WftBuffers
<1>7. Len(eager.queue) \in Nat /\ Len(wfs.out) \in Nat
  BY DEF PermitTypes, EagerType, OutType
<1> QED
  BY <1>1, <1>2, <1>3, <1>4, <1>5, <1>6, <1>7, FS_CardinalityType

(* A dealer's permits become n more, and a buffer's answers hold i more          *)
Deals(D, n) ==
  /\ DOMAIN dealers' = DOMAIN dealers
  /\ Goes(dealers[D], dealers'[D], n)
  /\ \A d \in {"wft", "nexus"} \ {D} : dealers'[d] = dealers[d]

Puts(b, i) ==
  /\ BufsType'
  /\ SlotsOf(bufs'[b].items) = SlotsOf(bufs[b].items) + i
  /\ \A c \in Buffers \ {b} : bufs'[c] = bufs[c]

\* A step that accounts for what it does to the dealers.
LEMMA Accounted ==
    ASSUME PermitInv, PermitTypes', Tuner(plan') = Tuner(plan), NEW n \in Int, NEW m \in Int,
           Goes(dealers.wft, dealers'.wft, n), Goes(dealers.nexus, dealers'.nexus, m),
           WftPermits' = WftPermits + n, NexusPermits' = NexusPermits + m, OvershootBounded'
    PROVE  PermitInv'
<1>1. dealers'.wft.extant = WftPermits' /\ dealers'.nexus.extant = NexusPermits'
  BY DEF PermitInv, PermitsAccounted, Goes
<1>2. DOMAIN dealers' = {"wft", "nexus"} /\ DOMAIN dealers = {"wft", "nexus"}
      /\ DealerOK(dealers.wft) /\ DealerOK(dealers.nexus)
  BY DEF PermitInv, PermitTypes, DealersType
<1>3. ASSUME NEW d \in {"wft", "nexus"}, dealers'[d].supplier.type = "fixed"
      PROVE  dealers'[d].supplier.free + dealers'[d].extant = Tuner(plan')[d].free
  <2>1. PICK k \in Int : Goes(dealers[d], dealers'[d], k)
    OBVIOUS
  <2>2. dealers[d].supplier.type = "fixed" /\ dealers'[d].supplier.free = dealers[d].supplier.free - k
        /\ dealers'[d].extant = dealers[d].extant + k
    BY <1>3, <2>1 DEF Goes
  <2>3. dealers[d].supplier.free + dealers[d].extant = Tuner(plan)[d].free
    BY <1>2, <2>2 DEF PermitInv, PermitsAccounted
  <2>4. dealers[d].supplier.free \in Int /\ dealers[d].extant \in Int
    BY <1>2, <2>2 DEF DealerOK
  <2> QED
    BY <2>2, <2>3, <2>4
<1>4. PermitsAccounted'
  BY <1>1, <1>2, <1>3 DEF PermitsAccounted
<1> QED
  BY <1>4 DEF PermitInv

\* The maximum is respected by a step that frees as many permits as pollers pass
\* the check.
LEMMA NotOver ==
    ASSUME PermitInv, NEW n \in Int, NEW r \in Int, Goes(dealers.wft, dealers'.wft, n),
           WftPollers' = WftPollers, Cardinality(Reserving') = Cardinality(Reserving) + r,
           n + r <= 0
    PROVE  OvershootBounded'
<1>1. dealers.wft.max > 0 =>
        dealers.wft.extant + Cardinality(Reserving) <= dealers.wft.max + Cardinality(WftPollers)
  BY DEF PermitInv, OvershootBounded, Reserving
<1>2. /\ dealers.wft.extant \in Int /\ dealers.wft.max \in Nat
      /\ Cardinality(Reserving) \in Nat /\ Cardinality(WftPollers) \in Nat
  BY Numbers DEF PermitInv, PermitTypes, DealersType, DealerOK
<1>3. dealers'.wft.max = dealers.wft.max /\ dealers'.wft.extant = dealers.wft.extant + n
  BY DEF Goes
<1>4. dealers'.wft.max > 0 =>
        dealers'.wft.extant + Cardinality(Reserving') <= dealers'.wft.max + Cardinality(WftPollers')
  BY <1>1, <1>2, <1>3
<1> QED
  BY <1>4 DEF OvershootBounded, Reserving
-----------------------------------------------------------------------------
(* The steps                                                                    *)

Away == UNCHANGED <<wfs, eager, handlers>>

TunerStays == TunerKept' /\ Tuner(plan') = Tuner(plan)

\* What a step spends of the plan is not its tuner.
LEMMA SpendsNoTuner ==
    ASSUME TunerKept,
           \/ plan' = plan
           \/ \E what \in {"empties", "errs", "las", "ats", "flips", "swaps", "others"} : Spent(what)
           \/ \E b : plan' = [plan EXCEPT !.tasks[b] = @ - 1]
    PROVE  TunerStays
<1>1. TunerKept' /\ UNCHANGED <<plan.tuner, plan.wft, plan.nexus>>
  BY DEF TunerKept, Spent
<1> QED
  BY <1>1 DEF TunerStays, Tuner, ResourceTuner, OptionsTuner, ConfigTuner

(* The n permits that a poller gets are its own or go along with an answer, and  *)
(* it passes the check below the maximum only                                   *)
Balanced(p, n, i) == n = Bit(pollers'[p].at = "poll") - Bit(pollers[p].at = "poll") + i

Checked(p, n) ==
  \/ n + Bit(pollers'[p].at = "reserve") - Bit(pollers[p].at = "reserve") <= 0
  \/ n = 0 /\ pollers[p].at = "max" /\ BelowMax(dealers[DealerOf(p[1])])

\* A poller's permit comes from the dealer, goes along with an answer, or goes
\* back, and nothing else changes.
LEMMA PollerPermits ==
    ASSUME PermitInv, NEW p \in DOMAIN pollers, PollerOK(pollers'[p]), OnlyPoller(p), Away, TunerStays,
           NEW n \in Int, Deals(DealerOf(p[1]), n), NEW i \in Int, Puts(p[1], i),
           Balanced(p, n, i), Checked(p, n)
    PROVE  PermitInv'
<1>1. PermitTypes /\ p[1] \in Buffers
  BY DEF PermitInv, PermitTypes, PollersType
<1>2. PermitTypes'
  <2>1. PollersFinite' /\ CallsFinite'
    BY <1>1, PollerMoves DEF PermitTypes, Away, CallsFinite
  <2>2. PollersType'
    BY <1>1 DEF PermitTypes, PollersType, OnlyPoller
  <2>3. OutType' /\ EagerType' /\ HandlersType'
    BY <1>1 DEF PermitTypes, Away, OutType, EagerType, HandlersType
  <2>4. DealersType'
    BY ZenonT(40), <1>1 DEF PermitTypes, DealersType, Deals, DealerOf, Goes, Buffers, WftBuffers
  <2> QED
    BY <2>1, <2>2, <2>3, <2>4 DEF PermitTypes, TunerStays, Puts
<1>3. /\ Cardinality(Calling') = Cardinality(Calling) /\ Cardinality(Handling') = Cardinality(Handling)
      /\ Len(eager'.queue) = Len(eager.queue) /\ Len(wfs'.out) = Len(wfs.out)
  BY DEF Away, Calling, Handling
<1>4. DealerOK(dealers.wft) /\ DealerOK(dealers.nexus)
  BY ZenonT(40), <1>1 DEF PermitTypes, DealersType
<1>5. /\ Cardinality(InPollers(WftBuffers)') = Cardinality(InPollers(WftBuffers))
           + Bit(p[1] \in WftBuffers /\ pollers'[p].at = "poll")
           - Bit(p[1] \in WftBuffers /\ pollers[p].at = "poll")
      /\ WftPollers' = WftPollers
      /\ Cardinality(Reserving') = Cardinality(Reserving)
           + Bit(p[1] \in WftBuffers /\ pollers'[p].at = "reserve")
           - Bit(p[1] \in WftBuffers /\ pollers[p].at = "reserve")
  <2>1. PollersFinite
    BY <1>1 DEF PermitTypes
  <2>2. /\ InPollers(WftBuffers) = Polling(pollers, WftBuffers)
        /\ InPollers(WftBuffers)' = Polling(pollers', WftBuffers)
    BY DEF InPollers, Polling
  <2> QED
    BY <2>1, <2>2, PollerMoves DEF PollingMoves, ReservingMoves
<1>6. Cardinality(NexusPolling') = Cardinality(NexusPolling)
           + Bit(p[1] = "nexus" /\ pollers'[p].at = "poll") - Bit(p[1] = "nexus" /\ pollers[p].at = "poll")
  <2>1. PollersFinite
    BY <1>1 DEF PermitTypes
  <2>2. PICK bs : bs = {"nexus"}
    BY Zenon
  <2>3. NexusPolling = Polling(pollers, bs) /\ NexusPolling' = Polling(pollers', bs)
    BY ZenonT(40), <2>2 DEF InPollers, Polling, NexusPolling
  <2>4. Cardinality(Polling(pollers', bs)) = Cardinality(Polling(pollers, bs))
           + Bit(p[1] \in bs /\ pollers'[p].at = "poll") - Bit(p[1] \in bs /\ pollers[p].at = "poll")
    BY <2>1, PollerMoves DEF PollingMoves
  <2>5. p[1] \in bs <=> p[1] = "nexus"
    BY <2>2
  <2> QED
    BY ZenonT(40), <2>3, <2>4, <2>5 DEF Bit
<1>7. /\ \A b \in Buffers : SlotsOf(bufs[b].items) \in Nat
      /\ Cardinality(InPollers(WftBuffers)) \in Nat /\ Cardinality(NexusPolling) \in Nat
      /\ Cardinality(Calling) \in Nat /\ Cardinality(Handling) \in Nat
      /\ HeldSlots \in Nat /\ Len(eager.queue) \in Nat /\ Len(wfs.out) \in Nat
      /\ Cardinality(Reserving) \in Nat /\ Cardinality(WftPollers) \in Nat
  BY ZenonT(40), <1>1, Numbers
<1>8. /\ WftPermits = Cardinality(InPollers(WftBuffers)) + HeldSlots + Len(eager.queue)
           + Len(wfs.out) + Cardinality(Calling)
      /\ WftPermits' = Cardinality(InPollers(WftBuffers)') + HeldSlots' + Len(eager'.queue)
           + Len(wfs'.out) + Cardinality(Calling')
  BY DEF WftPermits, Calling
<1>9. /\ NexusPermits = Cardinality(NexusPolling) + SlotsOf(bufs["nexus"].items)
           + Cardinality(Handling)
      /\ NexusPermits' = Cardinality(NexusPolling') + SlotsOf(bufs'["nexus"].items)
           + Cardinality(Handling')
  BY DEF NexusPermits, Handling, NexusPolling
<1>10. SlotsOf(bufs["nexus"].items) \in Nat
  BY <1>7 DEF Buffers
<1>11. CASE p[1] = "nexus"
  <2>1. HeldSlots' = HeldSlots /\ SlotsOf(bufs'["nexus"].items) = SlotsOf(bufs["nexus"].items) + i
    BY <1>11 DEF Puts, HeldSlots, Buffers, WftBuffers
  <2>2. /\ Cardinality(InPollers(WftBuffers)') = Cardinality(InPollers(WftBuffers))
        /\ Cardinality(Reserving') = Cardinality(Reserving) + 0
        /\ Cardinality(NexusPolling') = Cardinality(NexusPolling) + n - i
    BY <1>5, <1>6, <1>7, <1>11 DEF Bit, WftBuffers, Balanced
  <2>3. WftPermits' = WftPermits + 0 /\ NexusPermits' = NexusPermits + n
    <3>1. WftPermits' = WftPermits + 0
      BY <1>3, <1>7, <1>8, <2>1, <2>2
    <3>2. NexusPermits' = NexusPermits + n
      BY <1>3, <1>7, <1>9, <1>10, <2>1, <2>2
    <3> QED
      BY <3>1, <3>2
  <2>4. Goes(dealers.wft, dealers'.wft, 0) /\ Goes(dealers.nexus, dealers'.nexus, n)
    BY <1>4, <1>11, UsedGoes DEF Deals, DealerOf
  <2>5. OvershootBounded'
    BY <1>5, <2>2, <2>4, NotOver
  <2> QED
    BY <1>2, <2>3, <2>4, <2>5, Accounted DEF TunerStays
<1>12. CASE p[1] \in WftBuffers
  <2>1. HeldSlots' = HeldSlots + i /\ SlotsOf(bufs'["nexus"].items) = SlotsOf(bufs["nexus"].items)
    <3>1. SlotsOf(bufs["normal"].items) \in Nat /\ SlotsOf(bufs["sticky"].items) \in Nat
      BY <1>7 DEF Buffers, WftBuffers
    <3>2. CASE p[1] = "normal"
      <4>1. /\ SlotsOf(bufs'["normal"].items) = SlotsOf(bufs["normal"].items) + i
            /\ bufs'["sticky"] = bufs["sticky"] /\ bufs'["nexus"] = bufs["nexus"]
        BY <3>2 DEF Puts, Buffers, WftBuffers
      <4> QED
        BY <3>1, <4>1 DEF HeldSlots
    <3>3. CASE p[1] = "sticky"
      <4>1. /\ SlotsOf(bufs'["sticky"].items) = SlotsOf(bufs["sticky"].items) + i
            /\ bufs'["normal"] = bufs["normal"] /\ bufs'["nexus"] = bufs["nexus"]
        BY <3>3 DEF Puts, Buffers, WftBuffers
      <4> QED
        BY <3>1, <4>1 DEF HeldSlots
    <3> QED
      BY <1>12, <3>2, <3>3 DEF WftBuffers
  <2>2. p[1] # "nexus"
    BY <1>12 DEF WftBuffers
  <2>3. /\ Bit(p[1] \in WftBuffers /\ pollers'[p].at = "poll") = Bit(pollers'[p].at = "poll")
        /\ Bit(p[1] \in WftBuffers /\ pollers[p].at = "poll") = Bit(pollers[p].at = "poll")
        /\ Bit(p[1] \in WftBuffers /\ pollers'[p].at = "reserve") = Bit(pollers'[p].at = "reserve")
        /\ Bit(p[1] \in WftBuffers /\ pollers[p].at = "reserve") = Bit(pollers[p].at = "reserve")
        /\ Bit(p[1] = "nexus" /\ pollers'[p].at = "poll") = 0
        /\ Bit(p[1] = "nexus" /\ pollers[p].at = "poll") = 0
    BY <1>12, <2>2 DEF Bit
  <2>4. /\ Bit(pollers'[p].at = "poll") \in {0, 1} /\ Bit(pollers[p].at = "poll") \in {0, 1}
        /\ Bit(pollers'[p].at = "reserve") \in {0, 1} /\ Bit(pollers[p].at = "reserve") \in {0, 1}
    BY DEF Bit
  <2> DEFINE r == Bit(pollers'[p].at = "reserve") - Bit(pollers[p].at = "reserve")
  <2>5. /\ Cardinality(InPollers(WftBuffers)') = Cardinality(InPollers(WftBuffers)) + n - i
        /\ Cardinality(Reserving') = Cardinality(Reserving) + r
        /\ Cardinality(NexusPolling') = Cardinality(NexusPolling)
        /\ r \in Int
    <3>1. Cardinality(NexusPolling') = Cardinality(NexusPolling)
      BY <1>6, <1>7, <2>3
    <3>2. Cardinality(Reserving') = Cardinality(Reserving) + r /\ r \in Int
      BY <1>5, <1>7, <2>3, <2>4
    <3>3. Cardinality(InPollers(WftBuffers)') =
            Cardinality(InPollers(WftBuffers)) + Bit(pollers'[p].at = "poll") - Bit(pollers[p].at = "poll")
      BY ZenonT(40), <1>5, <2>3
    <3>4. n - i = Bit(pollers'[p].at = "poll") - Bit(pollers[p].at = "poll")
      BY <2>4 DEF Balanced
    <3>5. Cardinality(InPollers(WftBuffers)') = Cardinality(InPollers(WftBuffers)) + n - i
      BY <1>7, <2>4, <3>3, <3>4
    <3> QED
      BY <3>1, <3>2, <3>5
  <2>6. WftPermits' = WftPermits + n /\ NexusPermits' = NexusPermits + 0
    <3> HIDE DEF r
    <3>1. WftPermits' = WftPermits + n
      <4>1. /\ Cardinality(InPollers(WftBuffers)') = Cardinality(InPollers(WftBuffers)) + n - i
            /\ HeldSlots' = HeldSlots + i /\ Cardinality(Calling') = Cardinality(Calling)
            /\ Len(eager'.queue) = Len(eager.queue) /\ Len(wfs'.out) = Len(wfs.out)
        BY ZenonT(40), <1>3, <2>1, <2>5
      <4>2. /\ Cardinality(InPollers(WftBuffers)) \in Nat /\ HeldSlots \in Nat
            /\ Cardinality(Calling) \in Nat /\ Len(eager.queue) \in Nat /\ Len(wfs.out) \in Nat
        BY ZenonT(40), <1>7
      <4> DEFINE x == Cardinality(InPollers(WftBuffers)) + HeldSlots
      <4>3. Cardinality(InPollers(WftBuffers)') + HeldSlots' = x + n /\ x \in Nat
        BY <4>1, <4>2
      <4> HIDE DEF x
      <4>4. WftPermits' = x + n + Len(eager.queue) + Len(wfs.out) + Cardinality(Calling)
        BY Zenon, <1>8, <4>1, <4>3
      <4>5. WftPermits = x + Len(eager.queue) + Len(wfs.out) + Cardinality(Calling)
        BY <1>8 DEF x
      <4>6. x + n + Len(eager.queue) + Len(wfs.out) + Cardinality(Calling)
              = x + Len(eager.queue) + Len(wfs.out) + Cardinality(Calling) + n
        <5>1. PICK y \in Nat : y = x
          BY <4>3
        <5>2. PICK q \in Nat : q = Len(eager.queue)
          BY <4>2
        <5>3. PICK o \in Nat : o = Len(wfs.out)
          BY ZenonT(40), <4>2
        <5>4. PICK c \in Nat : c = Cardinality(Calling)
          BY <4>2
        <5>5. y + n + q + o + c = y + q + o + c + n
          OBVIOUS
        <5> QED
          BY Zenon, <5>1, <5>2, <5>3, <5>4, <5>5
      <4> QED
        BY <4>4, <4>5, <4>6
    <3>2. NexusPermits' = NexusPermits + 0
      <4>1. /\ Cardinality(NexusPolling') = Cardinality(NexusPolling)
            /\ Cardinality(Handling') = Cardinality(Handling)
            /\ SlotsOf(bufs'["nexus"].items) = SlotsOf(bufs["nexus"].items)
        BY ZenonT(40), <1>3, <2>1, <2>5
      <4>2. NexusPermits' = NexusPermits
        BY <1>9, <4>1
      <4>3. NexusPermits \in Nat
        BY <1>7, <1>9, <1>10
      <4> QED
        BY <4>2, <4>3
    <3> QED
      BY <3>1, <3>2
  <2>7. Goes(dealers.wft, dealers'.wft, n) /\ Goes(dealers.nexus, dealers'.nexus, 0)
    BY ZenonT(40), <1>4, <1>12, UsedGoes DEF Deals, DealerOf, WftBuffers
  <2>8. OvershootBounded'
    <3>1. CASE n + Bit(pollers'[p].at = "reserve") - Bit(pollers[p].at = "reserve") <= 0
      <4>1. n + r <= 0
        BY ZenonT(40), <2>4, <3>1
      <4> HIDE DEF r
      <4> QED
        BY ZenonT(40), <1>5, <2>5, <2>7, <4>1, NotOver
    <3>2. CASE n = 0 /\ pollers[p].at = "max" /\ BelowMax(dealers[DealerOf(p[1])])
      \* This poller is not among those past the check.
      <4>1. Cardinality(Reserving) + 1 <= Cardinality(WftPollers)
        <5>1. p \in WftPollers \ Reserving /\ Reserving \in SUBSET (WftPollers \ {p})
          BY ZenonT(40), <1>12, <3>2 DEF WftPollers, Reserving
        <5>2. IsFiniteSet(WftPollers) /\ Cardinality(WftPollers) \in Nat
          BY ZenonT(40), <1>1, Numbers
        <5>3. IsFiniteSet(WftPollers \ {p}) /\ Cardinality(WftPollers \ {p}) = Cardinality(WftPollers) - 1
          BY ZenonT(40), <5>1, <5>2, FS_RemoveElement
        <5>4. Cardinality(Reserving) <= Cardinality(WftPollers \ {p})
          BY ZenonT(40), <5>1, <5>3, FS_Subset
        <5> QED
          BY <1>7, <5>2, <5>3, <5>4
      <4>2. /\ dealers.wft.extant \in Int /\ dealers.wft.max \in Nat
            /\ dealers'.wft.extant = dealers.wft.extant + 0 /\ dealers'.wft.max = dealers.wft.max
        BY ZenonT(40), <1>4, <2>7, <3>2 DEF DealerOK, Goes
      <4>3. dealers.wft.max > 0 => dealers.wft.extant < dealers.wft.max
        BY <1>12, <3>2, <4>2 DEF BelowMax, DealerOf, WftBuffers
      <4>4. r <= 1
        BY <2>4
      <4> HIDE DEF r
      <4>5. dealers'.wft.max > 0 => dealers'.wft.extant + Cardinality(Reserving')
              <= dealers'.wft.max + Cardinality(WftPollers')
        <5>1. Cardinality(WftPollers') = Cardinality(WftPollers)
          BY ZenonT(40), <1>5
        <5>2. /\ Cardinality(WftPollers) \in Nat /\ Cardinality(Reserving) \in Nat
              /\ Cardinality(Reserving') = Cardinality(Reserving) + r /\ r \in Int
          BY <1>7, <2>5
        <5> QED
          BY <4>1, <4>2, <4>3, <4>4, <5>1, <5>2
      <4> QED
        BY <4>5 DEF OvershootBounded, Reserving
    <3> QED
      BY ZenonT(40), <3>1, <3>2 DEF Checked
  <2> QED
    BY <1>2, <2>6, <2>7, <2>8, Accounted DEF TunerStays
<1> QED
  BY <1>1, <1>11, <1>12 DEF Buffers

\* Workflow tasks and eager starts move permits between the dealer, the buffers,
\* the queue, the calls and the tasks that are out; pollers are left alone.
LEMMA WftMoves ==
    ASSUME PermitInv, PermitTypes', TunerStays, UNCHANGED <<pollers, handlers>>,
           bufs'["nexus"].items = bufs["nexus"].items,
           NEW h \in Int, HeldSlots' = HeldSlots + h,
           NEW q \in Int, Len(eager'.queue) = Len(eager.queue) + q,
           NEW o \in Int, Len(wfs'.out) = Len(wfs.out) + o,
           NEW c \in Int, Cardinality(Calling') = Cardinality(Calling) + c,
           Goes(dealers.wft, dealers'.wft, h + q + o + c), Goes(dealers.nexus, dealers'.nexus, 0),
           h + q + o + c <= 0 \/ (h + q + o + c = 1 /\ BelowMax(dealers.wft))
    PROVE  PermitInv'
<1> DEFINE n == h + q + o + c
<1>1. PermitTypes /\ n \in Int
  BY DEF PermitInv
<1>2. /\ WftPermits = Cardinality(InPollers(WftBuffers)) + HeldSlots + Len(eager.queue)
           + Len(wfs.out) + Cardinality(Calling)
      /\ WftPermits' = Cardinality(InPollers(WftBuffers)') + HeldSlots' + Len(eager'.queue)
           + Len(wfs'.out) + Cardinality(Calling')
  BY Zenon DEF WftPermits, Calling
<1>3. /\ Cardinality(InPollers(WftBuffers)') = Cardinality(InPollers(WftBuffers))
      /\ Cardinality(Reserving') = Cardinality(Reserving) /\ WftPollers' = WftPollers
      /\ NexusPermits' = NexusPermits
  BY ZenonT(40) DEF InPollers, Reserving, WftPollers, NexusPermits
<1>4. WftPermits' = WftPermits + n
  <2>1. PICK P \in Nat : P = Cardinality(InPollers(WftBuffers))
    BY <1>1, Numbers
  <2>2. PICK H \in Nat : H = HeldSlots
    BY <1>1, Numbers
  <2>3. PICK Q \in Nat : Q = Len(eager.queue)
    BY <1>1, Numbers
  <2>4. PICK O \in Nat : O = Len(wfs.out)
    BY <1>1, Numbers
  <2>5. PICK C \in Nat : C = Cardinality(Calling)
    BY ZenonT(40), <1>1, Numbers
  <2>6. P + (H + h) + (Q + q) + (O + o) + (C + c) = P + H + Q + O + C + (h + q + o + c)
    OBVIOUS
  <2>7. WftPermits' = P + (H + h) + (Q + q) + (O + o) + (C + c)
    BY ZenonT(40), <1>2, <1>3, <2>1, <2>2, <2>3, <2>4, <2>5
  <2>8. WftPermits = P + H + Q + O + C
    BY <1>2, <2>1, <2>2, <2>3, <2>4, <2>5
  <2> QED
    BY <2>6, <2>7, <2>8
<1>5. /\ dealers.wft.extant \in Int /\ dealers.wft.max \in Nat
      /\ dealers'.wft.extant = dealers.wft.extant + n /\ dealers'.wft.max = dealers.wft.max
  BY ZenonT(40), <1>1 DEF PermitTypes, DealersType, DealerOK, Goes
<1>6. NexusPermits' = NexusPermits + 0
  <2>1. NexusPermits = dealers.nexus.extant /\ dealers.nexus.extant \in Int
    BY Zenon DEF PermitInv, PermitsAccounted, PermitTypes, DealersType, DealerOK
  <2> QED
    BY <1>3, <2>1
<1> HIDE DEF n
<1>7. n <= 0 \/ (n = 1 /\ BelowMax(dealers.wft))
  BY Zenon DEF n
<1>8. /\ Cardinality(Reserving) \in Nat /\ Cardinality(WftPollers) \in Nat
      /\ Cardinality(Reserving) <= Cardinality(WftPollers)
  BY ZenonT(40), <1>1, Numbers
<1>9. OvershootBounded'
  <2>1. CASE n <= 0
    <3>1. Cardinality(Reserving') = Cardinality(Reserving) + 0 /\ n + 0 <= 0
      BY <1>1, <1>3, <1>8, <2>1
    <3>2. Goes(dealers.wft, dealers'.wft, n)
      BY DEF n
    <3> QED
      BY <1>1, <1>3, <3>1, <3>2, NotOver
  <2>2. CASE n = 1 /\ BelowMax(dealers.wft)
    <3>1. dealers.wft.max > 0 => dealers.wft.extant < dealers.wft.max
      BY <1>5, <2>2 DEF BelowMax
    <3>2. dealers'.wft.max > 0 => dealers'.wft.extant + Cardinality(Reserving')
            <= dealers'.wft.max + Cardinality(WftPollers')
      BY <1>3, <1>5, <1>8, <2>2, <3>1
    <3> QED
      BY ZenonT(40), <3>2 DEF OvershootBounded, Reserving
  <2> QED
    BY <1>7, <2>1, <2>2
<1>10. Goes(dealers.wft, dealers'.wft, n)
  BY DEF n
<1> QED
  BY <1>1, <1>4, <1>6, <1>9, <1>10, Accounted DEF TunerStays

\* Nexus tasks move permits between the dealer, the buffer and lang.
LEMMA NexusMoves ==
    ASSUME PermitInv, PermitTypes', TunerStays, UNCHANGED <<pollers, wfs, eager>>,
           HeldSlots' = HeldSlots,
           NEW h \in Int, SlotsOf(bufs'["nexus"].items) = SlotsOf(bufs["nexus"].items) + h,
           NEW t \in Int, Cardinality(Handling') = Cardinality(Handling) + t,
           Goes(dealers.nexus, dealers'.nexus, h + t), dealers'.wft = dealers.wft
    PROVE  PermitInv'
<1>1. PermitTypes
  BY DEF PermitInv
<1>2. /\ NexusPermits = Cardinality(NexusPolling) + SlotsOf(bufs["nexus"].items)
           + Cardinality(Handling)
      /\ NexusPermits' = Cardinality(NexusPolling') + SlotsOf(bufs'["nexus"].items)
           + Cardinality(Handling')
  BY ZenonT(40) DEF NexusPermits, Handling, NexusPolling
<1>3. /\ Cardinality(NexusPolling') = Cardinality(NexusPolling)
      /\ Cardinality(Reserving') = Cardinality(Reserving) /\ WftPollers' = WftPollers
      /\ WftPermits' = WftPermits
  BY DEF InPollers, NexusPolling, Reserving, WftPollers, WftPermits
<1>4. NexusPermits' = NexusPermits + (h + t)
  <2>1. PICK P \in Nat : P = Cardinality(NexusPolling)
    BY <1>1, Numbers
  <2>2. PICK H \in Nat : H = SlotsOf(bufs["nexus"].items)
    BY <1>1, Numbers DEF Buffers
  <2>3. PICK T \in Nat : T = Cardinality(Handling)
    BY <1>1, Numbers
  <2>4. P + (H + h) + (T + t) = P + H + T + (h + t)
    OBVIOUS
  <2>5. NexusPermits' = P + (H + h) + (T + t) /\ NexusPermits = P + H + T
    BY <1>2, <1>3, <2>1, <2>2, <2>3
  <2> QED
    BY <2>4, <2>5
<1>5. WftPermits' = WftPermits + 0
  <2>1. WftPermits = dealers.wft.extant /\ dealers.wft.extant \in Int
    BY Zenon DEF PermitInv, PermitsAccounted, PermitTypes, DealersType, DealerOK
  <2> QED
    BY <1>3, <2>1
<1>6. Goes(dealers.wft, dealers'.wft, 0)
  BY ZenonT(40), <1>1, UsedGoes DEF PermitTypes, DealersType
<1>7. OvershootBounded'
  BY <1>3 DEF PermitInv, OvershootBounded, Reserving
<1>8. h + t \in Int
  OBVIOUS
<1> QED
  BY <1>4, <1>5, <1>6, <1>7, <1>8, Accounted DEF TunerStays

\* Answers put into a buffer.
LEMMA ItemsPut ==
    ASSUME BufsType, NEW b \in Buffers, NEW x \in Items,
           bufs' = [bufs EXCEPT ![b].items = Append(@, x)]
    PROVE  Puts(b, Bit(x.slot # NoSlot))
<1>1. bufs[b].items \in Seq(Items) /\ bufs[b] \in Buffer
  BY DEF BufsType, Buffer
<1>2. /\ bufs'[b].items = Append(bufs[b].items, x)
      /\ \A c \in Buffers \ {b} : bufs'[c] = bufs[c]
  BY <1>1 DEF BufsType, Buffer
<1>3. BufsType'
  <2>1. Append(bufs[b].items, x) \in Seq(Items)
    BY <1>1, AppendProperties
  <2>2. [bufs[b] EXCEPT !.items = Append(bufs[b].items, x)] \in Buffer
    BY Zenon, <1>1, <2>1 DEF Buffer
  <2>3. bufs' = [bufs EXCEPT ![b] = [bufs[b] EXCEPT !.items = Append(bufs[b].items, x)]]
    BY DEF BufsType
  <2> QED
    BY <2>2, <2>3 DEF BufsType
<1> QED
  BY <1>1, <1>2, <1>3, SlotsAppend DEF Puts

\* The next answer of a buffer taken from it.
LEMMA ItemsTaken ==
    ASSUME BufsType, NEW b \in Buffers, bufs[b].items # <<>>,
           bufs' = [bufs EXCEPT ![b].items = Tail(@)]
    PROVE  Head(bufs[b].items) \in Items /\ Puts(b, 0 - Bit(Head(bufs[b].items).slot # NoSlot))
<1>1. bufs[b].items \in Seq(Items) /\ bufs[b] \in Buffer
  BY DEF BufsType, Buffer
<1>2. /\ bufs'[b].items = Tail(bufs[b].items)
      /\ \A c \in Buffers \ {b} : bufs'[c] = bufs[c]
  BY <1>1 DEF BufsType, Buffer
<1>3. /\ Head(bufs[b].items) \in Items /\ Tail(bufs[b].items) \in Seq(Items)
      /\ SlotsOf(Tail(bufs[b].items)) =
           SlotsOf(bufs[b].items) - Bit(Head(bufs[b].items).slot # NoSlot)
  BY <1>1, SlotsTail
<1>4. BufsType'
  <2>1. [bufs[b] EXCEPT !.items = Tail(bufs[b].items)] \in Buffer
    BY Zenon, <1>1, <1>3 DEF Buffer
  <2>2. bufs' = [bufs EXCEPT ![b] = [bufs[b] EXCEPT !.items = Tail(bufs[b].items)]]
    BY DEF BufsType
  <2> QED
    BY <2>1, <2>2 DEF BufsType
<1>5. SlotsOf(bufs'[b].items) = SlotsOf(bufs[b].items) + (0 - Bit(Head(bufs[b].items).slot # NoSlot))
  <2>1. SlotsOf(bufs[b].items) \in Nat
    BY Zenon, <1>1, SlotsFinite
  <2>2. Bit(Head(bufs[b].items).slot # NoSlot) \in {0, 1}
    BY DEF Bit
  <2> QED
    BY <1>2, <1>3, <2>1, <2>2
<1> QED
  BY <1>2, <1>3, <1>4, <1>5 DEF Puts

\* A buffer nothing happens to.
LEMMA ItemsSame ==
    ASSUME BufsType, NEW b \in Buffers, bufs' = bufs
    PROVE  Puts(b, 0)
<1>1. SlotsOf(bufs[b].items) \in Nat
  BY Zenon, SlotsFinite DEF BufsType, Buffer
<1> QED
  BY <1>1 DEF Puts, BufsType

\* One of the dealers changes.
LEMMA DealsWith ==
    ASSUME DealersType, NEW D \in {"wft", "nexus"}, NEW e, NEW n,
           dealers' = [dealers EXCEPT ![D] = e], Goes(dealers[D], e, n)
    PROVE  Deals(D, n)
BY DEF DealersType, Deals

\* None of them does.
LEMMA DealsNot ==
    ASSUME DealersType, NEW D \in {"wft", "nexus"}, dealers' = dealers
    PROVE  Deals(D, 0)
BY UsedGoes DEF DealersType, Deals

\* A poller that drops the permit it may have.
LEMMA PollerDrops ==
    ASSUME PermitTypes, NEW p \in DOMAIN pollers,
           dealers' = [dealers EXCEPT ![DealerOf(p[1])] = ReleaseUnused(@, Len(pollers[p].permit))]
    PROVE  Deals(DealerOf(p[1]), 0 - Bit(pollers[p].at = "poll"))
<1> DEFINE D == DealerOf(p[1])
<1>1. D \in {"wft", "nexus"} /\ DealerOK(dealers[D])
  BY DEF DealerOf, PermitTypes, DealersType
<1>2. Len(pollers[p].permit) = Bit(pollers[p].at = "poll")
  <2>1. PollerOK(pollers[p])
    BY DEF PermitTypes, PollersType
  <2>2. CASE pollers[p].at = "poll"
    BY <2>1, <2>2, OneSlot DEF PollerOK, Bit
  <2>3. CASE pollers[p].at # "poll"
    BY <2>1, <2>3 DEF PollerOK, Bit, NoSlot
  <2> QED
    BY <2>2, <2>3
<1>3. Bit(pollers[p].at = "poll") \in Nat
  BY DEF Bit
<1> HIDE DEF D
<1>4. Goes(dealers[D], ReleaseUnused(dealers[D], Len(pollers[p].permit)), 0 - Bit(pollers[p].at = "poll"))
  BY ZenonT(40), <1>1, <1>2, <1>3, UnusedGoes
<1>5. dealers' = [dealers EXCEPT ![D] = ReleaseUnused(dealers[D], Len(pollers[p].permit))]
  BY <1>1 DEF D
<1>6. DealersType
  BY DEF PermitTypes
<1> QED
  BY ZenonT(40), <1>1, <1>4, <1>5, <1>6, DealsWith DEF D

\* Whatever a poller does, its permit is accounted for.
LEMMA PollerStepPermits ==
    ASSUME PermitInv, NEW p \in DOMAIN pollers, PollerStep(p)
    PROVE  PermitInv'
<1>1. PermitTypes /\ BufsType /\ DealersType /\ TunerKept
  BY DEF PermitInv, PermitTypes
<1>2. p[1] \in Buffers /\ PollerOK(pollers[p]) /\ DealerOf(p[1]) \in {"wft", "nexus"}
  BY <1>1 DEF PermitTypes, PollersType, DealerOf
<1>3. Away
  BY ZenonT(40) DEF PollerStep, PollerStarts, PollerBelowMax, PollerReserves, PollerStops, PollAnswered,
         PollFails, PollAMinute, PollElse, Away
<1>4. TunerStays
  <2>1. \/ plan' = plan
        \/ \E what \in {"empties", "errs", "las", "ats", "flips", "swaps", "others"} : Spent(what)
        \/ \E b : plan' = [plan EXCEPT !.tasks[b] = @ - 1]
    BY ZenonT(40) DEF PollerStep, PollerStarts, PollerBelowMax, PollerReserves, PollerStops, PollAnswered,
           PollFails, PollAMinute
  <2> QED
    BY <1>1, <2>1, SpendsNoTuner
<1>5. /\ Bit(pollers[p].at = "poll") \in {0, 1} /\ Bit(pollers'[p].at = "poll") \in {0, 1}
      /\ Bit(pollers[p].at = "reserve") \in {0, 1} /\ Bit(pollers'[p].at = "reserve") \in {0, 1}
  BY DEF Bit
<1>6. CASE PollerStarts(p) \/ PollerBelowMax(p)
  <2>1. /\ OnlyPoller(p) /\ pollers'[p] = [pollers[p] EXCEPT !.at = pollers'[p].at]
        /\ pollers'[p].at \in {"max", "reserve"} /\ pollers[p].at \in {"start", "max"}
        /\ dealers' = dealers /\ bufs' = bufs
    BY <1>2, <1>6 DEF PollerStarts, PollerBelowMax, PollerTo, OnlyPoller, PollerOK
  <2>2. PollerOK(pollers'[p])
    BY <1>2, <2>1 DEF PollerOK
  <2>3. Deals(DealerOf(p[1]), 0) /\ Puts(p[1], 0)
    BY <1>1, <1>2, <2>1, DealsNot, ItemsSame
  <2>4. Balanced(p, 0, 0)
    BY <2>1 DEF Balanced, Bit
  <2>5. Checked(p, 0)
    <3>1. CASE PollerStarts(p)
      <4>1. pollers'[p].at = "max"
        BY <1>2, <3>1 DEF PollerStarts, PollerTo, PollerOK
      <4> QED
        BY <2>1, <4>1 DEF Checked, Bit
    <3>2. CASE PollerBelowMax(p)
      BY <3>2 DEF Checked, PollerBelowMax
    <3> QED
      BY <1>6, <3>1, <3>2
  <2> QED
    BY <1>3, <1>4, <2>1, <2>2, <2>3, <2>4, <2>5, PollerPermits
<1>7. CASE PollerReserves(p)
  <2>1. /\ OnlyPoller(p) /\ pollers[p].at = "reserve" /\ bufs' = bufs
        /\ pollers'[p] = [at |-> "poll", permit |-> <<Permit(p[1])>>, call |-> NewCall("task", 0)]
        /\ dealers' = [dealers EXCEPT ![DealerOf(p[1])] = BuildOwned(dealers[DealerOf(p[1])], p[1])]
    BY <1>7 DEF PollerReserves, OnlyPoller
  <2>2. PollerOK(pollers'[p])
    BY <1>2, <2>1, PermitIsOne DEF PollerOK
  <2>3. Deals(DealerOf(p[1]), 1)
    <3>1. DealerOK(dealers[DealerOf(p[1])])
      BY <1>1, <1>2 DEF DealersType
    <3> QED
      BY ZenonT(40), <1>1, <1>2, <2>1, <3>1, BuildGoes, DealsWith
  <2>4. Puts(p[1], 0)
    BY ZenonT(40), <1>1, <1>2, <2>1, ItemsSame
  <2>5. Balanced(p, 1, 0) /\ Checked(p, 1)
    BY <2>1 DEF Balanced, Checked, Bit
  <2> QED
    BY <1>3, <1>4, <2>1, <2>2, <2>3, <2>4, <2>5, PollerPermits
<1>8. CASE PollerStops(p)
  <2>1. /\ OnlyPoller(p) /\ bufs' = bufs
        /\ pollers'[p] = [NewPoller EXCEPT !.at = "done"]
        /\ dealers' = [dealers EXCEPT ![DealerOf(p[1])] = ReleaseUnused(@, Len(pollers[p].permit))]
    BY <1>8 DEF PollerStops, OnlyPoller
  <2>2. PollerOK(pollers'[p]) /\ pollers'[p].at = "done"
    BY <2>1 DEF NewPoller, PollerOK
  <2>3. Deals(DealerOf(p[1]), 0 - Bit(pollers[p].at = "poll"))
    BY Zenon, <1>1, <2>1, PollerDrops
  <2>4. Puts(p[1], 0)
    BY <1>1, <1>2, <2>1, ItemsSame
  <2>5. /\ 0 - Bit(pollers[p].at = "poll") \in Int
        /\ Balanced(p, 0 - Bit(pollers[p].at = "poll"), 0)
        /\ Checked(p, 0 - Bit(pollers[p].at = "poll"))
    BY <2>2 DEF Balanced, Checked, Bit
  <2> QED
    BY <1>3, <1>4, <2>1, <2>2, <2>3, <2>4, <2>5, PollerPermits
<1>9. ASSUME NEW x \in Items, OnlyPoller(p), pollers[p].at = "poll", pollers'[p] = LoopedPoller,
             \/ /\ bufs' = [bufs EXCEPT ![p[1]].items = Append(@, x)]
                /\ x.slot = pollers[p].permit /\ dealers' = dealers
             \/ /\ bufs' = bufs \/ (/\ bufs' = [bufs EXCEPT ![p[1]].items = Append(@, x)]
                                    /\ x.slot = NoSlot)
                /\ dealers' = [dealers EXCEPT ![DealerOf(p[1])] =
                                 ReleaseUnused(@, Len(pollers[p].permit))]
      PROVE  PermitInv'
  <2>1. PollerOK(pollers'[p]) /\ pollers'[p].at \in {"done", "max"}
    BY <1>9 DEF LoopedPoller, NewPoller, PollerOK
  <2>2. /\ Bit(pollers[p].at = "poll") = 1 /\ Bit(pollers'[p].at = "poll") = 0
        /\ Bit(pollers[p].at = "reserve") = 0 /\ Bit(pollers'[p].at = "reserve") = 0
    BY <1>9, <2>1 DEF Bit
  <2>3. CASE /\ bufs' = [bufs EXCEPT ![p[1]].items = Append(@, x)]
             /\ x.slot = pollers[p].permit /\ dealers' = dealers
    <3>1. Deals(DealerOf(p[1]), 0)
      BY <1>1, <1>2, <2>3, DealsNot
    <3>2. x.slot # NoSlot
      BY <1>2, <1>9, <2>3, OneSlot DEF PollerOK
    <3>3. Bit(x.slot # NoSlot) = 1
      BY <3>2 DEF Bit
    <3>4. Puts(p[1], 1)
      BY Zenon, <1>1, <1>2, <2>3, <3>3, ItemsPut
    <3>5. Balanced(p, 0, 1) /\ Checked(p, 0)
      BY <2>2 DEF Balanced, Checked
    <3> QED
      BY <1>3, <1>4, <1>9, <2>1, <3>1, <3>4, <3>5, PollerPermits
  <2>4. CASE /\ bufs' = bufs \/ (/\ bufs' = [bufs EXCEPT ![p[1]].items = Append(@, x)]
                                 /\ x.slot = NoSlot)
             /\ dealers' = [dealers EXCEPT ![DealerOf(p[1])] =
                              ReleaseUnused(@, Len(pollers[p].permit))]
    <3>1. Deals(DealerOf(p[1]), 0 - 1)
      BY Zenon, <1>1, <2>2, <2>4, PollerDrops
    <3>2. Puts(p[1], 0)
      <4>1. CASE bufs' = bufs
        BY <1>1, <1>2, <4>1, ItemsSame
      <4>2. CASE bufs' = [bufs EXCEPT ![p[1]].items = Append(@, x)] /\ x.slot = NoSlot
        <5>1. Bit(x.slot # NoSlot) = 0
          BY <4>2 DEF Bit
        <5> QED
          BY Zenon, <1>1, <1>2, <4>2, <5>1, ItemsPut
      <4> QED
        BY <2>4, <4>1, <4>2
    <3>3. Balanced(p, 0 - 1, 0) /\ Checked(p, 0 - 1)
      BY <2>2 DEF Balanced, Checked
    <3> QED
      BY <1>3, <1>4, <1>9, <2>1, <3>1, <3>2, <3>3, PollerPermits
  <2> QED
    BY <1>9, <2>3, <2>4
<1>10. ASSUME NEW res \in {"task", "empty", "bad"}, PollAnswered(p, res)
       PROVE  PermitInv'
  <2>1. Item(res, pollers[p].permit) \in Items /\ Item(res, pollers[p].permit).slot = pollers[p].permit
    BY <1>2, <1>10 DEF PollAnswered, Item, Items, PollerOK
  <2>2. OnlyPoller(p) /\ pollers[p].at = "poll" /\ pollers'[p] = LoopedPoller
    BY <1>10 DEF PollAnswered, OnlyPoller
  <2>3. \/ /\ bufs' = [bufs EXCEPT ![p[1]].items = Append(@, Item(res, pollers[p].permit))]
           /\ dealers' = dealers
        \/ /\ bufs' = bufs
           /\ dealers' = [dealers EXCEPT ![DealerOf(p[1])] =
                            ReleaseUnused(@, Len(pollers[p].permit))]
    BY <1>10 DEF PollAnswered
  <2> QED
    BY <1>9, <2>1, <2>2, <2>3
<1>11. ASSUME NEW code \in Codes, PollFails(p, code)
       PROVE  PermitInv'
  <2>1. CASE WillRetry(pollers[p].call, code)
    <3>1. /\ OnlyPoller(p) /\ pollers'[p].at = pollers[p].at /\ PollerOK(pollers'[p])
          /\ dealers' = dealers /\ bufs' = bufs
      BY <1>2, <1>11, <2>1 DEF PollFails, OnlyPoller, PollerOK
    <3>2. Deals(DealerOf(p[1]), 0) /\ Puts(p[1], 0)
      BY ZenonT(40), <1>1, <1>2, <3>1, DealsNot, ItemsSame
    <3>3. Balanced(p, 0, 0) /\ Checked(p, 0)
      BY <1>5, <3>1 DEF Balanced, Checked
    <3> QED
      BY <1>3, <1>4, <3>1, <3>2, <3>3, PollerPermits
  <2>2. CASE ~WillRetry(pollers[p].call, code)
    <3>1. Item("error", NoSlot) \in Items /\ Item("error", NoSlot).slot = NoSlot
      BY ZenonT(40) DEF Item, Items
    <3>2. OnlyPoller(p) /\ pollers[p].at = "poll" /\ pollers'[p] = LoopedPoller
      BY <1>11, <2>2 DEF PollFails, OnlyPoller
    <3>3. /\ bufs' = bufs \/ bufs' = [bufs EXCEPT ![p[1]].items = Append(@, Item("error", NoSlot))]
          /\ dealers' = [dealers EXCEPT ![DealerOf(p[1])] =
                           ReleaseUnused(@, Len(pollers[p].permit))]
      BY ZenonT(40), <1>11, <2>2 DEF PollFails
    <3> QED
      BY <1>9, <3>1, <3>2, <3>3
  <2> QED
    BY <2>1, <2>2
<1>12. CASE PollAMinute(p)
  <2>1. /\ OnlyPoller(p) /\ pollers'[p].at = pollers[p].at /\ PollerOK(pollers'[p])
        /\ dealers' = dealers /\ bufs' = bufs
    BY <1>2, <1>12 DEF PollAMinute, OnlyPoller, PollerOK
  <2>2. Deals(DealerOf(p[1]), 0) /\ Puts(p[1], 0)
    BY ZenonT(40), <1>1, <1>2, <2>1, DealsNot, ItemsSame
  <2>3. Balanced(p, 0, 0) /\ Checked(p, 0)
    BY <1>5, <2>1 DEF Balanced, Checked
  <2> QED
    BY <1>3, <1>4, <2>1, <2>2, <2>3, PollerPermits
<1> QED
  BY <1>6, <1>7, <1>8, <1>10, <1>11, <1>12 DEF PollerStep
-----------------------------------------------------------------------------
(* Workflow tasks and eager starts.  The buffers hold h more permits, the queue  *)
(* of eager tasks q more and their calls c more, and o more tasks are out.       *)
HeldBy(h) ==
  BufsType' /\ bufs'["nexus"].items = bufs["nexus"].items /\ HeldSlots' = HeldSlots + h
EagerBy(q, c) ==
  /\ CallsFinite' /\ EagerType'
  /\ Len(eager'.queue) = Len(eager.queue) + q /\ Cardinality(Calling') = Cardinality(Calling) + c
OutBy(o) == OutType' /\ Len(wfs'.out) = Len(wfs.out) + o

\* What a step leaves alone holds what it held.
LEMMA NothingMoves ==
    ASSUME PermitTypes
    PROVE  /\ bufs' = bufs => HeldBy(0)
           /\ eager' = eager => EagerBy(0, 0)
           /\ wfs' = wfs => OutBy(0)
           /\ dealers' = dealers => Deals("wft", 0)
<1>1. /\ HeldSlots \in Nat /\ Len(eager.queue) \in Nat /\ Len(wfs.out) \in Nat
      /\ Cardinality(Calling) \in Nat
  BY Numbers
<1>2. bufs' = bufs => HeldBy(0)
  BY <1>1 DEF HeldBy, HeldSlots, PermitTypes, BufsType
<1>3. eager' = eager => EagerBy(0, 0)
  BY <1>1 DEF EagerBy, Calling, PermitTypes, CallsFinite, EagerType
<1>4. wfs' = wfs => OutBy(0)
  BY <1>1 DEF OutBy, OutType, PermitTypes
<1>5. dealers' = dealers => Deals("wft", 0)
  BY DealsNot DEF PermitTypes
<1> QED
  BY <1>2, <1>3, <1>4, <1>5

Adds(n, h, q, o, c) ==
  /\ h \in Int /\ q \in Int /\ o \in Int /\ c \in Int
  /\ n = h + q + o + c
  /\ n <= 0 \/ (n = 1 /\ BelowMax(dealers.wft))

\* Such a step accounts for the permits it moves.
LEMMA WftPermitsMove ==
    ASSUME PermitInv, TunerStays, UNCHANGED <<pollers, handlers>>, NEW n, NEW h, NEW q, NEW o, NEW c,
           HeldBy(h), EagerBy(q, c), OutBy(o), Deals("wft", n), Adds(n, h, q, o, c)
    PROVE  PermitInv'
<1>1. PermitTypes
  BY DEF PermitInv
<1>2. DealerOK(dealers.nexus) /\ DOMAIN dealers = {"wft", "nexus"}
  BY ZenonT(40), <1>1 DEF PermitTypes, DealersType
<1>3. Goes(dealers.wft, dealers'.wft, n) /\ dealers'.nexus = dealers.nexus
  BY Zenon DEF Deals
<1>4. DealersType'
  BY ZenonT(40), <1>2, <1>3 DEF Deals, Goes, DealersType
<1>5. PollersFinite' /\ PollersType' /\ HandlersType'
  BY ZenonT(40), <1>1 DEF PermitTypes, PollersFinite, PollersType, HandlersType
<1>6. PermitTypes'
  BY ZenonT(40), <1>4, <1>5 DEF PermitTypes, HeldBy, EagerBy, OutBy, TunerStays
<1>7. Goes(dealers.nexus, dealers'.nexus, 0)
  BY Zenon, <1>2, <1>3, UsedGoes
<1>8. /\ h \in Int /\ q \in Int /\ o \in Int /\ c \in Int
      /\ Goes(dealers.wft, dealers'.wft, h + q + o + c)
      /\ h + q + o + c <= 0 \/ (h + q + o + c = 1 /\ BelowMax(dealers.wft))
  BY ZenonT(40), <1>3 DEF Adds
<1> QED
  BY Zenon, <1>6, <1>7, <1>8, WftMoves DEF HeldBy, EagerBy, OutBy

(* A step that keeps every permit where it is                                    *)
Quiet ==
  /\ TunerStays /\ UNCHANGED <<pollers, handlers, eager, dealers>>
  /\ OutType' /\ Len(wfs'.out) = Len(wfs.out)
  /\ BufsType' /\ \A b \in Buffers : bufs'[b].items = bufs[b].items

\* Such a step has nothing to account for.
LEMMA QuietKeeps ==
    ASSUME PermitInv, Quiet
    PROVE  PermitInv'
<1>1. PermitTypes
  BY DEF PermitInv
<1>2. EagerBy(0, 0) /\ Deals("wft", 0)
  BY <1>1, NothingMoves DEF Quiet
<1>3. HeldBy(0)
  <2>1. HeldSlots \in Nat
    BY <1>1, Numbers
  <2>2. HeldSlots' = HeldSlots
    BY DEF Quiet, HeldSlots, Buffers, WftBuffers
  <2> QED
    BY <2>1, <2>2 DEF Quiet, HeldBy, Buffers
<1>4. OutBy(0)
  <2>1. Len(wfs.out) \in Nat
    BY <1>1, Numbers
  <2> QED
    BY <2>1 DEF Quiet, OutBy
<1>5. Adds(0, 0, 0, 0, 0)
  BY DEF Adds
<1> QED
  BY <1>2, <1>3, <1>4, <1>5, WftPermitsMove DEF Quiet

\* What is out may change but for its permit.
LEMMA OutChanges ==
    ASSUME OutType, NEW i \in DOMAIN wfs.out, NEW la \in {"no", "queued", "running"},
           wfs' = [wfs EXCEPT !.out[i].la = la]
    PROVE  OutType' /\ Len(wfs'.out) = Len(wfs.out)
<1>1. wfs'.out = [wfs.out EXCEPT ![i] = [wfs.out[i] EXCEPT !.la = la]] /\ "out" \in DOMAIN wfs'
  BY DEF OutType
<1>2. wfs.out \in Seq(Outs) /\ i \in 1..Len(wfs.out) /\ wfs.out[i] \in Outs
  BY DEF OutType
<1>3. [wfs.out[i] EXCEPT !.la = la] \in Outs
  BY <1>2 DEF Outs
<1>4. wfs'.out \in Seq(Outs) /\ Len(wfs'.out) = Len(wfs.out)
  BY <1>1, <1>2, <1>3, ExceptSeq
<1> QED
  BY <1>1, <1>4 DEF OutType

\* A task that goes out takes its permit along.
LEMMA OutAppends ==
    ASSUME OutType, NEW x \in Outs, wfs' = [wfs EXCEPT !.out = Append(@, x)]
    PROVE  OutBy(1)
<1>1. wfs'.out = Append(wfs.out, x) /\ "out" \in DOMAIN wfs'
  BY DEF OutType
<1>2. Append(wfs.out, x) \in Seq(Outs) /\ Len(Append(wfs.out, x)) = Len(wfs.out) + 1
  BY AppendProperties DEF OutType
<1> QED
  BY <1>1, <1>2 DEF OutBy, OutType

\* A task that is done leaves the ones that are out.
LEMMA OutDrops ==
    ASSUME OutType, NEW i \in DOMAIN wfs.out, wfs' = [wfs EXCEPT !.out = Without(@, i)]
    PROVE  OutBy(0 - 1)
<1>1. wfs'.out = Without(wfs.out, i) /\ "out" \in DOMAIN wfs'
  BY DEF OutType
<1>2. wfs.out \in Seq(Outs) /\ i \in 1..Len(wfs.out) /\ Len(wfs.out) \in Nat
  BY DEF OutType
<1>3. PICK s \in Seq(Outs) : s = SubSeq(wfs.out, 1, i - 1) /\ Len(s) = i - 1
  <2>1. 1 \in Int /\ i - 1 \in Int /\ \A j \in 1..(i - 1) : wfs.out[j] \in Outs
    BY <1>2
  <2>2. /\ SubSeq(wfs.out, 1, i - 1) \in Seq(Outs)
        /\ Len(SubSeq(wfs.out, 1, i - 1)) = IF 1 <= i - 1 THEN i - 1 - 1 + 1 ELSE 0
    BY <2>1, SubSeqProperties
  <2>3. (IF 1 <= i - 1 THEN i - 1 - 1 + 1 ELSE 0) = i - 1
    BY <1>2
  <2> QED
    BY Zenon, <2>2, <2>3
<1>4. PICK t \in Seq(Outs) : t = SubSeq(wfs.out, i + 1, Len(wfs.out)) /\ Len(t) = Len(wfs.out) - i
  <2>1. i + 1 \in Int /\ Len(wfs.out) \in Int /\ \A j \in (i + 1)..Len(wfs.out) : wfs.out[j] \in Outs
    BY <1>2
  <2>2. /\ SubSeq(wfs.out, i + 1, Len(wfs.out)) \in Seq(Outs)
        /\ Len(SubSeq(wfs.out, i + 1, Len(wfs.out))) =
             IF i + 1 <= Len(wfs.out) THEN Len(wfs.out) - (i + 1) + 1 ELSE 0
    BY <2>1, SubSeqProperties
  <2>3. (IF i + 1 <= Len(wfs.out) THEN Len(wfs.out) - (i + 1) + 1 ELSE 0) = Len(wfs.out) - i
    BY <1>2
  <2> QED
    BY Zenon, <2>2, <2>3
<1>5. s \o t \in Seq(Outs) /\ Len(s \o t) = Len(s) + Len(t)
  BY ConcatProperties
<1>6. wfs'.out = s \o t
  BY ZenonT(40), <1>1, <1>3, <1>4 DEF Without
<1>7. Len(s) + Len(t) = Len(wfs.out) + (0 - 1)
  BY <1>2, <1>3, <1>4
<1> QED
  BY <1>1, <1>5, <1>6, <1>7 DEF OutBy, OutType

\* A workflow task is taken with its permit, or the permit goes back.
LEMMA WftTakenPermits ==
    ASSUME PermitInv, NEW b \in WftBuffers, WftTaken(b)
    PROVE  PermitInv'
<1> DEFINE item == Head(bufs[b].items)
<1>1. PermitTypes /\ BufsType /\ DealersType /\ TunerKept /\ OutType
  BY DEF PermitInv, PermitTypes
<1>2. /\ b \in Buffers /\ bufs[b].items # <<>> /\ bufs' = [bufs EXCEPT ![b].items = Tail(@)]
      /\ UNCHANGED <<pollers, handlers, plan, eager>>
  BY DEF WftTaken, Buffers
<1>3. item \in Items /\ Puts(b, 0 - Bit(item.slot # NoSlot))
  BY Zenon, <1>1, <1>2, ItemsTaken
<1>4. /\ Len(item.slot) = Bit(item.slot # NoSlot)
      /\ item.res = "error" => item.slot = NoSlot
      /\ item.res # "error" => item.slot \in One /\ item.slot # NoSlot
      /\ item.res \in {"task", "empty", "bad", "error"}
  BY ZenonT(40), <1>3, ItemSlot
<1>5. PICK it : it = item
  OBVIOUS
<1>6. PICK k \in {0, 1} : k = Bit(it.slot # NoSlot)
  BY DEF Bit
<1>7. HeldBy(0 - k)
  <2>1. Puts(b, 0 - k)
    BY <1>3, <1>5, <1>6
  <2>2. /\ SlotsOf(bufs["normal"].items) \in Nat /\ SlotsOf(bufs["sticky"].items) \in Nat
    BY <1>1, Numbers DEF Buffers, WftBuffers
  <2>3. HeldSlots' = HeldSlots + (0 - k)
    <3>1. CASE b = "normal"
      BY <2>1, <2>2, <3>1 DEF Puts, HeldSlots, Buffers, WftBuffers
    <3>2. CASE b = "sticky"
      BY <2>1, <2>2, <3>2 DEF Puts, HeldSlots, Buffers, WftBuffers
    <3> QED
      BY <3>1, <3>2 DEF WftBuffers
  <2> QED
    BY <2>1, <2>3 DEF Puts, HeldBy, Buffers, WftBuffers
<1>8. TunerStays /\ EagerBy(0, 0)
  BY <1>1, <1>2, SpendsNoTuner, NothingMoves
<1>9. CASE it.res = "task"
  <2>1. k = 1
    BY ZenonT(40), <1>4, <1>5, <1>6, <1>9 DEF Bit
  <2>2. PICK used \in WftBuffers : wfs' = [wfs EXCEPT !.out = Append(@, WftOut(it.slot[1], used))]
    BY <1>5, <1>9 DEF WftTaken
  <2>3. dealers' = [dealers EXCEPT !.wft = IntoUsed(@)]
    BY <1>5, <1>9 DEF WftTaken
  <2>4. Deals("wft", 0)
    <3>1. Goes(dealers["wft"], IntoUsed(dealers["wft"]), 0)
      BY <1>1, UsedGoes DEF DealersType
    <3> QED
      BY <1>1, <2>3, <3>1, DealsWith
  <2>5. it.slot[1] \in Permits
    BY ZenonT(40), <1>4, <1>5, <1>9, OneSlot
  <2>6. WftOut(it.slot[1], used) \in Outs
    BY <2>5 DEF WftOut, Outs, Permits, Buffers
  <2>7. OutBy(1)
    BY <1>1, <2>2, <2>6, OutAppends
  <2>8. Adds(0, 0 - 1, 0, 1, 0)
    BY DEF Adds
  <2> QED
    BY <1>2, <1>7, <1>8, <2>1, <2>4, <2>7, <2>8, WftPermitsMove
<1>10. CASE it.res \in {"empty", "bad"}
  <2>1. dealers' = [dealers EXCEPT !.wft = ReleaseUnused(@, Len(it.slot))] /\ wfs' = wfs
    BY <1>5, <1>10 DEF WftTaken
  <2>2. dealers' = [dealers EXCEPT !["wft"] = ReleaseUnused(dealers["wft"], k)]
    BY ZenonT(40), <1>4, <1>5, <1>6, <2>1
  <2>3. Deals("wft", 0 - k)
    <3>1. Goes(dealers["wft"], ReleaseUnused(dealers["wft"], k), 0 - k)
      BY <1>1, UnusedGoes DEF DealersType
    <3> QED
      BY Zenon, <1>1, <2>2, <3>1, DealsWith
  <2>4. OutBy(0)
    BY <1>1, <2>1, NothingMoves
  <2>5. Adds(0 - k, 0 - k, 0, 0, 0)
    BY DEF Adds
  <2> QED
    BY <1>2, <1>7, <1>8, <2>3, <2>4, <2>5, WftPermitsMove
<1>11. CASE it.res = "error"
  <2>1. dealers' = dealers /\ wfs' = [wfs EXCEPT !.error = TRUE]
    BY <1>5, <1>11 DEF WftTaken
  <2>2. k = 0
    BY ZenonT(40), <1>4, <1>5, <1>6, <1>11 DEF Bit
  <2>3. OutBy(0)
    BY <1>1, <2>1 DEF OutBy, OutType
  <2>4. Deals("wft", 0) /\ Adds(0, 0 - 0, 0, 0, 0)
    BY <1>1, <2>1, NothingMoves DEF Adds
  <2> QED
    BY <1>2, <1>7, <1>8, <2>2, <2>3, <2>4, WftPermitsMove
<1> QED
  BY ZenonT(40), <1>4, <1>5, <1>9, <1>10, <1>11

\* The buffers are dropped with all they hold.
LEMMA BuffersDropped ==
    ASSUME PermitTypes, bufs' = EmptiedBuffers
    PROVE  HeldBy(0 - HeldSlots)
<1>1. BufsType /\ HeldSlots \in Nat
  BY Numbers DEF PermitTypes
<1>2. \A b \in Buffers : bufs[b] \in Buffer
  BY <1>1 DEF BufsType
<1>3. \A b \in WftBuffers : [bufs[b] EXCEPT !.items = <<>>] \in Buffer
  <2>1. <<>> \in Seq(Items)
    OBVIOUS
  <2>2. \A r \in Buffer, s \in Seq(Items) : [r EXCEPT !.items = s] \in Buffer
    BY DEF Buffer
  <2> QED
    BY Zenon, <1>2, <2>1, <2>2 DEF Buffers
<1>4. BufsType'
  BY <1>2, <1>3 DEF EmptiedBuffers, BufsType
<1>5. /\ bufs'["normal"].items = <<>> /\ bufs'["sticky"].items = <<>>
      /\ bufs'["nexus"].items = bufs["nexus"].items
  BY <1>2 DEF EmptiedBuffers, Buffers, WftBuffers, Buffer
<1>6. SlotsOf(<<>>) = 0
  <2>1. {i \in DOMAIN <<>> : (<<>>)[i].slot # NoSlot} = {}
    OBVIOUS
  <2> QED
    BY <2>1, FS_EmptySet DEF SlotsOf
<1>7. HeldSlots' = 0
  BY <1>5, <1>6 DEF HeldSlots
<1> QED
  BY <1>1, <1>4, <1>5, <1>7 DEF HeldBy

\* Permits dropped unused, whoever held them.
LEMMA DropsUnused ==
    ASSUME PermitTypes, NEW n \in Nat, dealers' = [dealers EXCEPT !.wft = ReleaseUnused(@, n)]
    PROVE  Deals("wft", 0 - n)
<1>1. Goes(dealers["wft"], ReleaseUnused(dealers["wft"], n), 0 - n)
  BY UnusedGoes DEF PermitTypes, DealersType
<1> QED
  BY <1>1, DealsWith DEF PermitTypes

\* What workflow tasks do with their permits.
LEMMA WftStepPermits ==
    ASSUME PermitInv, WftStep
    PROVE  PermitInv'
<1>1. PermitTypes /\ BufsType /\ DealersType /\ TunerKept /\ OutType /\ EagerType
  BY DEF PermitInv, PermitTypes
<1>2. HeldSlots \in Nat /\ Len(eager.queue) \in Nat /\ Len(wfs.out) \in Nat
  BY <1>1, Numbers
<1>3. plan' = plan => TunerStays
  BY <1>1, SpendsNoTuner
<1>4. CASE LangPollsWf
  <2>1. \A b \in Buffers : bufs'[b].items = bufs[b].items /\ bufs'[b] \in Buffer
    BY Zenon, <1>1, <1>4 DEF LangPollsWf, BufsType, Buffer
  <2>2. BufsType'
    BY <1>4, <2>1 DEF LangPollsWf, BufsType
  <2>3. OutType' /\ Len(wfs'.out) = Len(wfs.out)
    BY <1>1, <1>4 DEF LangPollsWf, OutType
  <2> QED
    BY <1>3, <1>4, <2>1, <2>2, <2>3, QuietKeeps DEF LangPollsWf, Quiet
<1>5. CASE EagerTaken
  <2>1. Head(eager.queue) \in Permits /\ Tail(eager.queue) \in Seq(Permits)
        /\ Len(Tail(eager.queue)) = Len(eager.queue) + (0 - 1)
    BY <1>1, <1>5, HeadTailProperties DEF EagerTaken, EagerType
  <2>2. EagerBy(0 - 1, 0)
    <3>1. /\ eager'.queue = Tail(eager.queue) /\ eager'.calls = eager.calls
          /\ DOMAIN eager' = DOMAIN eager
      BY <1>1, <1>5 DEF EagerTaken, EagerType
    <3>2. CallsFinite' /\ EagerType'
      BY ZenonT(40), <1>1, <2>1, <3>1 DEF PermitTypes, CallsFinite, EagerType
    <3>3. Cardinality(Calling') = Cardinality(Calling) + 0
      BY <1>1, <3>1, Numbers DEF Calling
    <3> QED
      BY <2>1, <3>1, <3>2, <3>3 DEF EagerBy
  <2>3. WftOut(Head(eager.queue), "normal") \in Outs
    BY <2>1 DEF WftOut, Outs, Permits, Buffers, WftBuffers
  <2>4. OutBy(1)
    BY <1>1, <1>5, <2>3, OutAppends DEF EagerTaken
  <2>5. Deals("wft", 0)
    <3>1. Goes(dealers["wft"], IntoUsed(dealers["wft"]), 0)
      BY <1>1, UsedGoes DEF DealersType
    <3> QED
      BY <1>1, <1>5, <3>1, DealsWith DEF EagerTaken
  <2>6. HeldBy(0) /\ Adds(0, 0, 0 - 1, 1, 0)
    BY <1>1, <1>5, NothingMoves DEF EagerTaken, Adds
  <2> QED
    BY <1>3, <1>5, <2>2, <2>4, <2>5, <2>6, WftPermitsMove DEF EagerTaken
<1>6. CASE WftInputClosed
  <2>1. HeldBy(0 - HeldSlots) /\ Deals("wft", 0 - HeldSlots) /\ EagerBy(0, 0)
    BY <1>1, <1>2, <1>6, BuffersDropped, DropsUnused, NothingMoves DEF WftInputClosed
  <2>2. OutBy(0)
    BY <1>1, <1>2, <1>6 DEF WftInputClosed, OutBy, OutType
  <2>3. Adds(0 - HeldSlots, 0 - HeldSlots, 0, 0, 0)
    BY <1>2 DEF Adds
  <2> QED
    BY <1>3, <1>6, <2>1, <2>2, <2>3, WftPermitsMove DEF WftInputClosed
<1>7. CASE WorkflowsEnd
  <2>1. HeldBy(0 - HeldSlots)
    BY <1>1, <1>7, BuffersDropped DEF WorkflowsEnd
  <2>2. Deals("wft", 0 - (HeldSlots + Len(eager.queue)))
    BY <1>1, <1>2, <1>7, DropsUnused DEF WorkflowsEnd
  <2>3. EagerBy(0 - Len(eager.queue), 0)
    <3>1. eager'.queue = <<>> /\ eager'.calls = eager.calls /\ DOMAIN eager' = DOMAIN eager
      BY <1>1, <1>7 DEF WorkflowsEnd, EagerType
    <3>2. CallsFinite' /\ EagerType'
      BY <1>1, <3>1 DEF PermitTypes, CallsFinite, EagerType
    <3>3. Cardinality(Calling') = Cardinality(Calling) + 0
      BY <1>1, <3>1, Numbers DEF Calling
    <3> QED
      BY <1>2, <3>1, <3>2, <3>3 DEF EagerBy
  <2>4. OutBy(0)
    BY <1>1, <1>2, <1>7 DEF WorkflowsEnd, OutBy, OutType
  <2>5. Adds(0 - (HeldSlots + Len(eager.queue)), 0 - HeldSlots, 0 - Len(eager.queue), 0, 0)
    <3>1. PICK m \in Nat : m = HeldSlots
      BY <1>2
    <3>2. PICK n \in Nat : n = Len(eager.queue)
      BY <1>2
    <3>3. Adds(0 - (m + n), 0 - m, 0 - n, 0, 0)
      BY DEF Adds
    <3> QED
      BY <3>1, <3>2, <3>3
  <2> QED
    BY <1>3, <1>7, <2>1, <2>2, <2>3, <2>4, <2>5, WftPermitsMove DEF WorkflowsEnd
<1>8. CASE LangToldError \/ LangToldWfShutDown \/ \E b \in WftBuffers : WftInputEnds(b)
  <2>1. /\ UNCHANGED <<plan, dealers, pollers, bufs, eager, handlers>>
        /\ OutType' /\ wfs'.out = wfs.out
    BY Zenon, <1>1, <1>8 DEF LangToldError, LangToldWfShutDown, WftInputEnds, OutType
  <2> QED
    BY <1>1, <1>3, <2>1, QuietKeeps DEF Quiet, BufsType
<1>9. ASSUME NEW i \in DOMAIN wfs.out, WftStartsLa(i)
      PROVE  PermitInv'
  <2>1. OutType' /\ Len(wfs'.out) = Len(wfs.out)
    BY Zenon, <1>1, <1>9, OutChanges DEF WftStartsLa
  <2>2. TunerStays
    BY <1>1, <1>9, SpendsNoTuner DEF WftStartsLa
  <2> QED
    BY <1>1, <1>9, <2>1, <2>2, QuietKeeps DEF WftStartsLa, Quiet, BufsType
<1>10. ASSUME NEW i \in DOMAIN wfs.out, WftDone(i)
       PROVE  PermitInv'
  <2>1. OutBy(0 - 1)
    BY <1>1, <1>10, OutDrops DEF WftDone
  <2>2. wfs.out[i].permit \in Permits
    <3>1. wfs.out[i] \in Outs
      BY <1>1 DEF OutType
    <3> QED
      BY <3>1 DEF Outs
  <2>3. Deals("wft", 0 - 1)
    <3>1. Goes(dealers["wft"], Release(dealers["wft"], wfs.out[i].permit), 0 - 1)
      BY ZenonT(40), <1>1, <2>2, ReleaseGoes DEF DealersType
    <3> QED
      BY <1>1, <1>10, <3>1, DealsWith DEF WftDone
  <2>4. HeldBy(0) /\ EagerBy(0, 0) /\ Adds(0 - 1, 0, 0, 0 - 1, 0)
    BY <1>1, <1>10, NothingMoves DEF WftDone, Adds
  <2> QED
    BY <1>3, <1>10, <2>1, <2>3, <2>4, WftPermitsMove DEF WftDone
<1> QED
  BY <1>4, <1>5, <1>6, <1>7, <1>8, <1>9, <1>10, WftTakenPermits DEF WftStep

(* One eager start changes                                                       *)
OnlyCall(c) ==
  /\ {"calls", "queue"} \subseteq DOMAIN eager'
  /\ DOMAIN eager'.calls = DOMAIN eager.calls /\ CallOK(eager'.calls[c])
  /\ \A d \in DOMAIN eager.calls \ {c} : eager'.calls[d] = eager.calls[d]

\* The calls hold the permit of that one more or less.
LEMMA CallMoves ==
    ASSUME PermitTypes, NEW c \in DOMAIN eager.calls, OnlyCall(c), NEW m \in {0, 1}, NEW n \in {0, 1},
           m = Bit(eager.calls[c].slot # NoSlot), n = Bit(eager'.calls[c].slot # NoSlot),
           NEW q \in Int, eager'.queue \in Seq(Permits), Len(eager'.queue) = Len(eager.queue) + q
    PROVE  EagerBy(q, n - m)
<1>1. IsFiniteSet(Calling)
  BY ZenonT(40), Numbers
<1>2. Calling \ {c} = Calling' \ {c}
  BY Zenon DEF Calling, OnlyCall
<1>3. /\ c \in Calling <=> eager.calls[c].slot # NoSlot
      /\ c \in Calling' <=> eager'.calls[c].slot # NoSlot
  BY ZenonT(40) DEF Calling, OnlyCall
<1>4. Bit(c \in Calling) = m /\ Bit(c \in Calling') = n
  BY <1>3 DEF Bit
<1>5. PICK C \in Nat : C = Cardinality(Calling)
  BY ZenonT(40), Numbers
<1>6. Cardinality(Calling') = C + n - m
  BY ZenonT(40), <1>1, <1>2, <1>4, <1>5, SameBut
<1>7. C + n - m = C + (n - m)
  OBVIOUS
<1>8. CallsFinite' /\ EagerType'
  BY ZenonT(40) DEF PermitTypes, CallsFinite, EagerType, OnlyCall
<1> QED
  BY ZenonT(40), <1>5, <1>6, <1>7, <1>8 DEF EagerBy

\* Eager starts take a permit, hand it on, or give it back.
LEMMA EagerStepPermits ==
    ASSUME PermitInv, NEW c \in DOMAIN eager.calls, EagerStep(c)
    PROVE  PermitInv'
<1>1. PermitTypes /\ DealersType /\ TunerKept /\ EagerType /\ CallOK(eager.calls[c])
  BY DEF PermitInv, PermitTypes, EagerType
<1>2. /\ Len(eager.queue) \in Nat /\ eager.queue \in Seq(Permits)
      /\ Len(eager.queue) = Len(eager.queue) + 0
  BY <1>1, Numbers DEF EagerType
<1>3. PICK m \in {0, 1} : m = Bit(eager.calls[c].slot # NoSlot) /\ Len(eager.calls[c].slot) = m
  <2>1. CASE eager.calls[c].slot = NoSlot
    BY <2>1 DEF NoSlot, Bit
  <2>2. CASE eager.calls[c].slot \in One
    BY ZenonT(40), <2>2, OneSlot DEF Bit
  <2> QED
    BY ZenonT(40), <1>1, <2>1, <2>2 DEF CallOK
<1>4. /\ UNCHANGED <<pollers, handlers, bufs, wfs>> /\ TunerStays
      /\ HeldBy(0) /\ OutBy(0)
  <2>1. UNCHANGED <<pollers, handlers, bufs, wfs>> /\ (plan' = plan \/ Spent("errs"))
    BY Zenon DEF EagerStep, EagerCalled, EagerAnswered, EagerFails, EagerTooLong
  <2> QED
    BY <1>1, <2>1, SpendsNoTuner, NothingMoves
<1>5. ASSUME NEW cl \in 1..Clients, EagerCalled(c, cl)
      PROVE  PermitInv'
  <2> DEFINE given == /\ registry.at[cl].by = "worker" /\ BelowMax(dealers.wft)
                      /\ CanReserve(dealers.wft, "normal", room)
  <2>1. m = 0
    BY <1>1, <1>3, <1>5 DEF EagerCalled, CallOK, Bit
  <2>2. /\ OnlyCall(c) /\ eager'.queue = eager.queue
        /\ eager'.calls[c].slot = IF given THEN <<Permit("normal")>> ELSE NoSlot
    <3>1. <<Permit("normal")>> \in One
      BY PermitIsOne DEF Buffers, WftBuffers
    <3> QED
      BY <1>1, <1>5, <3>1 DEF EagerCalled, EagerCall, OnlyCall, EagerType, CallOK
  <2>3. dealers' = IF given THEN [dealers EXCEPT !.wft = BuildOwned(@, "normal")] ELSE dealers
    BY <1>5 DEF EagerCalled
  <2>4. given => BelowMax(dealers.wft)
    OBVIOUS
  <2> HIDE DEF given
  <2>5. CASE given
    <3>1. 1 = Bit(eager'.calls[c].slot # NoSlot)
      BY <2>2, <2>5 DEF Bit, NoSlot
    <3>2. EagerBy(0, 1 - 0)
      BY <1>1, <1>2, <1>3, <2>1, <2>2, <3>1, CallMoves
    <3>3. Goes(dealers["wft"], BuildOwned(dealers["wft"], "normal"), 1)
      BY ZenonT(40), <1>1, BuildGoes DEF DealersType, Buffers, WftBuffers
    <3>4. Deals("wft", 1)
      BY <1>1, <2>3, <2>5, <3>3, DealsWith
    <3>5. Adds(1, 0, 0, 0, 1 - 0)
      BY <2>4, <2>5 DEF Adds
    <3> QED
      BY <1>4, <3>2, <3>4, <3>5, WftPermitsMove
  <2>6. CASE ~given
    <3>1. 0 = Bit(eager'.calls[c].slot # NoSlot)
      BY ZenonT(40), <2>2, <2>6 DEF Bit
    <3>2. EagerBy(0, 0 - 0)
      BY <1>1, <1>2, <1>3, <2>1, <2>2, <3>1, CallMoves
    <3>3. Deals("wft", 0) /\ Adds(0, 0, 0, 0, 0 - 0)
      BY <1>1, <2>3, <2>6, NothingMoves DEF Adds
    <3> QED
      BY <1>4, <3>2, <3>3, WftPermitsMove
  <2> QED
    BY <2>5, <2>6
<1>6. ASSUME OnlyCall(c), eager'.calls[c].slot = NoSlot, eager'.queue = eager.queue,
             dealers' = [dealers EXCEPT !.wft = ReleaseUnused(@, Len(eager.calls[c].slot))]
      PROVE  PermitInv'
  <2>1. 0 = Bit(eager'.calls[c].slot # NoSlot)
    BY <1>6 DEF Bit
  <2>2. EagerBy(0, 0 - m)
    BY <1>1, <1>2, <1>3, <1>6, <2>1, CallMoves
  <2>3. Deals("wft", 0 - m)
    BY <1>1, <1>3, <1>6, DropsUnused
  <2>4. Adds(0 - m, 0, 0, 0, 0 - m)
    BY DEF Adds
  <2> QED
    BY <1>4, <2>2, <2>3, <2>4, WftPermitsMove
<1>7. ASSUME NEW withTask \in BOOLEAN, EagerAnswered(c, withTask)
      PROVE  PermitInv'
  <2>1. OnlyCall(c) /\ eager'.calls[c].slot = NoSlot
    BY <1>1, <1>7 DEF EagerAnswered, OnlyCall, EagerType, CallOK
  <2>2. CASE withTask /\ wfs.st = "run"
    <3>1. /\ eager.calls[c].slot # NoSlot /\ eager'.queue = eager.queue \o eager.calls[c].slot
          /\ dealers' = dealers
      BY <1>1, <1>7, <2>2 DEF EagerAnswered, EagerType
    <3>2. m = 1 /\ eager.calls[c].slot \in Seq(Permits)
      BY ZenonT(40), <1>1, <1>3, <3>1, OneSlot DEF CallOK, Bit
    <3>3. eager'.queue \in Seq(Permits) /\ Len(eager'.queue) = Len(eager.queue) + 1
      <4>1. PICK s \in Seq(Permits) : s = eager.calls[c].slot /\ Len(s) = 1
        BY ZenonT(40), <1>3, <3>2
      <4>2. PICK u \in Seq(Permits) : u = eager.queue
        BY <1>2
      <4>3. u \o s \in Seq(Permits) /\ Len(u \o s) = Len(u) + Len(s)
        BY ConcatProperties
      <4> QED
        BY <3>1, <4>1, <4>2, <4>3
    <3>4. 0 = Bit(eager'.calls[c].slot # NoSlot)
      BY <2>1 DEF Bit
    <3>5. EagerBy(1, 0 - 1)
      BY <1>1, <1>3, <2>1, <3>2, <3>3, <3>4, CallMoves
    <3>6. Deals("wft", 0) /\ Adds(0, 0, 1, 0, 0 - 1)
      BY <1>1, <3>1, NothingMoves DEF Adds
    <3> QED
      BY <1>4, <3>5, <3>6, WftPermitsMove
  <2>3. CASE ~(withTask /\ wfs.st = "run")
    <3>1. /\ eager'.queue = eager.queue
          /\ dealers' = [dealers EXCEPT !.wft = ReleaseUnused(@, Len(eager.calls[c].slot))]
      BY <1>1, <1>7, <2>3 DEF EagerAnswered, EagerType
    <3> QED
      BY <1>6, <2>1, <3>1
  <2> QED
    BY <2>2, <2>3
<1>8. ASSUME NEW code \in Codes, EagerFails(c, code)
      PROVE  PermitInv'
  <2>1. OnlyCall(c) /\ eager'.calls[c].slot = NoSlot /\ eager'.queue = eager.queue
    BY <1>1, <1>8 DEF EagerFails, EagerCall, OnlyCall, EagerType, CallOK
  <2>2. dealers' = [dealers EXCEPT !.wft = ReleaseUnused(@, Len(eager.calls[c].slot))]
    BY <1>8 DEF EagerFails
  <2> QED
    BY <1>6, <2>1, <2>2
<1>9. CASE EagerTooLong(c)
  <2>1. /\ OnlyCall(c) /\ eager'.calls[c].slot = eager.calls[c].slot /\ eager'.queue = eager.queue
        /\ dealers' = dealers
    BY <1>1, <1>9 DEF EagerTooLong, OnlyCall, EagerType, CallOK
  <2>2. EagerBy(0, m - m)
    BY <1>1, <1>2, <1>3, <2>1, CallMoves
  <2>3. Deals("wft", 0) /\ Adds(0, 0, 0, 0, m - m)
    BY <1>1, <2>1, NothingMoves DEF Adds
  <2> QED
    BY <1>4, <2>2, <2>3, WftPermitsMove
<1> QED
  BY <1>5, <1>7, <1>8, <1>9 DEF EagerStep
-----------------------------------------------------------------------------
(* Nexus tasks                                                                   *)

\* A task that lang has taken holds a permit until it is done with.
LEMMA HandlerMoves ==
    ASSUME PermitTypes, NEW t \in DOMAIN handlers, NEW st \in {"running", "reporting", "done"},
           handlers[t] # "done", handlers' = [handlers EXCEPT ![t] = st]
    PROVE  HandlersType' /\ Cardinality(Handling') = Cardinality(Handling) + (0 - Bit(st = "done"))
<1>1. handlers \in Seq({"running", "reporting", "done"}) /\ t \in 1..Len(handlers)
  BY DEF PermitTypes, HandlersType
<1>2. HandlersType' /\ DOMAIN handlers' = DOMAIN handlers /\ handlers'[t] = st
  BY <1>1, ExceptSeq DEF HandlersType
<1>3. Handling \ {t} = Handling' \ {t}
  BY <1>1, <1>2 DEF Handling
<1>4. t \in Handling /\ (t \in Handling' <=> st # "done")
  BY <1>2 DEF Handling
<1>5. Bit(t \in Handling) = 1 /\ Bit(t \in Handling') = 1 - Bit(st = "done") /\ Bit(st = "done") \in {0, 1}
  BY <1>4 DEF Bit
<1>6. PICK C \in Nat : C = Cardinality(Handling)
  BY Numbers
<1>7. Cardinality(Handling') = C + Bit(t \in Handling') - 1
  BY <1>3, <1>5, <1>6, Numbers, SameBut
<1> QED
  BY <1>2, <1>5, <1>6, <1>7

\* Lang takes a task.
LEMMA HandlerAdded ==
    ASSUME PermitTypes, handlers' = Append(handlers, "running")
    PROVE  HandlersType' /\ Cardinality(Handling') = Cardinality(Handling) + 1
<1>1. handlers \in Seq({"running", "reporting", "done"}) /\ Len(handlers) \in Nat
  BY DEF PermitTypes, HandlersType
<1>2. HandlersType'
  BY <1>1, AppendProperties DEF HandlersType
<1>3. /\ DOMAIN handlers = 1..Len(handlers) /\ DOMAIN handlers' = 1..(Len(handlers) + 1)
      /\ handlers'[Len(handlers) + 1] = "running"
      /\ \A t \in 1..Len(handlers) : handlers'[t] = handlers[t]
  BY <1>1
<1>4. Handling' = Handling \cup {Len(handlers) + 1} /\ Len(handlers) + 1 \notin Handling
  BY <1>1, <1>3 DEF Handling
<1>5. IsFiniteSet(Handling)
  BY Numbers
<1> QED
  BY <1>2, <1>4, <1>5, FS_AddElement

\* A step of Nexus tasks accounts for the permits it moves.
LEMMA NexusPermitsMove ==
    ASSUME PermitInv, TunerStays, UNCHANGED <<pollers, wfs, eager>>,
           BufsType', HeldSlots' = HeldSlots,
           NEW h \in Int, SlotsOf(bufs'["nexus"].items) = SlotsOf(bufs["nexus"].items) + h,
           HandlersType', NEW t \in Int, Cardinality(Handling') = Cardinality(Handling) + t,
           NEW n, n = h + t, Deals("nexus", n)
    PROVE  PermitInv'
<1>1. PermitTypes
  BY DEF PermitInv
<1>2. DealerOK(dealers.wft) /\ DOMAIN dealers = {"wft", "nexus"}
  BY Zenon, <1>1 DEF PermitTypes, DealersType
<1>3. Goes(dealers.nexus, dealers'.nexus, n) /\ dealers'.wft = dealers.wft
  BY DEF Deals
<1>4. DealersType'
  BY Zenon, <1>2, <1>3 DEF Deals, Goes, DealersType
<1>5. PollersFinite' /\ PollersType' /\ OutType' /\ CallsFinite' /\ EagerType'
  BY Zenon, <1>1 DEF PermitTypes, PollersFinite, PollersType, OutType, CallsFinite, EagerType
<1>6. PermitTypes'
  BY ZenonT(40), <1>4, <1>5 DEF PermitTypes, TunerStays
<1> QED
  BY Zenon, <1>3, <1>6, NexusMoves

\* Activities, the steps of shutdown, and what else happens move no permit.
LEMMA OtherStepPermits ==
    ASSUME PermitInv, ActStep \/ ShutdownGoesOn \/ ShutdownGivesUp \/ Environment
    PROVE  PermitInv'
<1>1. PermitTypes /\ BufsType /\ DealersType /\ TunerKept /\ OutType
  BY DEF PermitInv, PermitTypes
<1>2. ASSUME UNCHANGED <<pollers, handlers, eager, dealers, bufs>>,
             OutType', Len(wfs'.out) = Len(wfs.out),
             plan' = plan \/ \E what \in {"ats", "errs", "flips", "swaps", "others"} : Spent(what)
      PROVE  PermitInv'
  <2>1. TunerStays
    BY <1>1, <1>2, SpendsNoTuner
  <2>2. BufsType' /\ \A b \in Buffers : bufs'[b].items = bufs[b].items
    BY <1>1, <1>2 DEF BufsType
  <2> QED
    BY <1>2, <2>1, <2>2, QuietKeeps DEF Quiet
<1>3. CASE ActStep
  <2>1. UNCHANGED <<pollers, handlers, eager, dealers, bufs>>
    BY Zenon, <1>3 DEF ActStep, LangPollsActs, ReceiversLocked, LocalNone, RemoteGiven, RemoteShutDown,
                RemoteFails, RemoteCompleted, LocalDispatched, LocalCompleted, ActElse
  <2>2. plan' = plan \/ \E what \in {"ats", "errs", "flips", "swaps", "others"} : Spent(what)
    BY Zenon, <1>3 DEF ActStep, LangPollsActs, ReceiversLocked, LocalNone, RemoteGiven, RemoteShutDown,
                RemoteFails, RemoteCompleted, LocalDispatched, LocalCompleted
  <2>3. \/ wfs' = wfs
        \/ \E i \in DOMAIN wfs.out : \E la \in {"running", "no"} : wfs' = [wfs EXCEPT !.out[i].la = la]
    BY ZenonT(40), <1>3 DEF ActStep, LangPollsActs, ReceiversLocked, LocalNone, RemoteGiven, RemoteShutDown,
                RemoteFails, RemoteCompleted, LocalDispatched, LocalCompleted
  <2>4. OutType' /\ Len(wfs'.out) = Len(wfs.out)
    <3>1. CASE wfs' = wfs
      BY <1>1, <3>1 DEF OutType
    <3>2. CASE wfs' # wfs
      BY <1>1, <2>3, <3>2, OutChanges
    <3> QED
      BY <3>1, <3>2
  <2> QED
    BY <1>2, <2>1, <2>2, <2>4
<1>4. CASE ShutdownGoesOn \/ ShutdownGivesUp \/ Initiate \/ ShutdownCalled
  <2>1. UNCHANGED <<plan, pollers, handlers, eager, dealers, bufs, wfs>>
    BY <1>4 DEF ShutdownGoesOn, ShutdownGivesUp, Initiate, ShutdownCalled, CloseElse
  <2> QED
    BY <1>1, <1>2, <2>1 DEF OutType
<1>5. CASE LoadChanges \/ \E cl \in 1..Clients : \/ ReplaceClient(cl) \/ OtherWorkerStarts(cl)
                                                 \/ OtherWorkerStops(cl)
  <2>1. /\ UNCHANGED <<pollers, handlers, eager, dealers, bufs, wfs>>
        /\ \E what \in {"flips", "swaps", "others"} : Spent(what)
    BY <1>5 DEF LoadChanges, ReplaceClient, OtherWorkerStarts, OtherWorkerStops
  <2> QED
    BY <1>1, <1>2, <2>1 DEF OutType
<1>6. ASSUME NEW d \in DOMAIN dealers, RampPasses(d)
      PROVE  PermitInv'
  <2>1. /\ UNCHANGED <<plan, pollers, handlers, eager, bufs, wfs>> /\ d \in {"wft", "nexus"}
        /\ dealers[d].supplier.type # "fixed"
    BY <1>1, <1>6 DEF RampPasses, PollElse, DealersType
  <2>2. PICK s : s = [dealers[d].supplier EXCEPT !.ramped = TRUE]
    BY Zenon
  <2>3. s.type = dealers[d].supplier.type /\ "type" \in DOMAIN s
    BY <1>1, <2>1, <2>2 DEF DealersType, DealerOK
  <2>4. dealers' = [dealers EXCEPT ![d] = [dealers[d] EXCEPT !.supplier = s]]
    BY <1>6, <2>2 DEF RampPasses
  <2>5. Goes(dealers[d], [dealers[d] EXCEPT !.supplier = s], 0)
    BY <1>1, <2>1, <2>3 DEF DealersType, DealerOK, Goes
  <2>6. Deals(d, 0)
    BY ZenonT(40), <1>1, <2>1, <2>4, <2>5, DealsWith
  <2>7. TunerStays
    BY <1>1, <2>1, SpendsNoTuner
  <2>8. CASE d = "wft"
    <3>1. HeldBy(0) /\ EagerBy(0, 0) /\ OutBy(0) /\ Adds(0, 0, 0, 0, 0)
      BY <1>1, <2>1, NothingMoves DEF Adds
    <3> QED
      BY ZenonT(40), <2>1, <2>6, <2>7, <2>8, <3>1, WftPermitsMove
  <2>9. CASE d = "nexus"
    <3>1. /\ SlotsOf(bufs["nexus"].items) \in Nat /\ Cardinality(Handling) \in Nat
      BY <1>1, Numbers DEF Buffers
    <3>2. /\ BufsType' /\ HandlersType' /\ HeldSlots' = HeldSlots
          /\ SlotsOf(bufs'["nexus"].items) = SlotsOf(bufs["nexus"].items) + 0
          /\ Cardinality(Handling') = Cardinality(Handling) + 0
      BY <1>1, <2>1, <3>1 DEF BufsType, PermitTypes, HandlersType, HeldSlots, Handling
    <3> QED
      BY <2>1, <2>6, <2>7, <2>9, <3>2, NexusPermitsMove
  <2> QED
    BY <2>1, <2>8, <2>9
<1> QED
  BY <1>3, <1>4, <1>5, <1>6 DEF Environment

\* What Nexus tasks do with their permits.
LEMMA NexusStepPermits ==
    ASSUME PermitInv, NexusStep
    PROVE  PermitInv'
<1>1. PermitTypes /\ BufsType /\ DealersType /\ TunerKept /\ OutType /\ HandlersType
  BY DEF PermitInv, PermitTypes
<1>2. /\ SlotsOf(bufs["nexus"].items) \in Nat /\ Cardinality(Handling) \in Nat
      /\ UsedForNexus \in Permits
  BY <1>1, Numbers DEF Buffers, UsedForNexus, Permit, Permits
<1>3. UNCHANGED <<plan, pollers, wfs, eager>> /\ TunerStays
  <2>1. UNCHANGED <<plan, pollers, wfs, eager>>
    BY Zenon DEF NexusStep, LangPollsNexus, NexusCancelled, NexusSourceComplete, NexusChecks,
           NexusGracePasses, LangToldNexusShutDown, NexusTaken, NexusTimesOut, NexusCompleted,
           NexusReported, NexusElse
  <2> QED
    BY <1>1, <2>1, SpendsNoTuner
<1>4. CASE LangPollsNexus \/ NexusCancelled \/ NexusSourceComplete \/ NexusChecks
           \/ NexusGracePasses \/ LangToldNexusShutDown \/ \E t \in DOMAIN nexus.map : NexusTimesOut(t)
  <2>1. /\ UNCHANGED <<handlers, dealers>>
        /\ bufs' = bufs \/ bufs' = [bufs EXCEPT !["nexus"].started = TRUE]
    BY <1>4 DEF LangPollsNexus, NexusCancelled, NexusSourceComplete, NexusChecks, NexusGracePasses,
                LangToldNexusShutDown, NexusTimesOut
  <2>2. BufsType' /\ \A b \in Buffers : bufs'[b].items = bufs[b].items
    BY ZenonT(40), <1>1, <2>1 DEF BufsType, Buffer
  <2> QED
    BY <1>1, <1>3, <2>1, <2>2, QuietKeeps DEF Quiet, OutType
<1>5. ASSUME NEW kind, NEW timer, NexusTaken(kind, timer)
      PROVE  PermitInv'
  <2>1. PICK it : it = Head(bufs["nexus"].items)
    OBVIOUS
  <2>2. /\ it \in Items /\ bufs["nexus"].items # <<>>
        /\ Puts("nexus", 0 - Bit(it.slot # NoSlot))
    BY Zenon, <1>1, <1>5, <2>1, ItemsTaken DEF NexusTaken, Buffers
  <2>3. /\ Len(it.slot) = Bit(it.slot # NoSlot)
        /\ it.res # "error" => it.slot # NoSlot
    BY ZenonT(40), <2>2, ItemSlot
  <2>4. PICK k \in {0, 1} : k = Bit(it.slot # NoSlot)
    BY DEF Bit
  <2>5. /\ BufsType' /\ HeldSlots' = HeldSlots
        /\ SlotsOf(bufs'["nexus"].items) = SlotsOf(bufs["nexus"].items) + (0 - k)
    BY <2>2, <2>4 DEF Puts, HeldSlots, Buffers, WftBuffers
  <2>6. CASE it.res = "task"
    <3>1. k = 1
      BY <2>3, <2>4, <2>6 DEF Bit
    <3>2. HandlersType' /\ Cardinality(Handling') = Cardinality(Handling) + 1
      BY <1>1, <1>5, <2>1, <2>6, HandlerAdded DEF NexusTaken
    <3>3. Deals("nexus", 0)
      <4>1. Goes(dealers["nexus"], IntoUsed(dealers["nexus"]), 0)
        BY <1>1, UsedGoes DEF DealersType
      <4>2. dealers' = [dealers EXCEPT !["nexus"] = IntoUsed(dealers["nexus"])]
        BY <1>5, <2>1, <2>6 DEF NexusTaken
      <4> QED
        BY Zenon, <1>1, <4>1, <4>2, DealsWith
    <3>4. 0 = (0 - 1) + 1
      OBVIOUS
    <3> QED
      BY <1>3, <2>5, <3>1, <3>2, <3>3, <3>4, NexusPermitsMove
  <2>7. CASE it.res # "task"
    <3>1. /\ handlers' = handlers
          /\ dealers' = [dealers EXCEPT !["nexus"] = ReleaseUnused(dealers["nexus"], k)]
      BY <1>5, <2>1, <2>3, <2>4, <2>7 DEF NexusTaken
    <3>2. HandlersType' /\ Cardinality(Handling') = Cardinality(Handling) + 0
      BY <1>1, <1>2, <3>1 DEF HandlersType, Handling
    <3>3. Deals("nexus", 0 - k)
      <4>1. Goes(dealers["nexus"], ReleaseUnused(dealers["nexus"], k), 0 - k)
        BY <1>1, UnusedGoes DEF DealersType
      <4> QED
        BY Zenon, <1>1, <3>1, <4>1, DealsWith
    <3>4. 0 - k = (0 - k) + 0
      OBVIOUS
    <3> QED
      BY <1>3, <2>5, <3>2, <3>3, <3>4, NexusPermitsMove
  <2> QED
    BY <2>6, <2>7
<1>6. ASSUME NEW t \in DOMAIN handlers, NEW st \in {"reporting", "done"}, handlers[t] # "done",
             handlers' = [handlers EXCEPT ![t] = st], bufs' = bufs,
             dealers' = IF st = "done" THEN [dealers EXCEPT !.nexus = Release(@, UsedForNexus)]
                                       ELSE dealers
      PROVE  PermitInv'
  <2>1. PICK k \in {0, 1} : k = Bit(st = "done")
    BY DEF Bit
  <2>2. HandlersType' /\ Cardinality(Handling') = Cardinality(Handling) + (0 - k)
    BY ZenonT(40), <1>1, <1>6, <2>1, HandlerMoves
  <2>3. /\ BufsType' /\ HeldSlots' = HeldSlots
        /\ SlotsOf(bufs'["nexus"].items) = SlotsOf(bufs["nexus"].items) + 0
    BY <1>1, <1>2, <1>6 DEF BufsType, HeldSlots
  <2>4. Deals("nexus", 0 - k)
    <3>1. CASE st = "done"
      <4>1. k = 1
        BY <2>1, <3>1 DEF Bit
      <4>2. Goes(dealers["nexus"], Release(dealers["nexus"], UsedForNexus), 0 - 1)
        BY ZenonT(40), <1>1, <1>2, ReleaseGoes DEF DealersType
      <4>3. dealers' = [dealers EXCEPT !["nexus"] = Release(dealers["nexus"], UsedForNexus)]
        BY <1>6, <3>1
      <4> QED
        BY Zenon, <1>1, <4>1, <4>2, <4>3, DealsWith
    <3>2. CASE st # "done"
      <4>1. k = 0 /\ dealers' = dealers
        BY <1>6, <2>1, <3>2 DEF Bit
      <4> QED
        BY <1>1, <4>1, DealsNot
    <3> QED
      BY <3>1, <3>2
  <2>5. 0 - k = 0 + (0 - k)
    OBVIOUS
  <2> QED
    BY <1>3, <2>2, <2>3, <2>4, <2>5, NexusPermitsMove
<1>7. ASSUME NEW t \in DOMAIN handlers, NEW status, NexusCompleted(t, status)
      PROVE  PermitInv'
  <2>1. PICK st \in {"reporting", "done"} :
          st = IF Malformed(nexus.map[t].kind, status) THEN "done" ELSE "reporting"
    OBVIOUS
  <2>2. /\ handlers[t] # "done" /\ handlers' = [handlers EXCEPT ![t] = st] /\ bufs' = bufs
        /\ dealers' = IF st = "done" THEN [dealers EXCEPT !.nexus = Release(@, UsedForNexus)]
                                     ELSE dealers
    BY <1>7, <2>1 DEF NexusCompleted
  <2> QED
    BY Zenon, <1>6, <2>2
<1>8. ASSUME NEW t \in DOMAIN handlers, NexusReported(t)
      PROVE  PermitInv'
  BY Zenon, <1>6, <1>8 DEF NexusReported
<1> QED
  BY Zenon, <1>4, <1>5, <1>7, <1>8 DEF NexusStep
-----------------------------------------------------------------------------
(* The beginning                                                                 *)

Kind(b, n) == {<<b, i>> : i \in 1..n}

\* There are finitely many pollers of a kind.
LEMMA PollersOfKind ==
    ASSUME NEW b, NEW n \in Int
    PROVE  IsFiniteSet(Kind(b, n)) /\ \A p \in Kind(b, n) : p[1] = b
<1> DEFINE f == [i \in 1..n |-> <<b, i>>]
<1>1. IsFiniteSet(1..n)
  BY FS_Interval
<1>2. f \in Surjection(1..n, Kind(b, n))
  BY Zenon DEF Surjection, Kind
<1> HIDE DEF f
<1>3. IsFiniteSet(Kind(b, n))
  BY <1>1, <1>2, FS_Surjection
<1> QED
  BY <1>3 DEF Kind

\* The numbers that a plan's pollers are computed from.
LEMMA PollersOfPlan ==
    ASSUME NEW c \in Plans
    PROVE  /\ IsFiniteSet(PollersOf(c))
           /\ \A p \in PollersOf(c) : p[1] \in Buffers
<1>1. c.polls \in Nat /\ c.ratio \in Nat /\ c.npolls \in Nat
  BY WorkerAssumption
<1>2. MaxNonstickyPolls(c) \in Int
  <2>1. PICK k \in Nat : k = c.polls * c.ratio
    BY <1>1
  <2>2. k \div 10 \in Int
    OBVIOUS
  <2> QED
    BY <2>1, <2>2 DEF MaxNonstickyPolls, AtLeast
<1>3. MaxStickyPolls(c) \in Int
  BY <1>1, <1>2 DEF MaxStickyPolls, AtLeast
<1>4. PICK m \in Int : m = IF c.cached > 0 THEN MaxNonstickyPolls(c) ELSE c.polls
  BY <1>1, <1>2
<1>5. PICK n \in Int : n = IF c.cached > 0 THEN MaxStickyPolls(c) ELSE 0
  BY <1>3
<1>6. PollersOf(c) = (Kind("normal", m) \cup Kind("sticky", n)) \cup Kind("nexus", c.npolls)
  BY <1>4, <1>5 DEF PollersOf, Kind
<1>7. IsFiniteSet(PollersOf(c))
  <2>1. IsFiniteSet(Kind("normal", m)) /\ IsFiniteSet(Kind("sticky", n))
    BY PollersOfKind
  <2>2. IsFiniteSet(Kind("nexus", c.npolls))
    BY <1>1, PollersOfKind
  <2>3. IsFiniteSet(Kind("normal", m) \cup Kind("sticky", n))
    BY Zenon, <2>1, FS_Union
  <2> QED
    BY Zenon, <1>6, <2>2, <2>3, FS_Union
<1>8. \A p \in PollersOf(c) : p[1] \in Buffers
  <2>1. \A b \in Buffers, k \in Int : \A p \in Kind(b, k) : p[1] \in Buffers
    BY PollersOfKind
  <2> QED
    BY <1>1, <1>6, <2>1 DEF Buffers, WftBuffers
<1> QED
  BY <1>7, <1>8

\* What a tuner makes for workflow and Nexus tasks.
LEMMA TunerSuppliers ==
    ASSUME NEW c \in Plans, NEW d \in {"wft", "nexus"}
    PROVE  /\ "type" \in DOMAIN Tuner(c)[d] /\ Tuner(c)[d].type \in {"fixed", "resource"}
           /\ Tuner(c)[d].type = "fixed" => Tuner(c)[d].free \in Nat
<1>1. /\ c.tuner \in {"resource", "options", "config"} /\ DefaultSlots \in Nat
      /\ \A o \in {c.wft, c.nexus} :
           o.type \in {"none", "fixed", "resource"} /\ (o.type = "fixed" => o.slots \in Nat)
  BY WorkerAssumption
<1> DEFINE Good(s) == /\ "type" \in DOMAIN s /\ s.type \in {"fixed", "resource"}
                      /\ s.type = "fixed" => s.free \in Nat
<1>2. ASSUME NEW n \in Nat PROVE Good(FixedSizeSlots(n))
  BY DEF FixedSizeSlots
<1>3. ASSUME NEW o PROVE Good(ResourceBasedSlots(o))
  BY ZenonT(40) DEF ResourceBasedSlots
<1>4. ASSUME NEW o \in {c.wft, c.nexus} PROVE Good(SupplierFor(o))
  <2>1. CASE o.type = "fixed"
    <3>1. SupplierFor(o) = FixedSizeSlots(o.slots)
      BY <2>1 DEF SupplierFor
    <3> QED
      BY ZenonT(40), <1>1, <1>2, <2>1, <3>1
  <2>2. CASE o.type = "resource"
    <3>1. SupplierFor(o) = ResourceBasedSlots(o)
      BY <2>2 DEF SupplierFor
    <3> QED
      BY ZenonT(40), <1>3, <3>1
  <2>3. CASE o.type = "none"
    <3>1. SupplierFor(o) = FixedSizeSlots(DefaultSlots)
      BY <2>3 DEF SupplierFor
    <3> QED
      BY ZenonT(40), <1>1, <1>2, <3>1
  <2> QED
    BY ZenonT(40), <1>1, <2>1, <2>2, <2>3
<1> HIDE DEF Good
<1>5. Good(Tuner(c)[d])
  <2>1. CASE c.tuner = "resource"
    <3>1. Tuner(c) = ResourceTuner(c)
      BY <2>1 DEF Tuner
    <3> QED
      BY <1>3, <3>1 DEF ResourceTuner
  <2>2. CASE c.tuner = "options"
    <3>1. Tuner(c) = OptionsTuner(c)
      BY <2>2 DEF Tuner
    <3> QED
      BY <1>1, <1>2, <1>4, <3>1 DEF OptionsTuner
  <2>3. CASE c.tuner = "config"
    <3>1. Tuner(c) = ConfigTuner(c)
      BY <2>3 DEF Tuner
    <3> QED
      BY <1>4, <3>1 DEF ConfigTuner
  <2> QED
    BY ZenonT(40), <1>1, <2>1, <2>2, <2>3
<1> QED
  BY ZenonT(40), <1>5 DEF Good

\* Before the first poll no permit is extant.
LEMMA PermitsBegin ==
    ASSUME Init
    PROVE  PermitInv
<1>1. plan \in Plans
  BY Zenon DEF Init
<1>2. PermitTypes
  <2>1. PollersFinite /\ PollersType
    <3>1. DOMAIN pollers = PollersOf(plan) /\ \A p \in DOMAIN pollers : pollers[p] = NewPoller
      BY Zenon DEF Init
    <3>2. PollerOK(NewPoller)
      BY ZenonT(40) DEF NewPoller, PollerOK
    <3> QED
      BY ZenonT(40), <1>1, <3>1, <3>2, PollersOfPlan DEF PollersFinite, PollersType
  <2>2. BufsType
    <3>1. [items |-> <<>>, started |-> FALSE] \in Buffer
      BY DEF Buffer
    <3> QED
      BY Zenon, <3>1 DEF Init, BufsType
  <2>3. OutType /\ HandlersType
    <3>1. "out" \in DOMAIN wfs /\ wfs.out = <<>> /\ handlers = <<>>
      BY Zenon DEF Init
    <3> QED
      BY <3>1 DEF OutType, HandlersType
  <2>4. CallsFinite /\ EagerType
    <3>1. /\ DOMAIN eager = {"calls", "queue"} /\ eager.queue = <<>>
          /\ DOMAIN eager.calls = 1..plan.eager
          /\ \A c \in DOMAIN eager.calls : CallOK(eager.calls[c])
      BY Zenon DEF Init, CallOK
    <3>2. plan.eager \in Nat
      BY <1>1, WorkerAssumption
    <3>3. IsFiniteSet(1..plan.eager)
      BY <3>2, FS_Interval
    <3> QED
      BY <3>1, <3>3 DEF CallsFinite, EagerType
  <2>5. DealersType
    <3>1. MaxPermits(plan) \in Nat
      BY <1>1, WorkerAssumption DEF MaxPermits, AtLeast
    <3>2. ASSUME NEW d \in {"wft", "nexus"}, NEW max \in Nat
          PROVE  DealerOK(NewDealer(max, Tuner(plan)[d]))
      BY <1>1, TunerSuppliers DEF DealerOK, NewDealer, Dealer
    <3>3. /\ DOMAIN dealers = {"wft", "nexus"}
          /\ dealers.wft = NewDealer(MaxPermits(plan), Tuner(plan)["wft"])
          /\ dealers.nexus = NewDealer(0, Tuner(plan)["nexus"])
      BY Zenon DEF Init
    <3> QED
      BY <3>1, <3>2, <3>3 DEF DealersType
  <2>6. TunerKept
    BY <1>1, WorkerAssumption DEF TunerKept
  <2> QED
    BY <2>1, <2>2, <2>3, <2>4, <2>5, <2>6 DEF PermitTypes
<1>3. /\ InPollers(WftBuffers) = {} /\ InPollers({"nexus"}) = {} /\ Reserving = {}
  BY ZenonT(40) DEF Init, InPollers, Reserving, WftPollers, NewPoller
<1>4. /\ bufs["normal"].items = <<>> /\ bufs["sticky"].items = <<>> /\ bufs["nexus"].items = <<>>
      /\ eager.queue = <<>> /\ wfs.out = <<>> /\ handlers = <<>>
  BY Zenon DEF Init, Buffers, WftBuffers
<1>5. SlotsOf(<<>>) = 0
  <2>1. {i \in DOMAIN <<>> : (<<>>)[i].slot # NoSlot} = {}
    OBVIOUS
  <2> QED
    BY <2>1, FS_EmptySet DEF SlotsOf
<1>6. {c \in DOMAIN eager.calls : eager.calls[c].slot # NoSlot} = {}
  BY Zenon DEF Init
<1>7. {t \in DOMAIN handlers : handlers[t] # "done"} = {}
  BY <1>4
<1>8. WftPermits = 0 /\ NexusPermits = 0
  <2>1. Cardinality({}) = 0
    BY FS_EmptySet
  <2>2. HeldSlots = 0 /\ SlotsOf(bufs["nexus"].items) = 0
    BY <1>4, <1>5 DEF HeldSlots
  <2>3. /\ Cardinality(InPollers(WftBuffers)) = 0 /\ Cardinality(InPollers({"nexus"})) = 0
        /\ Cardinality(Calling) = 0 /\ Cardinality(Handling) = 0
    BY Zenon, <1>3, <1>6, <1>7, <2>1 DEF Calling, Handling
  <2>4. Len(eager.queue) = 0 /\ Len(wfs.out) = 0
    BY <1>4
  <2> QED
    BY <2>2, <2>3, <2>4 DEF WftPermits, NexusPermits, Calling, Handling
<1>9. PermitsAccounted
  <2>1. /\ DOMAIN dealers = {"wft", "nexus"}
        /\ dealers.wft.extant = 0 /\ dealers.nexus.extant = 0
        /\ dealers.wft.supplier = Tuner(plan)["wft"] /\ dealers.nexus.supplier = Tuner(plan)["nexus"]
    BY Zenon DEF Init, NewDealer, Dealer
  <2>2. ASSUME NEW d \in {"wft", "nexus"}, dealers[d].supplier.type = "fixed"
        PROVE  dealers[d].supplier.free + dealers[d].extant = Tuner(plan)[d].free
    BY <1>1, <2>1, <2>2, TunerSuppliers
  <2> QED
    BY Zenon, <1>8, <2>1, <2>2 DEF PermitsAccounted
<1>10. OvershootBounded
  <2>1. Cardinality(Reserving) = 0
    BY <1>3, FS_EmptySet
  <2>2. dealers.wft.extant = 0 /\ dealers.wft.max \in Nat /\ Cardinality(WftPollers) \in Nat
    BY Zenon, <1>2, Numbers DEF Init, NewDealer, Dealer, PermitTypes, DealersType, DealerOK
  <2> QED
    BY <2>1, <2>2 DEF OvershootBounded, Reserving
<1> QED
  BY <1>2, <1>9, <1>10 DEF PermitInv

\* Every step accounts for the permits it moves.
LEMMA PermitsStep ==
    ASSUME PermitInv, [Next]_vars
    PROVE  PermitInv'
<1>1. CASE Next
  BY <1>1, PollerStepPermits, EagerStepPermits, WftStepPermits, OtherStepPermits, NexusStepPermits
     DEF Next
<1>2. CASE UNCHANGED vars
  <2>1. PermitTypes'
    BY ZenonT(40), <1>2 DEF vars, PermitInv, PermitTypes, PollersFinite, PollersType, BufsType, OutType,
                CallsFinite, EagerType, HandlersType, DealersType, TunerKept
  <2>2. WftPermits' = WftPermits /\ NexusPermits' = NexusPermits
    BY Zenon, <1>2 DEF vars, WftPermits, NexusPermits, InPollers, HeldSlots
  <2>3. PermitsAccounted' /\ OvershootBounded'
    BY Zenon, <1>2, <2>2 DEF vars, PermitInv, PermitsAccounted, OvershootBounded, WftPollers
  <2> QED
    BY <2>1, <2>3 DEF PermitInv
<1> QED
  BY <1>1, <1>2

\* No permit is lost and none is given back twice: the extant permits of a dealer
\* (MeteredPermitDealer) are the ones that pollers, buffers, tasks and eager starts
\* hold, and a fixed size supplier's semaphore has the others.
THEOREM NoPermitLost == Spec => []PermitsAccounted
<1>1. PermitInv => PermitsAccounted
  BY DEF PermitInv
<1> QED
  BY <1>1, PermitsBegin, PermitsStep, PTL DEF Spec

\* acquire_owned checks the maximum before it reserves, so it is exceeded, but only
\* by the workflow task pollers there are.
THEOREM MaximumNearlyKept == Spec => []OvershootBounded
<1>1. PermitInv => OvershootBounded
  BY DEF PermitInv
<1> QED
  BY <1>1, PermitsBegin, PermitsStep, PTL DEF Spec
=============================================================================
