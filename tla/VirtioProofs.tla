---------------------------- MODULE VirtioProofs ----------------------------
(***************************************************************************)
(* Proofs about module VirtioDisk, for any processes, any number of        *)
(* descriptors and any width of the ring indices: a request is in exactly  *)
(* one place until it is finished, and virtio_disk_rw returns only after   *)
(* the device has carried it out.                                          *)
(***************************************************************************)
EXTENDS VirtioDisk, TLAPS, RingArith, Counting

\* The entries of a ring from one index to another: how many, all of them, and that
\* they differ.
Count(from, to) == RCount(U16, from, to)
Entries(ring, from, to) == REntries(NUM, U16, ring, from, to)
Distinct(ring, from, to) == RDistinct(NUM, U16, ring, from, to)

\* What the device has not looked at, and what the handler has not looked at.
AvailSet == Entries(avail, seen, availidx)
UsedSet == Entries(used, used_idx, usedidx)

\* The chain of the transfer that p waits for.
Second(p) == next[idx0[p]]
Third(p) == next[next[idx0[p]]]
Trio(p) == {idx0[p], Second(p), Third(p)}

\* The heads of the transfers that are not finished.
Heads == {idx0[p] : p \in {q \in Waiting : busy[q]}}

TypeInv ==
  /\ free \in SUBSET Desc
  /\ next \in [Desc -> Desc \cup {None}]
  /\ addr \in [Desc -> Proc \cup {None}]
  /\ info \in [Desc -> Proc \cup {None}]
  /\ status \in [Desc -> BOOLEAN]
  /\ avail \in [Desc -> Desc] /\ used \in [Desc -> Desc]
  /\ availidx \in Index /\ usedidx \in Index /\ used_idx \in Index /\ seen \in Index
  /\ busy \in [Proc -> BOOLEAN]
  /\ handler \in BOOLEAN /\ line \in BOOLEAN
  /\ working \in SUBSET Desc
  /\ pc \in [Proc -> {"idle", "desc_sleep", "desc_woken", "sleep", "woken"}]
  /\ idx0 \in [Proc -> Desc]

\* Every transfer has three descriptors of its own, linked from idx[0], and the
\* head's entry of disk.info names its buffer.
ChainInv ==
  /\ \A p \in Waiting :
       /\ Second(p) \in Desc /\ Third(p) \in Desc /\ next[Third(p)] = None
       /\ idx0[p] # Second(p) /\ idx0[p] # Third(p) /\ Second(p) # Third(p)
       /\ Trio(p) \cap free = {}
       /\ info[idx0[p]] = p /\ addr[idx0[p]] = p
  /\ \A p, q \in Waiting : p # q => Trio(p) \cap Trio(q) = {}
  /\ Cardinality(free) + 3 * Cardinality(Waiting) = NUM

\* An unfinished transfer is in one of the rings or with the device, only there and
\* only once.
PlaceInv ==
  /\ AvailSet \cup working \cup UsedSet = Heads
  /\ AvailSet \cap working = {} /\ AvailSet \cap UsedSet = {} /\ working \cap UsedSet = {}
  /\ Distinct(avail, seen, availidx) /\ Distinct(used, used_idx, usedidx)

\* A used entry is of a transfer that has been carried out.
DoneInv ==
  /\ \A p \in Proc : busy[p] => p \in Waiting
  /\ \A d \in UsedSet : info[d] \in done
  /\ \A p \in Waiting : ~busy[p] => p \in done

IInv == TypeInv /\ ChainInv /\ PlaceInv /\ DoneInv

-----------------------------------------------------------------------------
(* The chains *)

\* A step that touches no descriptor and no transfer's head keeps the chains.
LEMMA ChainSame ==
  ASSUME ChainInv, UNCHANGED <<free, next, addr, info, idx0>>, Waiting' = Waiting
  PROVE  ChainInv'
<1>1. \A p : Second(p)' = Second(p) /\ Third(p)' = Third(p)
  BY DEF Second, Third
<1>2. \A p : Trio(p)' = Trio(p)
  BY <1>1 DEF Trio
<1> QED
  BY <1>1, <1>2 DEF ChainInv

-----------------------------------------------------------------------------
(* Descriptors *)

\* A set of numbers that is not empty has a smallest one.
LEMMA Smallest ==
  ASSUME FiniteFacts, NEW S \in SUBSET Nat, S # {}
  PROVE  \E x \in S : \A y \in S : x <= y
BY DEF FiniteFacts, NatSmallest

\* alloc3_desc finds three different descriptors when three are free
\* (virtio_disk.c:143-153, 189-201).
LEMMA ThreeFree ==
  ASSUME FiniteFacts, NEW F \in SUBSET Desc, Cardinality(F) >= 3
  PROVE  LET d0 == alloc_desc(F)
             d1 == alloc_desc(F \ {d0})
             d2 == alloc_desc(F \ {d0, d1})
         IN /\ d0 \in F /\ d1 \in F /\ d2 \in F
            /\ d0 # d1 /\ d0 # d2 /\ d1 # d2
            /\ Cardinality(F \ {d0, d1, d2}) = Cardinality(F) - 3
<1> USE VirtioAssumption DEF VirtioAssumption
<1> DEFINE d0 == alloc_desc(F)
           d1 == alloc_desc(F \ {d0})
           d2 == alloc_desc(F \ {d0, d1})
<1>0. ASSUME NEW S \in SUBSET Nat, S # {} PROVE alloc_desc(S) \in S
  <2>1. \E x \in S : \A y \in S : x <= y
    BY <1>0, Smallest
  <2> QED
    BY <2>1, Zenon DEF alloc_desc
<1>1. IsFiniteSet(F) /\ Cardinality(F) \in Nat /\ F \in SUBSET Nat
  <2>1. IsFiniteSet(Desc) /\ Desc \in SUBSET Nat
    BY DEF FiniteFacts, FiniteInterval, Desc
  <2> QED
    BY <2>1, Zenon DEF FiniteFacts, FiniteSubset, FiniteCount
<1>2. d0 \in F
  <2>1. F # {}
    BY <1>1 DEF FiniteFacts, FiniteEmpty
  <2> QED
    BY <1>0, <1>1, <2>1
<1> HIDE DEF d0
<1>3. IsFiniteSet(F \ {d0}) /\ Cardinality(F \ {d0}) = Cardinality(F) - 1
      /\ F \ {d0} \in SUBSET Nat
  BY <1>1, <1>2 DEF FiniteFacts, FiniteRemove
<1>4. d1 \in F \ {d0}
  <2>1. F \ {d0} # {}
    BY <1>1, <1>3 DEF FiniteFacts, FiniteEmpty
  <2> QED
    BY <1>0, <1>3, <2>1
<1> HIDE DEF d1
<1>5. F \ {d0, d1} = (F \ {d0}) \ {d1}
  OBVIOUS
<1>6. IsFiniteSet(F \ {d0, d1}) /\ Cardinality(F \ {d0, d1}) = Cardinality(F) - 2
      /\ F \ {d0, d1} \in SUBSET Nat
  <2>1. IsFiniteSet((F \ {d0}) \ {d1})
        /\ Cardinality((F \ {d0}) \ {d1}) = Cardinality(F \ {d0}) - 1
    BY <1>3, <1>4, ZenonT(30) DEF FiniteFacts, FiniteRemove
  <2>2. IsFiniteSet(F \ {d0, d1})
        /\ Cardinality(F \ {d0, d1}) = Cardinality(F \ {d0}) - 1
    BY <1>5, <2>1, Zenon
  <2> QED
    BY <1>1, <1>3, <2>2
<1>7. d2 \in F \ {d0, d1}
  <2>1. F \ {d0, d1} # {}
    BY <1>1, <1>6 DEF FiniteFacts, FiniteEmpty
  <2> QED
    BY <1>0, <1>6, <2>1
<1> HIDE DEF d2
<1>8. F \ {d0, d1, d2} = (F \ {d0, d1}) \ {d2}
  OBVIOUS
<1>9. Cardinality(F \ {d0, d1, d2}) = Cardinality(F) - 3
  <2>1. Cardinality((F \ {d0, d1}) \ {d2}) = Cardinality(F \ {d0, d1}) - 1
    BY <1>6, <1>7, ZenonT(30) DEF FiniteFacts, FiniteRemove
  <2>2. Cardinality(F \ {d0, d1, d2}) = Cardinality(F \ {d0, d1}) - 1
    BY <1>8, <2>1, Zenon
  <2> QED
    BY <1>1, <1>6, <2>2
<1>10. /\ d0 \in F /\ d1 \in F /\ d2 \in F
       /\ d0 # d1 /\ d0 # d2 /\ d1 # d2
       /\ Cardinality(F \ {d0, d1, d2}) = Cardinality(F) - 3
  BY <1>2, <1>4, <1>7, <1>9
<1> QED
  BY <1>10 DEF d0, d1, d2

\* What free_chain visits from the head of a chain of three (virtio_disk.c:172-185).
LEMMA ChainIs ==
  ASSUME FiniteFacts, NEW a \in Desc, NEW b \in Desc, NEW c \in Desc,
         next[a] = b, next[b] = c, next[c] = None
  PROVE  Chain(a) = {a, b, c}
<1> USE VirtioAssumption DEF VirtioAssumption, Desc
<1> DEFINE F(at) == [k \in 0..NUM |-> IF k = 0 THEN a
                          ELSE IF at[k - 1] = None THEN None ELSE next[at[k - 1]]]
           f == [k \in 0..NUM |-> IF k = 0 THEN a ELSE IF k = 1 THEN b
                                  ELSE IF k = 2 THEN c ELSE None]
           at == CHOOSE g : g = F(g)
<1>0. None # a /\ None # b /\ None # c
  OBVIOUS
<1>1. f = F(f)
  BY <1>0
<1>2. at = F(at)
  BY <1>1, Zenon
<1>3. Chain(a) = {at[k] : k \in 0..NUM} \ {None}
  BY DEF Chain
<1> HIDE DEF at
<1>4. /\ at[0] = a /\ at[1] = b /\ at[2] = c
      /\ \A k \in 3..NUM : at[k] = IF at[k - 1] = None THEN None ELSE next[at[k - 1]]
  <2>1. \A k \in 0..NUM : at[k] = IF k = 0 THEN a
                          ELSE IF at[k - 1] = None THEN None ELSE next[at[k - 1]]
    BY <1>2
  <2> QED
    BY <1>0, <2>1
<1>5. \A k \in 3..NUM : at[k] = None
  <2> DEFINE T == {k \in 3..NUM : at[k] # None}
  <2> SUFFICES ASSUME T # {} PROVE FALSE
    OBVIOUS
  <2>0. T \in SUBSET Nat
    OBVIOUS
  <2>1. PICK k \in T : \A j \in T : k <= j
    BY <2>0, Smallest, Zenon
  <2>2. CASE k = 3
    BY <1>0, <1>4, <2>1, <2>2
  <2>3. CASE k # 3
    BY <1>4, <2>1, <2>3
  <2> QED
    BY <2>2, <2>3
<1>6. \A k \in 0..NUM : k \in {0, 1, 2} \/ k \in 3..NUM
  OBVIOUS
<1>7. 0 \in 0..NUM /\ 1 \in 0..NUM /\ 2 \in 0..NUM
  OBVIOUS
<1> QED
  BY <1>0, <1>3, <1>4, <1>5, <1>6, <1>7

\* The descriptors that are not in a set.
LEMMA DescDifference ==
  ASSUME FiniteFacts, NEW F \in SUBSET Desc
  PROVE  /\ IsFiniteSet(F) /\ Cardinality(F) \in Nat
         /\ Cardinality(Desc \ F) = NUM - Cardinality(F)
<1> USE VirtioAssumption DEF VirtioAssumption
<1>1. IsFiniteSet(Desc) /\ Cardinality(Desc) = NUM
  <2>1. /\ IsFiniteSet(0..(NUM - 1))
        /\ Cardinality(0..(NUM - 1)) = IF 0 > NUM - 1 THEN 0 ELSE (NUM - 1) - 0 + 1
    BY DEF FiniteFacts, FiniteInterval
  <2> QED
    BY <2>1 DEF Desc
<1>2. IsFiniteSet(F) /\ Cardinality(F) \in Nat
  BY <1>1 DEF FiniteFacts, FiniteSubset, FiniteCount
<1>3. Cardinality(Desc \ F) = Cardinality(Desc) - Cardinality(Desc \cap F)
  BY <1>1, Zenon DEF FiniteFacts, FiniteMinus
<1>4. Desc \cap F = F
  OBVIOUS
<1> QED
  BY <1>1, <1>2, <1>3, <1>4, Zenon

-----------------------------------------------------------------------------
(* Rings *)

LEMMA IsRingNum == IsRing(NUM, U16) /\ Desc = SlotSet(NUM) /\ Index = Indices(U16)
BY VirtioAssumption DEF VirtioAssumption, IsRing, Desc, SlotSet, Index, Indices

LEMMA CountRange ==
  ASSUME NEW from \in Index, NEW to \in Index
  PROVE  /\ Count(from, to) \in 0..(U16 - 1)
         /\ Count(from, to) = 0 <=> from = to
BY IsRingNum, CountBetween DEF Count

\* A new entry at the far index joins the others and overwrites none of them.
LEMMA RingPush ==
  ASSUME NEW ring \in [Desc -> Desc], NEW from \in Index, NEW to \in Index, NEW d \in Desc,
         Count(from, to) < NUM, Count(from, to) + 1 < U16,
         Distinct(ring, from, to), d \notin Entries(ring, from, to)
  PROVE  /\ RPut(NUM, ring, to, d) \in [Desc -> Desc] /\ Inc(to) \in Index
         /\ Entries(RPut(NUM, ring, to, d), from, Inc(to)) = Entries(ring, from, to) \cup {d}
         /\ Distinct(RPut(NUM, ring, to, d), from, Inc(to))
<1>1. Inc(to) = RNext(U16, to)
  BY DEF Inc, RNext
<1>2. /\ ring \in [SlotSet(NUM) -> SlotSet(NUM)] /\ d \in SlotSet(NUM)
      /\ from \in Indices(U16) /\ to \in Indices(U16) /\ IsRing(NUM, U16)
  BY IsRingNum
<1>3. /\ RPut(NUM, ring, to, d) \in [SlotSet(NUM) -> SlotSet(NUM)]
      /\ RNext(U16, to) \in Indices(U16)
      /\ REntries(NUM, U16, RPut(NUM, ring, to, d), from, RNext(U16, to))
           = REntries(NUM, U16, ring, from, to) \cup {d}
      /\ RDistinct(NUM, U16, RPut(NUM, ring, to, d), from, RNext(U16, to))
  BY <1>2, PushEntry DEF Count, Entries, Distinct
<1> QED
  BY <1>1, <1>3, IsRingNum, Zenon DEF Entries, Distinct

\* Reading at the near index takes that entry away.
LEMMA RingPop ==
  ASSUME NEW ring \in [Desc -> Desc], NEW from \in Index, NEW to \in Index, from # to,
         Distinct(ring, from, to)
  PROVE  /\ Inc(from) \in Index /\ ring[from % NUM] \in Entries(ring, from, to)
         /\ Entries(ring, Inc(from), to) = Entries(ring, from, to) \ {ring[from % NUM]}
         /\ Distinct(ring, Inc(from), to)
<1>1. Inc(from) = RNext(U16, from)
  BY DEF Inc, RNext
<1>2. /\ ring \in [SlotSet(NUM) -> SlotSet(NUM)]
      /\ from \in Indices(U16) /\ to \in Indices(U16) /\ IsRing(NUM, U16)
  BY IsRingNum
<1>3. /\ RNext(U16, from) \in Indices(U16)
      /\ ring[from % NUM] \in REntries(NUM, U16, ring, from, to)
      /\ REntries(NUM, U16, ring, RNext(U16, from), to)
           = REntries(NUM, U16, ring, from, to) \ {ring[from % NUM]}
      /\ RDistinct(NUM, U16, ring, RNext(U16, from), to)
  BY <1>2, PopEntry DEF Distinct
<1> QED
  BY <1>1, <1>3, IsRingNum, Zenon DEF Entries, Distinct

\* Entries that differ and are all in a set of descriptors are not more than it has.
LEMMA RingRoom ==
  ASSUME FiniteFacts, NEW ring, NEW from \in Index, NEW to \in Index, NEW F \in SUBSET Desc,
         Entries(ring, from, to) \subseteq F, Distinct(ring, from, to)
  PROVE  Count(from, to) <= Cardinality(F) /\ Cardinality(F) \in Nat
<1> USE VirtioAssumption DEF VirtioAssumption
<1> DEFINE n == Count(from, to)
           D == 0..(n - 1)
           f == [k \in D |-> REntry(NUM, ring, from, k)]
<1>1. n \in Nat
  BY CountRange DEF Index
<1>2. IsFiniteSet(F) /\ Cardinality(F) \in Nat
  <2>1. IsFiniteSet(Desc)
    BY DEF FiniteFacts, FiniteInterval, Desc
  <2> QED
    BY <2>1 DEF FiniteFacts, FiniteSubset, FiniteCount
<1>3. f \in [D -> F] /\ \A x, y \in D : f[x] = f[y] => x = y
  BY DEF Entries, Distinct, REntries, RDistinct, Count
<1>4. Cardinality(D) <= Cardinality(F)
  <2> HIDE DEF D, f
  <2> QED
    BY <1>2, <1>3 DEF FiniteFacts, FiniteInjection
<1>5. Cardinality(D) = n
  <2> HIDE DEF n
  <2>1. 0 \in Int /\ n - 1 \in Int
    BY <1>1
  <2>2. Cardinality(0..(n - 1)) = IF 0 > n - 1 THEN 0 ELSE (n - 1) - 0 + 1
    BY <2>1 DEF FiniteFacts, FiniteInterval
  <2> QED
    BY <1>1, <2>2
<1> QED
  BY <1>2, <1>4, <1>5

\* The slots between two indices that hold d.
Slots(ring, from, to, d) == {i \in Span(from, to) : ring[i] = d}

\* An entry is in one slot, if the entries differ.
LEMMA SlotsOf ==
  ASSUME FiniteFacts, NEW ring, NEW from \in Index, NEW to \in Index, Count(from, to) < NUM, NEW d,
         Distinct(ring, from, to)
  PROVE  Cardinality(Slots(ring, from, to, d)) = IF d \in Entries(ring, from, to) THEN 1 ELSE 0
<1> DEFINE D == 0..(Count(from, to) - 1)
<1>0. /\ \A i : i \in Slots(ring, from, to, d) <=> i \in Span(from, to) /\ ring[i] = d
      /\ d \in Entries(ring, from, to) <=> \E k \in D : ring[(from + k) % NUM] = d
  BY Zenon DEF Slots, Entries, REntries, REntry, Count
<1>1. Span(from, to) = {(from + k) % NUM : k \in D}
  <2>1. Span(from, to) = RSlots(NUM, U16, from, to)
    BY DEF Span, RSlots
  <2>2. /\ from \in Indices(U16) /\ to \in Indices(U16) /\ IsRing(NUM, U16)
        /\ RCount(U16, from, to) < NUM
    BY IsRingNum DEF Count
  <2>3. RSlots(NUM, U16, from, to) = RFilled(NUM, U16, from, to)
    BY <2>2, SlotsBetween
  <2> QED
    BY <2>1, <2>3, Zenon DEF Count, RFilled
<1>2. \A j, k \in D : ring[(from + j) % NUM] = ring[(from + k) % NUM] => j = k
  BY DEF Distinct, RDistinct, REntry, Count
<1> HIDE DEF D
<1>3. CASE \E k \in D : ring[(from + k) % NUM] = d
  <2>1. PICK k \in D : ring[(from + k) % NUM] = d
    BY <1>3
  <2>2. Slots(ring, from, to, d) = {(from + k) % NUM}
    BY <1>0, <1>1, <1>2, <2>1
  <2>3. Cardinality({(from + k) % NUM}) = 1
    BY Zenon DEF FiniteFacts, FiniteSingleton
  <2> QED
    BY <1>0, <1>3, <2>2, <2>3, Zenon
<1>4. CASE ~\E k \in D : ring[(from + k) % NUM] = d
  <2>1. Slots(ring, from, to, d) = {}
    BY <1>0, <1>1, <1>4
  <2> QED
    BY <1>0, <1>4, <2>1, Zenon DEF FiniteFacts, FiniteEmpty
<1> QED
  BY <1>3, <1>4

-----------------------------------------------------------------------------
(* The invariant is inductive *)

\* The steps that move no request.
SamePlaces == UNCHANGED <<avail, availidx, used, usedidx, used_idx, seen, working>>

LEMMA RingsSame ==
  ASSUME SamePlaces
  PROVE  /\ AvailSet' = AvailSet /\ UsedSet' = UsedSet /\ working' = working
         /\ Distinct(avail, seen, availidx)' = Distinct(avail, seen, availidx)
         /\ Distinct(used, used_idx, usedidx)' = Distinct(used, used_idx, usedidx)
BY DEF SamePlaces, AvailSet, UsedSet, Entries, Distinct

\* The processes that wait for a transfer form a finite set.
LEMMA WaitingFinite ==
  ASSUME FiniteFacts, NEW W \in SUBSET Proc
  PROVE  /\ IsFiniteSet(W) /\ Cardinality(W) \in Nat
         /\ \A p \in Proc : p \notin W => Cardinality(W \cup {p}) = Cardinality(W) + 1
         /\ \A p \in W : Cardinality(W \ {p}) = Cardinality(W) - 1
<1>1. IsFiniteSet(W)
  BY VirtioAssumption DEF FiniteFacts, FiniteSubset, VirtioAssumption
<1> QED
  BY <1>1 DEF FiniteFacts, FiniteAdd, FiniteRemove, FiniteCount

\* A head belongs to one transfer, and is not free.
LEMMA HeadOwner ==
  ASSUME TypeInv, ChainInv
  PROVE  /\ Heads \subseteq Desc \ free
         /\ \A d \in Heads :
              \E p \in Waiting : busy[p] /\ idx0[p] = d /\ info[d] = p /\ addr[d] = p
         /\ \A p, q \in Waiting : idx0[p] = idx0[q] => p = q
BY DEF TypeInv, ChainInv, Heads, Trio, Waiting

\* While a transfer is not finished, both rings have room for one entry more: its
\* own, because a transfer takes three descriptors.
LEMMA RoomForOne ==
  ASSUME FiniteFacts, TypeInv, ChainInv, PlaceInv, NEW d \in Heads
  PROVE  /\ Count(seen, availidx) < NUM
         /\ d \notin UsedSet => Count(used_idx, usedidx) + 1 < NUM
         /\ Count(used_idx, usedidx) < NUM
<1>1. PICK p \in Waiting : idx0[p] = d
  BY HeadOwner
<1> DEFINE e == Second(p)
<1>2. e \in Desc /\ d \in Desc /\ d # e
  BY <1>1, HeadOwner DEF ChainInv
<1>3. e \notin Heads
  <2> SUFFICES ASSUME e \in Heads PROVE FALSE
    OBVIOUS
  <2>1. PICK q \in Waiting : idx0[q] = e
    BY HeadOwner
  <2>2. q # p
    BY <1>1, <1>2, <2>1
  <2>3. Trio(q) \cap Trio(p) = {}
    BY <2>2 DEF ChainInv
  <2> QED
    BY <2>1, <2>3 DEF Trio
<1> HIDE DEF e
<1>4. Cardinality(Desc \ {e}) = NUM - 1 /\ Cardinality(Desc \ {d, e}) = NUM - 2
  <2>1. IsFiniteSet({e}) /\ Cardinality({e}) = 1 /\ d \notin {e}
    BY <1>2, Zenon DEF FiniteFacts, FiniteSingleton
  <2>2. Cardinality({e} \cup {d}) = Cardinality({e}) + 1
    BY <2>1, Zenon DEF FiniteFacts, FiniteAdd
  <2>3. {e} \cup {d} = {d, e}
    OBVIOUS
  <2>4. Cardinality({d, e}) = 2
    BY <2>1, <2>2, <2>3
  <2>5. {e} \in SUBSET Desc /\ {d, e} \in SUBSET Desc
    BY <1>2
  <2> QED
    BY <2>1, <2>4, <2>5, DescDifference, Zenon
<1>5. Heads \subseteq Desc \ {e}
  BY <1>3, HeadOwner
<1>6. AvailSet \subseteq Desc \ {e} /\ UsedSet \subseteq Desc \ {e}
  BY <1>5 DEF PlaceInv
<1>7. d \notin UsedSet => UsedSet \subseteq Desc \ {d, e}
  BY <1>6
<1>8. Count(seen, availidx) <= Cardinality(Desc \ {e})
  BY <1>6, RingRoom DEF TypeInv, PlaceInv, AvailSet
<1>9. Count(used_idx, usedidx) <= Cardinality(Desc \ {e})
  BY <1>6, RingRoom DEF TypeInv, PlaceInv, UsedSet
<1>10. d \notin UsedSet => Count(used_idx, usedidx) <= Cardinality(Desc \ {d, e})
  BY <1>7, RingRoom DEF TypeInv, PlaceInv, UsedSet
<1>11. Count(seen, availidx) \in Int /\ Count(used_idx, usedidx) \in Int
  BY CountRange DEF TypeInv
<1> QED
  BY <1>4, <1>8, <1>9, <1>10, <1>11, VirtioAssumption DEF VirtioAssumption

\* At first all descriptors are free and nothing is in a ring.
LEMMA InitInv == ASSUME FiniteFacts PROVE Init => IInv
<1> SUFFICES ASSUME Init PROVE IInv
  OBVIOUS
<1> USE VirtioAssumption DEF VirtioAssumption
<1>1. TypeInv
  <2>1. 0 \in Desc /\ 0 \in Index
    BY DEF Desc, Index
  <2>2. /\ status \in [Desc -> BOOLEAN] /\ busy \in [Proc -> BOOLEAN]
        /\ handler \in BOOLEAN /\ line \in BOOLEAN
    BY Zenon DEF Init
  <2>3. /\ avail \in [Desc -> Desc] /\ used \in [Desc -> Desc] /\ idx0 \in [Proc -> Desc]
        /\ availidx \in Index /\ usedidx \in Index /\ used_idx \in Index /\ seen \in Index
    BY <2>1 DEF Init
  <2>4. /\ free \in SUBSET Desc /\ working \in SUBSET Desc
        /\ next \in [Desc -> Desc \cup {None}]
        /\ addr \in [Desc -> Proc \cup {None}] /\ info \in [Desc -> Proc \cup {None}]
        /\ pc \in [Proc -> {"idle", "desc_sleep", "desc_woken", "sleep", "woken"}]
    BY DEF Init
  <2> QED
    BY <2>2, <2>3, <2>4 DEF TypeInv
<1>2. Waiting = {}
  BY DEF Init, Waiting
<1>3. ChainInv
  <2>1. Cardinality(Desc) = NUM
    <3>1. Cardinality(0..(NUM - 1)) = IF 0 > NUM - 1 THEN 0 ELSE (NUM - 1) - 0 + 1
      BY DEF FiniteFacts, FiniteInterval
    <3> QED
      BY <3>1 DEF Desc
  <2>2. Cardinality(Waiting) = 0
    BY <1>2 DEF FiniteFacts, FiniteEmpty
  <2>3. Cardinality(free) + 3 * Cardinality(Waiting) = NUM
    BY <2>1, <2>2 DEF Init
  <2> QED
    BY <1>2, <2>3 DEF ChainInv
<1>4. AvailSet = {} /\ UsedSet = {} /\ Distinct(avail, seen, availidx)
      /\ Distinct(used, used_idx, usedidx)
  <2>1. 0 \in Index
    BY DEF Index
  <2>2. Count(0, 0) = 0
    BY <2>1, CountRange
  <2> QED
    BY <2>2 DEF Init, AvailSet, UsedSet, Entries, Distinct, REntries, RDistinct, Count
<1>5. PlaceInv
  BY <1>2, <1>4 DEF Init, PlaceInv, Heads
<1>6. DoneInv
  BY <1>2, <1>4 DEF Init, DoneInv
<1> QED
  BY <1>1, <1>3, <1>5, <1>6 DEF IInv

\* Steps that move no request: a process that finds too few descriptors, the
\* acknowledgement of the interrupt and the handler's return.
LEMMA QuietStep ==
  ASSUME IInv, TypeInv', SamePlaces,
         UNCHANGED <<free, next, addr, info, busy, idx0, done>>, Waiting' = Waiting
  PROVE  IInv'
<1>1. Heads' = Heads
  BY DEF Heads
<1>2. ChainInv'
  BY ChainSame DEF IInv
<1>3. PlaceInv'
  BY <1>1, RingsSame DEF IInv, PlaceInv
<1>4. DoneInv'
  BY RingsSame DEF IInv, DoneInv
<1> QED
  BY <1>2, <1>3, <1>4 DEF IInv

\* alloc3_desc fails: only who sleeps changes.
LEMMA NoDescStep ==
  ASSUME IInv, NEW p \in Proc, rw_no_desc(p)
  PROVE  IInv'
<1> DEFINE f == IF free = {} THEN pc ELSE WakeAllocators(pc)
<1>1. pc \in [Proc -> {"idle", "desc_sleep", "desc_woken", "sleep", "woken"}]
  BY DEF IInv, TypeInv
<1>2. /\ f \in [Proc -> {"idle", "desc_sleep", "desc_woken", "sleep", "woken"}]
      /\ \A q \in Proc : f[q] \in {"sleep", "woken"} <=> pc[q] \in {"sleep", "woken"}
  BY <1>1 DEF WakeAllocators
<1>3. /\ pc' = [f EXCEPT ![p] = "desc_sleep"] /\ pc[p] \in {"idle", "desc_woken"}
      /\ SamePlaces
      /\ UNCHANGED <<free, next, addr, info, status, busy, handler, line, idx0, done>>
  BY DEF rw_no_desc, CanStart, SamePlaces
<1> HIDE DEF f
<1>4. pc' \in [Proc -> {"idle", "desc_sleep", "desc_woken", "sleep", "woken"}]
  BY <1>2, <1>3
<1>5. TypeInv'
  BY <1>3, <1>4 DEF IInv, TypeInv, SamePlaces
<1>6. Waiting' = Waiting
  BY <1>2, <1>3 DEF Waiting
<1> QED
  BY <1>3, <1>5, <1>6, QuietStep

\* The handler takes the lock, or returns.
LEMMA AckStep ==
  ASSUME IInv, intr_ack \/ intr_return
  PROVE  IInv'
<1>1. /\ SamePlaces
      /\ UNCHANGED <<free, next, addr, info, status, busy, pc, idx0, done>>
      /\ handler' \in BOOLEAN /\ line' \in BOOLEAN
  BY Zenon DEF intr_ack, intr_return, SamePlaces, IInv, TypeInv
<1>2. TypeInv'
  BY <1>1 DEF IInv, TypeInv, SamePlaces
<1>3. Waiting' = Waiting
  BY <1>1 DEF Waiting
<1> QED
  BY <1>1, <1>2, <1>3, QuietStep

\* A transfer is published: it gets three free descriptors, and an entry of the
\* avail ring that the device has already looked at.
LEMMA StartStep ==
  ASSUME FiniteFacts, IInv, NEW p \in Proc, rw_start(p)
  PROVE  IInv'
<1> DEFINE d0 == alloc_desc(free)
           d1 == alloc_desc(free \ {d0})
           d2 == alloc_desc(free \ {d0, d1})
<1>1. /\ pc[p] \in {"idle", "desc_woken"} /\ Cardinality(free) >= 3
      /\ free' = free \ {d0, d1, d2}
      /\ next' = [next EXCEPT ![d0] = d1, ![d1] = d2, ![d2] = None]
      /\ addr' = [addr EXCEPT ![d0] = p]
      /\ status' = [status EXCEPT ![d0] = FALSE]
      /\ info' = [info EXCEPT ![d0] = p]
      /\ busy' = [busy EXCEPT ![p] = TRUE]
      /\ avail' = [avail EXCEPT ![availidx % NUM] = d0]
      /\ availidx' = Inc(availidx)
      /\ idx0' = [idx0 EXCEPT ![p] = d0]
      /\ pc' = [pc EXCEPT ![p] = "sleep"]
      /\ done' = done \ {p}
      /\ UNCHANGED <<used, usedidx, used_idx, handler, line, seen, working>>
  BY DEF rw_start, CanStart, MarkBusy, Publish
<1>2. /\ d0 \in free /\ d1 \in free /\ d2 \in free
      /\ d0 # d1 /\ d0 # d2 /\ d1 # d2
      /\ Cardinality(free \ {d0, d1, d2}) = Cardinality(free) - 3
  BY <1>1, ThreeFree, Zenon DEF IInv, TypeInv
<1> HIDE DEF d0, d1, d2
<1>3. d0 \in Desc /\ d1 \in Desc /\ d2 \in Desc /\ free \in SUBSET Desc
  BY <1>2 DEF IInv, TypeInv
<1>4. p \notin Waiting /\ ~busy[p]
  BY <1>1, SMTT(30) DEF Waiting, IInv, DoneInv
<1>5. Waiting' = Waiting \cup {p}
  BY <1>1, SMTT(30) DEF Waiting, IInv, TypeInv
<1>6. /\ idx0'[p] = d0 /\ \A q \in Proc : q # p => idx0'[q] = idx0[q]
      /\ busy'[p] /\ \A q \in Proc : q # p => busy'[q] = busy[q]
  BY <1>1, SMTT(30) DEF IInv, TypeInv
<1>7. /\ next'[d0] = d1 /\ next'[d1] = d2 /\ next'[d2] = None
      /\ \A i \in Desc \ {d0, d1, d2} : next'[i] = next[i]
      /\ next' \in [Desc -> Desc \cup {None}]
  BY <1>1, <1>2, <1>3 DEF IInv, TypeInv
<1>8. /\ info'[d0] = p /\ addr'[d0] = p
      /\ \A i \in Desc \ {d0} : info'[i] = info[i] /\ addr'[i] = addr[i]
  BY <1>1, <1>3 DEF IInv, TypeInv
<1>9. \A q \in Waiting :
        /\ q \in Proc /\ q # p /\ idx0[q] \in Desc
        /\ Second(q) \in Desc /\ Third(q) \in Desc
        /\ idx0[q] \notin free /\ Second(q) \notin free /\ Third(q) \notin free
  BY <1>4, SMTT(30) DEF IInv, TypeInv, ChainInv, Trio, Waiting
<1>10. \A q \in Waiting : /\ idx0'[q] = idx0[q] /\ Second(q)' = Second(q)
                          /\ Third(q)' = Third(q) /\ Trio(q)' = Trio(q)
  BY <1>2, <1>6, <1>7, <1>9 DEF Second, Third, Trio
<1>11. Second(p)' = d1 /\ Third(p)' = d2 /\ Trio(p)' = {d0, d1, d2}
  BY <1>6, <1>7 DEF Second, Third, Trio
<1>12. Heads' = Heads \cup {d0} /\ d0 \notin Heads /\ Heads \subseteq Desc \ free
  <2>1. {q \in Waiting' : busy'[q]} = {q \in Waiting : busy[q]} \cup {p}
    BY <1>4, <1>5, <1>6, <1>9
  <2>2. Heads' = Heads \cup {d0}
    BY <1>6, <1>9, <2>1 DEF Heads
  <2> QED
    BY <1>2, <1>9, <2>2 DEF Heads
<1>13. ChainInv'
  <2>1. \A q \in Waiting' :
          /\ Second(q)' \in Desc /\ Third(q)' \in Desc /\ next'[Third(q)'] = None
          /\ idx0'[q] # Second(q)' /\ idx0'[q] # Third(q)' /\ Second(q)' # Third(q)'
          /\ Trio(q)' \cap free' = {}
          /\ info'[idx0'[q]] = q /\ addr'[idx0'[q]] = q
    <3> SUFFICES ASSUME NEW q \in Waiting'
                 PROVE  /\ Second(q)' \in Desc /\ Third(q)' \in Desc
                        /\ next'[Third(q)'] = None
                        /\ idx0'[q] # Second(q)' /\ idx0'[q] # Third(q)'
                        /\ Second(q)' # Third(q)'
                        /\ Trio(q)' \cap free' = {}
                        /\ info'[idx0'[q]] = q /\ addr'[idx0'[q]] = q
      OBVIOUS
    <3>1. CASE q = p
      BY <1>1, <1>2, <1>3, <1>6, <1>7, <1>8, <1>11, <3>1, SMTT(30)
    <3>2. CASE q \in Waiting
      <4>1. next'[Third(q)'] = None
        BY <1>2, <1>7, <1>9, <1>10, <3>2, SMTT(30) DEF IInv, ChainInv
      <4>2. info'[idx0'[q]] = q /\ addr'[idx0'[q]] = q
        BY <1>2, <1>8, <1>9, <1>10, <3>2, SMTT(30) DEF IInv, ChainInv
      <4>3. Trio(q)' \cap free' = {}
        BY <1>1, <1>10, <3>2 DEF IInv, ChainInv
      <4> QED
        BY <1>9, <1>10, <3>2, <4>1, <4>2, <4>3, SMTT(30) DEF IInv, ChainInv
    <3> QED
      BY <1>5, <3>1, <3>2
  <2>2. \A q, r \in Waiting' : q # r => Trio(q)' \cap Trio(r)' = {}
    <3> SUFFICES ASSUME NEW q \in Waiting', NEW r \in Waiting', q # r
                 PROVE  Trio(q)' \cap Trio(r)' = {}
      OBVIOUS
    <3>1. CASE q \in Waiting /\ r \in Waiting
      BY <1>10, <3>1 DEF IInv, ChainInv
    <3>2. CASE q = p /\ r \in Waiting
      BY <1>2, <1>9, <1>10, <1>11, <3>2, SMTT(30) DEF Trio
    <3>3. CASE r = p /\ q \in Waiting
      BY <1>2, <1>9, <1>10, <1>11, <3>3, SMTT(30) DEF Trio
    <3> QED
      BY <1>5, <3>1, <3>2, <3>3
  <2>3. Cardinality(free') + 3 * Cardinality(Waiting') = NUM
    <3>1. Waiting \in SUBSET Proc
      BY DEF Waiting
    <3>2. Cardinality(Waiting') = Cardinality(Waiting) + 1 /\ Cardinality(Waiting) \in Nat
      BY <1>4, <1>5, <3>1, WaitingFinite
    <3>3. Cardinality(free') = Cardinality(free) - 3 /\ Cardinality(free) \in Nat
      BY <1>1, <1>2, <1>3, DescDifference, ZenonT(30)
    <3> QED
      BY <3>2, <3>3, VirtioAssumption DEF IInv, ChainInv, VirtioAssumption
  <2> QED
    BY <2>1, <2>2, <2>3, SMTT(30) DEF ChainInv
<1>14. Count(seen, availidx) < NUM /\ Count(seen, availidx) + 1 < U16
  <2>1. AvailSet \subseteq Desc \ free
    BY <1>12 DEF IInv, PlaceInv
  <2>2. Count(seen, availidx) <= Cardinality(Desc \ free)
    BY <2>1, RingRoom DEF IInv, TypeInv, PlaceInv, AvailSet
  <2>3. Cardinality(Desc \ free) = NUM - Cardinality(free) /\ Cardinality(free) \in Nat
    BY <1>3, DescDifference, Zenon
  <2>4. Count(seen, availidx) \in Int
    BY CountRange DEF IInv, TypeInv
  <2> QED
    BY <1>1, <2>2, <2>3, <2>4, VirtioAssumption DEF VirtioAssumption
<1>15. /\ avail' \in [Desc -> Desc] /\ availidx' \in Index
       /\ AvailSet' = AvailSet \cup {d0} /\ Distinct(avail, seen, availidx)'
  <2>1. d0 \notin AvailSet
    BY <1>12 DEF IInv, PlaceInv
  <2>2. /\ avail' \in [Desc -> Desc] /\ Inc(availidx) \in Index
        /\ Entries(avail', seen, Inc(availidx)) = Entries(avail, seen, availidx) \cup {d0}
        /\ Distinct(avail', seen, Inc(availidx))
    <3>1. /\ avail \in [Desc -> Desc] /\ seen \in Index /\ availidx \in Index
          /\ Distinct(avail, seen, availidx) /\ d0 \notin Entries(avail, seen, availidx)
      BY <2>1 DEF IInv, TypeInv, PlaceInv, AvailSet
    <3> QED
      <4>1. avail' = RPut(NUM, avail, availidx, d0) /\ d0 \in Desc
        BY <1>1, <1>3, SMTT(30) DEF RPut
      <4> QED
        BY <1>14, <3>1, <4>1, RingPush
  <2>3. seen' = seen /\ availidx' = Inc(availidx)
    BY <1>1
  <2> QED
    BY <2>2, <2>3 DEF AvailSet, Entries, Distinct
<1>16. /\ UsedSet' = UsedSet /\ working' = working
       /\ Distinct(used, used_idx, usedidx)' = Distinct(used, used_idx, usedidx)
  BY <1>1 DEF UsedSet, Entries, Distinct
<1>17. PlaceInv'
  <2>1. d0 \notin AvailSet /\ d0 \notin working /\ d0 \notin UsedSet
    BY <1>12 DEF IInv, PlaceInv
  <2> QED
    BY <1>12, <1>15, <1>16, <2>1 DEF IInv, PlaceInv
<1>18. DoneInv'
  <2>1. \A q \in Proc : busy'[q] => q \in Waiting'
    BY <1>5, <1>6 DEF IInv, DoneInv
  <2>2. \A d \in UsedSet' : info'[d] \in done'
    <3> SUFFICES ASSUME NEW d \in UsedSet PROVE info'[d] \in done'
      BY <1>16
    <3>1. d \in Heads /\ info[d] \in done
      BY DEF IInv, PlaceInv, DoneInv
    <3>2. PICK q \in Waiting : idx0[q] = d /\ info[d] = q
      BY <3>1, HeadOwner DEF IInv
    <3>3. d \in Desc \ {d0} /\ q # p
      BY <1>9, <1>12, <3>1, <3>2, SMTT(30)
    <3> QED
      BY <1>1, <1>8, <3>1, <3>2, <3>3
  <2>3. \A q \in Waiting' : ~busy'[q] => q \in done'
    BY <1>1, <1>5, <1>6, <1>9, SMTT(30) DEF IInv, DoneInv
  <2> QED
    BY <2>1, <2>2, <2>3 DEF DoneInv
<1>19. TypeInv'
  <2>1. /\ status' \in [Desc -> BOOLEAN] /\ busy' \in [Proc -> BOOLEAN]
        /\ handler' \in BOOLEAN /\ line' \in BOOLEAN
    BY <1>1, ZenonT(30) DEF IInv, TypeInv
  <2>2. /\ addr' \in [Desc -> Proc \cup {None}] /\ info' \in [Desc -> Proc \cup {None}]
        /\ pc' \in [Proc -> {"idle", "desc_sleep", "desc_woken", "sleep", "woken"}]
        /\ idx0' \in [Proc -> Desc] /\ free' \in SUBSET Desc
    BY <1>1, <1>3, SMTT(30) DEF IInv, TypeInv
  <2>3. /\ used' \in [Desc -> Desc] /\ usedidx' \in Index /\ used_idx' \in Index
        /\ seen' \in Index /\ working' \in SUBSET Desc
    BY <1>1 DEF IInv, TypeInv
  <2> QED
    BY <1>7, <1>15, <2>1, <2>2, <2>3 DEF TypeInv
<1> QED
  BY <1>13, <1>17, <1>18, <1>19, SMTT(30) DEF IInv

\* A finished transfer's process returns, and its three descriptors are free.
LEMMA FinishStep ==
  ASSUME FiniteFacts, IInv, NEW p \in Proc, rw_finish(p)
  PROVE  IInv'
<1> USE DEF IInv
<1>1. pc[p] = "woken" /\ p \in Waiting
  BY DEF rw_finish, Waiting
<1>2. Chain(idx0[p]) = Trio(p) /\ Trio(p) \cap free = {} /\ Trio(p) \subseteq Desc
  <2>1. /\ idx0[p] \in Desc /\ Second(p) \in Desc /\ Third(p) \in Desc
        /\ next[idx0[p]] = Second(p) /\ next[Second(p)] = Third(p)
        /\ next[Third(p)] = None /\ Trio(p) \cap free = {}
    BY <1>1 DEF TypeInv, ChainInv, Second, Third
  <2> QED
    BY <2>1, ChainIs, SMTT(30) DEF Trio
<1>3. /\ SamePlaces
      /\ UNCHANGED <<status, busy, handler, line, done>>
  BY DEF rw_finish, SamePlaces
<1>4. CASE busy[p]
  <2>1. pc' = [pc EXCEPT ![p] = "sleep"] /\ UNCHANGED <<free, next, addr, info, idx0>>
    BY <1>4 DEF rw_finish
  <2>2. Waiting' = Waiting
    BY <1>1, <2>1, SMTT(30) DEF Waiting, TypeInv
  <2>3. TypeInv'
    BY <1>3, <2>1, SMTT(30) DEF TypeInv, SamePlaces
  <2> QED
    BY <1>3, <2>1, <2>2, <2>3, QuietStep, SMTT(30)
<1>5. CASE ~busy[p]
  <2>1. /\ info' = [info EXCEPT ![idx0[p]] = None]
        /\ next' = [i \in Desc |-> IF i \in Trio(p) THEN None ELSE next[i]]
        /\ addr' = [addr EXCEPT ![idx0[p]] = None]
        /\ free' = free \cup Trio(p)
        /\ idx0' = [idx0 EXCEPT ![p] = 0]
        /\ pc' = WakeAllocators([pc EXCEPT ![p] = "idle"])
    BY <1>2, <1>5, SMTT(30) DEF rw_finish, free_chain
  <2>2. Waiting' = Waiting \ {p}
    BY <1>1, <2>1, SMTT(30) DEF Waiting, WakeAllocators, TypeInv
  <2>3. \A q \in Waiting' :
          /\ q \in Waiting /\ q \in Proc /\ idx0'[q] = idx0[q]
          /\ Trio(q) \cap Trio(p) = {} /\ Trio(q) \subseteq Desc
    <3>1. \A q \in Waiting' : q \in Waiting /\ q \in Proc /\ q # p
      BY <2>2, SMTT(30), Zenon, SMTT(29) DEF Waiting
    <3> QED
      BY <1>1, <2>1, <3>1 DEF TypeInv, ChainInv, Trio
  <2>4. \A q \in Waiting' : /\ Second(q)' = Second(q) /\ Third(q)' = Third(q)
                            /\ Trio(q)' = Trio(q)
    <3>1. \A i \in Desc : i \notin Trio(p) => next'[i] = next[i]
      BY <2>1
    <3>2. ASSUME NEW q \in Waiting' PROVE Second(q)' = Second(q) /\ Third(q)' = Third(q)
      BY <2>3, <3>1, ZenonT(30) DEF Second, Third, Trio
    <3> QED
      BY <2>3, <3>2 DEF Trio
  <2>5. Heads' = Heads
    <3>1. {q \in Waiting' : busy'[q]} = {q \in Waiting : busy[q]}
      BY <1>3, <1>5, <2>2, SMTT(30)
    <3> QED
      BY <2>3, <3>1 DEF Heads
  <2>6. ChainInv'
    <3>1. \A q \in Waiting' :
            /\ Second(q)' \in Desc /\ Third(q)' \in Desc /\ next'[Third(q)'] = None
            /\ idx0'[q] # Second(q)' /\ idx0'[q] # Third(q)' /\ Second(q)' # Third(q)'
            /\ Trio(q)' \cap free' = {}
            /\ info'[idx0'[q]] = q /\ addr'[idx0'[q]] = q
      <4> SUFFICES ASSUME NEW q \in Waiting'
                   PROVE  /\ Second(q)' \in Desc /\ Third(q)' \in Desc
                          /\ next'[Third(q)'] = None
                          /\ idx0'[q] # Second(q)' /\ idx0'[q] # Third(q)'
                          /\ Second(q)' # Third(q)'
                          /\ Trio(q)' \cap free' = {}
                          /\ info'[idx0'[q]] = q /\ addr'[idx0'[q]] = q
        BY SMTT(30), Zenon, SMTT(29)
      <4>1. /\ Second(q) \in Desc /\ Third(q) \in Desc /\ next[Third(q)] = None
            /\ idx0[q] # Second(q) /\ idx0[q] # Third(q) /\ Second(q) # Third(q)
            /\ Trio(q) \cap free = {}
            /\ info[idx0[q]] = q /\ addr[idx0[q]] = q
        BY <2>3, SMTT(30), Zenon, SMTT(29) DEF ChainInv
      <4>2. next'[Third(q)'] = None
        BY <2>1, <2>3, <2>4, <4>1 DEF Trio
      <4>3. info'[idx0'[q]] = q /\ addr'[idx0'[q]] = q
        BY <2>1, <2>3, <4>1, ZenonT(30) DEF Trio, TypeInv
      <4>4. Trio(q)' \cap free' = {}
        BY <2>1, <2>3, <2>4, <4>1, SMTT(30), Zenon, SMTT(29)
      <4> QED
        BY <2>3, <2>4, <4>1, <4>2, <4>3, <4>4, ZenonT(30), SMTT(30), ZenonT(29)
    <3>2. \A q, r \in Waiting' : q # r => Trio(q)' \cap Trio(r)' = {}
      BY <2>3, <2>4, SMTT(30) DEF ChainInv
    <3>3. Cardinality(free') + 3 * Cardinality(Waiting') = NUM
      <4>1. Waiting \in SUBSET Proc /\ free \in SUBSET Desc
        BY DEF Waiting, TypeInv
      <4>2. Cardinality(Waiting') = Cardinality(Waiting) - 1 /\ Cardinality(Waiting) \in Nat
        BY <1>1, <2>2, <4>1, WaitingFinite, SMTT(30)
      <4>3. /\ idx0[p] # Second(p) /\ idx0[p] # Third(p) /\ Second(p) # Third(p)
        BY <1>1, SMTT(30) DEF ChainInv
      <4>4. Cardinality(free') = Cardinality(free) + 3 /\ Cardinality(free) \in Nat
        <5>1. IsFiniteSet(free) /\ Cardinality(free) \in Nat
          BY <4>1, DescDifference, ZenonT(30)
        <5> DEFINE F1 == free \cup {idx0[p]}
                   F2 == F1 \cup {Second(p)}
                   F3 == F2 \cup {Third(p)}
        <5>2. idx0[p] \notin free /\ Second(p) \notin F1 /\ Third(p) \notin F2 /\ free' = F3
          BY <1>2, <2>1, <4>3 DEF Trio
        <5>3. IsFiniteSet(F1) /\ Cardinality(F1) = Cardinality(free) + 1
          BY <5>1, <5>2, Zenon DEF FiniteFacts, FiniteAdd
        <5> HIDE DEF F1
        <5>4. IsFiniteSet(F2) /\ Cardinality(F2) = Cardinality(F1) + 1
          BY <5>2, <5>3, Zenon DEF FiniteFacts, FiniteAdd
        <5> HIDE DEF F2
        <5>5. Cardinality(F3) = Cardinality(F2) + 1
          BY <5>2, <5>4, ZenonT(30) DEF FiniteFacts, FiniteAdd
        <5> QED
          BY <5>1, <5>2, <5>3, <5>4, <5>5
      <4> QED
        BY <4>2, <4>4, VirtioAssumption DEF ChainInv, VirtioAssumption
    <3> QED
      BY <3>1, <3>2, <3>3 DEF ChainInv
  <2>7. PlaceInv'
    BY <1>3, <2>5, RingsSame DEF PlaceInv
  <2>8. DoneInv'
    <3>1. \A q \in Proc : busy'[q] => q \in Waiting'
      BY <1>3, <1>5, <2>2, SMTT(30) DEF DoneInv
    <3>2. \A d \in UsedSet' : info'[d] \in done'
      <4> SUFFICES ASSUME NEW d \in UsedSet PROVE info'[d] \in done
        BY <1>3, RingsSame
      <4>1. d \in Heads /\ info[d] \in done
        BY DEF PlaceInv, DoneInv
      <4>2. PICK q \in Waiting : busy[q] /\ idx0[q] = d
        BY <4>1, SMTT(30) DEF Heads
      <4>3. d # idx0[p] /\ d \in Desc
        BY <1>1, <1>5, <4>1, <4>2, HeadOwner, SMTT(30)
      <4> QED
        BY <2>1, <4>1, <4>3 DEF TypeInv
    <3>3. \A q \in Waiting' : ~busy'[q] => q \in done'
      BY <1>3, <2>3, ZenonT(30) DEF DoneInv
    <3> QED
      BY <3>1, <3>2, <3>3, Zenon DEF DoneInv
  <2>9. TypeInv'
    <3>1. /\ free' \in SUBSET Desc /\ next' \in [Desc -> Desc \cup {None}]
          /\ addr' \in [Desc -> Proc \cup {None}] /\ info' \in [Desc -> Proc \cup {None}]
      BY <1>2, <2>1, SMTT(30) DEF TypeInv
    <3>2. pc' \in [Proc -> {"idle", "desc_sleep", "desc_woken", "sleep", "woken"}]
      BY <2>1, SMTT(30) DEF TypeInv, WakeAllocators
    <3>3. idx0' \in [Proc -> Desc]
      <4>1. 0 \in Desc
        BY VirtioAssumption DEF VirtioAssumption, Desc
      <4> QED
        BY <2>1, <4>1 DEF TypeInv
    <3> QED
      BY <1>3, <3>1, <3>2, <3>3, SMTT(30) DEF TypeInv, SamePlaces
  <2> QED
    BY <2>6, <2>7, <2>8, <2>9
<1> QED
  BY <1>4, <1>5

\* The device takes the first entry of the avail ring that it has not looked at.
LEMMA TakeStep ==
  ASSUME IInv, device_take
  PROVE  IInv'
<1> DEFINE d == avail[seen % NUM]
<1>1. /\ seen # availidx /\ working' = working \cup {d} /\ seen' = Inc(seen)
      /\ UNCHANGED <<free, next, addr, info, status, avail, availidx, used, usedidx,
                     used_idx, busy, handler, line, pc, idx0, done>>
  BY DEF device_take
<1> USE DEF IInv
<1>2. /\ Inc(seen) \in Index /\ d \in Entries(avail, seen, availidx)
      /\ Entries(avail, Inc(seen), availidx) = Entries(avail, seen, availidx) \ {d}
      /\ Distinct(avail, Inc(seen), availidx)
  <2>1. /\ avail \in [Desc -> Desc] /\ seen \in Index /\ availidx \in Index
        /\ Distinct(avail, seen, availidx)
    BY DEF TypeInv, PlaceInv
  <2> QED
    BY <1>1, <2>1, RingPop, ZenonT(30)
<1> HIDE DEF d
<1>3. /\ d \in AvailSet /\ AvailSet' = AvailSet \ {d} /\ Distinct(avail, seen, availidx)'
      /\ seen' \in Index
  BY <1>1, <1>2 DEF AvailSet, Entries, Distinct
<1>4. /\ UsedSet' = UsedSet
      /\ Distinct(used, used_idx, usedidx)' = Distinct(used, used_idx, usedidx)
  BY <1>1 DEF UsedSet, Entries, Distinct
<1>5. Waiting' = Waiting /\ Heads' = Heads
  BY <1>1 DEF Waiting, Heads
<1>6. ChainInv'
  BY <1>1, <1>5, ChainSame
<1>7. PlaceInv'
  BY <1>1, <1>3, <1>4, <1>5, SMTT(30), Zenon, SMTT(29) DEF PlaceInv
<1>8. DoneInv'
  BY <1>1, <1>4, <1>5, SMTT(30), Zenon, SMTT(29) DEF DoneInv
<1>9. TypeInv'
  <2>1. working' \in SUBSET Desc
    BY <1>1, <1>3, HeadOwner DEF TypeInv, PlaceInv
  <2> QED
    BY <1>1, <1>3, <2>1, SMTT(30) DEF TypeInv
<1> QED
  BY <1>6, <1>7, <1>8, <1>9

\* The device carries a transfer out and puts it in the used ring.
LEMMA DeviceFinishStep ==
  ASSUME FiniteFacts, IInv, NEW d \in Desc, device_finish(d)
  PROVE  IInv'
<1>1. /\ d \in working /\ working' = working \ {d} /\ done' = done \cup {addr[d]}
      /\ status' = [status EXCEPT ![d] = TRUE]
      /\ used' = [used EXCEPT ![usedidx % NUM] = d]
      /\ usedidx' = Inc(usedidx) /\ line' = TRUE
      /\ UNCHANGED <<free, next, addr, info, avail, availidx, used_idx, busy, handler,
                     seen, pc, idx0>>
  BY DEF device_finish
<1> USE DEF IInv
<1>2. d \in Heads /\ d \notin UsedSet /\ d \notin AvailSet
  BY <1>1 DEF PlaceInv
<1>3. PICK p \in Waiting : busy[p] /\ idx0[p] = d /\ info[d] = p /\ addr[d] = p
  BY <1>2, HeadOwner
<1>4. /\ used' \in [Desc -> Desc] /\ usedidx' \in Index
      /\ UsedSet' = UsedSet \cup {d} /\ Distinct(used, used_idx, usedidx)'
  <2>1. /\ used \in [Desc -> Desc] /\ used_idx \in Index /\ usedidx \in Index
        /\ Distinct(used, used_idx, usedidx) /\ d \notin Entries(used, used_idx, usedidx)
    BY <1>2 DEF TypeInv, PlaceInv, UsedSet
  <2>2. Count(used_idx, usedidx) < NUM /\ Count(used_idx, usedidx) + 1 < U16
    <3>1. Count(used_idx, usedidx) + 1 < NUM /\ Count(used_idx, usedidx) < NUM
      BY <1>2, RoomForOne, SMTT(30)
    <3>2. Count(used_idx, usedidx) \in Int
      BY <2>1, CountRange, SMTT(30)
    <3> QED
      BY <3>1, <3>2, VirtioAssumption DEF VirtioAssumption
  <2>3. /\ used' \in [Desc -> Desc] /\ Inc(usedidx) \in Index
        /\ Entries(used', used_idx, Inc(usedidx)) = Entries(used, used_idx, usedidx) \cup {d}
        /\ Distinct(used', used_idx, Inc(usedidx))
    <3>1. used' = RPut(NUM, used, usedidx, d)
      BY <1>1 DEF RPut
    <3> QED
      BY <2>1, <2>2, <3>1, RingPush, SMTT(30)
  <2>4. used_idx' = used_idx /\ usedidx' = Inc(usedidx)
    BY <1>1
  <2> QED
    BY <2>3, <2>4, SMTT(30) DEF UsedSet, Entries, Distinct
<1>5. /\ AvailSet' = AvailSet
      /\ Distinct(avail, seen, availidx)' = Distinct(avail, seen, availidx)
  BY <1>1, SMTT(30) DEF AvailSet, Entries, Distinct
<1>6. Waiting' = Waiting /\ Heads' = Heads
  BY <1>1 DEF Waiting, Heads
<1>7. ChainInv'
  BY <1>1, <1>6, ChainSame
<1>8. PlaceInv'
  <2>1. /\ AvailSet' \cup working' \cup UsedSet' = Heads'
        /\ AvailSet' \cap working' = {} /\ AvailSet' \cap UsedSet' = {}
        /\ working' \cap UsedSet' = {}
    BY <1>1, <1>2, <1>4, <1>5, <1>6, SMTT(30), Zenon, SMTT(29) DEF PlaceInv
  <2> QED
    BY <1>4, <1>5, <2>1, SMTT(30), Zenon, SMTT(29) DEF PlaceInv
<1>9. DoneInv'
  BY <1>1, <1>3, <1>4, <1>6, ZenonT(30) DEF DoneInv
<1>10. TypeInv'
  <2>1. /\ status' \in [Desc -> BOOLEAN] /\ busy' \in [Proc -> BOOLEAN]
        /\ handler' \in BOOLEAN /\ line' \in BOOLEAN
    BY <1>1, Zenon DEF TypeInv
  <2> QED
    BY <1>1, <1>4, <2>1 DEF TypeInv
<1> QED
  BY <1>7, <1>8, <1>9, <1>10, SMTT(30)

\* The handler looks at one used entry: that transfer is over.
LEMMA EntryStep ==
  ASSUME IInv, intr_entry
  PROVE  IInv'
<1> DEFINE d == used[used_idx % NUM]
<1>1. /\ used_idx # usedidx
      /\ busy' = [busy EXCEPT ![info[d]] = FALSE]
      /\ pc' = [pc EXCEPT ![info[d]] = IF @ = "sleep" THEN "woken" ELSE @]
      /\ used_idx' = Inc(used_idx)
      /\ UNCHANGED <<free, next, addr, info, status, avail, availidx, used, usedidx,
                     handler, line, seen, working, idx0, done>>
  BY Zenon DEF intr_entry, UsedEntry
<1> USE DEF IInv
<1>2. /\ Inc(used_idx) \in Index /\ d \in Entries(used, used_idx, usedidx)
      /\ Entries(used, Inc(used_idx), usedidx) = Entries(used, used_idx, usedidx) \ {d}
      /\ Distinct(used, Inc(used_idx), usedidx)
  <2>1. /\ used \in [Desc -> Desc] /\ used_idx \in Index /\ usedidx \in Index
        /\ Distinct(used, used_idx, usedidx)
    BY DEF TypeInv, PlaceInv
  <2> QED
    BY <1>1, <2>1, RingPop, ZenonT(30)
<1> HIDE DEF d
<1>3. /\ d \in UsedSet /\ UsedSet' = UsedSet \ {d} /\ Distinct(used, used_idx, usedidx)'
      /\ used_idx' \in Index
  <2>1. used' = used /\ usedidx' = usedidx /\ used_idx' = Inc(used_idx)
    BY <1>1
  <2> QED
    BY <1>2, <2>1 DEF UsedSet, Entries, Distinct
<1>4. /\ AvailSet' = AvailSet
      /\ Distinct(avail, seen, availidx)' = Distinct(avail, seen, availidx)
  BY <1>1, SMTT(30) DEF AvailSet, Entries, Distinct
<1>5. d \in Heads /\ info[d] \in done
  BY <1>3, SMTT(30) DEF PlaceInv, DoneInv
<1>6. PICK p \in Waiting : busy[p] /\ idx0[p] = d /\ info[d] = p
  BY <1>5, HeadOwner, SMTT(30)
<1>7. p \in Proc /\ p \in done
  BY <1>5, <1>6, SMTT(30) DEF Waiting
<1>8. Waiting' = Waiting
  BY <1>1, <1>6, <1>7 DEF Waiting, TypeInv
<1>9. ~busy'[p] /\ \A q \in Proc : q # p => busy'[q] = busy[q]
  BY <1>1, <1>6, <1>7, ZenonT(30) DEF TypeInv
<1>10. Heads' = Heads \ {d}
  <2>1. \A q \in Waiting : q # p => idx0[q] # d
    BY <1>6, HeadOwner
  <2>2. {q \in Waiting' : busy'[q]} = {q \in Waiting : busy[q]} \ {p}
    BY <1>8, <1>9, ZenonT(30) DEF Waiting
  <2> QED
    BY <1>1, <1>6, <2>1, <2>2, SMTT(30), Zenon, SMTT(29) DEF Heads
<1>11. ChainInv'
  BY <1>1, <1>8, ChainSame, SMTT(30), Zenon, SMTT(29)
<1>12. PlaceInv'
  BY <1>1, <1>3, <1>4, <1>10, SMTT(30), Zenon, SMTT(29) DEF PlaceInv
<1>13. DoneInv'
  BY <1>1, <1>3, <1>7, <1>8, <1>9, ZenonT(30), SMTT(30), ZenonT(29) DEF DoneInv, Waiting
<1>14. TypeInv'
  <2>1. busy' \in [Proc -> BOOLEAN]
    BY <1>1, ZenonT(30) DEF TypeInv
  <2>2. pc' \in [Proc -> {"idle", "desc_sleep", "desc_woken", "sleep", "woken"}]
    BY <1>1, <1>6, <1>7 DEF TypeInv
  <2> QED
    BY <1>1, <1>3, <2>1, <2>2, SMTT(30), Zenon, SMTT(29) DEF TypeInv
<1> QED
  BY <1>11, <1>12, <1>13, <1>14, SMTT(30)

\* Every step preserves the invariant.
LEMMA NextInv == ASSUME FiniteFacts PROVE IInv /\ [Next]_vars => IInv'
<1> SUFFICES ASSUME IInv, [Next]_vars PROVE IInv'
  OBVIOUS
<1>1. CASE UNCHANGED vars
  <2>1. /\ SamePlaces /\ Waiting' = Waiting
        /\ UNCHANGED <<free, next, addr, info, busy, idx0, done>>
    BY <1>1, SMTT(30) DEF vars, SamePlaces, Waiting
  <2>2. TypeInv'
    BY <1>1 DEF vars, IInv, TypeInv
  <2> QED
    BY <2>1, <2>2, QuietStep
<1>2. ASSUME NEW p \in Proc, rw_no_desc(p) \/ rw_start(p) \/ rw_finish(p) PROVE IInv'
  BY <1>2, NoDescStep, StartStep, FinishStep
<1>3. CASE device_take
  BY <1>3, TakeStep
<1>4. ASSUME NEW d \in Desc, device_finish(d) PROVE IInv'
  BY <1>4, DeviceFinishStep, SMTT(30), Zenon, SMTT(29)
<1>5. CASE virtio_disk_intr
  BY <1>5, AckStep, EntryStep, SMTT(30), Zenon, SMTT(29) DEF virtio_disk_intr
<1> QED
  BY <1>1, <1>2, <1>3, <1>4, <1>5 DEF Next

\* The inductive invariant puts each request in one place.
LEMMA OnePlace == ASSUME FiniteFacts PROVE IInv => EachRequestInOnePlace
<1>1. ASSUME IInv PROVE OwnChains
  <2> USE <1>1 DEF IInv
  <2>1. \A p \in Waiting : Chain(idx0[p]) = Trio(p)
    <3> TAKE p \in Waiting
    <3>1. /\ idx0[p] \in Desc /\ Second(p) \in Desc /\ Third(p) \in Desc
          /\ next[idx0[p]] = Second(p) /\ next[Second(p)] = Third(p)
          /\ next[Third(p)] = None
      BY DEF TypeInv, ChainInv, Second, Third, Waiting
    <3> QED
      BY <3>1, ChainIs DEF Trio
  <2>2. \A p \in Waiting : Cardinality(Trio(p)) = 3
    <3> TAKE p \in Waiting
    <3> DEFINE a == idx0[p]
               b == Second(p)
               c == Third(p)
    <3>1. a # b /\ a # c /\ b # c
      BY DEF ChainInv
    <3> HIDE DEF a, b, c
    <3>2. IsFiniteSet({a}) /\ Cardinality({a}) = 1
      BY Zenon DEF FiniteFacts, FiniteSingleton
    <3>3. IsFiniteSet({a} \cup {b}) /\ Cardinality({a} \cup {b}) = Cardinality({a}) + 1
      <4>1. b \notin {a}
        BY <3>1
      <4> QED
        BY <3>2, <4>1, Zenon DEF FiniteFacts, FiniteAdd
    <3>4. Cardinality(({a} \cup {b}) \cup {c}) = Cardinality({a} \cup {b}) + 1
      <4>1. c \notin {a} \cup {b}
        BY <3>1
      <4> QED
        BY <3>3, <4>1, Zenon DEF FiniteFacts, FiniteAdd
    <3>5. Trio(p) = ({a} \cup {b}) \cup {c}
      BY SMTT(30) DEF Trio, a, b, c
    <3> QED
      BY <3>2, <3>3, <3>4, <3>5
  <2> QED
    BY <2>1, <2>2, SMTT(30) DEF ChainInv, OwnChains
<1>2. ASSUME IInv, NEW p \in Proc, busy[p]
      PROVE  Cardinality({i \in Span(seen, availidx) : avail[i] = idx0[p]})
               + Cardinality(working \cap {idx0[p]})
               + Cardinality({i \in Span(used_idx, usedidx) : used[i] = idx0[p]}) = 1
  <2> USE <1>2 DEF IInv
  <2> DEFINE d == idx0[p]
  <2>1. d \in Heads
    BY DEF DoneInv, Heads
  <2> HIDE DEF d
  <2>2. Count(seen, availidx) < NUM /\ Count(used_idx, usedidx) < NUM
    BY <2>1, RoomForOne, ZenonT(30)
  <2>3. /\ seen \in Index /\ availidx \in Index /\ Distinct(avail, seen, availidx)
        /\ used_idx \in Index /\ usedidx \in Index /\ Distinct(used, used_idx, usedidx)
    BY DEF TypeInv, PlaceInv
  <2>4. Cardinality(Slots(avail, seen, availidx, d)) = IF d \in AvailSet THEN 1 ELSE 0
    BY <2>2, <2>3, SlotsOf, Zenon DEF AvailSet
  <2>5. Cardinality(Slots(used, used_idx, usedidx, d)) = IF d \in UsedSet THEN 1 ELSE 0
    BY <2>2, <2>3, SlotsOf, Zenon DEF UsedSet
  <2>6. Cardinality(working \cap {d}) = IF d \in working THEN 1 ELSE 0
    <3>1. CASE d \in working
      <4>1. working \cap {d} = {d} /\ Cardinality({d}) = 1
        BY <3>1, Zenon DEF FiniteFacts, FiniteSingleton
      <4> QED
        BY <3>1, <4>1
    <3>2. CASE d \notin working
      <4>1. working \cap {d} = {} /\ Cardinality({}) = 0
        BY <3>2, Zenon DEF FiniteFacts, FiniteEmpty
      <4> QED
        BY <3>2, <4>1
    <3> QED
      BY <3>1, <3>2
  <2>7. /\ d \in AvailSet \/ d \in working \/ d \in UsedSet
        /\ ~(d \in AvailSet /\ d \in working) /\ ~(d \in AvailSet /\ d \in UsedSet)
        /\ ~(d \in working /\ d \in UsedSet)
    BY <2>1 DEF PlaceInv
  <2>8. Cardinality(Slots(avail, seen, availidx, d)) + Cardinality(working \cap {d})
          + Cardinality(Slots(used, used_idx, usedidx, d)) = 1
    BY <2>4, <2>5, <2>6, <2>7
  <2> QED
    BY <2>8, SMTT(30), Zenon, SMTT(29) DEF d, Slots
<1> QED
  BY <1>1, <1>2, SMTT(30), Zenon, SMTT(29) DEF EachRequestInOnePlace

-----------------------------------------------------------------------------
(* The facts about finite sets, from the library *)

Library == INSTANCE FiniteSetTheorems

LEMMA SameFinite == ASSUME NEW S PROVE IsFiniteSet(S) <=> Library!IsFiniteSet(S)
  BY DEF IsFiniteSet, Library!IsFiniteSet

LEMMA SameCount == ASSUME NEW S PROVE Cardinality(S) = Library!Cardinality(S)
  BY DEF Cardinality, Library!Cardinality

LEMMA FiniteFactsHold == FiniteFacts
<1>1. FiniteCount
  BY SameFinite, SameCount, Library!FS_CardinalityType DEF FiniteCount
<1>2. FiniteEmpty
  BY SameFinite, SameCount, Library!FS_EmptySet, ZenonT(30) DEF FiniteEmpty
<1>3. FiniteSingleton
  BY SameFinite, SameCount, Library!FS_Singleton, ZenonT(30) DEF FiniteSingleton
<1>4. FiniteAdd
  BY SameFinite, SameCount, Library!FS_AddElement, SMTT(30) DEF FiniteAdd
<1>5. FiniteRemove
  BY SameFinite, SameCount, Library!FS_RemoveElement, SMTT(30) DEF FiniteRemove
<1>6. FiniteSubset
  BY SameFinite, SameCount, Library!FS_Subset, SMTT(30) DEF FiniteSubset
<1>7. FiniteUnion
  BY SameFinite, SameCount, Library!FS_Union, SMTT(30) DEF FiniteUnion
<1>8. FiniteMinus
  BY SameFinite, SameCount, Library!FS_Difference, SMTT(30) DEF FiniteMinus
<1>9. FiniteInterval
  BY SameFinite, SameCount, Library!FS_Interval, SMTT(30) DEF FiniteInterval
<1>10. FiniteProduct
  BY SameFinite, SameCount, Library!FS_Product, SMTT(30) DEF FiniteProduct
<1>11. FiniteImage
  BY SameFinite, SameCount, Library!FS_Surjection, ZenonT(30) DEF FiniteImage, Library!Surjection
<1>12. FiniteInjection
  BY SameFinite, SameCount, Library!FS_Injection, ZenonT(30)
  DEF FiniteInjection, Library!Injection, Library!IsInjective
<1>13. NatSmallest
  <2> SUFFICES ASSUME NEW S \in SUBSET Nat, S # {}
               PROVE  \E x \in S : \A y \in S : x <= y
    BY DEF NatSmallest
  <2> DEFINE R == Library!OpToRel(<, Nat)
  <2>1. Library!IsWellFoundedOn(R, Nat)
    BY Library!NatLessThanWellFounded, ZenonT(30)
  <2>2. \A x, y \in Nat : x < y => <<x, y>> \in R
    BY DEF Library!OpToRel
  <2> HIDE DEF R
  <2>3. PICK x \in S : \A y \in S : ~(<<y, x>> \in R)
    BY <2>1, Library!WFMin, ZenonT(30)
  <2>4. \A y \in S : ~(y < x)
    BY <2>2, <2>3, ZenonT(30)
  <2>5. \A y \in S : x <= y
    BY <2>4
  <2> QED
    BY <2>5
<1>14. FiniteCount /\ FiniteEmpty /\ FiniteSingleton /\ FiniteAdd /\ FiniteRemove /\ FiniteSubset
  BY <1>1, <1>2, <1>3, <1>4, <1>5, <1>6, SMTT(30)
<1>15. FiniteUnion /\ FiniteMinus /\ FiniteInterval /\ FiniteProduct /\ FiniteImage
  BY <1>7, <1>8, <1>9, <1>10, <1>11, SMTT(30)
<1> QED
  BY <1>12, <1>13, <1>14, <1>15, SMTT(30) DEF FiniteFacts

-----------------------------------------------------------------------------
(* The theorems *)

\* The inductive invariant of the driver holds in every reachable state; in
\* particular free_desc never panics (virtio_disk.c:162-163).
THEOREM VirtioInvariant == Spec => []IInv
<1>1. Init => IInv
  BY FiniteFactsHold, InitInv, SMTT(30)
<1>2. IInv /\ [Next]_vars => IInv'
  BY FiniteFactsHold, NextInv
<1> QED
  BY <1>1, <1>2, PTL DEF Spec

\* b->disk is cleared, and so virtio_disk_rw returns (virtio_disk.c:272-279), only
\* after the device has carried out this very transfer, however it reorders the
\* requests and whatever the handler finds while the device goes on.
THEOREM VirtioReturnsAfterTransfer == Spec => []ReturnsAfterTransfer
<1>1. IInv => ReturnsAfterTransfer
  BY SMTT(30) DEF IInv, DoneInv, ReturnsAfterTransfer
<1> QED
  BY <1>1, VirtioInvariant, PTL

\* A request has three descriptors of its own (virtio_disk.c:143-201, 276-277), and
\* until it is finished it is in exactly one place: the avail ring, the device or
\* the used ring (lines 260-265, 300-311).  Neither ring overwrites an entry before
\* it is read, also when the 16-bit indices wrap.
THEOREM VirtioEachRequestInOnePlace == Spec => []EachRequestInOnePlace
<1>1. IInv => EachRequestInOnePlace
  BY FiniteFactsHold, OnePlace
<1> QED
  BY <1>1, VirtioInvariant, PTL
=============================================================================
