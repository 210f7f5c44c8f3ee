----------------------------- MODULE RingArith -----------------------------
(***************************************************************************)
(* Arithmetic of the indices of a ring: remainders of sums and differences *)
(* and of counters that wrap, as pipe.c, uart.c and virtio_disk.c use      *)
(* them, and what reading and adding an entry does to a ring.              *)
(***************************************************************************)
EXTENDS Integers, TLAPS

\* Quotient and remainder.
LEMMA DivMod ==
  ASSUME NEW a \in Nat, NEW m \in Nat \ {0}
  PROVE  a = m * (a \div m) + (a % m) /\ a \div m \in Nat /\ a % m \in 0 .. m - 1
OBVIOUS

LEMMA ModIs ==
  ASSUME NEW m \in Nat \ {0}, NEW q \in Nat, NEW r \in 0 .. m - 1
  PROVE  (m * q + r) % m = r
OBVIOUS

\* A sum may be reduced before or after adding.
LEMMA ModAdd ==
  ASSUME NEW a \in Nat, NEW b \in Nat, NEW m \in Nat \ {0}
  PROVE  ((a % m) + b) % m = (a + b) % m
<1> DEFINE q == a \div m  r == a % m
<1>1. a = m * q + r /\ q \in Nat /\ r \in 0 .. m - 1
  BY DivMod, Zenon
<1> HIDE DEF q, r
<1> DEFINE s == (r + b) \div m  t == (r + b) % m
<1>2. r + b = m * s + t /\ s \in Nat /\ t \in 0 .. m - 1
  <2>1. r + b \in Nat
    BY <1>1
  <2> QED
    BY <2>1, DivMod, Zenon
<1> HIDE DEF s, t
<1>3. a + b = m * (q + s) + t /\ q + s \in Nat
  BY <1>1, <1>2
<1>4. (m * (q + s) + t) % m = t
  BY <1>2, <1>3, ModIs, Zenon
<1> QED
  BY <1>3, <1>4 DEF t, r

\* A number may be reduced by a multiple of the modulus first.
LEMMA ModMod ==
  ASSUME NEW a \in Nat, NEW m \in Nat \ {0}, NEW n \in Nat \ {0}, n % m = 0
  PROVE  (a % n) % m = a % m
<1> DEFINE q == a \div n  r == a % n  k == n \div m
<1>1. a = n * q + r /\ q \in Nat /\ r \in 0 .. n - 1
  BY DivMod, Zenon
<1>2. n = m * k /\ k \in Nat
  BY DivMod
<1> HIDE DEF q, r, k
<1> DEFINE s == r \div m  t == r % m
<1>3. r = m * s + t /\ s \in Nat /\ t \in 0 .. m - 1
  <2>1. r \in Nat
    BY <1>1
  <2> QED
    BY <2>1, DivMod, Zenon
<1> HIDE DEF s, t
<1>4. a = m * (k * q + s) + t
  BY <1>1, <1>2, <1>3, SMTT(30)
<1>5. k * q + s \in Nat
  BY <1>1, <1>2, <1>3
<1>6. (m * (k * q + s) + t) % m = t
  BY <1>3, <1>5, ModIs, Zenon
<1> QED
  BY <1>4, <1>6 DEF t, r

\* The difference of two counters that have wrapped.
LEMMA ModDiff ==
  ASSUME NEW a \in Nat, NEW b \in Nat, NEW m \in Nat \ {0}, a <= b, b < a + m
  PROVE  ((b % m) + m - (a % m)) % m = b - a
<1> DEFINE q == a \div m  r == a % m  s == b \div m  t == b % m
<1>1. a = m * q + r /\ q \in Nat /\ r \in 0 .. m - 1
  BY DivMod, Zenon
<1>2. b = m * s + t /\ s \in Nat /\ t \in 0 .. m - 1
  BY DivMod, Zenon
<1> HIDE DEF q, r, s, t
<1>3. s = q \/ s = q + 1
  BY <1>1, <1>2, SMTT(30)
<1>4. CASE s = q
  <2>1. t + m - r = m * 1 + (b - a) /\ b - a \in 0 .. m - 1
    BY <1>1, <1>2, <1>4, SMTT(30)
  <2> QED
    BY <2>1, ModIs DEF r, t
<1>5. CASE s = q + 1
  <2>1. t + m - r = m * 0 + (b - a) /\ b - a \in 0 .. m - 1
    BY <1>1, <1>2, <1>5, SMTT(30)
  <2> QED
    BY <2>1, ModIs DEF r, t
<1> QED
  BY <1>3, <1>4, <1>5

\* Numbers that are close have different remainders.
LEMMA ModInjective ==
  ASSUME NEW a \in Nat, NEW b \in Nat, NEW m \in Nat \ {0}, a <= b, b < a + m,
         a % m = b % m
  PROVE  a = b
<1>1. ((b % m) + m - (a % m)) % m = b - a
  BY ModDiff, Zenon
<1>2. (b % m) + m - (a % m) = m * 1 + 0
  BY DivMod
<1>3. (m * 1 + 0) % m = 0
  BY ModIs
<1> QED
  BY <1>1, <1>2, <1>3

-----------------------------------------------------------------------------
(* A ring of num slots whose indices count modulo w *)

IsRing(num, w) == num \in Nat \ {0} /\ w \in Nat \ {0} /\ w % num = 0

SlotSet(num) == 0..(num - 1)
Indices(w) == 0..(w - 1)
RNext(w, i) == (i + 1) % w
RPut(num, ring, i, d) == [ring EXCEPT ![i % num] = d]

\* The entries from one index to another: how many, the one at distance k, all of
\* them, and that they differ.
RCount(w, from, to) == (to + w - from) % w
REntry(num, ring, from, k) == ring[(from + k) % num]
REntries(num, w, ring, from, to) ==
  {REntry(num, ring, from, k) : k \in 0..(RCount(w, from, to) - 1)}
RDistinct(num, w, ring, from, to) ==
  \A j, k \in 0..(RCount(w, from, to) - 1) :
    REntry(num, ring, from, j) = REntry(num, ring, from, k) => j = k

\* The slots from one index to another, and those of the entries between them.
RSlots(num, w, from, to) ==
  {(from + k) % num : k \in 0..((to + w - from) % w)} \ {to % num}
RFilled(num, w, from, to) == {(from + k) % num : k \in 0..(RCount(w, from, to) - 1)}

\* The indices are equal exactly when nothing is between them.
LEMMA CountBetween ==
  ASSUME NEW num, NEW w, IsRing(num, w),
         NEW from \in Indices(w), NEW to \in Indices(w)
  PROVE  /\ RCount(w, from, to) \in 0..(w - 1)
         /\ RCount(w, from, to) = 0 <=> from = to
         /\ (from + RCount(w, from, to)) % w = to
<1> USE DEF IsRing, Indices
<1>1. CASE from <= to
  <2>1. to + w - from = w * 1 + (to - from) /\ to - from \in 0..(w - 1)
    BY <1>1
  <2>2. RCount(w, from, to) = to - from
    BY <2>1, ModIs DEF RCount
  <2>3. (w * 0 + to) % w = to
    BY ModIs
  <2> QED
    BY <1>1, <2>2, <2>3
<1>2. CASE to < from
  <2>1. to + w - from = w * 0 + (to + w - from) /\ to + w - from \in 1..(w - 1)
    BY <1>2
  <2>2. RCount(w, from, to) = to + w - from
    BY <2>1, ModIs DEF RCount
  <2>3. (w * 1 + to) % w = to
    BY ModIs
  <2>4. from + RCount(w, from, to) = w * 1 + to
    BY <2>2
  <2> QED
    BY <1>2, <2>1, <2>2, <2>3, <2>4
<1> QED
  BY <1>1, <1>2

\* The other direction: an index that is n steps on.
LEMMA CountAfter ==
  ASSUME NEW num, NEW w, IsRing(num, w),
         NEW from \in Indices(w), NEW n \in 0..(w - 1)
  PROVE  RCount(w, from, (from + n) % w) = n /\ (from + n) % w \in Indices(w)
<1> USE DEF IsRing, Indices
<1>1. CASE from + n < w
  <2>1. (w * 0 + (from + n)) % w = from + n
    BY <1>1, ModIs
  <2>2. (w * 1 + n) % w = n
    BY ModIs
  <2>3. (from + n) + w - from = w * 1 + n
    OBVIOUS
  <2> QED
    BY <1>1, <2>1, <2>2, <2>3 DEF RCount
<1>2. CASE from + n >= w
  <2>1. (w * 1 + (from + n - w)) % w = from + n - w
        /\ from + n - w \in Indices(w)
    BY <1>2, ModIs
  <2>2. (w * 0 + n) % w = n
    BY ModIs
  <2>3. (from + n - w) + w - from = w * 0 + n /\ w * 1 + (from + n - w) = from + n
    OBVIOUS
  <2> QED
    BY <1>2, <2>1, <2>2, <2>3 DEF RCount
<1> QED
  BY <1>1, <1>2

\* A new entry at the far index joins the others and overwrites none of them.
LEMMA PushEntry ==
  ASSUME NEW num, NEW w, IsRing(num, w),
         NEW ring \in [SlotSet(num) -> SlotSet(num)],
         NEW from \in Indices(w), NEW to \in Indices(w), NEW d \in SlotSet(num),
         RCount(w, from, to) < num, RCount(w, from, to) + 1 < w,
         RDistinct(num, w, ring, from, to), d \notin REntries(num, w, ring, from, to)
  PROVE  /\ RPut(num, ring, to, d) \in [SlotSet(num) -> SlotSet(num)]
         /\ RNext(w, to) \in Indices(w)
         /\ REntries(num, w, RPut(num, ring, to, d), from, RNext(w, to))
              = REntries(num, w, ring, from, to) \cup {d}
         /\ RDistinct(num, w, RPut(num, ring, to, d), from, RNext(w, to))
<1> DEFINE n == RCount(w, from, to)
           ring2 == RPut(num, ring, to, d)
<1>0. num \in Nat \ {0} /\ w \in Nat \ {0} /\ w % num = 0
  BY DEF IsRing
<1>1. n \in 0..(w - 1) /\ (from + n) % w = to /\ from \in Nat /\ to \in Nat
      /\ n \in Nat /\ from + n \in Nat
  <2>1. n \in 0..(w - 1) /\ (from + n) % w = to
    BY CountBetween
  <2> QED
    BY <1>0, <2>1 DEF Indices
<1>2. n < num /\ n + 1 < w
  OBVIOUS
<1> HIDE DEF n, ring2
<1>3. RNext(w, to) = (from + (n + 1)) % w
  <2>1. RNext(w, to) = (((from + n) % w) + 1) % w
    BY <1>1 DEF RNext
  <2>2. (((from + n) % w) + 1) % w = ((from + n) + 1) % w
    <3>1. from + n \in Nat /\ 1 \in Nat
      BY <1>1
    <3> QED
      BY <1>0, <3>1, ModAdd
  <2>3. (from + n) + 1 = from + (n + 1)
    BY <1>1
  <2> QED
    BY <2>1, <2>2, <2>3
<1>4. RCount(w, from, RNext(w, to)) = n + 1 /\ RNext(w, to) \in Indices(w)
  <2>1. n + 1 \in 0..(w - 1)
    BY <1>0, <1>1, <1>2
  <2> QED
    BY <1>3, <2>1, CountAfter
<1>5. (from + n) % num = to % num /\ to % num \in SlotSet(num)
  <2>1. ((from + n) % w) % num = (from + n) % num
    BY <1>0, <1>1, ModMod, ZenonT(30)
  <2>2. to % num \in 0..(num - 1)
    BY <1>0, <1>1, DivMod
  <2> QED
    BY <1>1, <2>1, <2>2 DEF SlotSet
<1>6. \A k \in 0..(n - 1) : (from + k) % num \in SlotSet(num) /\ (from + k) % num # to % num
  <2> TAKE k \in 0..(n - 1)
  <2>1. k \in Nat /\ from + k \in Nat /\ from + n \in Nat /\ from + k < from + n
        /\ from + n < from + k + num
    BY <1>0, <1>1, <1>2
  <2>2. (from + k) % num # (from + n) % num
    <3>1. from + k <= from + n /\ from + k # from + n
      BY <2>1
    <3> QED
      BY <1>0, <2>1, <3>1, ModInjective
  <2>3. (from + k) % num \in 0..(num - 1)
    BY <1>0, <2>1, DivMod, Zenon
  <2> QED
    BY <1>5, <2>2, <2>3 DEF SlotSet
<1>7. /\ ring2 \in [SlotSet(num) -> SlotSet(num)] /\ ring2[to % num] = d
      /\ \A i \in SlotSet(num) : i # to % num => ring2[i] = ring[i]
  BY <1>5 DEF ring2, RPut
<1>8. /\ REntry(num, ring2, from, n) = d
      /\ \A k \in 0..(n - 1) : REntry(num, ring2, from, k) = REntry(num, ring, from, k)
  BY <1>5, <1>6, <1>7 DEF REntry
<1>9. /\ REntries(num, w, ring, from, to) = {REntry(num, ring, from, k) : k \in 0..(n - 1)}
      /\ REntries(num, w, ring2, from, RNext(w, to))
           = {REntry(num, ring2, from, k) : k \in 0..n}
      /\ \A j, k \in 0..(n - 1) :
           REntry(num, ring, from, j) = REntry(num, ring, from, k) => j = k
      /\ (\A j, k \in 0..n :
            REntry(num, ring2, from, j) = REntry(num, ring2, from, k) => j = k)
           => RDistinct(num, w, ring2, from, RNext(w, to))
  <2>1. (n + 1) - 1 = n
    BY <1>1
  <2> QED
    BY <1>4, <2>1, Zenon DEF REntries, RDistinct, n
<1>10. n \in 0..n /\ \A k : k \in 0..n <=> k \in 0..(n - 1) \/ k = n
  BY <1>1
<1>11. REntries(num, w, ring2, from, RNext(w, to))
         = REntries(num, w, ring, from, to) \cup {d}
  <2>1. ASSUME NEW x \in REntries(num, w, ring2, from, RNext(w, to))
        PROVE  x \in REntries(num, w, ring, from, to) \cup {d}
    <3>1. PICK k \in 0..n : x = REntry(num, ring2, from, k)
      BY <1>9, <2>1
    <3> QED
      BY <1>8, <1>9, <1>10, <3>1
  <2>2. ASSUME NEW x \in REntries(num, w, ring, from, to)
        PROVE  x \in REntries(num, w, ring2, from, RNext(w, to))
    <3>1. PICK k \in 0..(n - 1) : x = REntry(num, ring, from, k)
      BY <1>9, <2>2
    <3> QED
      BY <1>8, <1>9, <1>10, <3>1
  <2>3. d \in REntries(num, w, ring2, from, RNext(w, to))
    BY <1>8, <1>9, <1>10
  <2> QED
    BY <2>1, <2>2, <2>3
<1>12. \A j, k \in 0..n : REntry(num, ring2, from, j) = REntry(num, ring2, from, k) => j = k
  BY <1>8, <1>9, <1>10
<1> QED
  BY <1>4, <1>7, <1>9, <1>11, <1>12, Zenon DEF ring2

\* Reading at the near index takes that entry away.
LEMMA PopEntry ==
  ASSUME NEW num, NEW w, IsRing(num, w),
         NEW ring \in [SlotSet(num) -> SlotSet(num)],
         NEW from \in Indices(w), NEW to \in Indices(w), from # to,
         RDistinct(num, w, ring, from, to)
  PROVE  /\ RNext(w, from) \in Indices(w)
         /\ ring[from % num] \in REntries(num, w, ring, from, to)
         /\ REntries(num, w, ring, RNext(w, from), to)
              = REntries(num, w, ring, from, to) \ {ring[from % num]}
         /\ RDistinct(num, w, ring, RNext(w, from), to)
<1>0. num \in Nat \ {0} /\ w \in Nat \ {0} /\ w % num = 0
  BY DEF IsRing
<1> DEFINE n == RCount(w, from, to)
<1>1. n \in 1..(w - 1) /\ (from + n) % w = to /\ from \in Nat /\ to \in Nat
      /\ n \in Nat
  <2>1. n \in 0..(w - 1) /\ n # 0 /\ (from + n) % w = to
    BY CountBetween
  <2> QED
    BY <1>0, <2>1 DEF Indices
<1> HIDE DEF n
<1>2. RNext(w, from) \in Indices(w) /\ RNext(w, from) = (from + 1) % w /\ from + 1 \in Nat
      /\ RNext(w, from) \in Nat
  <2>1. from + 1 \in Nat
    BY <1>1
  <2>2. (from + 1) % w \in 0..(w - 1)
    BY <1>0, <2>1, DivMod, SMTT(30)
  <2> QED
    BY <1>0, <2>1, <2>2 DEF RNext, Indices
<1>3. (RNext(w, from) + (n - 1)) % w = to
  <2>1. n - 1 \in Nat /\ (from + 1) + (n - 1) = from + n
    BY <1>1
  <2>2. (((from + 1) % w) + (n - 1)) % w = ((from + 1) + (n - 1)) % w
    BY <1>0, <1>2, <2>1, ModAdd
  <2> QED
    BY <1>1, <1>2, <2>1, <2>2
<1>4. RCount(w, RNext(w, from), to) = n - 1
  <2>1. n - 1 \in 0..(w - 1)
    BY <1>0, <1>1
  <2> QED
    BY <1>2, <1>3, <2>1, CountAfter
<1>5. \A k \in Nat : (RNext(w, from) + k) % num = (from + (k + 1)) % num
  <2> TAKE k \in Nat
  <2>0. RNext(w, from) + k \in Nat /\ (from + 1) + k \in Nat
    BY <1>2
  <2>1. (((from + 1) % w) + k) % w = ((from + 1) + k) % w
    BY <1>0, <1>2, ModAdd
  <2>2. ((RNext(w, from) + k) % w) % num = (RNext(w, from) + k) % num
    BY <1>0, <2>0, ModMod
  <2>3. (((from + 1) + k) % w) % num = ((from + 1) + k) % num
    BY <1>0, <2>0, ModMod
  <2>4. (from + 1) + k = from + (k + 1)
    BY <1>1
  <2> QED
    BY <1>2, <2>1, <2>2, <2>3, <2>4
<1>6. \A k \in Nat : REntry(num, ring, RNext(w, from), k) = REntry(num, ring, from, k + 1)
  BY <1>5 DEF REntry
<1>7. ring[from % num] = REntry(num, ring, from, 0)
  BY <1>1 DEF REntry
<1>8. /\ REntries(num, w, ring, from, to) = {REntry(num, ring, from, k) : k \in 0..(n - 1)}
      /\ \A j, k \in 0..(n - 1) :
           REntry(num, ring, from, j) = REntry(num, ring, from, k) => j = k
  BY Zenon DEF REntries, RDistinct, n
<1>9. REntries(num, w, ring, RNext(w, from), to)
        = {REntry(num, ring, RNext(w, from), k) : k \in 0..(n - 2)}
  <2>1. (n - 1) - 1 = n - 2
    BY <1>1
  <2> QED
    BY <1>4, <2>1, Zenon DEF REntries
<1>10. /\ \A k \in 0..(n - 2) : k \in Nat /\ k + 1 \in 0..(n - 1) /\ k + 1 # 0
       /\ 0 \in 0..(n - 1)
  BY <1>1
<1>11. ASSUME NEW k \in 0..(n - 1), k # 0
       PROVE  REntry(num, ring, from, k) \in REntries(num, w, ring, RNext(w, from), to)
  <2>1. k - 1 \in 0..(n - 2) /\ k - 1 \in Nat /\ (k - 1) + 1 = k
    BY <1>1, <1>11
  <2>2. REntry(num, ring, RNext(w, from), k - 1) = REntry(num, ring, from, k)
    BY <1>6, <2>1
  <2> QED
    BY <1>9, <2>1, <2>2
<1>12. \A k \in 0..(n - 2) :
         REntry(num, ring, RNext(w, from), k) = REntry(num, ring, from, k + 1)
  BY <1>6, <1>10
<1>13. REntries(num, w, ring, RNext(w, from), to)
         = REntries(num, w, ring, from, to) \ {REntry(num, ring, from, 0)}
  <2>1. ASSUME NEW x \in REntries(num, w, ring, RNext(w, from), to)
        PROVE  x \in REntries(num, w, ring, from, to) \ {REntry(num, ring, from, 0)}
    BY <1>8, <1>9, <1>10, <1>12
  <2>2. ASSUME NEW x \in REntries(num, w, ring, from, to), x # REntry(num, ring, from, 0)
        PROVE  x \in REntries(num, w, ring, RNext(w, from), to)
    BY <1>8, <1>11, <2>2
  <2> QED
    BY <2>1, <2>2
<1>14. RDistinct(num, w, ring, RNext(w, from), to)
  <2> SUFFICES ASSUME NEW j \in 0..(n - 2), NEW k \in 0..(n - 2),
                      REntry(num, ring, RNext(w, from), j)
                        = REntry(num, ring, RNext(w, from), k)
               PROVE  j = k
    <3>1. (n - 1) - 1 = n - 2
      BY <1>1
    <3> QED
      BY <1>4, <3>1, Zenon DEF RDistinct
  <2>1. j + 1 = k + 1
    BY <1>8, <1>10, <1>12
  <2> QED
    BY <1>10, <2>1
<1> QED
  BY <1>2, <1>7, <1>8, <1>10, <1>13, <1>14

\* The slots of a ring between two indices are those of the entries between them.
LEMMA SlotsBetween ==
  ASSUME NEW num, NEW w, IsRing(num, w),
         NEW from \in Indices(w), NEW to \in Indices(w), RCount(w, from, to) < num
  PROVE  RSlots(num, w, from, to) = RFilled(num, w, from, to)
<1> DEFINE n == RCount(w, from, to)
<1>0. num \in Nat \ {0} /\ w \in Nat \ {0} /\ w % num = 0
  BY DEF IsRing
<1>1. n \in Nat /\ n < num /\ (from + n) % w = to /\ from \in Nat /\ to \in Nat
      /\ from + n \in Nat
  <2>1. n \in 0..(w - 1) /\ (from + n) % w = to
    BY CountBetween
  <2> QED
    BY <1>0, <2>1 DEF Indices
<1>2. RSlots(num, w, from, to) = {(from + k) % num : k \in 0..n} \ {to % num}
  BY DEF RSlots, RCount
<1> HIDE DEF n
<1>3. (from + n) % num = to % num
  <2>1. ((from + n) % w) % num = (from + n) % num
    BY <1>0, <1>1, ModMod, ZenonT(30)
  <2> QED
    BY <1>1, <2>1
<1>4. ASSUME NEW j \in 0..n, NEW k \in 0..n, j <= k, (from + j) % num = (from + k) % num
      PROVE  j = k
  <2>1. from + j \in Nat /\ from + k \in Nat /\ from + j <= from + k
        /\ from + k < from + j + num
    BY <1>0, <1>1, <1>4
  <2>2. from + j = from + k
    BY <1>0, <1>4, <2>1, ModInjective
  <2> QED
    BY <1>1, <2>2
<1>5. \A j, k \in 0..n : (from + j) % num = (from + k) % num => j = k
  <2> SUFFICES ASSUME NEW j \in 0..n, NEW k \in 0..n, (from + j) % num = (from + k) % num
               PROVE  j = k
    OBVIOUS
  <2>1. j <= k \/ k <= j
    OBVIOUS
  <2> QED
    BY <1>4, <2>1
<1>6. n \in 0..n /\ \A k \in 0..n : k = n \/ k \in 0..(n - 1)
  BY <1>1
<1>7. \A k \in 0..(n - 1) : k \in 0..n /\ k # n
  BY <1>1
<1>8. {(from + k) % num : k \in 0..n} \ {to % num} = {(from + k) % num : k \in 0..(n - 1)}
  BY <1>3, <1>5, <1>6, <1>7
<1> QED
  BY <1>2, <1>8, Zenon DEF n, RFilled
=============================================================================
