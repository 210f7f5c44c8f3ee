---------------------------- MODULE BcacheProofs ----------------------------
(***************************************************************************)
(* Proofs about module Bcache, for any processes, buffers, blocks and      *)
(* contents: reference counts are exact, and bread returns what was        *)
(* written last.                                                           *)
(***************************************************************************)
EXTENDS Bcache, Integers, TLAPS, Counting

InUse == {"lock", "asleep", "locked", "held", "release"}
Owns  == {"locked", "held"}

TypeInv ==
  /\ blockno \in [Buf -> Block \cup {None}]
  /\ valid \in [Buf -> BOOLEAN]
  /\ refcnt \in [Buf -> Int]
  /\ data \in [Buf -> Value]
  /\ owner \in [Buf -> Proc \cup {None}]
  /\ disk \in [Block -> Value]
  /\ pc \in [Proc -> InUse \cup {"idle", "panic"}]
  /\ want \in [Proc -> Block \cup {None}]
  /\ b \in [Proc -> Buf \cup {None}]
  /\ pinned \subseteq Block
  /\ latest \in [Block -> Value]

\* A process that has a buffer has the one for its block, and the sleep-lock has
\* one owner.
UseInv ==
  /\ \A p \in Proc : pc[p] \in InUse <=> b[p] # None
  /\ \A p \in Proc : b[p] # None => want[p] \in Block /\ blockno[b[p]] = want[p]
  /\ \A p \in Proc, c \in Buf : owner[c] = p <=> b[p] = c /\ pc[p] \in Owns

\* A block is cached once, and a pinned block is cached.
CacheInv ==
  /\ \A c, d \in Buf : blockno[c] = blockno[d] /\ blockno[c] # None => c = d
  /\ \A k \in pinned : \E c \in Buf : blockno[c] = k /\ valid[c]

\* The last contents of a block are in its valid buffer, and on disk unless the log
\* has pinned it.
DataInv ==
  /\ \A c \in Buf : valid[c] => blockno[c] \in Block /\ data[c] = latest[blockno[c]]
  /\ \A k \in Block \ pinned : disk[k] = latest[k]
  /\ \A p \in Proc : pc[p] = "held" => valid[b[p]]

\* A buffer without references is nobody's, and its block is not pinned.
FreeUnused == \A c \in Buf : refcnt[c] = 0 => blockno[c] \notin pinned /\ \A p \in Proc : b[p] # c

IInv == TypeInv /\ UseInv /\ CacheInv /\ DataInv /\ RefcntExact

-----------------------------------------------------------------------------
\* After binit no buffer is in use.
LEMMA IInvInit == ASSUME FiniteFacts PROVE Init => IInv
<1> SUFFICES ASSUME Init PROVE IInv
  OBVIOUS
<1> USE BcacheAssumption DEF Init
<1>1. TypeInv
  BY DEF TypeInv
<1>2. UseInv /\ CacheInv
  BY DEF UseInv, CacheInv, InUse
<1>3. DataInv
  BY DEF DataInv
<1>4. RefcntExact
  <2>1. \A c \in Buf : {p \in Proc : b[p] = c} = {}
    OBVIOUS
  <2>2. Cardinality({}) = 0
    BY DEF FiniteFacts, FiniteEmpty
  <2>3. \A c \in Buf : Cardinality({p \in Proc : b[p] = c}) = 0
    BY <2>1, <2>2, Zenon
  <2>4. pinned = {} /\ \A c \in Buf : refcnt[c] = 0
    OBVIOUS
  <2> HIDE DEF Init
  <2> QED
    BY <2>3, <2>4 DEF RefcntExact
<1> QED
  BY <1>1, <1>2, <1>3, <1>4 DEF IInv

\* A process has the buffer of its block from bget to brelse, and the sleep-lock from
\* acquiresleep to releasesleep.
LEMMA UseNext ==
  TypeInv /\ UseInv /\ FreeUnused /\ [Next]_vars => UseInv'
<1> SUFFICES ASSUME TypeInv, UseInv, FreeUnused, [Next]_vars PROVE UseInv'
  OBVIOUS
<1>0. None \notin Proc /\ None \notin Buf /\ None \notin Block
  BY BcacheAssumption
<1> USE DEF TypeInv, UseInv, FreeUnused, InUse, Owns
<1>1. ASSUME NEW p \in Proc, NEW k \in Block, NEW c \in Buf, bget_hit(p, k, c) PROVE UseInv'
  BY <1>0, <1>1 DEF bget_hit, Goto, Calls
<1>2. ASSUME NEW p \in Proc, NEW k \in Block, NEW c \in Buf, bget_recycle(p, k, c) PROVE UseInv'
  BY <1>0, <1>2 DEF bget_recycle, Goto, Invalidate, LeastRecent, NotCached, Calls
<1>3. ASSUME NEW p \in Proc, NEW k \in Block, bget_panic(p, k) PROVE UseInv'
  BY <1>0, <1>3 DEF bget_panic, Goto, Calls
<1>4. ASSUME NEW p \in Proc, acquiresleep(p) PROVE UseInv'
  BY <1>0, <1>4 DEF acquiresleep, Goto, Unlocked
<1>5. ASSUME NEW p \in Proc, bread(p) PROVE UseInv'
  BY <1>0, <1>5 DEF bread, Goto
<1>6. ASSUME NEW p \in Proc, NEW v \in Value, bwrite(p, v) PROVE UseInv'
  BY <1>0, <1>6 DEF bwrite, Works
<1>7. ASSUME NEW p \in Proc, NEW v \in Value, bpin(p, v) PROVE UseInv'
  BY <1>0, <1>7 DEF bpin, Works
<1>8. ASSUME NEW p \in Proc, bunpin(p) PROVE UseInv'
  BY <1>0, <1>8 DEF bunpin, Unref, Works
<1>9. ASSUME NEW p \in Proc, releasesleep(p) PROVE UseInv'
  BY <1>0, <1>9 DEF releasesleep, Woken, Works
<1>10. ASSUME NEW p \in Proc, brelse(p) PROVE UseInv'
  BY <1>0, <1>10 DEF brelse, Goto, Unref
<1>11. CASE UNCHANGED vars
  BY <1>11 DEF vars
<1> HIDE DEF TypeInv, UseInv, FreeUnused, InUse, Owns
<1> QED
  BY <1>1, <1>2, <1>3, <1>4, <1>5, <1>6, <1>7, <1>8, <1>9, <1>10, <1>11 DEF Next

\* bget takes a new buffer only for a block that is not cached, and only one that is
\* neither used nor pinned.
LEMMA CacheNext ==
  TypeInv /\ UseInv /\ FreeUnused /\ CacheInv /\ DataInv /\ [Next]_vars => CacheInv'
<1> SUFFICES ASSUME TypeInv, UseInv, FreeUnused, CacheInv, DataInv, [Next]_vars PROVE CacheInv'
  OBVIOUS
<1>0. None \notin Proc /\ None \notin Buf /\ None \notin Block
  BY BcacheAssumption
<1> USE DEF TypeInv, UseInv, FreeUnused, CacheInv, DataInv, InUse
<1>1. ASSUME NEW p \in Proc, NEW k \in Block, NEW c \in Buf, bget_hit(p, k, c) PROVE CacheInv'
  BY <1>0, <1>1 DEF bget_hit, Goto, Calls
<1>2. ASSUME NEW p \in Proc, NEW k \in Block, NEW c \in Buf, bget_recycle(p, k, c) PROVE CacheInv'
  BY <1>0, <1>2 DEF bget_recycle, Goto, Invalidate, LeastRecent, NotCached, Calls
<1>3. ASSUME NEW p \in Proc, NEW k \in Block, bget_panic(p, k) PROVE CacheInv'
  BY <1>0, <1>3 DEF bget_panic, Goto, Calls
<1>4. ASSUME NEW p \in Proc, acquiresleep(p) PROVE CacheInv'
  BY <1>0, <1>4 DEF acquiresleep, Goto, Unlocked
<1>5. ASSUME NEW p \in Proc, bread(p) PROVE CacheInv'
  BY <1>0, <1>5 DEF bread, Goto
<1>6. ASSUME NEW p \in Proc, NEW v \in Value, bwrite(p, v) PROVE CacheInv'
  BY <1>0, <1>6 DEF bwrite, Works
<1>7. ASSUME NEW p \in Proc, NEW v \in Value, bpin(p, v) PROVE CacheInv'
  BY <1>0, <1>7 DEF bpin, Works
<1>8. ASSUME NEW p \in Proc, bunpin(p) PROVE CacheInv'
  BY <1>0, <1>8 DEF bunpin, Unref, Works
<1>9. ASSUME NEW p \in Proc, releasesleep(p) PROVE CacheInv'
  BY <1>0, <1>9 DEF releasesleep, Woken, Works
<1>10. ASSUME NEW p \in Proc, brelse(p) PROVE CacheInv'
  BY <1>0, <1>10 DEF brelse, Goto, Unref
<1>11. CASE UNCHANGED vars
  BY <1>11 DEF vars
<1> HIDE DEF TypeInv, UseInv, FreeUnused, CacheInv, DataInv, InUse
<1> QED
  BY <1>1, <1>2, <1>3, <1>4, <1>5, <1>6, <1>7, <1>8, <1>9, <1>10, <1>11 DEF Next

\* Contents change in the one cached copy; a buffer that is recycled has its contents on
\* disk.
LEMMA DataNext ==
  TypeInv /\ UseInv /\ CacheInv /\ FreeUnused /\ DataInv /\ [Next]_vars => DataInv'
<1> SUFFICES ASSUME TypeInv, UseInv, CacheInv, FreeUnused, DataInv, [Next]_vars PROVE DataInv'
  OBVIOUS
<1>0. None \notin Proc /\ None \notin Buf /\ None \notin Block
  BY BcacheAssumption
<1> USE DEF TypeInv, UseInv, CacheInv, DataInv, FreeUnused, InUse, Owns
<1>1. ASSUME NEW p \in Proc, NEW k \in Block, NEW c \in Buf, bget_hit(p, k, c) PROVE DataInv'
  BY <1>0, <1>1 DEF bget_hit, Goto, Calls
<1>2. ASSUME NEW p \in Proc, NEW k \in Block, NEW c \in Buf, bget_recycle(p, k, c) PROVE DataInv'
  BY <1>0, <1>2 DEF bget_recycle, Goto, Invalidate, LeastRecent, NotCached, Calls
<1>3. ASSUME NEW p \in Proc, NEW k \in Block, bget_panic(p, k) PROVE DataInv'
  BY <1>0, <1>3 DEF bget_panic, Goto, Calls
<1>4. ASSUME NEW p \in Proc, acquiresleep(p) PROVE DataInv'
  BY <1>0, <1>4 DEF acquiresleep, Goto, Unlocked
<1>5. ASSUME NEW p \in Proc, bread(p) PROVE DataInv'
  BY <1>0, <1>5 DEF bread, Goto
<1>6. ASSUME NEW p \in Proc, NEW v \in Value, bwrite(p, v) PROVE DataInv'
  BY <1>0, <1>6 DEF bwrite, Works
<1>7. ASSUME NEW p \in Proc, NEW v \in Value, bpin(p, v) PROVE DataInv'
  BY <1>0, <1>7 DEF bpin, Works
<1>8. ASSUME NEW p \in Proc, bunpin(p) PROVE DataInv'
  BY <1>0, <1>8 DEF bunpin, Unref, Works
<1>9. ASSUME NEW p \in Proc, releasesleep(p) PROVE DataInv'
  BY <1>0, <1>9 DEF releasesleep, Woken, Works
<1>10. ASSUME NEW p \in Proc, brelse(p) PROVE DataInv'
  BY <1>0, <1>10 DEF brelse, Goto, Unref
<1>11. CASE UNCHANGED vars
  BY <1>11 DEF vars
<1> HIDE DEF TypeInv, UseInv, CacheInv, DataInv, FreeUnused, InUse, Owns
<1> QED
  BY <1>1, <1>2, <1>3, <1>4, <1>5, <1>6, <1>7, <1>8, <1>9, <1>10, <1>11 DEF Next

\* Every action preserves the types.
LEMMA TypeNext ==
  TypeInv /\ UseInv /\ [Next]_vars => TypeInv'
<1> SUFFICES ASSUME TypeInv, UseInv, [Next]_vars PROVE TypeInv'
  OBVIOUS
<1>0. None \notin Proc /\ None \notin Buf /\ None \notin Block
  BY BcacheAssumption
<1> USE DEF TypeInv, UseInv, InUse
<1>1. ASSUME NEW p \in Proc, NEW k \in Block, NEW c \in Buf, bget_hit(p, k, c) PROVE TypeInv'
  BY <1>0, <1>1 DEF bget_hit, Goto, Calls
<1>2. ASSUME NEW p \in Proc, NEW k \in Block, NEW c \in Buf, bget_recycle(p, k, c) PROVE TypeInv'
  BY <1>0, <1>2 DEF bget_recycle, Goto, Invalidate, LeastRecent, NotCached, Calls
<1>3. ASSUME NEW p \in Proc, NEW k \in Block, bget_panic(p, k) PROVE TypeInv'
  BY <1>0, <1>3 DEF bget_panic, Goto, Calls
<1>4. ASSUME NEW p \in Proc, acquiresleep(p) PROVE TypeInv'
  BY <1>0, <1>4 DEF acquiresleep, Goto, Unlocked
<1>5. ASSUME NEW p \in Proc, bread(p) PROVE TypeInv'
  BY <1>0, <1>5 DEF bread, Goto
<1>6. ASSUME NEW p \in Proc, NEW v \in Value, bwrite(p, v) PROVE TypeInv'
  BY <1>0, <1>6 DEF bwrite, Works
<1>7. ASSUME NEW p \in Proc, NEW v \in Value, bpin(p, v) PROVE TypeInv'
  BY <1>0, <1>7 DEF bpin, Works
<1>8. ASSUME NEW p \in Proc, bunpin(p) PROVE TypeInv'
  BY <1>0, <1>8 DEF bunpin, Unref, Works
<1>9. ASSUME NEW p \in Proc, releasesleep(p) PROVE TypeInv'
  BY <1>0, <1>9 DEF releasesleep, Woken, Works
<1>10. ASSUME NEW p \in Proc, brelse(p) PROVE TypeInv'
  BY <1>0, <1>10 DEF brelse, Goto, Unref
<1>11. CASE UNCHANGED vars
  BY <1>11 DEF vars
<1> HIDE DEF TypeInv, UseInv, InUse
<1> QED
  BY <1>1, <1>2, <1>3, <1>4, <1>5, <1>6, <1>7, <1>8, <1>9, <1>10, <1>11 DEF Next

\* The processes that have buffer c, when f is the buffer of each.
Users(c, f) == {p \in Proc : f[p] = c}

\* One more and one fewer user.
LEMMA UsersChange ==
  ASSUME FiniteFacts, NEW f \in [Proc -> Buf \cup {None}], NEW p \in Proc, NEW c \in Buf
  PROVE  /\ Cardinality(Users(c, f)) \in Nat
         /\ Cardinality(Users(c, f)) = 0 => Users(c, f) = {}
         /\ f[p] # c => Cardinality(Users(c, [f EXCEPT ![p] = c])) = Cardinality(Users(c, f)) + 1
         /\ f[p] = c => Cardinality(Users(c, [f EXCEPT ![p] = None])) = Cardinality(Users(c, f)) - 1
<1>0. None # c
  BY BcacheAssumption
<1>1. IsFiniteSet(Users(c, f))
  BY BcacheAssumption DEF FiniteFacts, FiniteSubset, Users
<1>2. ASSUME f[p] # c
      PROVE  Cardinality(Users(c, [f EXCEPT ![p] = c])) = Cardinality(Users(c, f)) + 1
  <2>1. Users(c, [f EXCEPT ![p] = c]) = Users(c, f) \cup {p} /\ p \notin Users(c, f)
    BY <1>2 DEF Users
  <2> QED
    BY <1>1, <2>1, Zenon DEF FiniteFacts, FiniteAdd
<1>3. ASSUME f[p] = c
      PROVE  Cardinality(Users(c, [f EXCEPT ![p] = None])) = Cardinality(Users(c, f)) - 1
  <2>1. Users(c, [f EXCEPT ![p] = None]) = Users(c, f) \ {p} /\ p \in Users(c, f)
    BY <1>0, <1>3 DEF Users
  <2> QED
    BY <1>1, <2>1, ZenonT(30) DEF FiniteFacts, FiniteRemove
<1> QED
  BY <1>1, <1>2, <1>3 DEF FiniteFacts, FiniteCount, FiniteEmpty

\* "no one is waiting for it": a buffer with refcnt 0 may be recycled.
LEMMA Recyclable == ASSUME FiniteFacts PROVE TypeInv /\ RefcntExact => FreeUnused
<1> SUFFICES ASSUME TypeInv, RefcntExact, NEW c \in Buf, refcnt[c] = 0
             PROVE  blockno[c] \notin pinned /\ \A p \in Proc : b[p] # c
  BY DEF FreeUnused
<1>1. refcnt[c] = Cardinality(Users(c, b)) + (IF blockno[c] \in pinned THEN 1 ELSE 0)
  BY DEF RefcntExact, Users
<1>2. ASSUME NEW p \in Proc PROVE b[p] # c
  <2>1. Cardinality(Users(c, b)) \in Nat /\ (Cardinality(Users(c, b)) = 0 => Users(c, b) = {})
    BY UsersChange, Zenon DEF TypeInv
  <2>2. Users(c, b) = {}
    BY <1>1, <2>1
  <2> QED
    BY <2>2 DEF Users
<1>3. blockno[c] \notin pinned
  <2>1. Cardinality(Users(c, b)) \in Nat
    <3>1. IsFiniteSet(Users(c, b))
      BY BcacheAssumption DEF FiniteFacts, FiniteSubset, Users
    <3> QED
      BY <3>1 DEF FiniteFacts, FiniteCount
  <2> QED
    BY <1>1, <2>1
<1> QED
  BY <1>2, <1>3

\* RefcntExact for one buffer.
Pin(c) == IF blockno[c] \in pinned THEN 1 ELSE 0
Exact(c) == refcnt[c] = Cardinality(Users(c, b)) + Pin(c)

\* Every change of refcnt goes with a change of the users or of the pins.
LEMMA RefcntNext ==
  ASSUME FiniteFacts
  PROVE  TypeInv /\ UseInv /\ CacheInv /\ RefcntExact /\ [Next]_vars => RefcntExact'
<1> SUFFICES ASSUME TypeInv, UseInv, CacheInv, RefcntExact, [Next]_vars, NEW d \in Buf
             PROVE  Exact(d)'
  BY SMTT(30) DEF RefcntExact, Exact, Users, Pin
<1>0. Exact(d) /\ None \notin Proc /\ None \notin Buf /\ None \notin Block
  BY BcacheAssumption DEF RefcntExact, Exact, Users, Pin
<1>1. CASE UNCHANGED <<refcnt, b, blockno, pinned>>
  BY <1>0, <1>1 DEF Exact, Users, Pin
<1>2. ASSUME NEW p \in Proc, NEW k \in Block, NEW c \in Buf, bget_hit(p, k, c) PROVE Exact(d)'
  <2>1. b[p] = None /\ b' = [b EXCEPT ![p] = c] /\ Pin(d)' = Pin(d)
    BY <1>2 DEF bget_hit, TypeInv, UseInv, InUse, Pin, Calls
  <2>2. CASE d = c
    <3>1. Cardinality(Users(c, b')) = Cardinality(Users(c, b)) + 1
          /\ Cardinality(Users(c, b)) \in Nat
      BY <1>0, <2>1, UsersChange, ZenonT(30) DEF TypeInv
    <3>2. refcnt'[c] = refcnt[c] + 1
      BY <1>2 DEF bget_hit, TypeInv, Calls
    <3> QED
      BY <1>0, <2>1, <2>2, <3>1, <3>2 DEF Exact, Pin
  <2>3. CASE d # c
    <3>1. Users(d, b') = Users(d, b)
      BY <1>0, <2>1, <2>3 DEF Users, TypeInv
    <3>2. refcnt'[d] = refcnt[d]
      BY <1>2, <2>3 DEF bget_hit, TypeInv, Calls
    <3> QED
      BY <1>0, <2>1, <3>1, <3>2 DEF Exact
  <2> QED
    BY <2>2, <2>3
<1>3. ASSUME NEW p \in Proc, NEW k \in Block, NEW c \in Buf, bget_recycle(p, k, c) PROVE Exact(d)'
  <2>1. b[p] = None /\ b' = [b EXCEPT ![p] = c] /\ refcnt[c] = 0 /\ k \notin pinned
    BY <1>3 DEF bget_recycle, LeastRecent, NotCached, TypeInv, UseInv, CacheInv, InUse, Calls
  <2>2. CASE d = c
    <3>1. Users(c, b) = {}
      BY <2>1, Recyclable DEF FreeUnused, Users
    <3>2. Users(c, b') = {p}
      BY <2>1, <3>1 DEF Users, TypeInv
    <3>3. refcnt'[c] = 1 /\ Pin(c)' = 0
      BY <1>3, <2>1 DEF bget_recycle, TypeInv, Pin, Calls
    <3>4. Cardinality({p}) = 1
      BY SMTT(30) DEF FiniteFacts, FiniteSingleton
    <3> QED
      BY <2>2, <3>2, <3>3, <3>4 DEF Exact
  <2>3. CASE d # c
    <3>1. Users(d, b') = Users(d, b)
      BY <1>0, <2>1, <2>3 DEF Users, TypeInv
    <3>2. refcnt'[d] = refcnt[d] /\ Pin(d)' = Pin(d)
      BY <1>3, <2>3 DEF bget_recycle, TypeInv, Pin, Calls
    <3> QED
      BY <1>0, <3>1, <3>2 DEF Exact
  <2> QED
    BY <2>2, <2>3
<1>4. ASSUME NEW p \in Proc, NEW v \in Value, bpin(p, v) PROVE Exact(d)'
  <2>1. Users(d, b)' = Users(d, b) /\ blockno' = blockno /\ pinned' = pinned \cup {want[p]}
    BY <1>4 DEF bpin, Users, Works
  <2>2. b[p] \in Buf /\ want[p] \in Block /\ blockno[b[p]] = want[p]
    BY <1>4 DEF bpin, TypeInv, UseInv, InUse, Works
  <2>3. CASE d = b[p] /\ want[p] \notin pinned
    <3>1. refcnt'[d] = refcnt[d] + 1
      BY <1>4, <2>3 DEF bpin, TypeInv, Works
    <3>2. Pin(d) = 0 /\ Pin(d)' = 1
      BY <2>1, <2>2, <2>3 DEF Pin
    <3>3. Cardinality(Users(d, b)) \in Nat
      BY UsersChange, Zenon DEF TypeInv
    <3> QED
      BY <1>0, <2>1, <3>1, <3>2, <3>3 DEF Exact
  <2>4. CASE ~(d = b[p] /\ want[p] \notin pinned)
    <3>1. refcnt'[d] = refcnt[d]
      BY <1>4, <2>4 DEF bpin, TypeInv, Works
    <3>2. Pin(d)' = Pin(d)
      BY <1>0, <2>1, <2>2, <2>4 DEF Pin, CacheInv, TypeInv
    <3> QED
      BY <1>0, <2>1, <3>1, <3>2 DEF Exact
  <2> QED
    BY <2>3, <2>4, SMTT(30)
<1>5. ASSUME NEW p \in Proc, bunpin(p) PROVE Exact(d)'
  <2>1. Users(d, b)' = Users(d, b) /\ blockno' = blockno /\ pinned' = pinned \ {want[p]}
    BY <1>5 DEF bunpin, Users, Works
  <2>2. b[p] \in Buf /\ want[p] \in pinned /\ blockno[b[p]] = want[p]
    BY <1>5 DEF bunpin, TypeInv, UseInv, InUse, Works
  <2>3. CASE d = b[p]
    <3>1. refcnt'[d] = refcnt[d] - 1
      BY <1>5, <2>3 DEF bunpin, Unref, TypeInv, Works
    <3>2. Pin(d) = 1 /\ Pin(d)' = 0
      BY <2>1, <2>2, <2>3 DEF Pin
    <3>3. Cardinality(Users(d, b)) \in Nat
      BY UsersChange, Zenon DEF TypeInv
    <3> QED
      BY <1>0, <2>1, <3>1, <3>2, <3>3 DEF Exact
  <2>4. CASE d # b[p]
    <3>1. refcnt'[d] = refcnt[d]
      BY <1>5, <2>4 DEF bunpin, Unref, TypeInv, Works
    <3>2. Pin(d)' = Pin(d)
      BY <1>0, <2>1, <2>2, <2>4 DEF Pin, CacheInv, TypeInv
    <3> QED
      BY <1>0, <2>1, <3>1, <3>2 DEF Exact
  <2> QED
    BY <2>3, <2>4
<1>6. ASSUME NEW p \in Proc, brelse(p) PROVE Exact(d)'
  <2>1. b[p] \in Buf /\ b' = [b EXCEPT ![p] = None] /\ Pin(d)' = Pin(d)
    BY <1>6 DEF brelse, TypeInv, UseInv, InUse, Pin
  <2>2. CASE d = b[p]
    <3>1. Cardinality(Users(d, b')) = Cardinality(Users(d, b)) - 1 /\ Cardinality(Users(d, b)) \in Nat
      BY <2>1, <2>2, UsersChange, Zenon DEF TypeInv
    <3>2. refcnt'[d] = refcnt[d] - 1
      BY <1>6, <2>2 DEF brelse, Unref, TypeInv
    <3> QED
      BY <1>0, <2>1, <3>1, <3>2 DEF Exact, Pin
  <2>3. CASE d # b[p]
    <3>1. Users(d, b') = Users(d, b)
      BY <1>0, <2>1, <2>3 DEF Users, TypeInv
    <3>2. refcnt'[d] = refcnt[d]
      BY <1>6, <2>3 DEF brelse, Unref, TypeInv
    <3> QED
      BY <1>0, <2>1, <3>1, <3>2 DEF Exact
  <2> QED
    BY <2>2, <2>3
<1>7. ASSUME NEW p \in Proc,
             \/ \E k \in Block : bget_panic(p, k)
             \/ acquiresleep(p) \/ bread(p) \/ releasesleep(p)
             \/ \E v \in Value : bwrite(p, v)
      PROVE  Exact(d)'
  BY <1>1, <1>7 DEF bget_panic, acquiresleep, bread, bwrite, releasesleep, Calls, Works
<1>8. CASE UNCHANGED vars
  BY <1>1, <1>8 DEF vars
<1> QED
  BY <1>2, <1>3, <1>4, <1>5, <1>6, <1>7, <1>8 DEF Next

\* Together they are preserved by every step.
LEMMA IInvNext == ASSUME FiniteFacts PROVE IInv /\ [Next]_vars => IInv'
BY TypeNext, UseNext, CacheNext, DataNext, RefcntNext, Recyclable DEF IInv

-----------------------------------------------------------------------------
(* The facts about finite sets, from the library *)

Library == INSTANCE FiniteSetTheorems

LEMMA SameFinite == ASSUME NEW S PROVE IsFiniteSet(S) <=> Library!IsFiniteSet(S)
  BY DEF IsFiniteSet, Library!IsFiniteSet

LEMMA SameCount == ASSUME NEW S PROVE Cardinality(S) = Library!Cardinality(S)
  BY DEF Cardinality, Library!Cardinality

LEMMA FiniteFactsHold == FiniteFacts
<1>1. FiniteCount
  BY SameFinite, SameCount, Library!FS_CardinalityType DEF FiniteCount
<1>2. FiniteEmpty
  BY SameFinite, SameCount, Library!FS_EmptySet, Zenon DEF FiniteEmpty
<1>3. FiniteSingleton
  BY SameFinite, SameCount, Library!FS_Singleton, Zenon DEF FiniteSingleton
<1>4. FiniteAdd
  BY SameFinite, SameCount, Library!FS_AddElement DEF FiniteAdd
<1>5. FiniteRemove
  BY SameFinite, SameCount, Library!FS_RemoveElement DEF FiniteRemove
<1>6. FiniteSubset
  BY SameFinite, SameCount, Library!FS_Subset DEF FiniteSubset
<1>7. FiniteUnion
  BY SameFinite, SameCount, Library!FS_Union DEF FiniteUnion
<1>8. FiniteMinus
  BY SameFinite, SameCount, Library!FS_Difference DEF FiniteMinus
<1>9. FiniteInterval
  BY SameFinite, SameCount, Library!FS_Interval DEF FiniteInterval
<1>10. FiniteProduct
  BY SameFinite, SameCount, Library!FS_Product DEF FiniteProduct
<1>11. FiniteImage
  BY SameFinite, SameCount, Library!FS_Surjection, Zenon DEF FiniteImage, Library!Surjection
<1>12. FiniteInjection
  BY SameFinite, SameCount, Library!FS_Injection, ZenonT(30)
  DEF FiniteInjection, Library!Injection, Library!IsInjective
<1>13. NatSmallest
  <2> SUFFICES ASSUME NEW S \in SUBSET Nat, S # {}
               PROVE  \E x \in S : \A y \in S : x <= y
    BY DEF NatSmallest
  <2> DEFINE R == Library!OpToRel(<, Nat)
  <2>1. Library!IsWellFoundedOn(R, Nat)
    BY Library!NatLessThanWellFounded, Zenon
  <2>2. \A x, y \in Nat : x < y => <<x, y>> \in R
    BY DEF Library!OpToRel
  <2> HIDE DEF R
  <2>3. PICK x \in S : \A y \in S : ~(<<y, x>> \in R)
    BY <2>1, Library!WFMin, Zenon
  <2>4. \A y \in S : ~(y < x)
    BY <2>2, <2>3, Zenon
  <2>5. \A y \in S : x <= y
    BY <2>4
  <2> QED
    BY <2>5
<1>14. FiniteCount /\ FiniteEmpty /\ FiniteSingleton /\ FiniteAdd /\ FiniteRemove /\ FiniteSubset
  BY <1>1, <1>2, <1>3, <1>4, <1>5, <1>6
<1>15. FiniteUnion /\ FiniteMinus /\ FiniteInterval /\ FiniteProduct /\ FiniteImage
  BY <1>7, <1>8, <1>9, <1>10, <1>11
<1> QED
  BY <1>12, <1>13, <1>14, <1>15 DEF FiniteFacts

-----------------------------------------------------------------------------
(* The theorems *)

\* The conjuncts of IInv hold in every reachable state of bio.c.
THEOREM BcacheInvariant == Spec => []IInv
<1>1. Init => IInv
  BY FiniteFactsHold, IInvInit
<1>2. IInv /\ [Next]_vars => IInv'
  BY FiniteFactsHold, IInvNext
<1> QED
  BY <1>1, <1>2, PTL DEF Spec

\* refcnt is the number of users of a buffer, those that wait included, plus the
\* log's pin (bio.c:59-90, 115-139), for any processes and buffers.
THEOREM BcacheRefcntExact == Spec => []RefcntExact
<1>1. IInv => RefcntExact
  BY SMTT(30) DEF IInv
<1> QED
  BY <1>1, BcacheInvariant, PTL

\* bread returns the contents that were last written (bio.c:92-103): recycling
\* loses no change, and a block is never cached twice.
THEOREM BcacheReadsLatest == Spec => []ReadsLatest
<1>1. IInv => ReadsLatest
  BY DEF IInv, TypeInv, UseInv, DataInv, ReadsLatest, InUse
<1> QED
  BY <1>1, BcacheInvariant, PTL
=============================================================================
