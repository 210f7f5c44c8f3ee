------------------------------- MODULE Bcache -------------------------------
(***************************************************************************)
(* The buffer cache of xv6 (kernel/bio.c) with the sleep-locks of its      *)
(* buffers (kernel/sleeplock.c): bget, bread, bwrite, brelse, bpin and     *)
(* bunpin, called by processes the way log.c and fs.c do.  A process uses  *)
(* one buffer at a time, or two: write_log and install_trans have a block  *)
(* of the log and one of the file system (log.c:74-75, 184-185), bmap and  *)
(* itrunc have the indirect block while balloc and bfree read the bitmap   *)
(* (fs.c:394-397, 424-428).  So Proc are the uses of a buffer: one for     *)
(* each process, and one more for each that has a second buffer.           *)
(*                                                                         *)
(* Atomicity.  A section under bcache.lock or under a sleep-lock's         *)
(* spinlock is one action; brelse is two, because it releases the          *)
(* sleep-lock before it takes bcache.lock.  A transfer between a buffer    *)
(* and the disk is one action: the buffer is locked throughout.            *)
(***************************************************************************)
EXTENDS Naturals, Sequences, FiniteSets

CONSTANTS
  Proc,      \* the uses of a buffer, each by a process
  Outer,     \* the use within which a use takes place, by the same process, or None
  Reads,     \* the blocks that a use reads
  Buf,       \* the buffers bcache.buf[NBUF]
  Block,     \* block numbers
  None,      \* no process, no buffer, or the block number of an unused buffer
  Value,     \* block contents
  MaxPinned  \* the number of blocks the log pins at a time

ASSUME BcacheAssumption ==
  /\ None \notin Proc \cup Buf \cup Block
  /\ IsFiniteSet(Proc)
  /\ Outer \in [Proc -> Proc \cup {None}]
  /\ Reads \in [Proc -> SUBSET Block]
  /\ MaxPinned \in Nat

\* The order in which two buffers are taken: a block of the log, then an indirect
\* block, then any other.
ASSUME LockOrder ==
  \E rank \in [Block -> 0 .. 2] :
    \A p \in Proc : Outer[p] # None =>
      \A k \in Reads[Outer[p]], l \in Reads[p] : rank[k] < rank[l]

VARIABLES
  blockno,  \* b->blockno
  valid,    \* b->valid
  refcnt,   \* b->refcnt
  data,     \* b->data
  owner,    \* the process that holds b->lock
  lru,      \* the list from bcache.head.next, most recently used first
  disk,     \* the disk's blocks
  pc,       \* where a process is
  want,     \* the block it asked bread for
  b,        \* the buffer bget returned to it
  pinned,   \* the blocks the log has pinned
  latest    \* history: the contents last given to a block

vars == <<blockno, valid, refcnt, data, owner, lru, disk, pc, want, b, pinned,
          latest>>

\* After binit.
Init ==
  /\ blockno = [c \in Buf |-> None]
  /\ valid = [c \in Buf |-> FALSE]
  /\ refcnt = [c \in Buf |-> 0]
  /\ data \in {[c \in Buf |-> v] : v \in Value}
  /\ owner = [c \in Buf |-> None]
  /\ lru = CHOOSE s \in [1..Cardinality(Buf) -> Buf] : \A c \in Buf : \E i \in 1..Cardinality(Buf) : s[i] = c
  /\ disk \in {[k \in Block |-> v] : v \in Value}
  /\ pc = [p \in Proc |-> "idle"]
  /\ want = [p \in Proc |-> None]
  /\ b = [p \in Proc |-> None]
  /\ pinned = {}
  /\ latest = disk

Goto(p, l) == pc' = [pc EXCEPT ![p] = l]

\* A process calls bread for block k; a second buffer, only while it has the first.
Calls(p, k) ==
  /\ pc[p] = "idle" /\ k \in Reads[p]
  /\ Outer[p] # None => pc[Outer[p]] = "held"
  /\ \A q \in Proc : Outer[q] = p => pc[q] = "idle"

\* It has the buffer, and is not inside bread or brelse of another one.
Works(p) ==
  /\ pc[p] = "held"
  /\ \A q \in Proc : Outer[q] = p \/ Outer[p] = q => pc[q] \in {"idle", "held"}

-----------------------------------------------------------------------------
(* bread *)

\* bget's first loop finds the block.
bget_hit(p, k, c) ==
  /\ Calls(p, k)
  /\ blockno[c] = k
  /\ refcnt' = [refcnt EXCEPT ![c] = @ + 1]
  /\ want' = [want EXCEPT ![p] = k]
  /\ b' = [b EXCEPT ![p] = c]
  /\ Goto(p, "lock")
  /\ UNCHANGED <<blockno, valid, data, owner, lru, disk, pinned, latest>>

NotCached(k) == \A d \in Buf : blockno[d] # k

\* bget's second loop takes the last unreferenced buffer of the list.
LeastRecent(c) ==
  /\ refcnt[c] = 0
  /\ \A i, j \in DOMAIN lru : lru[i] = c /\ j > i => refcnt[lru[j]] > 0

\* Mutant: b->valid survives.
Invalidate_missing(c) == valid

\* b->valid = 0.
Invalidate(c) == [valid EXCEPT ![c] = FALSE]

bget_recycle(p, k, c) ==
  /\ Calls(p, k)
  /\ NotCached(k)
  /\ LeastRecent(c)
  /\ blockno' = [blockno EXCEPT ![c] = k]
  /\ valid' = Invalidate(c)
  /\ refcnt' = [refcnt EXCEPT ![c] = 1]
  /\ want' = [want EXCEPT ![p] = k]
  /\ b' = [b EXCEPT ![p] = c]
  /\ Goto(p, "lock")
  /\ UNCHANGED <<data, owner, lru, disk, pinned, latest>>

bget_panic(p, k) ==
  /\ Calls(p, k)
  /\ NotCached(k) /\ \A d \in Buf : refcnt[d] > 0
  /\ Goto(p, "panic")
  /\ UNCHANGED <<blockno, valid, refcnt, data, owner, lru, disk, want, b, pinned,
                 latest>>

Unlocked(c) == owner[c] = None

\* One turn of acquiresleep's loop.
acquiresleep(p) ==
  /\ pc[p] = "lock"
  /\ IF Unlocked(b[p])
       THEN owner' = [owner EXCEPT ![b[p]] = p] /\ Goto(p, "locked")
       ELSE UNCHANGED owner /\ Goto(p, "asleep")
  /\ UNCHANGED <<blockno, valid, refcnt, data, lru, disk, want, b, pinned, latest>>

\* The rest of bread, after bget returns.
bread(p) ==
  /\ pc[p] = "locked"
  /\ data' = IF valid[b[p]] THEN data
             ELSE [data EXCEPT ![b[p]] = disk[blockno[b[p]]]]
  /\ valid' = [valid EXCEPT ![b[p]] = TRUE]
  /\ Goto(p, "held")
  /\ UNCHANGED <<blockno, refcnt, owner, lru, disk, want, b, pinned, latest>>

-----------------------------------------------------------------------------
(* Uses of a locked buffer *)

\* A change of b->data, made durable at once with bwrite: only the log does this,
\* to its own blocks (write_head, write_log), which it never pins.
bwrite(p, v) ==
  /\ Works(p)
  /\ want[p] \notin pinned
  /\ data' = [data EXCEPT ![b[p]] = v]
  /\ disk' = [disk EXCEPT ![blockno[b[p]]] = v]
  /\ latest' = [latest EXCEPT ![want[p]] = v]
  /\ UNCHANGED <<blockno, valid, refcnt, owner, lru, pc, want, b, pinned>>

\* A change of b->data and log_write: the first one of a transaction calls bpin.
bpin(p, v) ==
  /\ Works(p)
  /\ want[p] \in pinned \/ Cardinality(pinned) < MaxPinned
  /\ data' = [data EXCEPT ![b[p]] = v]
  /\ latest' = [latest EXCEPT ![want[p]] = v]
  /\ refcnt' = IF want[p] \in pinned THEN refcnt ELSE [refcnt EXCEPT ![b[p]] = @ + 1]
  /\ pinned' = pinned \cup {want[p]}
  /\ UNCHANGED <<blockno, valid, owner, lru, disk, pc, want, b>>

\* Mutant: a reference is never given back.
Unref_missing(c) == refcnt

\* b->refcnt--.
Unref(c) == [refcnt EXCEPT ![c] = @ - 1]

\* install_trans: bwrite(dbuf), then bunpin(dbuf).
bunpin(p) ==
  /\ Works(p)
  /\ want[p] \in pinned
  /\ disk' = [disk EXCEPT ![blockno[b[p]]] = data[b[p]]]
  /\ refcnt' = Unref(b[p])
  /\ pinned' = pinned \ {want[p]}
  /\ UNCHANGED <<blockno, valid, data, owner, lru, pc, want, b, latest>>

-----------------------------------------------------------------------------
(* brelse *)

\* Mutant: the wakeup is missing.
Woken_missing(c) == {}

\* The processes that wakeup(lk) makes runnable.
Woken(c) == {q \in Proc : pc[q] = "asleep" /\ b[q] = c}

releasesleep(p) ==
  /\ Works(p)
  /\ owner' = [owner EXCEPT ![b[p]] = None]
  /\ pc' = [q \in Proc |-> IF q = p THEN "release"
                           ELSE IF q \in Woken(b[p]) THEN "lock"
                           ELSE pc[q]]
  /\ UNCHANGED <<blockno, valid, refcnt, data, lru, disk, want, b, pinned, latest>>

MoveToFront(c) == <<c>> \o SelectSeq(lru, LAMBDA x : x # c)

brelse(p) ==
  /\ pc[p] = "release"
  /\ refcnt' = Unref(b[p])
  /\ lru' = IF refcnt[b[p]] = 1 THEN MoveToFront(b[p]) ELSE lru
  /\ want' = [want EXCEPT ![p] = None]
  /\ b' = [b EXCEPT ![p] = None]
  /\ Goto(p, "idle")
  /\ UNCHANGED <<blockno, valid, data, owner, disk, pinned, latest>>

-----------------------------------------------------------------------------

Next ==
  \E p \in Proc :
    \/ \E k \in Block, c \in Buf : bget_hit(p, k, c) \/ bget_recycle(p, k, c)
    \/ \E k \in Block : bget_panic(p, k)
    \/ acquiresleep(p) \/ bread(p)
    \/ \E v \in Value : bwrite(p, v) \/ bpin(p, v)
    \/ bunpin(p)
    \/ releasesleep(p) \/ brelse(p)

Spec == Init /\ [][Next]_vars

\* A process that uses a buffer goes on to release it, one that has a second buffer now
\* and then included, and runs when it can.  Nothing makes acquiresleep fair: of those
\* who find the lock free any one takes it, a newcomer too.
Fairness ==
  \A p \in Proc : /\ WF_vars(acquiresleep(p) \/ bread(p) \/ brelse(p))
                  /\ IF \E q \in Proc : Outer[q] = p THEN SF_vars(releasesleep(p))
                     ELSE WF_vars(releasesleep(p))

FairSpec == Spec /\ Fairness

-----------------------------------------------------------------------------
(* Properties *)

\* refcnt counts the uses of the buffer, those that wait for its lock
\* included, and the log's pin, so "no one is waiting for it" (bio.c:127) is true
\* when it is 0, and no reference leaks.
RefcntExact ==
  \A c \in Buf : refcnt[c] = Cardinality({p \in Proc : b[p] = c})
                             + (IF blockno[c] \in pinned THEN 1 ELSE 0)

\* bread returns the contents last written (bio.c:92-103): a block has one cached
\* copy, which its users change one after the other (bio.c:66-87), and a change that
\* is only in memory is never lost by recycling, because log_write pins the buffer.
ReadsLatest ==
  \A p \in Proc : pc[p] = "held" => data[b[p]] = latest[want[p]]

\* Somebody is inside acquiresleep for the buffer, and somebody gets it.
Waited(c)  == \E p \in Proc : b[p] = c /\ pc[p] \in {"lock", "asleep"}
Granted(c) == owner[c] = None /\ owner'[c] # None
Panicked   == \E p \in Proc : pc[p] = "panic"

\* While processes wait for a buffer it is granted again and again: no wakeup is lost
\* when several wait for it, and those that wait with another buffer locked do not wait
\* for each other (sleeplock.c:25-28, 38-39, bio.c:127-131), unless the kernel has no
\* buffer left and panics (bio.c:88).
BufferGranted ==
  \A c \in Buf : []<>(~Waited(c) \/ Panicked) \/ []<><<Granted(c)>>_vars
=============================================================================
