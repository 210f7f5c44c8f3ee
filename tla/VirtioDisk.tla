----------------------------- MODULE VirtioDisk -----------------------------
(***************************************************************************)
(* The disk driver of xv6 (kernel/virtio_disk.c): processes that start a   *)
(* transfer and wait for it, the device behind the avail and used rings,   *)
(* and the interrupt handler.                                              *)
(*                                                                         *)
(* Atomicity.  disk.vdisk_lock is explicit, because the device runs while  *)
(* the handler holds it: the handler takes one step per used-ring entry.   *)
(* A section of virtio_disk_rw under the lock is one action.               *)
(*                                                                         *)
(* Abstraction.  Each process transfers a buffer of its own, locked by it  *)
(* (module Bcache), so the buffer is named by the process.  The addresses, *)
(* lengths and sector in a chain are represented by that name in addr.  The *)
(* device is external: it may take requests and finish them in any order.  *)
(***************************************************************************)
EXTENDS Naturals, FiniteSets

CONSTANTS
  Proc,  \* processes, and the buffer that each one transfers
  None,
  NUM,   \* virtio.h: the number of descriptors
  U16    \* the ring indices are 16 bits wide: they wrap at 2^16

ASSUME VirtioAssumption ==
  /\ IsFiniteSet(Proc)
  /\ None \notin Proc /\ None \notin Nat
  /\ NUM \in Nat /\ NUM >= 3
  /\ U16 \in Nat /\ U16 >= NUM /\ U16 % NUM = 0

Desc == 0..(NUM - 1)
Index == 0..(U16 - 1)

VARIABLES
  free,      \* disk.free, as the set of free descriptors
  next,      \* disk.desc[i].next, or None without VRING_DESC_F_NEXT
  addr,      \* the buffer whose data the chain headed by a descriptor addresses
  info,      \* disk.info[i].b
  status,    \* disk.info[i].status is 0
  avail,     \* disk.avail->ring
  availidx,  \* disk.avail->idx
  used,      \* disk.used->ring
  usedidx,   \* disk.used->idx, written by the device
  used_idx,  \* disk.used_idx, how far the handler has looked
  busy,      \* b->disk of the buffer of a process
  handler,   \* virtio_disk_intr is running and holds vdisk_lock
  line,      \* the device's interrupt line, cleared by the acknowledgement
  seen,      \* device: how far it has looked in the avail ring
  working,   \* device: the chains it is working on
  pc,        \* where a process is
  idx0,      \* idx[0] in virtio_disk_rw
  done       \* history: the current transfers that the device has carried out

vars == <<free, next, addr, info, status, avail, availidx, used, usedidx, used_idx,
          busy, handler, line, seen, working, pc, idx0, done>>

\* After virtio_disk_init.
Init ==
  /\ free = Desc
  /\ next = [i \in Desc |-> None]
  /\ addr = [i \in Desc |-> None]
  /\ info = [i \in Desc |-> None]
  /\ status = [i \in Desc |-> TRUE]
  /\ avail = [i \in Desc |-> 0] /\ used = [i \in Desc |-> 0]
  /\ availidx = 0 /\ usedidx = 0 /\ used_idx = 0 /\ seen = 0
  /\ busy = [p \in Proc |-> FALSE]
  /\ handler = FALSE /\ line = FALSE
  /\ working = {}
  /\ pc = [p \in Proc |-> "idle"]
  /\ idx0 = [p \in Proc |-> 0]
  /\ done = {}

Inc(i) == (i + 1) % U16

\* Mutant: the wakeup is missing.
WakeAllocators_missing(f) == f

\* wakeup(&disk.free[0]).
WakeAllocators(f) ==
  [p \in Proc |-> IF f[p] = "desc_sleep" THEN "desc_woken" ELSE f[p]]

-----------------------------------------------------------------------------
(* virtio_disk_rw *)

CanStart(p) == ~handler /\ pc[p] \in {"idle", "desc_woken"}

\* alloc3_desc fails: the descriptors it did get are freed again, which wakes
\* the other processes that wait for descriptors; then p sleeps.
rw_no_desc(p) ==
  /\ CanStart(p)
  /\ Cardinality(free) < 3
  /\ pc' = [(IF free = {} THEN pc ELSE WakeAllocators(pc)) EXCEPT ![p] = "desc_sleep"]
  /\ UNCHANGED <<free, next, addr, info, status, avail, availidx, used, usedidx,
                 used_idx, busy, handler, line, seen, working, idx0, done>>

\* Mutant: the entry goes one slot too far.
Publish_off_by_one(d) == [avail EXCEPT ![(availidx + 1) % NUM] = d]

\* disk.avail->ring[disk.avail->idx % NUM] = idx[0].
Publish(d) == [avail EXCEPT ![availidx % NUM] = d]

\* Mutant: b->disk is not set.
MarkBusy_missing(p) == busy

\* b->disk = 1.
MarkBusy(p) == [busy EXCEPT ![p] = TRUE]

\* alloc_desc: the lowest free descriptor.
alloc_desc(F) == CHOOSE d \in F : \A e \in F : d <= e

\* alloc3_desc takes the three lowest free descriptors; the chain is formatted
\* and published, and p waits for b->disk.
rw_start(p) ==
  LET d0 == alloc_desc(free)
      d1 == alloc_desc(free \ {d0})
      d2 == alloc_desc(free \ {d0, d1})
  IN
  /\ CanStart(p)
  /\ Cardinality(free) >= 3
  /\ free' = free \ {d0, d1, d2}
  /\ next' = [next EXCEPT ![d0] = d1, ![d1] = d2, ![d2] = None]
  /\ addr' = [addr EXCEPT ![d0] = p]
  /\ status' = [status EXCEPT ![d0] = FALSE]
  /\ info' = [info EXCEPT ![d0] = p]
  /\ busy' = MarkBusy(p)
  /\ avail' = Publish(d0)
  /\ availidx' = Inc(availidx)
  /\ idx0' = [idx0 EXCEPT ![p] = d0]
  /\ pc' = [pc EXCEPT ![p] = "sleep"]
  /\ done' = done \ {p}
  /\ UNCHANGED <<used, usedidx, used_idx, handler, line, seen, working>>

\* The descriptors that free_chain visits from d.
Chain(d) ==
  LET at[k \in 0..NUM] == IF k = 0 THEN d
                          ELSE IF at[k - 1] = None THEN None ELSE next[at[k - 1]]
  IN {at[k] : k \in 0..NUM} \ {None}

free_chain(d) == free \cup Chain(d)

\* wakeup(b) has made p runnable: it tests b->disk again, and frees its chain.
rw_finish(p) ==
  LET chain == Chain(idx0[p]) IN
  /\ ~handler
  /\ pc[p] = "woken"
  /\ IF busy[p] \/ chain \cap free # {}
       THEN /\ pc' = [pc EXCEPT ![p] = IF busy[p] THEN "sleep" ELSE "panic"]
            /\ UNCHANGED <<free, next, addr, info, idx0>>
       ELSE /\ info' = [info EXCEPT ![idx0[p]] = None]
            /\ next' = [i \in Desc |-> IF i \in chain THEN None ELSE next[i]]
            /\ addr' = [addr EXCEPT ![idx0[p]] = None]
            /\ free' = free_chain(idx0[p])
            /\ idx0' = [idx0 EXCEPT ![p] = 0]
            /\ pc' = WakeAllocators([pc EXCEPT ![p] = "idle"])
  /\ UNCHANGED <<status, avail, availidx, used, usedidx, used_idx, busy, handler,
                 line, seen, working, done>>

-----------------------------------------------------------------------------
(* The device *)

device_take ==
  /\ seen # availidx
  /\ working' = working \cup {avail[seen % NUM]}
  /\ seen' = Inc(seen)
  /\ UNCHANGED <<free, next, addr, info, status, avail, availidx, used, usedidx,
                 used_idx, busy, handler, line, pc, idx0, done>>

device_finish(d) ==
  /\ d \in working
  /\ working' = working \ {d}
  /\ done' = done \cup {addr[d]}
  /\ status' = [status EXCEPT ![d] = TRUE]
  /\ used' = [used EXCEPT ![usedidx % NUM] = d]
  /\ usedidx' = Inc(usedidx)
  /\ line' = TRUE
  /\ UNCHANGED <<free, next, addr, info, avail, availidx, used_idx, busy, handler,
                 seen, pc, idx0>>

-----------------------------------------------------------------------------
(* virtio_disk_intr *)

\* The handler takes the lock and acknowledges the interrupt.
intr_ack ==
  /\ line /\ ~handler
  /\ handler' = TRUE
  /\ line' = FALSE
  /\ UNCHANGED <<free, next, addr, info, status, avail, availidx, used, usedidx,
                 used_idx, busy, seen, working, pc, idx0, done>>

UsedEntry == used[used_idx % NUM]

\* One entry of the used ring: the buffer is done, and its process is woken.
intr_entry ==
  LET id == UsedEntry IN
  /\ handler
  /\ used_idx # usedidx
  /\ status[id]                      \* otherwise it panics
  /\ busy' = [busy EXCEPT ![info[id]] = FALSE]
  /\ pc' = [pc EXCEPT ![info[id]] = IF @ = "sleep" THEN "woken" ELSE @]
  /\ used_idx' = Inc(used_idx)
  /\ UNCHANGED <<free, next, addr, info, status, avail, availidx, used, usedidx,
                 handler, line, seen, working, idx0, done>>

\* The loop's exit condition.
Drained == used_idx = usedidx

intr_return ==
  /\ handler
  /\ Drained
  /\ handler' = FALSE
  /\ UNCHANGED <<free, next, addr, info, status, avail, availidx, used, usedidx,
                 used_idx, busy, line, seen, working, pc, idx0, done>>

virtio_disk_intr == intr_ack \/ intr_entry \/ intr_return

-----------------------------------------------------------------------------

Next ==
  \/ \E p \in Proc : rw_no_desc(p) \/ rw_start(p) \/ rw_finish(p)
  \/ device_take
  \/ \E d \in Desc : device_finish(d)
  \/ virtio_disk_intr

Spec == Init /\ [][Next]_vars

\* The device serves every request, a raised interrupt is delivered and its handler
\* runs on (nobody else disables its next step), and a woken process gets the lock.
Fairness ==
  /\ WF_vars(device_take)
  /\ \A d \in Desc : WF_vars(device_finish(d))
  /\ WF_vars(virtio_disk_intr)
  /\ \A p \in Proc : SF_vars(rw_finish(p))

FairSpec == Spec /\ Fairness

-----------------------------------------------------------------------------
(* Properties *)

Waiting == {p \in Proc : pc[p] \in {"sleep", "woken"}}

\* The chains in use and the free descriptors partition the table, three per
\* transfer: no descriptor is used twice, freed twice or leaked.
OwnChains ==
  /\ \A p \in Waiting : Cardinality(Chain(idx0[p])) = 3 /\ Chain(idx0[p]) \cap free = {}
  /\ \A p, q \in Waiting : p # q => Chain(idx0[p]) \cap Chain(idx0[q]) = {}
  /\ Cardinality(free) + 3 * Cardinality(Waiting) = NUM

Span(from, to) == {(from + k) % NUM : k \in 0..((to + U16 - from) % U16)} \ {to % NUM}

\* A request has three descriptors of its own (virtio_disk.c:143-201, 276-277; "free_desc
\* 2", line 163), also after the path where fewer than three were left.  Until it is
\* finished it is in exactly one place: published in the avail ring, with the device, or
\* in the used ring (lines 260-265, 300-311).  No ring entry is overwritten before it is
\* read, also when the 16-bit indices wrap.
EachRequestInOnePlace ==
  /\ OwnChains
  /\ \A p \in Proc : busy[p] =>
       Cardinality({i \in Span(seen, availidx) : avail[i] = idx0[p]})
         + Cardinality(working \cap {idx0[p]})
         + Cardinality({i \in Span(used_idx, usedidx) : used[i] = idx0[p]}) = 1

\* b->disk is cleared, and so virtio_disk_rw returns (lines 272-279), only after
\* the device has carried out this very transfer.
ReturnsAfterTransfer ==
  \A p \in Waiting : ~busy[p] => p \in done

\* A transfer that has been started ends, and a process that found fewer than
\* three free descriptors (line 220) is woken to look again.
TransferEnds ==
  \A p \in Proc : /\ pc[p] = "sleep" ~> pc[p] = "idle"
                  /\ pc[p] = "desc_sleep" ~> pc[p] # "desc_sleep"
=============================================================================
