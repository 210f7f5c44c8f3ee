-------------------------------- MODULE Log --------------------------------
(***************************************************************************)
(* The write-ahead log of xv6 (kernel/log.c): begin_op, log_write, end_op, *)
(* commit and the recovery that fsinit runs at boot, with a crash allowed  *)
(* between any two disk writes.                                            *)
(*                                                                         *)
(* Atomicity.  A section that runs under log.lock, or that only the one    *)
(* committing process can run, is one action; the disk writes of commit()  *)
(* and of recovery are one action each.  A disk write of one block is      *)
(* atomic (bwrite waits for the device).                                   *)
(*                                                                         *)
(* Abstraction.  The buffer cache is the function cache (what bread        *)
(* returns); a block the log has not pinned may be evicted at any time, so *)
(* that a read finds the disk's copy again.  sleep and wakeup on the       *)
(* channel &log are atomic with the section around them; module Proc       *)
(* justifies that.                                                         *)
(***************************************************************************)
EXTENDS Naturals, Sequences, FiniteSets

CONSTANTS
  Proc,         \* the processes that make file-system calls
  Block,        \* the home blocks of the disk
  Value,        \* the contents a block can have
  Zero,         \* the content mkfs gives to the blocks of the log
  MAXOPBLOCKS,  \* param.h: the space begin_op reserves for one call
  LOGSIZE,      \* param.h: capacity of the in-memory header
  NLOG,         \* sb.nlog: blocks of the on-disk log, header included
  OPBLOCKS      \* the distinct blocks one call really writes, at most

ASSUME LogAssumption ==
  /\ IsFiniteSet(Proc)
  /\ Zero \in Value
  /\ MAXOPBLOCKS \in Nat \ {0}
  /\ LOGSIZE \in Nat
  /\ NLOG \in Nat \ {0}
  /\ OPBLOCKS \in Nat

VARIABLES
  home,         \* disk: the home location of every block
  dlog,         \* disk: the log's data blocks
  dhead,        \* disk: the log header, the sequence of logged block numbers
  cache,        \* memory: what bread returns for every block
  pins,         \* memory: b->refcnt of the buffers that stay referenced
  lh,           \* memory: log.lh, the block numbers of this transaction
  outstanding,  \* memory: log.outstanding
  committing,   \* memory: log.committing
  tail,         \* memory: loop index of write_log and install_trans
  boot,         \* progress of recover_from_log: "read", "install" or "up"
  pc,           \* where each process is in its file-system call
  wrote         \* the blocks a process has written in its current call

disk   == <<home, dlog, dhead>>
memory == <<cache, pins, lh, outstanding, committing, tail, boot, pc, wrote>>
vars   == <<home, dlog, dhead, cache, pins, lh, outstanding, committing, tail,
            boot, pc, wrote>>

PCs == {"idle", "asleep", "woken", "op", "write_log", "install", "committed",
        "panic"}

Logged(s) == {s[i] : i \in 1..Len(s)}

\* The positions that have room for a data block in the on-disk log.
Slots == 1..(NLOG - 1)

TypeOK ==
  /\ home \in [Block -> Value]
  /\ dlog \in [Slots -> Value]
  /\ dhead \in Seq(Block)
  /\ cache \in [Block -> Value]
  /\ pins \in [Block -> Nat]
  /\ lh \in Seq(Block)
  /\ outstanding \in Nat
  /\ committing \in BOOLEAN
  /\ tail \in Nat
  /\ boot \in {"read", "install", "up"}
  /\ pc \in [Proc -> PCs]
  /\ wrote \in [Proc -> SUBSET Block]

\* A disk that mkfs has just written, and a machine that is booting.
Init ==
  /\ home \in [Block -> Value]
  /\ dlog = [i \in Slots |-> Zero]
  /\ dhead = << >>
  /\ cache = home
  /\ pins = [b \in Block |-> 0]
  /\ lh = << >>
  /\ outstanding = 0
  /\ committing = FALSE
  /\ tail = 0
  /\ boot = "read"
  /\ pc = [p \in Proc |-> "idle"]
  /\ wrote = [p \in Proc |-> {}]

-----------------------------------------------------------------------------
(* begin_op, log_write and end_op *)

\* begin_op's test that this call might exhaust the log.
NoSpace == Len(lh) + (outstanding + 1) * MAXOPBLOCKS > LOGSIZE

begin_op_sleep(p) ==
  /\ boot = "up"
  /\ pc[p] \in {"idle", "woken"}
  /\ committing \/ NoSpace
  /\ pc' = [pc EXCEPT ![p] = "asleep"]
  /\ UNCHANGED <<disk, cache, pins, lh, outstanding, committing, tail, boot, wrote>>

begin_op(p) ==
  /\ boot = "up"
  /\ pc[p] \in {"idle", "woken"}
  /\ ~committing /\ ~NoSpace
  /\ outstanding' = outstanding + 1
  /\ pc' = [pc EXCEPT ![p] = "op"]
  /\ UNCHANGED <<disk, cache, pins, lh, committing, tail, boot, wrote>>

\* log_write's first panic: the transaction is too big.
TooBig == Len(lh) >= LOGSIZE \/ Len(lh) >= NLOG - 1

bpin(b) == [pins EXCEPT ![b] = @ + 1]

\* bread, a change of b->data, log_write and brelse.
log_write(p, b, v) ==
  /\ pc[p] = "op"
  /\ Cardinality(wrote[p] \cup {b}) <= OPBLOCKS
  /\ cache' = [cache EXCEPT ![b] = v]
  /\ IF TooBig \/ outstanding < 1
       THEN /\ pc' = [pc EXCEPT ![p] = "panic"]
            /\ pins' = bpin(b)   \* bread's reference: brelse is not reached
            /\ UNCHANGED <<lh, wrote>>
       ELSE /\ IF b \in Logged(lh)        \* log absorption
                 THEN UNCHANGED <<pins, lh>>
                 ELSE /\ pins' = bpin(b)
                      /\ lh' = Append(lh, b)
            /\ wrote' = [wrote EXCEPT ![p] = @ \cup {b}]
            /\ UNCHANGED pc
  /\ UNCHANGED <<disk, outstanding, committing, tail, boot>>

\* Mutant: the wakeups are missing.
Wake_missing(f) == f

\* wakeup(&log): every process asleep in begin_op looks again.
Wake(f) == [p \in Proc |-> IF f[p] = "asleep" THEN "woken" ELSE f[p]]

\* end_op when other calls are in progress.
end_op(p) ==
  /\ pc[p] = "op"
  /\ outstanding # 1
  /\ outstanding' = outstanding - 1
  /\ pc' = IF committing THEN [pc EXCEPT ![p] = "panic"]
                         ELSE Wake([pc EXCEPT ![p] = "idle"])
  /\ wrote' = [wrote EXCEPT ![p] = {}]
  /\ UNCHANGED <<disk, cache, pins, lh, committing, tail, boot>>

\* commit()'s test for an empty transaction.
CommitStart == IF Len(lh) > 0 THEN "write_log" ELSE "committed"

\* end_op of the last call in progress, up to the test in commit().
end_op_last(p) ==
  /\ pc[p] = "op"
  /\ outstanding = 1
  /\ outstanding' = 0
  /\ committing' = TRUE
  /\ tail' = 0
  /\ pc' = [pc EXCEPT ![p] = IF committing THEN "panic" ELSE CommitStart]
  /\ wrote' = [wrote EXCEPT ![p] = {}]
  /\ UNCHANGED <<disk, cache, pins, lh, boot>>

-----------------------------------------------------------------------------
(* commit *)

write_log(p) ==
  /\ pc[p] = "write_log"
  /\ tail < Len(lh)
  /\ dlog' = [dlog EXCEPT ![tail + 1] = cache[lh[tail + 1]]]
  /\ tail' = tail + 1
  /\ UNCHANGED <<home, dhead, cache, pins, lh, outstanding, committing, boot,
                 pc, wrote>>

\* Mutant: the header is not written before the blocks are installed.
write_head_missing == dhead' = dhead

\* Write the in-memory header to disk.
write_head == dhead' = lh

\* commit()'s first call of write_head is the true commit point.
commit_point(p) ==
  /\ pc[p] = "write_log"
  /\ tail = Len(lh)
  /\ write_head
  /\ tail' = 0
  /\ pc' = [pc EXCEPT ![p] = "install"]
  /\ UNCHANGED <<home, dlog, cache, pins, lh, outstanding, committing, boot,
                 wrote>>

\* One turn of install_trans: copy a log block to its home location.
InstallOne ==
  LET b == lh[tail + 1] IN
  /\ tail < Len(lh)
  /\ home' = [home EXCEPT ![b] = dlog[tail + 1]]
  /\ cache' = [cache EXCEPT ![b] = dlog[tail + 1]]
  /\ tail' = tail + 1

\* Mutant: install_trans never unpins.
bunpin_missing(b) == pins

bunpin(b) == [pins EXCEPT ![b] = @ - 1]

install_trans(p) ==
  /\ pc[p] = "install"
  /\ InstallOne
  /\ pins' = bunpin(lh[tail + 1])
  /\ UNCHANGED <<dlog, dhead, lh, outstanding, committing, boot, pc, wrote>>

\* Mutant: the log is erased before every block is installed.
EraseLog_early == lh' = << >> /\ dhead' = << >> /\ tail' = 0

\* log.lh.n = 0; write_head().
EraseLog ==
  /\ tail = Len(lh)
  /\ lh' = << >>
  /\ dhead' = << >>
  /\ tail' = 0

erase_log(p) ==
  /\ pc[p] = "install"
  /\ EraseLog
  /\ pc' = [pc EXCEPT ![p] = "committed"]
  /\ UNCHANGED <<home, dlog, cache, pins, outstanding, committing, boot, wrote>>

\* The end of end_op, after commit() returns.
end_commit(p) ==
  /\ pc[p] = "committed"
  /\ committing' = FALSE
  /\ pc' = Wake([pc EXCEPT ![p] = "idle"])
  /\ UNCHANGED <<disk, cache, pins, lh, outstanding, tail, boot, wrote>>

-----------------------------------------------------------------------------
(* The buffer cache, crashes and recovery *)

\* bget recycles an unreferenced buffer; a later bread reads the disk.
evict(b) ==
  /\ pins[b] = 0
  /\ cache' = [cache EXCEPT ![b] = home[b]]
  /\ UNCHANGED <<disk, pins, lh, outstanding, committing, tail, boot, pc, wrote>>

\* The machine stops and is switched on again: only the disk survives.
crash ==
  /\ cache' = home
  /\ pins' = [b \in Block |-> 0]
  /\ lh' = << >>
  /\ outstanding' = 0
  /\ committing' = FALSE
  /\ tail' = 0
  /\ boot' = "read"
  /\ pc' = [p \in Proc |-> "idle"]
  /\ wrote' = [p \in Proc |-> {}]
  /\ UNCHANGED disk

read_head ==
  /\ boot = "read"
  /\ lh' = dhead
  /\ tail' = 0
  /\ boot' = "install"
  /\ UNCHANGED <<disk, cache, pins, outstanding, committing, pc, wrote>>

\* install_trans(1): the blocks are not pinned during recovery.
recover_install ==
  /\ boot = "install"
  /\ InstallOne
  /\ UNCHANGED <<dlog, dhead, pins, lh, outstanding, committing, boot, pc, wrote>>

recover_erase ==
  /\ boot = "install"
  /\ EraseLog
  /\ boot' = "up"
  /\ UNCHANGED <<home, dlog, cache, pins, outstanding, committing, pc, wrote>>

recover_from_log == read_head \/ recover_install \/ recover_erase

-----------------------------------------------------------------------------

commit(p) == write_log(p) \/ commit_point(p) \/ install_trans(p) \/ erase_log(p)

ProcNext(p) ==
  \/ begin_op_sleep(p)
  \/ begin_op(p)
  \/ \E b \in Block, v \in Value : log_write(p, b, v)
  \/ end_op(p)
  \/ end_op_last(p)
  \/ commit(p)
  \/ end_commit(p)

Next ==
  \/ \E p \in Proc : ProcNext(p)
  \/ \E b \in Block : evict(b)
  \/ crash
  \/ recover_from_log

Spec == Init /\ [][Next]_vars

\* A call that has begun ends, a woken process gets to run, and the disk
\* answers: commit and recovery go on unless the machine crashes.
Fairness ==
  /\ WF_vars(recover_from_log)
  /\ \A p \in Proc :
       /\ WF_vars(end_op(p) \/ end_op_last(p) \/ commit(p) \/ end_commit(p))
       /\ WF_vars(pc[p] = "woken" /\ (begin_op_sleep(p) \/ begin_op(p)))

FairSpec == Spec /\ Fairness

-----------------------------------------------------------------------------
(* Properties *)

\* The position of block b in header h (blocks occur once in a header).
Index(h, b) == CHOOSE i \in 1..Len(h) : h[i] = b

\* What a reboot would find: the home blocks, overlaid by the log blocks that
\* a valid header names.
Recovered ==
  [b \in Block |-> IF b \in Logged(dhead) THEN dlog[Index(dhead, b)] ELSE home[b]]

\* What system calls read.  Nothing reads a file before recovery is over.
Visible == IF boot = "up" THEN cache ELSE Recovered

InCall == {p \in Proc : pc[p] \in {"op", "panic"}}

Abs == INSTANCE AtomicDisk WITH durable <- Recovered, view <- Visible,
                                active <- InCall

\* Crash safety (log.c:10-31, commit, recover_from_log): whatever the
\* interleaving of the calls and wherever the machine crashes, also again
\* during recovery, the disk behaves as if the writes of a group of complete
\* calls were made durable in one step at write_head, and nothing else ever is.
CrashAtomic == Abs!Spec

\* log_write and end_op (log.c:154, 221, 223) never panic: the space begin_op
\* reserves is enough for every call admitted, and no call runs during a commit.
NoPanic == \A p \in Proc : pc[p] # "panic"

\* log_write pins a block once when it enters the header and install_trans
\* unpins it once, after its home copy is written (log.c:231, 79): a buffer that
\* holds the only copy of a logged block is never recycled, and none leaks.
PinnedWhileLogged ==
  LET installed == IF \E p \in Proc : pc[p] = "install" THEN tail ELSE 0 IN
  boot = "up" => \A b \in Block :
    pins[b] = Cardinality({i \in (installed + 1)..Len(lh) : lh[i] = b})

\* When the last end_op of a group returns (log.c:166-173), everything any
\* finished call wrote is on disk at its home location and the log is empty.
DurableOnReturn ==
  \A p \in Proc : pc[p] = "committed" => home = cache /\ dhead = << >> /\ lh = << >>

\* The write-ahead rule (commit, log.c:196-201): a home block changes only while a valid
\* header on disk names it, so a crash right after the write can redo it.
WriteAhead ==
  [][\A b \in Block : home'[b] # home[b] => b \in Logged(dhead)]_vars

\* A process that waits in begin_op is woken, and a call that has begun is over
\* some time later, although other calls keep coming and the machine may crash.
CallsFinish ==
  \A p \in Proc : /\ pc[p] = "asleep" ~> pc[p] # "asleep"
                  /\ pc[p] \in PCs \ {"idle", "asleep", "woken"} ~> pc[p] = "idle"
=============================================================================
