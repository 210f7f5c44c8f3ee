# A verification of xv6 (RISC-V, system-call lab)

This directory holds TLA+ models of the kernel in `src/kernel`, of its shell and of
the program that makes its disk, the TLC configurations that check them on small
instances, and proofs, checked by TLAPS, about the log, the buffer cache, the disk
driver, pipes, processes, the console's output and the clock. Every definition is
translated from the C code; `PROJECT.json` maps each one to the lines it models.

```
tlc -workers 2 -config MCLog.cfg MCLog      # a run: see the table of runs
tlapm LogTheorems.tla                       # proofs: up to some minutes per module
```

## 1. The system

xv6 is a small Unix kernel for a multiprocessor RISC-V machine. Each process has
a user page table and a kernel stack. A system call runs on the kernel stack of
its process, with interrupts on, and can be preempted wherever it holds no
spinlock. Processes wait for each other with `sleep` and `wakeup`, and for long
operations with sleep-locks built on them.

The parts, from the machine upwards, and where they are modelled:

| part | source | module | state of the work |
|---|---|---|---|
| disk driver | `virtio_disk.c` | `VirtioDisk`, `VirtioProofs` | every operation; the device is external; proved |
| buffer cache, sleep-locks | `bio.c`, `sleeplock.c` | `Bcache`, `BcacheProofs` | every operation; proved |
| write-ahead log, recovery | `log.c` | `Log`, `AtomicDisk`, `LogProofs`, `LogTheorems` | every operation; proved |
| first file system | `mkfs.c`, `fs.h` | `Mkfs` | every operation, as a function |
| blocks and contents of files | `fs.c`, `file.c` | `Files`, `ByteFile` | every operation |
| inodes, directories, paths | `fs.c`, `sysfile.c` | `FileSys` | every call that changes them |
| open files, descriptors | `file.c`, `sysfile.c` | `Shell`, `FileSys`, `Files` | open, close, dup, pipe, fork, exit; read, write, fstat |
| pipes | `pipe.c` | `Pipe`, `ByteChannel`, `PipeProofs` | every operation (`pipealloc` in `Shell`); proved |
| processes, scheduler, sleep and wakeup | `proc.c` | `Proc`, `ProcProofs` | without copying and debugging; proved |
| physical pages, page tables, exec | `kalloc.c`, `vm.c`, `exec.c`, part of `proc.c` | `Memory` | without copyin and copyout |
| spinlocks, interrupts, clock, `sleep(n)` | `spinlock.c`, `trap.c`, `proc.c`, `sysproc.c` | `Traps`, `InterruptProofs` | every operation; `sleep(n)` proved |
| console, UART | `console.c`, `uart.c`, part of `printf.c` | `Console`, `Terminal`, `ByteChannel`, `InterruptProofs` | without control-P and panic; output proved |
| shell, `init` | `sh.c`, `init.c` | `Shell` | parser, `runcmd`, main loops |
| call dispatch, `trace`, `sysinfo`, boot, assembly, strings, other programs | | - | not modelled (section 8) |

How they interact: `FileSys` operations run inside `begin_op`/`end_op` of `Log`;
`Log` keeps its blocks in `Bcache` and pins them there; `Bcache` moves blocks
with `VirtioDisk`; all four, and `Pipe`, wait with the `sleep` and `wakeup` of
`Proc`, which stands on the spinlocks of `Traps`; `Memory` supplies the pages of
processes and pipes; `Shell` runs on the calls of `Proc`, `FileSys` and `Pipe`, and its
standard files are the `Console`. The models are
composed by assumption and guarantee: each one takes from the layer below only
what that layer's model is checked to give.

* `Log` takes a disk write as one atomic step and reads through a cache that may
  drop any unpinned block. `VirtioDisk` checks that a transfer has ended when
  `virtio_disk_rw` returns (`ReturnsAfterTransfer`), and `Bcache` that a read
  returns what was written last (`ReadsLatest`) and that a pinned buffer stays
  (`RefcntExact`). `Log` in turn checks that it pins every block whose
  only new copy is in memory (`PinnedWhileLogged`).
* `Log`, `Pipe`, `Bcache`, `VirtioDisk` and `Console` take `sleep` as atomic with the
  release of the lock around it. `Proc` has the gap between the two (`wait_sleep`,
  `sleep_acquire`, `sleep_sched`) and checks `NoLostWakeup`. `kill` does not take that
  lock: where a call tests `p->killed` before it sleeps, the test and the sleep are two
  steps (`write_full` and `write_sleep`, `read_wait` and `read_sleep`).
* `VirtioDisk` names a buffer by its process, because `Bcache` gives a buffer to
  one process at a time.
* `Proc`, `Pipe`, `Console` and the rest take `acquire` as atomic, and assume that no
  interrupt handler runs on a hart that holds a lock. `Traps` has `push_off`, the swap
  and `pop_off` as steps of their own with interrupts in between, and checks that
  (`LocksSound`).
* `Files` says how many blocks a write puts in one transaction (`TransactionFits`),
  which is the constant `OPBLOCKS` of `Log`; `FileSys` and `Files` divide the inode
  between them: names, links and references there, size and blocks here.
* `Shell` takes a call as one step; what can happen inside it is in the module of
  the call.
* `FileSys` leaves the log out: that a call's writes are one transaction is
  `CrashAtomic` of `Log`.

## 2. The modules and the code

In each module the variables are the C variables (named in a comment), a program
counter `pc` per process says where in a function it is, and an action is the code
from one point at which another actor can interfere to the next. Actions have the
names of the functions; where a function has several steps, they are
`function_step`. A definition with a suffix such as `bpin_missing` is not part of
the model: it is the mistake that shows that a property can fail (see
"mutants" in `PROJECT.json`).

**Log.** `home`, `dlog` and `dhead` are the disk: home blocks, log blocks and
header. `cache` is what `bread` returns, `pins` the log's references, `lh`,
`outstanding` and `committing` the fields of `log`. `write_log`, `install_trans`,
`recover_install` write one block per step, `commit_point` and `erase_log`
the header. `crash` may happen in any state, also in recovery, and resets all that
is in memory; `evict` drops an unpinned buffer. `boot` is the stage of recovery.
What a call writes is a choice of at most `OPBLOCKS` blocks, with repetition, so
that absorption happens.

**AtomicDisk** is what the log promises: a disk on which the writes of a
group of complete calls become durable in one step, and a crash goes back to the
last such step. `Log!CrashAtomic` is the refinement: `durable` is what recovery
would make of the disk now (`Recovered`), `view` what a call would read
(`Visible`).

**Proc.** `wait_lock` and every `p->lock` have an owner. A process runs on a CPU
(`Running`), and leaves it in `sleep_sched`, `exit_sched` or `yield`. `exit` and
`wait` are cut at every lock operation. The table is a set of slots: a scan that
takes the first match takes any match. `asked` is a history variable: the pids
passed to `kill`.

**Pipe.** One step per byte, the lock explicit, counters modulo `UINT`. Bytes are
numbered. `fresh` remembers that a writer was killed after it wrote (see
section 7). **ByteChannel** is the promise: a bounded FIFO channel.

**Bcache.** The list of buffers in order of use, `refcnt`, `valid`, the sleep-lock of
each buffer, and the log's pins. `Proc` are uses of a buffer: a process that has two
buffers, as in `write_log`, `install_trans`, `bmap` and `itrunc`, is a use (`Outer`) and a
use within it, which begins while the process has the first buffer; either can be
released first. `Reads` are the blocks of each use, and `LockOrder` is the order in which
the code takes two: log blocks, then indirect blocks, then others. The panic of `bget` is
a state that the instance reaches.

**VirtioDisk.** The descriptor table, the two rings with their wrapping indices, and
the interrupt line. `device_take` and `device_finish` are the external device, which
completes in any order and while the handler runs; the handler takes one step per
entry.

**FileSys.** `disk` holds type and link count of each inode, `ent` the entries of
directories, `itable` the inode table, `ftable`, `ofile` and `cwd` the rest. A path is
the sequence of its elements. `namex` takes a step per element; `create`, `link`,
`unlink` and `iput` are cut where a lock is released that others can wait for. `iput`
has five steps, because `itable.lock` is given up while the inode is freed.

**Memory.** Pages are alike, so the free list is its length, and each page in use is
counted where it is used. A page table is its set of table pages, its mapped user
pages and whether the trampoline is mapped. One step per `kalloc` or `kfree`:
memory can run out, or come back, between any two. What `exec` reads from the file
or the arguments may make it fail at any segment.

**Mkfs** computes the disk that `mkfs` writes, function by function. A block is a row of
cells; a cell is a byte, a block number or a directory entry.

**Files.** `data` is the disk as it is after the log, `cache` what `bread` returns, and `lh`
the blocks logged since the last commit. `end_op` of the last call in a transaction copies
these from their buffers to `data`, with what a failing `either_copyin` of another call
has left there; such bytes in a block that is not logged are gone with `evict`. `writei` and `itrunc` take one step per
block under the inode's lock. `op` is the set of blocks of the transaction. `Init` is
the result of `Mkfs`. **ByteFile** is the promise: a file is a sequence of bytes, an
open file an offset into it, a write a sequence of pieces.

**Console.** `cons` is the input ring with its three indices (modulo `CUINT`), `tx` the
output ring, `uart` the device, `intr` the interrupt handler, `io` where each process
is in a call. Reading the UART's status and writing to it are separate steps. A `printf`
sends any number of characters under `pr.lock`. After `panic` the kernel prints without
that lock, and the others stop at their next character: this is left out, and so is
what `NoOverrun` would be then.
**Terminal** is the promise to readers; the output ring implements `ByteChannel`, as a
pipe does.

**Traps.** Each context (a process in the kernel, or the scheduler of a hart) has a stack
of operations, `code`; a hart does the first operation of its context, and a timer
interrupt may put those of `kerneltrap` on top wherever `sie` is on. `push_off`'s read
and its write of the interrupt state are two steps. `ticks` is kept as a number, and
compared modulo `TUINT` as the code does.

**Shell.** The parser is a set of recursive operators, one per function of `sh.c`, from
tokens to commands; `runcmd` turns a command into the system calls it makes, `todo`.
`tab` is the table of open files, pipes and descriptors. Each step is a call of one
process; `pipe` and `exit` take several, because others can take files in between.
`init` whose `fork` fails exits, which panics: its next call is then "panic", which is
none.
A program that is run may read to the end of its input and write more than a
pipe holds, or neither (`prog_in`, `prog_out`, external).

`MCShell`, `MCFileSys` and `MCInterrupts` each put two models with disjoint variables side
by side: a behaviour is one of the first model or one of the second.

## 3. The runs

| run | cfg | distinct states | question |
|---|---|---|---|
| `log` | `MCLog` | 40,560 | is the log an atomic disk, across crashes; does every call end? |
| `log_reserve` | `MCLog_reserve` | violation | is the space `begin_op` reserves there? |
| `proc_safety` | `MCProc_safety` | 218,287 | lost wakeups, shared stacks, orphans |
| `proc_live` | `MCProc_live` | 14,499 | does `init` reap every orphan? |
| `proc_kill` | `MCProc_kill` | violation | does `kill` kill only the process it names? |
| `pipe` | `MCPipe` | 52,005 | is a pipe a FIFO channel; do blocked calls return? |
| `shell` | `MCShell` | 84,385 | `Shell`: is the grammar parsed, are files counted right, does the prompt come back; `Bcache`: exact references, no stale read, no lost wakeup or deadlock |
| `virtio` | `MCVirtioDisk` | 43,537 | no request, interrupt or descriptor lost |
| `filesys` | `MCFileSys` | 654,284 | `FileSys`: references, link counts, stale inodes, panics, deadlock; `Memory`: no page lost when memory runs out |
| `filesys_dotdot` | `MCFileSys_dotdot` | violation | can `..` name a free inode? |
| `files` | `MCFiles` | 284,431 | are files sequences of bytes; is every block in one place; do transactions fit? |
| `interrupts` | `MCInterrupts` | 251,894 | `Console`: a terminal above, a channel below; `Traps`: locks, interrupts and the clock |

What the properties say is in the comment above each of them. The ones that carry
most:

* `CrashAtomic`, `WriteAhead` (`Log`): whatever the order of calls and wherever the
  machine stops, the disk after recovery is the disk after a whole number of
  groups of calls; and a home block changes only while a header on disk names it.
* `NoLostWakeup`, `StackNotShared`, `ParentAlive`, `OrphansReaped` (`Proc`): a process
  asleep in `wait` has a child that will wake it and no zombie it has missed; no
  two CPUs are on one kernel stack, and a slot is not reused while its old owner is
  still in `exit`; the parent of a process exists; an orphan is reaped.
* `IsFifo`, `NoStrandedSleeper`, `CallsReturn` (`Pipe`).
* `ReadsLatest`, `RefcntExact`, `BufferGranted` (`Bcache`): the last says that a buffer for
  which processes wait is granted again and again, not that each of them gets it.
* `EachRequestInOnePlace`, `ReturnsAfterTransfer`, `TransferEnds` (`VirtioDisk`): a request
  is in exactly one of the avail ring, the device and the used ring, and descriptors
  are in one chain or free; nobody returns before the transfer; every transfer ends.
* `RefExact`, `CacheCoherent`, `NlinkCovers`, `NoCircularWait` (`FileSys`): the reference
  count of an inode is the number of pointers to it; a valid entry agrees with the
  disk, and an inode in use is not free; a link count covers every name, so no name
  outlives its inode; no cycle of inode locks.
* `PagesConserved`, `ImageMapped` (`Memory`): the free list and the pages in use are all
  the pages there are, after every failure path of `fork`, `exec` and `sbrk`; a process
  has exactly the pages below `p->sz`, and no function of `vm.c` panics.
* `FilesAreBytes`, `BlocksPartitioned`, `NoHoles`, `TransactionFits` (`Files`): reads return
  what was written, at the shared offset; a block is in one place of one file or free;
  a file has all its blocks below its size, so that a read never allocates; a piece of
  `filewrite` logs at most the `MAXOPBLOCKS` blocks reserved for it.
* `IsTerminal`, `OutputIsFifo`, `NoOverrun`, `ConsoleCallsReturn` (`Console`).
* `LocksSound`, `InterruptsRestored`, `SleepsLongEnough`, `SleepersReturn` (`Traps`): the
  panics of `acquire`, `release`, `pop_off` and `sched` do not happen; outside all locks a
  process has interrupts on in a system call and off in a trap, though `noff` and
  `intena` belong to harts and it changes harts; `sleep(n)` lasts `n` ticks, also when
  `ticks` wraps, and ends.
* A process that was killed between the test of `killed` and its sleep is woken by the
  other end of the pipe (`CallsReturn`); `ConsoleCallsReturn` and `SleepersReturn` exempt it as
  long as no line comes, or the time is not over.
* `ParsesGrammar`, `FilesExact`, `PromptReturns` (`Shell`): the parser accepts exactly
  the lines of the grammar, which is written down as productions, and builds the one
  tree of each; a file's count is the number of its descriptors, on every failure path
  of `pipe` and `open`; after every line the shell is alone at its prompt with nothing
  left open, unless `init` found no slot for it, which takes a line with `&` or a block.

### Bounds, symmetry, views

* `log`: three processes, two blocks with two contents, calls of up to two blocks.
  `MAXOPBLOCKS` 4 and `LOGSIZE` 8 make the third process wait for space, and two
  calls share a transaction and a block. Every call that `Log` distinguishes (first,
  middle, last of a group, waiting for space, waiting for a commit) occurs.
* `log_reserve`: `MAXOPBLOCKS` 1, `LOGSIZE` 3 and a log of 3 blocks, the proportions of
  `param.h` and `mkfs.c`.
* `proc_*`: init, and two or three more slots on two CPUs: a grandchild whose parent
  exits, reparented while it exits itself. `MaxPid` bounds the number of forks.
* `pipe`: one reader, two writers, a ring of 2, counters that wrap at 4, so that
  within `MaxSent` = 5 bytes the ring is full, empty and wrapped. Calls ask for 3 bytes,
  and transfer fewer when `copyin` or `copyout` fails. 2^32 is a multiple
  of `PIPESIZE` in the code, and 4 is of 2 (`PipeAssumption`).
* `shell`, `Bcache`: two buffers, three blocks, one pin, and a process with two buffers.
  With any contents there is one more process; with two more, so that there are several
  waiters for one buffer, all contents are equal. Recycling, waiting, waiting with another
  buffer locked, and the panic occur.
* `virtio`: three processes and 8 descriptors, as in the code, so that one process finds
  two, gives them back and waits for a chain; indices wrap at 16.
* `shell`, `Shell`: fourteen sessions. With room for everything: background commands, a
  list, a block in a pipeline, redirections, a syntax error, `cd`, a shell that ends and
  is started again while a command runs. With 2 to 4 process slots, 1 or 2 open files, 3
  or 4 descriptors: each fork of a pipeline fails, and `pipe` fails after each of its
  steps, or in `copyout`. In two sessions with 4 slots, `(a|a)&` and `(a|a)|a`, each followed
  by the end of the input, what is left running can take the slot that `init` needs. The
  parser is compared with the grammar on all lines of up to 5 tokens
  (66,430 lines), with `MAXARGS` 3: every production nests in every other within that
  length.
* `files`: two processes, two open files on one inode, empty at first, or on two, of which
  one starts with a byte (a truncation empties it), blocks of 2 cells, 1 direct block and 2 in the indirect block, writes of up to 4 bytes (two pieces), one
  of them unmapped after its first byte, 3 calls. Two calls share a transaction, and a
  write fails in a block that the other one has logged. 18 blocks have bits in two bitmap
  blocks, so that a piece takes blocks from both, and `MAXOPBLOCKS` 6 gives pieces of
  one block: `TransactionFits` is then tight.
* `interrupts`, `Console`: a ring of 3 whose indices wrap at 6 and start at 5 (2^32 is a
  multiple of 128, and 6 is of 3), an output ring of two bytes, two readers, two writers,
  a kernel `printf` of up to two characters; each budget (`MCBudgets`) lets some of them act, because all
  of them together are too many states: readers with the keyboard, and the keyboard with
  the writers and the `printf`. Input and output share only the UART and its interrupt.
* `interrupts`, `Traps`: one or two harts and processes, up to two timer interrupts,
  `ticks` about to wrap at 4. On two harts either a tick or a kill meets a sleep at every
  point of it.
* `filesys`, `FileSys`: two processes (one is created by `fork` and exits), three inodes and
  three table entries, one open file and one descriptor, calls on the names `b` and
  `/b/a`: an inode is freed and reallocated while others look it up.
* `filesys`, `Memory`: three processes on 21 pages of 2 bytes: the image of one takes at least
  7, so memory is short at each allocation of each call. `UINT` 64 makes a negative
  `sbrk` wrap. The page tables of one process have one level-0 table for user
  memory, as programs below 2 MB have.

Symmetry is used only in runs without liveness properties: over slots and CPUs
(`proc_safety`), over inodes other than the root (`ialloc` may take any free one) and
over the processes of `Memory` other than the first (`filesys`). No expression tells the
permuted values apart. Two runs have a VIEW that hides fields which are written
before they are next read: fields of table entries that are free or not valid
(`filesys`), and ring entries outside the live part of the ring (`virtio`). Hidden
fields occur in no property and no guard.

`CHECK_DEADLOCK FALSE` stands where the system may stop: all processes of a pipe
have exited and the bound on bytes is reached (`pipe`); `ialloc` or `iget` found nothing
and panicked, with the other process waiting for a lock (`filesys`); the calls that the
bounds allow have been made (`files`, `interrupts`); the shell waits for a line, or `bget`
has panicked (`shell`).

### Fairness

* `Log`: a call that has begun ends, the disk answers, a woken process runs. Nothing
  is assumed about starting calls, and crashes may go on for ever.
* `Proc`: weak fairness of the timer (`yield`), since `timerinit` arms it on every CPU;
  strong fairness of being scheduled, since `scheduler` scans the whole table in a
  loop; strong fairness of the steps in the kernel, since they wait for spinlocks
  that are held for a bounded time (the amoswap of `acquire` gives no order, so this
  is an assumption about the hardware: no CPU loses the race for ever); and init's
  loop in `user/init.c`.
* `Pipe`: as `Proc`, and every process exits in the end. Without it a reader may wait
  for ever for a writer that computes, which is right.
* `Bcache`: a holder of a buffer goes on to release it, and every process runs. For a
  process that uses a second buffer meanwhile this is strong fairness of the release:
  the loops of `itrunc` and `bmap` end. `sleeplock.c` keeps no queue, so nothing is assumed
  of who gets a free lock.
* `VirtioDisk`: the device serves each request, an interrupt that stays raised is taken
  and its handler runs on, and a woken process gets `vdisk_lock` in the end.
* `Console`: a process in a call, the handler and the UART go on.
* `Traps`: every hart goes on; strong fairness of a spinning hart, as in `Proc`; a process
  that makes no more calls exits (`sys_exit` is part of a hart's step).
* `Shell`: every process goes on, which the fairness of `Proc` gives.

`FileSys`, `Files` and `Memory` have no liveness properties; `NoCircularWait` states absence of
deadlock as a safety property.

## 4. What is proved

The theorems hold for every value of the constants that satisfies the named
assumption of the module, so for any number of processes, buffers, blocks or
descriptors and any size of a ring. "Run" is the run that checks the same property on
a small instance.

| module | theorem | statement | run |
|---|---|---|---|
| `LogTheorems` | `LogTypeOK` | `Spec => []TypeOK` | |
| | `LogDurable` | `Spec => []DurableOnReturn` | |
| | `LogWriteAhead` | `Spec => WriteAhead` | `log` |
| | `LogCrashAtomic` | `Spec => CrashAtomic`: the log implements `AtomicDisk` | `log` |
| | `LogNoPanic` | `Fits => (Spec => []NoPanic)` | |
| | `LogPinned` | `Fits => (Spec => []PinnedWhileLogged)` | `log` |
| `BcacheProofs` | `BcacheRefcntExact` | `Spec => []RefcntExact` | `shell` |
| | `BcacheReadsLatest` | `Spec => []ReadsLatest` | `shell` |
| `VirtioProofs` | `VirtioEachRequestInOnePlace` | `Spec => []EachRequestInOnePlace` | `virtio` |
| | `VirtioReturnsAfterTransfer` | `Spec => []ReturnsAfterTransfer` | `virtio` |
| `PipeProofs` | `PipeIsFifo` | `Spec => IsFifo`: a pipe implements `ByteChannel` | `pipe` |
| | `PipeNoStrandedSleeper` | `Spec => []NoStrandedSleeper` | `pipe` |
| | `PipeNotFreedInUse` | `Spec => []NotFreedInUse` | `pipe` |
| `ProcProofs` | `ProcStackNotShared` | `Spec => []StackNotShared` | `proc_safety` |
| | `ProcParentAlive` | `Spec => []ParentAlive` | `proc_safety` |
| | `ProcNoLostWakeup` | `Spec => []NoLostWakeup` | `proc_safety` |
| `InterruptProofs` | `ConsoleOutputIsFifo` | `ConsoleSpec => OutputIsFifo`: the output ring implements `ByteChannel` | `interrupts` |
| | `ConsoleNoOverrun` | `FIFO >= 3 => (ConsoleSpec => []NoOverrun)` | `interrupts` |
| | `TrapsSleepsLongEnough` | `TrapsSpec => []SleepsLongEnough` | `interrupts` |

None of the properties is inductive. Each module has an invariant that is (`IInv`, and
`PutInv`, `TxInv` and `NapInv` in `InterruptProofs`), a theorem or lemma that it holds, and
a lemma per action that it is preserved. `LogProofs` has the invariants of the log and the
lemmas per action, `LogTheorems` what follows from them. `Counting` names the facts on finite
sets that the proofs count with (`FiniteFacts`); each proof takes them as a hypothesis,
which the end of the module discharges from the library. What the invariants say:

**Log** (`LogAssumption`: types only).

* `HeaderInv`: a block occurs once in a header, and a header fits the log area. Without
  the first, installing a later slot could undo an earlier one.
* `CallInv`: `outstanding` is the number of processes in a call; a process is in
  commit only while `committing` is set, and then it is the only one and no call is
  in progress. This is why commit can run without `log.lock`.
* `StageInv`: what is on disk at each stage. While the log is written its first
  `tail` blocks agree with the cache; from the commit point on the header on disk is
  the header in memory and every log block agrees with the cache; the first `tail`
  home blocks are installed; and outside commit and recovery the header on disk is
  empty. Every block that is not in the header is the same in the cache and at
  home.
* `PinInv`: a block whose cached contents differ from its home is pinned, so
  eviction loses nothing.

The refinement rests on five lemmas on `Recovered`, what a reboot would find: it does
not change while the log is written (the header is empty), becomes the cache at the
commit point, and stays the same through each installed block, the erasure, a crash
and recovery. These theorems need no assumption on the sizes, because a log that is
too small ends in the panic of `log_write`, which stops the process and writes nothing.

**The space of the log.** That panic is finding 1 of section 5, so its absence has a
condition, `Fits`: a call writes fewer blocks than `begin_op` reserves for it, by enough
to make up for a log that is shorter than `LOGSIZE`. `ReserveInv` counts, over the calls in
progress, the blocks each may still write (`Spare`, a set of pairs), and says that they and
the header fit `LOGSIZE` together: `begin_op` adds `MAXOPBLOCKS` of them only if that much
is left, a write moves one to the header, or takes none if the block is absorbed, and
`end_op` gives the rest back. `PinExact` is `PinnedWhileLogged` with the stages of recovery.
The instance of the run `log` satisfies `Fits`; that of `log_reserve` does not.

**Bcache** (`BcacheAssumption`; `LockOrder` is not needed). A process that has a buffer has the one of its block, and
the owner of a sleep-lock is the process that is past `acquiresleep` (`UseInv`); a block is
cached once, and a pinned block is cached (`CacheInv`); the valid buffer has the last
contents, and so does the disk unless the block is pinned (`DataInv`); `RefcntExact`. The
last is what makes recycling safe: a buffer with `refcnt` 0 is nobody's and not pinned.

**VirtioDisk** (`VirtioAssumption`: finitely many processes, at least three descriptors, and
a width of the indices that is a multiple of their number). `ChainInv`: a waiting process
has three descriptors, linked, not free and shared with nobody, and the free ones and
these are all. `PlaceInv`: the heads of unfinished transfers are the union of the entries of
the avail ring, the device's requests and the entries of the used ring; the three are
disjoint, and no entry occurs twice in a ring. `DoneInv`: a used entry, and a waiting process
whose `b->disk` is clear, is of a transfer that was carried out. Since each transfer takes
three descriptors, a ring always has room for another entry: that the indices wrap
and slots are reused is then a matter of arithmetic, lemmas `PushEntry` and `PopEntry`.

**RingArith** has these lemmas, on remainders and on a ring as a set of entries, for
`VirtioProofs`, `PipeProofs` and `InterruptProofs`.

**Pipe** (`PipeAssumption`: the range of the counters is a larger multiple of `PIPESIZE`).
`RingInv`: `nread` and `nwrite` are the low bits of the numbers of bytes taken and sent, and
the ring holds the bytes in between; from this the refinement of `ByteChannel` follows.
`CallInv` and `EndInv`: who has the lock, and that the ends are open while a
process has one. `SleepInv` is `NoStrandedSleeper` strengthened for the time in which a reader
has already taken a byte and not yet called `wakeup`.

**Proc** (`ProcAssumption`). `LockInv`: who has `wait_lock` and each `p->lock`, by place in the
code. `StateInv`: which states go with which places. `ForkInv`: the child of a fork under way
belongs to that fork only. `TreeInv`: a parent is alive and has not begun to exit. `WaitInv`:
what `wait` has seen under `wait_lock` stays true until it sleeps and while it sleeps, and
an exiting child has woken its parent before it becomes a zombie. The conjuncts need each
other: `ParentAlive` depends on who holds `wait_lock` during `reparent`, and `NoLostWakeup` on
`ParentAlive`.

**Console** (`ConsoleAssumption`). `TxInv` is `RingInv` for the output ring. `PutInv`:
`uart_tx_lock` admits one to `uartstart` and `pr.lock` one to `printf`, so at most three, the
handler's echo included, are between reading the status of the UART and writing to it, and
what it holds plus those is at most three (`RoomInv`).

**Traps** (`TrapsAssumption`). `NapInv`: the time a sleep began is not in the future, and a
sleep that has returned 0 was long enough. The code compares `ticks - ticks0` modulo 2^32,
which is never more than the true difference (`WrapsDown`), so a sleep may be too long when
`ticks` wraps, but not too short.

TLC has checked each inductive invariant on the instance of the run before its proof
(with the byte number that `RingInv` and `TxInv` quantify over bounded).

## 5. Findings

1. **The log is one block shorter than `begin_op` believes** (`log_reserve`). `param.h:10`
   calls `LOGSIZE` the "max data blocks in on-disk log", and `begin_op` admits calls up to
   it, but `mkfs.c:25` gives the log `LOGSIZE` blocks with the header among them. Three
   calls that each write `MAXOPBLOCKS` blocks panic with "too big a transaction".
   `Files` shows that the split in `filewrite` can use the whole of `MAXOPBLOCKS`, when the
   blocks of a piece have their bits in different bitmap blocks. The disk of `param.h`
   (`FSSIZE` 1000) has one bitmap block, and a piece there logs at most seven: four of
   data, the indirect block, the bitmap and the inode.
2. **`kill(0)` kills the next process** (`proc_kill`). A free slot has pid 0 and `kill`
   does not look at the state; `allocproc` does not clear `killed`.
3. **`..` of a removed directory can name a free inode** (`filesys_dotdot`). With the
   current directory removed, and then its parent, `chdir("..")` panics in `ilock`.

## 6. Hazards

`PROJECT.json` lists, at the line where each one bites, what is hard to test in this
code, with the properties that would notice, or the reason why none does. The one
without a property is the inode that is unlinked and open at a crash.

## 7. Observations that are not findings

The models show these behaviours; no comment, test or assertion says otherwise.

* A writer killed with bytes in the ring returns from `pipewrite` without waking the
  readers; they wait until the next write or close (`fresh` in `Pipe`, exempted by
  `NoStrandedSleeper`).
* A process that is killed between the test of `killed` in `wait`, `piperead`, `pipewrite`,
  `consoleread` or `sys_sleep` and its sleep stays asleep until what it waits for happens.
* Several processes that wait for one buffer race for it each time, so one of them may
  lose for ever.
* `bget` panics when all buffers are in use or pinned, instead of waiting.
* `create` and `link` succeed in a removed directory that is still open; the link is lost
  with the directory and the link count of the file stays too large. `NlinkCovers` is
  therefore an inequality.
* `sbrk` by less than minus the size wraps to a larger size, leaves the process as it
  was and reports success.
* A crash leaks an inode that is unlinked and open.
* `mkfs` rounds the size of the root directory up by a whole block when its entries fill
  the last block exactly, and the directory then has a hole; `Fits` excludes it.
* A write that fails inside a block leaves bytes in the buffer that it does not log;
  readers see them until the buffer is recycled, and they stay if another call of the
  same transaction has logged the block. `ByteFile` tells them apart (`seen`, `kept`).
* `read` with a negative length is a read of a very large unsigned length; `sleep` with a
  negative argument compares unsigned, too, and sleeps for a very long time.
* `uartputc_sync` takes no lock: the echo, a `printf` and `uartstart` can each put a
  character in the UART when they have found it idle. This relies on the UART's FIFO
  (`NoOverrun` with room for three).
* A kernel that prints without end can keep a writer of the console waiting.
* The scheduler runs the rest of a round with interrupts off after a process has
  yielded in a trap; the next round turns them on again (`scheduler`).
* A traced call is printed in two `printf`s that others can come between; a traced
  `exit` never prints the second.
* `init` exits, and the kernel panics, when there is no process slot for the next
  shell: a command that still runs when the shell ends can fork into the slot that `init`
  has just reaped (`InitExits`).
* `kill(1)` makes `init` exit, which panics. The instances of `Proc` do not kill `init`.

## 8. What is only checked, and what is not modelled

Only checked by TLC, on the instances above, is what section 4 does not list:

* liveness (`CallsFinish`, `OrphansReaped`, `CallsReturn`, `BufferGranted`, `PromptReturns`,
  `TransferEnds`, `ConsoleCallsReturn`, `SleepersReturn`), which is out of the prover's reach;
* `Shell` (`ParsesGrammar`, `FilesExact`): the parser and the grammar are recursive operators,
  and what they compute cannot be proved by induction here;
* `Files` (`FilesAreBytes`, `BlocksPartitioned`, `NoHoles`, `TransactionFits`): `Init` is what
  `Mkfs` computes by folding over the files, so that the base case alone needs induction;
* the invariants of `FileSys` and `Memory`, `LocksSound` and `InterruptsRestored` of `Traps`, and
  `IsTerminal` of `Console`: their invariants have to describe the locals and the pending
  operations of every step of long calls, and have not been worked out.

Left out of the modules: device numbers (`FileSys`); the guard page's permission, the
kernel page table and the copying between user and kernel memory, whose failures are
choices of the callers (`Memory`, `Pipe`, `Files`, `Console`); exit statuses (`Proc`); the
set-up of the devices (`VirtioDisk`, `Console`); a full disk, which panics in `balloc`
(`Files`: the instance is large enough); control-P, which prints, and NUL, which is
ignored, and `panic` (`Console`); interrupts other than the timer, and what `exit` does before it
becomes a zombie (`Traps`); lines of 100 characters or more, which `gets` cuts, and an
`exec` of `sh` that fails in `init`, and a `fork` that finds no memory (`Shell`; `Memory`
has it). In `Memory` any process may reap any other
that is between calls, which includes every parent and child.

Not modelled: boot and assembly (they establish the initial states and save
registers); dispatch and `trace` (a table lookup, and one word that `fork` copies) and
`sysinfo` (two counts taken without locks, promised of no particular moment); the string
functions and the formatting of `printf` (data without state); `ramdisk.c` (not in the
build); `umalloc.c` and `grep.c` (sequential code of single programs); the small user
programs; and the test programs, which were read for what they expect.

## 9. What could be proved next

`ImageMapped` and `PagesConserved` of `Memory`; `LocksSound` of `Traps`; `IsTerminal` of `Console`;
`RefExact` of `FileSys`. `Shell` is out of reach, because its parser is recursive.
