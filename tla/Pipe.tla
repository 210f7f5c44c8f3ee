-------------------------------- MODULE Pipe --------------------------------
(***************************************************************************)
(* One pipe of xv6 (kernel/pipe.c) with the processes that hold its ends,  *)
(* including kill and the closing of the ends by fileclose.                *)
(*                                                                         *)
(* Atomicity.  pi->lock is explicit, and the loops of pipewrite and        *)
(* piperead take one step per byte, because p->killed is read without      *)
(* p->lock, the lock that kill takes.  For the same reason the test of     *)
(* p->killed and the sleep after it are two steps: a kill in between finds *)
(* nobody asleep.  wakeup is atomic with the step around it (module Proc). *)
(*                                                                         *)
(* Abstraction.  A byte is the number of bytes accepted before it plus     *)
(* one, so that loss, duplication and reordering show.  Each process holds *)
(* one end through one descriptor.  usertrap's test of p->killed is left   *)
(* out: a kill may arrive right after it, before the call takes pi->lock.  *)
(***************************************************************************)
EXTENDS Naturals, Sequences, FiniteSets

CONSTANTS
  Readers,   \* processes that hold the read end
  Writers,   \* processes that hold the write end
  None,      \* no process
  PIPESIZE,  \* pipe.c: size of the ring
  UINT,      \* the counters are unsigned: they wrap at 2^32
  Lengths,   \* the lengths n passed to read and write
  MaxSent    \* bound: the bytes accepted in a behaviour

Proc == Readers \cup Writers

ASSUME PipeAssumption ==
  /\ Readers \cap Writers = {} /\ Readers # {} /\ Writers # {}
  /\ None \notin Proc
  /\ PIPESIZE \in Nat \ {0}
  /\ UINT \in Nat
  /\ UINT % PIPESIZE = 0 /\ UINT > PIPESIZE
  /\ Lengths \subseteq Nat
  /\ MaxSent \in Nat

VARIABLES
  data,       \* pi->data
  nread,      \* pi->nread
  nwrite,     \* pi->nwrite
  readopen,   \* pi->readopen
  writeopen,  \* pi->writeopen
  lock,       \* the process that holds pi->lock
  holds,      \* the processes whose descriptor is open
  killed,     \* p->killed
  pc,         \* where a process is
  left,       \* n - i of the call in progress
  sent,       \* history: bytes accepted by pipewrite
  taken,      \* history: bytes removed by piperead
  fresh       \* history: bytes were written since the last wakeup(&pi->nread)

ring  == <<data, nread, nwrite, sent, taken>>
ends  == <<readopen, writeopen, holds>>
vars  == <<data, nread, nwrite, readopen, writeopen, lock, holds, killed, pc,
           left, sent, taken, fresh>>

\* After pipealloc and the forks that hand the ends to the processes.
Init ==
  /\ data = [k \in 0..(PIPESIZE - 1) |-> 0]
  /\ nread = 0 /\ nwrite = 0
  /\ readopen = TRUE /\ writeopen = TRUE
  /\ lock = None
  /\ holds = Proc
  /\ killed = [p \in Proc |-> FALSE]
  /\ pc = [p \in Proc |-> "user"]
  /\ left = [p \in Proc |-> 0]
  /\ sent = 0 /\ taken = << >>
  /\ fresh = FALSE

\* nread++ and nwrite++.
Inc(n) == (n + 1) % UINT

Empty == nread = nwrite

\* Mutant: the sum does not wrap.
Full_no_wrap == nwrite = nread + PIPESIZE

Full == nwrite = (nread + PIPESIZE) % UINT

\* Mutant: the wakeup is missing.
WakeWriters_missing(f) == f

\* wakeup(&pi->nread) and wakeup(&pi->nwrite) applied to program counters f.
WakeReaders(f) == [p \in Proc |-> IF f[p] = "read_sleep" THEN "read_woken" ELSE f[p]]
WakeWriters(f) == [p \in Proc |-> IF f[p] = "write_sleep" THEN "write_woken" ELSE f[p]]

Acquire(p, from, to) ==
  /\ lock = None
  /\ pc[p] \in from
  /\ lock' = p
  /\ pc' = [pc EXCEPT ![p] = to]

-----------------------------------------------------------------------------
(* pipewrite *)

pipewrite(p, n) ==
  /\ p \in holds
  /\ Acquire(p, {"user"}, "write")
  /\ left' = [left EXCEPT ![p] = n]
  /\ UNCHANGED <<ring, ends, killed, fresh>>

write_resume(p) ==
  /\ Acquire(p, {"write_woken"}, "write")
  /\ UNCHANGED <<ring, ends, killed, left, fresh>>

\* The early return: no reader is left, or the writer has been killed.
write_abort(p) ==
  /\ pc[p] = "write" /\ left[p] > 0
  /\ ~readopen \/ killed[p]
  /\ lock' = None
  /\ pc' = [pc EXCEPT ![p] = "user"]
  /\ left' = [left EXCEPT ![p] = 0]
  /\ UNCHANGED <<ring, ends, killed, fresh>>

\* The pipe is full and the writer has not been killed: it is going to sleep.
write_full(p) ==
  /\ pc[p] = "write" /\ left[p] > 0
  /\ readopen /\ ~killed[p] /\ Full
  /\ pc' = WakeReaders([pc EXCEPT ![p] = "write_full"])
  /\ fresh' = FALSE
  /\ UNCHANGED <<ring, ends, lock, killed, left>>

\* sleep takes p->lock and gives up pi->lock.
Sleep(p, from, to) ==
  /\ pc[p] = from
  /\ lock' = None
  /\ pc' = [pc EXCEPT ![p] = to]

write_sleep(p) ==
  /\ Sleep(p, "write_full", "write_sleep")
  /\ UNCHANGED <<ring, ends, killed, left, fresh>>

write_byte(p) ==
  /\ pc[p] = "write" /\ left[p] > 0
  /\ readopen /\ ~killed[p] /\ ~Full
  /\ sent < MaxSent
  /\ data' = [data EXCEPT ![nwrite % PIPESIZE] = sent + 1]
  /\ nwrite' = Inc(nwrite)
  /\ sent' = sent + 1
  /\ left' = [left EXCEPT ![p] = @ - 1]
  /\ fresh' = TRUE
  /\ UNCHANGED <<nread, taken, ends, lock, killed, pc>>

\* The loop ends: all bytes are written, or copyin fails.
write_done(p) ==
  /\ pc[p] = "write"
  /\ left[p] = 0 \/ (readopen /\ ~killed[p] /\ ~Full)
  /\ lock' = None
  /\ pc' = WakeReaders([pc EXCEPT ![p] = "user"])
  /\ left' = [left EXCEPT ![p] = 0]
  /\ fresh' = FALSE
  /\ UNCHANGED <<ring, ends, killed>>

-----------------------------------------------------------------------------
(* piperead *)

piperead(p, n) ==
  /\ p \in holds
  /\ Acquire(p, {"user"}, "read")
  /\ left' = [left EXCEPT ![p] = n]
  /\ UNCHANGED <<ring, ends, killed, fresh>>

read_resume(p) ==
  /\ Acquire(p, {"read_woken"}, "read")
  /\ UNCHANGED <<ring, ends, killed, left, fresh>>

\* The early return: there is nothing to read, and the reader has been killed.
read_abort(p) ==
  /\ pc[p] = "read"
  /\ Empty /\ writeopen /\ killed[p]
  /\ lock' = None
  /\ pc' = [pc EXCEPT ![p] = "user"]
  /\ UNCHANGED <<ring, ends, killed, left, fresh>>

\* The first loop: the reader is going to sleep, or has something to copy.
read_wait(p) ==
  /\ pc[p] = "read"
  /\ \/ /\ Empty /\ writeopen /\ ~killed[p]
        /\ pc' = [pc EXCEPT ![p] = "read_empty"]
     \/ /\ ~Empty \/ ~writeopen
        /\ pc' = [pc EXCEPT ![p] = "copy"]
  /\ UNCHANGED <<ring, ends, lock, killed, left, fresh>>

read_sleep(p) ==
  /\ Sleep(p, "read_empty", "read_sleep")
  /\ UNCHANGED <<ring, ends, killed, left, fresh>>

\* A byte leaves the ring before copyout; when copyout fails the loop ends.
read_byte(p) ==
  /\ pc[p] = "copy" /\ left[p] > 0 /\ ~Empty
  /\ nread' = Inc(nread)
  /\ taken' = Append(taken, data[nread % PIPESIZE])
  /\ \E copied \in BOOLEAN : left' = [left EXCEPT ![p] = IF copied THEN @ - 1 ELSE 0]
  /\ UNCHANGED <<data, nwrite, sent, ends, lock, killed, pc, fresh>>

read_done(p) ==
  /\ pc[p] = "copy"
  /\ left[p] = 0 \/ Empty
  /\ lock' = None
  /\ pc' = WakeWriters([pc EXCEPT ![p] = "user"])
  /\ left' = [left EXCEPT ![p] = 0]
  /\ UNCHANGED <<ring, ends, killed, fresh>>
-----------------------------------------------------------------------------
(* kill and close *)

\* kill() from another process takes p->lock, not pi->lock.  A sleeping victim is
\* made runnable; one that is going to sleep is not asleep yet.
kill(p) ==
  /\ p \in holds
  /\ killed' = [killed EXCEPT ![p] = TRUE]
  /\ pc' = [pc EXCEPT ![p] = IF @ = "read_sleep" THEN "read_woken"
                             ELSE IF @ = "write_sleep" THEN "write_woken" ELSE @]
  /\ UNCHANGED <<ring, ends, lock, left, fresh>>

\* Mutant: the first close of an end closes it for all.
EndOpen_first_close(end, h) == end \subseteq h

\* f->ref of an end is not 0.
EndOpen(end, h) == end \cap h # {}

\* close() or exit(): fileclose of p's descriptor, and pipeclose of its end when
\* it was the last one.
fileclose(p) ==
  /\ pc[p] = "user" /\ p \in holds /\ lock = None
  /\ holds' = holds \ {p}
  /\ readopen' = EndOpen(Readers, holds')
  /\ writeopen' = EndOpen(Writers, holds')
  /\ pc' = IF readopen' = readopen /\ writeopen' = writeopen THEN pc
           ELSE IF p \in Writers THEN WakeReaders(pc) ELSE WakeWriters(pc)
  /\ fresh' = (fresh /\ writeopen')
  /\ UNCHANGED <<ring, lock, killed, left>>

-----------------------------------------------------------------------------

Write(p) == \/ write_resume(p) \/ write_abort(p) \/ write_full(p)
            \/ write_sleep(p) \/ write_byte(p) \/ write_done(p)

Read(p) == \/ read_resume(p) \/ read_abort(p) \/ read_wait(p) \/ read_sleep(p)
           \/ read_byte(p) \/ read_done(p)

Next ==
  \/ \E p \in Writers : (\E n \in Lengths : pipewrite(p, n)) \/ Write(p)
  \/ \E p \in Readers : (\E n \in Lengths : piperead(p, n)) \/ Read(p)
  \/ \E p \in Proc : kill(p) \/ fileclose(p)

Spec == Init /\ [][Next]_vars

\* A call goes on once it has started, a spinning process gets the lock, and
\* every process exits in the end, which closes its descriptor.
Fairness ==
  /\ \A p \in Writers : SF_vars(Write(p))
  /\ \A p \in Readers : SF_vars(Read(p))
  /\ \A p \in Proc : SF_vars(fileclose(p))

FairSpec == Spec /\ Fairness

-----------------------------------------------------------------------------
(* Properties *)

\* The bytes between the two counters, oldest first.
InFlight == (nwrite + UINT - nread) % UINT
Queue == [k \in 1..InFlight |-> data[(nread + k - 1) % PIPESIZE]]

Channel == INSTANCE ByteChannel WITH Capacity <- PIPESIZE, queue <- Queue

\* pipewrite and piperead (pipe.c:76-130) implement a bounded FIFO channel: no
\* byte is lost in the ring, duplicated, reordered or overwritten, whatever the
\* number of readers and writers, also when the unsigned counters wrap.
IsFifo == Channel!Spec

\* Nobody sleeps on a condition that holds.  A writer asleep on &pi->nwrite
\* (pipe.c:90) has a full pipe and a reader; a reader asleep on &pi->nread
\* (pipe.c:118) has an empty pipe and a writer, with one exception: a writer that
\* was killed in mid-write returns from line 86 without the wakeup of line 99.
NoStrandedSleeper ==
  lock = None =>
    /\ \A p \in Writers : pc[p] = "write_sleep" => Full /\ readopen
    /\ \A p \in Readers : pc[p] = "read_sleep" => (Empty /\ writeopen) \/ fresh

\* The page that holds the pipe is freed (pipe.c:69-71) when no process has the
\* pipe in use: not asleep on it, not in a call.
NotFreedInUse ==
  ~readopen /\ ~writeopen => lock = None /\ \A p \in Proc : pc[p] = "user"

\* A process blocked in a pipe returns to user space when the processes at the
\* other end go on reading or writing, are killed, or exit.  So does one that was
\* killed after it looked at p->killed and before it slept, whom the kill did not
\* wake (pipe.c:85-90, 114-118): the other end wakes it.
CallsReturn ==
  \A p \in Proc : pc[p] \in {"read_sleep", "write_sleep"} ~> pc[p] = "user"
=============================================================================
