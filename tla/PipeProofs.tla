----------------------------- MODULE PipeProofs -----------------------------
(***************************************************************************)
(* Proofs about module Pipe, for any readers and writers, any size of the  *)
(* ring and any width of the counters: the pipe implements the FIFO        *)
(* channel, nobody sleeps on a condition that holds, and the pipe is freed *)
(* only when nobody uses it.                                               *)
(***************************************************************************)
EXTENDS Pipe, Integers, TLAPS, RingArith

\* The counters are the low bits of the numbers of bytes sent and taken; the ring
\* holds the bytes in between.
RingInv ==
  /\ sent \in Nat /\ taken \in Seq(Nat)
  /\ Len(taken) <= sent /\ sent <= Len(taken) + PIPESIZE
  /\ nread = Len(taken) % UINT
  /\ nwrite = sent % UINT
  /\ data \in [0 .. PIPESIZE - 1 -> Nat]
  /\ \A k \in Nat : Len(taken) <= k /\ k < sent => data[k % PIPESIZE] = k + 1

WriterPc == {"user", "write", "write_full", "write_sleep", "write_woken"}
ReaderPc == {"user", "read", "read_empty", "copy", "read_sleep", "read_woken"}
InLock   == {"write", "write_full", "read", "read_empty", "copy"}

\* Who is where: one process has the lock, and a process in a call has its end open.
CallInv ==
  /\ pc \in [Proc -> WriterPc \cup ReaderPc]
  /\ left \in [Proc -> Nat]
  /\ killed \in [Proc -> BOOLEAN]
  /\ \A p \in Writers : pc[p] \in WriterPc
  /\ \A p \in Readers : pc[p] \in ReaderPc
  /\ lock \in Proc \cup {None}
  /\ \A p \in Proc : pc[p] \in InLock <=> lock = p
  /\ holds \subseteq Proc
  /\ \A p \in Proc : pc[p] # "user" => p \in holds

EndInv ==
  /\ readopen = EndOpen(Readers, holds)
  /\ writeopen = EndOpen(Writers, holds)

\* A sleeping writer waits for a reader, also while one is about to wake it; a
\* sleeping reader waits for a writer.  A process that is going to sleep has the lock,
\* so that what it found still holds.
SleepInv ==
  /\ fresh \in BOOLEAN
  /\ \A p \in Writers : pc[p] = "write_sleep" =>
       readopen /\ (Full \/ \E q \in Readers : pc[q] = "copy")
  /\ \A p \in Readers : pc[p] = "read_sleep" => writeopen /\ (Empty \/ fresh)
  /\ \A p \in Writers : pc[p] = "write_full" => readopen /\ Full
  /\ \A p \in Readers : pc[p] = "read_empty" => writeopen /\ Empty

IInv == RingInv /\ CallInv /\ EndInv /\ SleepInv

-----------------------------------------------------------------------------
(* What the counters say *)

LEMMA CounterInc ==
  ASSUME NEW n \in Nat
  PROVE  Inc(n % UINT) = (n + 1) % UINT
<1>1. UINT \in Nat \ {0}
  BY PipeAssumption
<1> QED
  BY <1>1, ModAdd, SMTT(30) DEF Inc

\* The slot of a byte can be computed from a counter that has wrapped.
LEMMA SlotOf ==
  ASSUME NEW n \in Nat
  PROVE  (n % UINT) % PIPESIZE = n % PIPESIZE /\ n % PIPESIZE \in 0 .. PIPESIZE - 1
<1>1. UINT \in Nat \ {0} /\ PIPESIZE \in Nat \ {0} /\ UINT % PIPESIZE = 0
  BY PipeAssumption
<1> QED
  BY <1>1, ModMod, DivMod, ZenonT(30)

LEMMA EmptyIs == RingInv => (Empty <=> Len(taken) = sent)
<1> SUFFICES ASSUME RingInv PROVE Empty <=> Len(taken) = sent
  OBVIOUS
<1>1. Len(taken) \in Nat /\ UINT \in Nat \ {0} /\ sent < Len(taken) + UINT
  BY PipeAssumption DEF RingInv
<1> QED
  BY <1>1, ModInjective, Zenon DEF RingInv, Empty

LEMMA FullIs == RingInv => (Full <=> sent = Len(taken) + PIPESIZE)
<1> SUFFICES ASSUME RingInv PROVE Full <=> sent = Len(taken) + PIPESIZE
  OBVIOUS
<1> DEFINE top == Len(taken) + PIPESIZE
<1>1. /\ Len(taken) \in Nat /\ PIPESIZE \in Nat /\ top \in Nat /\ UINT \in Nat \ {0}
      /\ sent \in Nat /\ sent <= top /\ top < sent + UINT
  BY PipeAssumption DEF RingInv
<1>2. (nread + PIPESIZE) % UINT = top % UINT
  BY <1>1, ModAdd, Zenon DEF RingInv
<1>3. Full <=> sent % UINT = top % UINT
  BY <1>2 DEF RingInv, Full
<1> HIDE DEF top
<1>4. sent % UINT = top % UINT => sent = top
  BY <1>1, ModInjective, Zenon
<1> QED
  BY <1>3, <1>4 DEF top

\* The bytes in the ring are those that were sent and not taken, in order.
LEMMA QueueIs ==
  RingInv => Queue = [k \in 1 .. sent - Len(taken) |-> Len(taken) + k]
<1> SUFFICES ASSUME RingInv
             PROVE  Queue = [k \in 1 .. sent - Len(taken) |-> Len(taken) + k]
  OBVIOUS
<1> DEFINE T == Len(taken)
<1>1. /\ T \in Nat /\ sent \in Nat /\ UINT \in Nat \ {0} /\ PIPESIZE \in Nat \ {0}
      /\ T <= sent /\ sent < T + UINT /\ UINT % PIPESIZE = 0
      /\ nread = T % UINT /\ nwrite = sent % UINT
      /\ \A k \in Nat : T <= k /\ k < sent => data[k % PIPESIZE] = k + 1
  BY PipeAssumption DEF RingInv
<1> HIDE DEF T
<1>2. InFlight = sent - T
  BY <1>1, ModDiff, Zenon DEF InFlight
<1>3. ASSUME NEW k \in 1 .. sent - T
      PROVE  data[(nread + k - 1) % PIPESIZE] = T + k
  <2>1. PICK j \in Nat : k = j + 1 /\ T + j < sent
    BY <1>1
  <2>2. nread \in Nat /\ nread + k - 1 = nread + j
    BY <1>1, <2>1, DivMod
  <2>3. (nread + j) % PIPESIZE = ((nread % PIPESIZE) + j) % PIPESIZE
    BY <1>1, <2>2, ModAdd
  <2>4. nread % PIPESIZE = T % PIPESIZE
    BY <1>1, ModMod, ZenonT(30)
  <2>5. ((T % PIPESIZE) + j) % PIPESIZE = (T + j) % PIPESIZE
    BY <1>1, ModAdd, ZenonT(30)
  <2>6. T + j \in Nat /\ T <= T + j
    BY <1>1
  <2>7. data[(T + j) % PIPESIZE] = T + j + 1
    BY <1>1, <2>1, <2>6, Zenon
  <2> QED
    BY <2>1, <2>2, <2>3, <2>4, <2>5, <2>7, <1>1
<1> QED
  BY <1>2, <1>3 DEF Queue, T

-----------------------------------------------------------------------------
(* The invariant *)

LEMMA IInvInit == Init => IInv
<1> SUFFICES ASSUME Init PROVE IInv
  OBVIOUS
<1> USE PipeAssumption
<1>1. RingInv
  <2>1. 0 % UINT = 0
    BY SMT
  <2> QED
    BY <2>1 DEF Init, RingInv
<1>2. CallInv
  BY DEF Init, CallInv, WriterPc, ReaderPc, InLock, Proc
<1>3. EndInv
  BY Zenon DEF Init, EndInv, EndOpen, Proc
<1>4. SleepInv
  BY Zenon DEF Init, SleepInv, Proc
<1> QED
  BY <1>1, <1>2, <1>3, <1>4 DEF IInv

\* The bytes move in two actions only.
LEMMA RingSteps ==
  [Next]_vars => \/ UNCHANGED ring
                 \/ \E p \in Writers : write_byte(p)
                 \/ \E p \in Readers : read_byte(p)
BY Zenon DEF Next, Write, Read, vars, ring, pipewrite, write_resume, write_abort, write_full,
       write_sleep, write_done, piperead, read_resume, read_abort, read_wait, read_sleep,
       read_done, kill, fileclose

\* A byte is written only when the ring has room, so it overwrites none.
LEMMA RingWrite ==
  ASSUME RingInv, NEW p \in Writers, write_byte(p)
  PROVE  RingInv' /\ sent' = sent + 1 /\ taken' = taken /\ sent < Len(taken) + PIPESIZE
<1> DEFINE T == Len(taken)
<1>1. /\ T \in Nat /\ sent \in Nat /\ PIPESIZE \in Nat \ {0}
      /\ T <= sent /\ sent <= T + PIPESIZE
  BY PipeAssumption DEF RingInv
<1>2. sent < T + PIPESIZE
  BY <1>1, FullIs DEF write_byte
<1>3. sent' = sent + 1 /\ taken' = taken /\ nread' = nread
  BY DEF write_byte
<1>4. nwrite' = sent' % UINT
  BY <1>3, CounterInc DEF write_byte, RingInv
<1>5. data' = [data EXCEPT ![sent % PIPESIZE] = sent + 1]
  BY SlotOf, Zenon DEF write_byte, RingInv
<1>6. /\ data \in [0 .. PIPESIZE - 1 -> Nat] /\ sent % PIPESIZE \in 0 .. PIPESIZE - 1
      /\ sent + 1 \in Nat
  <2>1. sent \in Nat /\ sent + 1 \in Nat
    BY <1>1
  <2>2. sent % PIPESIZE \in 0 .. PIPESIZE - 1
    BY <2>1, SlotOf
  <2> QED
    BY <2>1, <2>2 DEF RingInv
<1>7. data' \in [0 .. PIPESIZE - 1 -> Nat]
  BY <1>5, <1>6
<1>8. ASSUME NEW k \in Nat, T <= k, k < sent'
      PROVE  data'[k % PIPESIZE] = k + 1
  <2>1. CASE k = sent
    BY <2>1, <1>5, <1>6
  <2>2. CASE k # sent
    <3>1. k < sent /\ k <= sent /\ sent < k + PIPESIZE
      BY <2>2, <1>1, <1>2, <1>3, <1>8
    <3>2. k % PIPESIZE # sent % PIPESIZE
      <4>1. sent \in Nat /\ PIPESIZE \in Nat \ {0}
        BY <1>1
      <4> QED
        BY <4>1, <3>1, <2>2, ModInjective, Zenon
    <3>3. k % PIPESIZE \in 0 .. PIPESIZE - 1
      BY SlotOf
    <3>4. data[k % PIPESIZE] = k + 1
      BY <3>1, <1>8 DEF RingInv
    <3> QED
      BY <3>2, <3>3, <3>4, <1>5, <1>6
  <2> QED
    BY <2>1, <2>2
<1>9. nread' = Len(taken') % UINT /\ taken' \in Seq(Nat)
  BY <1>3 DEF RingInv
<1>10. sent' \in Nat /\ Len(taken') <= sent' /\ sent' <= Len(taken') + PIPESIZE
  BY <1>1, <1>2, <1>3
<1>11. \A k \in Nat : Len(taken') <= k /\ k < sent' => data'[k % PIPESIZE] = k + 1
  BY <1>3, <1>8
<1> QED
  BY <1>2, <1>3, <1>4, <1>7, <1>9, <1>10, <1>11 DEF RingInv

\* The byte that is read is the oldest one.
LEMMA RingRead ==
  ASSUME RingInv, NEW p \in Readers, read_byte(p)
  PROVE  RingInv' /\ sent' = sent /\ taken' = Append(taken, Len(taken) + 1) /\ Len(taken) < sent
<1> DEFINE T == Len(taken)
<1>1. /\ T \in Nat /\ sent \in Nat /\ PIPESIZE \in Nat \ {0} /\ taken \in Seq(Nat)
      /\ T <= sent /\ sent <= T + PIPESIZE
  BY PipeAssumption DEF RingInv
<1>2. T < sent
  BY <1>1, EmptyIs DEF read_byte
<1>3. sent' = sent /\ nwrite' = nwrite /\ data' = data
  BY DEF read_byte
<1>4. data[T % PIPESIZE] = T + 1
  BY <1>1, <1>2, SMTT(30) DEF RingInv
<1>5. taken' = Append(taken, T + 1)
  BY <1>1, <1>4, SlotOf, Zenon DEF read_byte, RingInv
<1>6. taken' \in Seq(Nat) /\ Len(taken') = T + 1
  BY <1>1, <1>5
<1>7. nread' = Len(taken') % UINT
  <2>1. nread = T % UINT /\ nread' = Inc(nread)
    BY DEF read_byte, RingInv
  <2>2. Inc(T % UINT) = (T + 1) % UINT
    BY <1>1, CounterInc
  <2> QED
    BY <2>1, <2>2, <1>6
<1>8. Len(taken') <= sent' /\ sent' <= Len(taken') + PIPESIZE
  BY <1>1, <1>2, <1>3, <1>6
<1>9. \A k \in Nat : Len(taken') <= k /\ k < sent' => data'[k % PIPESIZE] = k + 1
  <2>1. ASSUME NEW k \in Nat, T + 1 <= k, k < sent
        PROVE  data[k % PIPESIZE] = k + 1
    BY <2>1, <1>1 DEF RingInv
  <2> QED
    BY <2>1, <1>3, <1>6
<1> QED
  BY <1>2, <1>3, <1>5, <1>6, <1>7, <1>8, <1>9 DEF RingInv

\* No other action touches the ring.
LEMMA RingNext == RingInv /\ [Next]_vars => RingInv'
<1> SUFFICES ASSUME RingInv, [Next]_vars PROVE RingInv'
  OBVIOUS
<1>1. CASE UNCHANGED ring
  BY <1>1 DEF RingInv, ring
<1>2. ASSUME NEW p \in Writers, write_byte(p) PROVE RingInv'
  BY <1>2, RingWrite
<1>3. ASSUME NEW p \in Readers, read_byte(p) PROVE RingInv'
  BY <1>3, RingRead
<1>4. \/ UNCHANGED ring
      \/ \E p \in Writers : write_byte(p)
      \/ \E p \in Readers : read_byte(p)
  BY RingSteps
<1> QED
  BY <1>1, <1>2, <1>3, <1>4

LEMMA CallNext == CallInv /\ [Next]_vars => CallInv'
<1> SUFFICES ASSUME CallInv, [Next]_vars PROVE CallInv'
  OBVIOUS
<1>0. Readers \cap Writers = {} /\ None \notin Readers \cup Writers /\ Lengths \subseteq Nat
  BY PipeAssumption DEF Proc
<1> USE <1>0 DEF CallInv, WriterPc, ReaderPc, InLock, Proc, ends
<1>1. ASSUME NEW p \in Writers, NEW n \in Lengths, pipewrite(p, n) PROVE CallInv'
  BY <1>1 DEF pipewrite, Acquire
<1>2. ASSUME NEW p \in Writers, write_resume(p) PROVE CallInv'
  BY <1>2 DEF write_resume, Acquire
<1>3. ASSUME NEW p \in Writers, write_abort(p) PROVE CallInv'
  BY <1>3 DEF write_abort
<1>4. ASSUME NEW p \in Writers, write_full(p) PROVE CallInv'
  BY <1>4 DEF write_full, WakeReaders
<1>5. ASSUME NEW p \in Writers, write_byte(p) PROVE CallInv'
  BY <1>5 DEF write_byte
<1>6. ASSUME NEW p \in Writers, write_done(p) PROVE CallInv'
  BY <1>6 DEF write_done, WakeReaders
<1>7. ASSUME NEW p \in Readers, NEW n \in Lengths, piperead(p, n) PROVE CallInv'
  BY <1>7 DEF piperead, Acquire
<1>8. ASSUME NEW p \in Readers, read_resume(p) PROVE CallInv'
  BY <1>8 DEF read_resume, Acquire
<1>9. ASSUME NEW p \in Readers, read_wait(p) PROVE CallInv'
  BY <1>9 DEF read_wait
<1>10. ASSUME NEW p \in Readers, read_byte(p) PROVE CallInv'
  BY <1>10 DEF read_byte
<1>11. ASSUME NEW p \in Readers, read_done(p) PROVE CallInv'
  BY <1>11 DEF read_done, WakeWriters
<1>12. ASSUME NEW p \in Proc, kill(p) PROVE CallInv'
  BY <1>12 DEF kill
<1>13. ASSUME NEW p \in Proc, fileclose(p) PROVE CallInv'
  BY <1>13 DEF fileclose, WakeReaders, WakeWriters
<1>14. ASSUME NEW p \in Writers, write_sleep(p) PROVE CallInv'
  BY <1>14 DEF write_sleep, Sleep
<1>15. ASSUME NEW p \in Readers, read_abort(p) PROVE CallInv'
  BY <1>15 DEF read_abort
<1>16. ASSUME NEW p \in Readers, read_sleep(p) PROVE CallInv'
  BY <1>16 DEF read_sleep, Sleep
<1>17. CASE UNCHANGED vars
  BY <1>17, SMTT(30) DEF vars
<1> HIDE DEF CallInv, WriterPc, ReaderPc, InLock, Proc, ends
<1> QED
  BY <1>1, <1>2, <1>3, <1>4, <1>5, <1>6, <1>7, <1>8, <1>9, <1>10, <1>11, <1>12, <1>13, <1>14,
     <1>15, <1>16, <1>17 DEF Next, Write, Read

\* fileclose is the only action that changes an end.
LEMMA EndNext == EndInv /\ [Next]_vars => EndInv'
BY Zenon DEF EndInv, ends, Next, Write, Read, vars, pipewrite, write_resume, write_abort, write_full,
       write_sleep, write_byte, write_done, piperead, read_resume, read_abort, read_wait, read_sleep,
       read_byte, read_done, kill, fileclose

LEMMA SleepNext == CallInv /\ EndInv /\ SleepInv /\ [Next]_vars => SleepInv'
<1> SUFFICES ASSUME CallInv, EndInv, SleepInv, [Next]_vars PROVE SleepInv'
  OBVIOUS
<1>0. Readers \cap Writers = {} /\ None \notin Readers \cup Writers
  BY PipeAssumption DEF Proc
<1> USE <1>0 DEF CallInv, SleepInv, WriterPc, ReaderPc, InLock, Proc, ends, ring
<1>1. ASSUME NEW p \in Writers, NEW n \in Lengths, pipewrite(p, n) PROVE SleepInv'
  BY <1>1 DEF pipewrite, Acquire, Full, Empty
<1>2. ASSUME NEW p \in Writers, write_resume(p) PROVE SleepInv'
  BY <1>2 DEF write_resume, Acquire, Full, Empty
<1>3. ASSUME NEW p \in Writers, write_abort(p) PROVE SleepInv'
  BY <1>3 DEF write_abort, Full, Empty
<1>4. ASSUME NEW p \in Writers, write_full(p) PROVE SleepInv'
  BY <1>4, Zenon DEF write_full, WakeReaders, Full, Empty
<1>5. ASSUME NEW p \in Writers, write_byte(p) PROVE SleepInv'
  BY <1>5 DEF write_byte, Full, Empty
<1>6. ASSUME NEW p \in Writers, write_done(p) PROVE SleepInv'
  BY <1>6, Zenon DEF write_done, WakeReaders, Full, Empty
<1>7. ASSUME NEW p \in Readers, NEW n \in Lengths, piperead(p, n) PROVE SleepInv'
  BY <1>7 DEF piperead, Acquire, Full, Empty
<1>8. ASSUME NEW p \in Readers, read_resume(p) PROVE SleepInv'
  BY <1>8 DEF read_resume, Acquire, Full, Empty
<1>9. ASSUME NEW p \in Readers, read_wait(p) PROVE SleepInv'
  BY <1>9 DEF read_wait, Full, Empty
<1>10. ASSUME NEW p \in Readers, read_byte(p) PROVE SleepInv'
  BY <1>10 DEF read_byte, Full, Empty
<1>11. ASSUME NEW p \in Readers, read_done(p) PROVE SleepInv'
  BY <1>11 DEF read_done, WakeWriters, Full, Empty
<1>12. ASSUME NEW p \in Proc, kill(p) PROVE SleepInv'
  BY <1>12 DEF kill, Full, Empty
<1>13. ASSUME NEW p \in Proc, fileclose(p) PROVE SleepInv'
  BY <1>13 DEF fileclose, WakeReaders, WakeWriters, EndInv, EndOpen, Full, Empty
<1>14. ASSUME NEW p \in Writers, write_sleep(p) PROVE SleepInv'
  BY <1>14 DEF write_sleep, Sleep, Full, Empty
<1>15. ASSUME NEW p \in Readers, read_abort(p) PROVE SleepInv'
  BY <1>15 DEF read_abort, Full, Empty
<1>16. ASSUME NEW p \in Readers, read_sleep(p) PROVE SleepInv'
  BY <1>16 DEF read_sleep, Sleep, Full, Empty
<1>17. CASE UNCHANGED vars
  BY <1>17, SMTT(30) DEF vars, Full, Empty
<1> HIDE DEF CallInv, SleepInv, WriterPc, ReaderPc, InLock, Proc, ends, ring
<1> QED
  BY <1>1, <1>2, <1>3, <1>4, <1>5, <1>6, <1>7, <1>8, <1>9, <1>10, <1>11, <1>12, <1>13, <1>14,
     <1>15, <1>16, <1>17 DEF Next, Write, Read

-----------------------------------------------------------------------------
(* The theorems *)

\* The four parts of the invariant hold in every reachable state of pipe.c.
THEOREM PipeInvariant == Spec => []IInv
<1>1. Init => IInv
  BY IInvInit
<1>2. IInv /\ [Next]_vars => IInv'
  BY RingNext, CallNext, EndNext, SleepNext DEF IInv
<1> QED
  BY <1>1, <1>2, PTL DEF Spec

\* Nobody sleeps on a condition that holds (pipe.c:90, pipe.c:118), for any number
\* of readers and writers: pipewrite and piperead lose no wakeup, but for the one
\* that NoStrandedSleeper exempts.
THEOREM PipeNoStrandedSleeper == Spec => []NoStrandedSleeper
<1>1. IInv => NoStrandedSleeper
  <2> SUFFICES ASSUME IInv, lock = None PROVE NoStrandedSleeper
    BY DEF NoStrandedSleeper
  <2>1. \A q \in Readers : pc[q] # "copy"
    BY PipeAssumption DEF IInv, CallInv, InLock, Proc
  <2> QED
    BY <2>1 DEF IInv, SleepInv, NoStrandedSleeper
<1> QED
  BY <1>1, PipeInvariant, PTL

\* pipeclose frees the page of the pipe (pipe.c:69-71) only when no process is in a
\* call on it or asleep on it.
THEOREM PipeNotFreedInUse == Spec => []NotFreedInUse
<1>1. IInv => NotFreedInUse
  BY Zenon DEF IInv, CallInv, EndInv, EndOpen, InLock, Proc, NotFreedInUse
<1> QED
  BY <1>1, PipeInvariant, PTL

\* pipewrite and piperead (pipe.c:76-130) implement a bounded FIFO channel, whatever
\* PIPESIZE, as long as it divides the range of the counters.
THEOREM PipeIsFifo == Spec => IsFifo
<1> DEFINE Bytes(t, n) == [k \in 1 .. n - Len(t) |-> Len(t) + k]
<1>1. Init => Channel!Init
  <2> SUFFICES ASSUME Init PROVE Channel!Init
    OBVIOUS
  <2>1. Queue = Bytes(<<>>, 0)
    BY IInvInit, QueueIs DEF IInv, Init
  <2> QED
    BY <2>1 DEF Init, Channel!Init
<1>2. RingInv => Queue = Bytes(taken, sent)
  BY QueueIs
<1>3. RingInv' => Queue' = Bytes(taken', sent')
  <2>1. (RingInv => Queue = Bytes(taken, sent))'
    BY <1>2, PTL
  <2> QED
    BY <2>1
<1>4. IInv /\ [Next]_vars => [Channel!Next]_(Channel!vars)
  <2> SUFFICES ASSUME RingInv, [Next]_vars PROVE [Channel!Next]_(Channel!vars)
    BY DEF IInv
  <2>0. /\ sent \in Nat /\ Len(taken) \in Nat /\ Len(taken) <= sent
        /\ Queue = Bytes(taken, sent)
    BY <1>2 DEF RingInv
  <2>1. CASE UNCHANGED ring
    BY <2>1 DEF ring, Channel!vars, Queue, InFlight
  <2>2. ASSUME NEW p \in Writers, write_byte(p) PROVE Channel!Send
    <3>1. /\ sent' = sent + 1 /\ taken' = taken /\ sent < Len(taken) + PIPESIZE
          /\ Queue' = Bytes(taken', sent')
      BY <2>2, RingWrite, <1>3
    <3>2. Queue' = Append(Queue, sent + 1)
      BY <3>1, <2>0
    <3>3. Len(Queue) < PIPESIZE
      BY <3>1, <2>0, PipeAssumption
    <3> QED
      BY <3>1, <3>2, <3>3, Zenon DEF Channel!Send
  <2>3. ASSUME NEW p \in Readers, read_byte(p) PROVE Channel!Take
    <3>1. /\ sent' = sent /\ taken' = Append(taken, Len(taken) + 1) /\ Len(taken) < sent
          /\ Queue' = Bytes(taken', sent')
      BY <2>3, RingRead, <1>3
    <3>2. Len(taken') = Len(taken) + 1
      BY <3>1 DEF RingInv
    <3>3. Queue # <<>> /\ Head(Queue) = Len(taken) + 1
      BY <3>1, <2>0, SMTT(30)
    <3>4. Queue' = Tail(Queue)
      <4>1. Queue \in Seq(Nat) /\ Len(Queue) = sent - Len(taken)
        BY <2>0
      <4>2. /\ Tail(Queue) \in Seq(Nat) /\ Len(Tail(Queue)) = Len(Queue) - 1
            /\ \A k \in 1 .. Len(Tail(Queue)) : Tail(Queue)[k] = Queue[k + 1]
        BY <4>1, <3>3
      <4>3. Queue' \in Seq(Nat) /\ Len(Queue') = sent' - Len(taken')
        <5>1. Len(taken') \in Nat /\ sent' - Len(taken') \in Nat
          BY <2>0, <3>1, <3>2
        <5> QED
          BY <5>1, <3>1
      <4>4. Len(Queue') = Len(Tail(Queue))
        <5> HIDE DEF Bytes
        <5> QED
          BY <4>1, <4>2, <4>3, <2>0, <3>1, <3>2
      <4>5. \A k \in 1 .. Len(Queue') : Queue'[k] = Tail(Queue)[k]
        BY <4>1, <4>2, <4>3, <4>4, <2>0, <3>1, <3>2
      <4> QED
        BY <4>2, <4>3, <4>4, <4>5, SMTT(30)
    <3> QED
      BY <3>1, <3>3, <3>4, Zenon DEF Channel!Take
  <2> QED
    BY <2>1, <2>2, <2>3, RingSteps DEF Channel!Next
<1> QED
  BY <1>1, <1>4, PipeInvariant, PTL DEF Spec, IsFifo, Channel!Spec
=============================================================================
