-------------------------- MODULE InterruptProofs --------------------------
(***************************************************************************)
(* Proofs about the output side of the console, what uartputc accepts is   *)
(* sent in order and the UART is never given more than it has room for,    *)
(* for any number of processes and any size of the ring; and about sleep,  *)
(* which is as long as it was asked to be.                                 *)
(***************************************************************************)
EXTENDS Console, Traps, TLAPS, RingArith

\* The output ring: byte number k is in slot k % UART_TX_BUF_SIZE.
TxInv ==
  /\ sent \in Nat /\ taken \in Seq(Nat)
  /\ tx \in [buf : [0 .. UART_TX_BUF_SIZE - 1 -> Nat], w : Nat, r : Nat,
             lock : Users \cup {None, Intr}]
  /\ tx.w = sent /\ tx.r = Len(taken)
  /\ tx.r <= tx.w /\ tx.w <= tx.r + UART_TX_BUF_SIZE
  /\ \A k \in Nat : tx.r <= k /\ k < tx.w => tx.buf[k % UART_TX_BUF_SIZE] = k + 1

\* What the steps do to the output ring.
TxSame == tx'.buf = tx.buf /\ tx'.w = tx.w /\ tx'.r = tx.r /\ sent' = sent /\ taken' = taken
TxPut  == /\ tx.w # tx.r + UART_TX_BUF_SIZE
          /\ tx'.buf = [tx.buf EXCEPT ![tx.w % UART_TX_BUF_SIZE] = sent + 1]
          /\ tx'.w = tx.w + 1 /\ tx'.r = tx.r
          /\ sent' = sent + 1 /\ taken' = taken
TxTake == /\ tx.w # tx.r
          /\ taken' = Append(taken, tx.buf[tx.r % UART_TX_BUF_SIZE])
          /\ tx'.buf = tx.buf /\ tx'.w = tx.w /\ tx'.r = tx.r + 1 /\ sent' = sent

TxType == tx \in [buf : [0 .. UART_TX_BUF_SIZE - 1 -> Nat], w : Nat, r : Nat,
                  lock : Users \cup {None, Intr}]

-----------------------------------------------------------------------------
LEMMA TxSize == UART_TX_BUF_SIZE \in Nat \ {0}
BY ConsoleAssumption

\* A reader touches neither the output ring nor the UART.
LEMMA ReaderLeaves ==
  ASSUME NEW p \in Readers, Reading(p) \/ kill_reader(p) \/ \E n \in Asks : consoleread(p, n)
  PROVE  UNCHANGED <<tx, uart, intr, sent, taken>>
<1>1. CASE read_acquire(p) \/ read_wait(p) \/ read_sleep(p)
  BY <1>1 DEF read_acquire, read_wait, read_sleep
<1>2. CASE read_byte(p)
  BY <1>2 DEF read_byte
<1>3. CASE read_end(p) \/ kill_reader(p)
  BY <1>3 DEF read_end, kill_reader
<1>4. CASE \E n \in Asks : consoleread(p, n)
  BY <1>4 DEF consoleread
<1> QED
  BY <1>1, <1>2, <1>3, <1>4 DEF Reading

\* A writer leaves the interrupt handler where it is.
LEMMA WriterLeaves ==
  ASSUME NEW p \in Writers, Writing(p) \/ kill_writer(p) \/ consolewrite(p)
  PROVE  UNCHANGED intr
<1>1. CASE uartputc_full(p) \/ uartputc(p)
  BY <1>1 DEF uartputc_full, uartputc
<1>2. CASE start_take(p) \/ start_put(p)
  BY <1>2 DEF start_take, start_put
<1>3. CASE start_end(p)
  BY <1>3 DEF start_end
<1>4. CASE kill_writer(p) \/ consolewrite(p)
  BY <1>4 DEF kill_writer, consolewrite
<1> QED
  BY <1>1, <1>2, <1>3, <1>4 DEF Writing

LEMMA TxSteps ==
  ASSUME TxInv, [ConsoleNext]_consoleVars
  PROVE  (TxSame \/ TxPut \/ TxTake) /\ TxType'
<1> USE TxSize
<1>0. /\ TxType /\ sent \in Nat /\ UART_TX_BUF_SIZE \in Nat \ {0}
      /\ tx.w % UART_TX_BUF_SIZE \in 0 .. UART_TX_BUF_SIZE - 1
  BY DivMod, Zenon DEF TxInv, TxType
<1>1. ASSUME UNCHANGED <<tx, sent, taken>> PROVE TxSame /\ TxType'
  BY <1>0, <1>1 DEF TxSame, TxType
<1>2. ASSUME NEW l \in Users \cup {None, Intr}, tx' = [tx EXCEPT !.lock = l],
             UNCHANGED <<sent, taken>>
      PROVE  TxSame /\ TxType'
  BY <1>0, <1>2, SMTT(30) DEF TxSame, TxType
<1>3. ASSUME NEW p \in Writers, uartputc(p) PROVE TxPut /\ TxType'
  <2> DEFINE b == [tx.buf EXCEPT ![tx.w % UART_TX_BUF_SIZE] = sent + 1]
  <2>1. p \in Users
    BY DEF Users
  <2>2. b \in [0 .. UART_TX_BUF_SIZE - 1 -> Nat] /\ tx.w + 1 \in Nat
    BY <1>0 DEF TxType
  <2>3. tx' = [tx EXCEPT !.buf = b, !.w = tx.w + 1, !.lock = p]
    BY <1>3, Zenon DEF uartputc
  <2>4. TxType /\ tx.w # tx.r + UART_TX_BUF_SIZE /\ sent' = sent + 1 /\ taken' = taken
    BY <1>0, <1>3 DEF uartputc, TxFull
  <2> HIDE DEF b
  <2>5. tx'.buf = b
    BY <2>3, <2>4, Zenon DEF TxType
  <2>6. tx'.w = tx.w + 1
    BY <2>3, <2>4, Zenon DEF TxType
  <2>7. tx'.r = tx.r
    BY <2>3, <2>4, Zenon DEF TxType
  <2>8. TxType'
    BY <2>1, <2>2, <2>3, <2>4, Zenon DEF TxType
  <2> QED
    BY <2>4, <2>5, <2>6, <2>7, <2>8 DEF TxPut, b
<1>4. ASSUME TakeByte, sent' = sent PROVE TxTake /\ TxType'
  <2>1. tx' = [tx EXCEPT !.r = tx.r + 1] /\ TxType /\ tx.r + 1 \in Nat
    BY <1>0, <1>4, SMTT(30) DEF TakeByte, TxType
  <2>2. tx'.buf = tx.buf /\ tx'.w = tx.w /\ tx'.r = tx.r + 1
    BY <2>1, Zenon DEF TxType
  <2>3. TxType'
    BY <2>1, Zenon DEF TxType
  <2> QED
    BY <1>4, <2>2, <2>3 DEF TakeByte, Stuck, TxTake
<1>5. CASE UNCHANGED consoleVars
  BY <1>5, <1>1 DEF consoleVars
<1>6. ASSUME NEW p \in Readers, Reading(p) \/ kill_reader(p) \/ \E n \in Asks : consoleread(p, n)
      PROVE  UNCHANGED <<tx, sent, taken>>
  BY <1>6, ReaderLeaves
<1>7. ASSUME NEW p \in Writers, Writing(p) \/ kill_writer(p) \/ consolewrite(p)
      PROVE  (TxSame \/ TxPut \/ TxTake) /\ TxType'
  <2>1. CASE uartputc(p)
    BY <2>1, <1>3
  <2>2. CASE start_take(p)
    BY <2>2, <1>4 DEF start_take
  <2>3. CASE start_end(p)
    BY <2>3, <1>2 DEF start_end
  <2>4. CASE uartputc_full(p) \/ start_put(p) \/ kill_writer(p) \/ consolewrite(p)
    BY <2>4, <1>1 DEF uartputc_full, start_put, kill_writer, consolewrite
  <2> QED
    BY <1>7, <2>1, <2>2, <2>3, <2>4 DEF Writing
<1>8. ASSUME NEW p \in Printers, Printing(p) \/ printf(p)
      PROVE  UNCHANGED <<tx, sent, taken>>
  BY <1>8 DEF Printing, sync_wait, sync_put, printf
<1>9. CASE Handler
  <2>1. CASE tx_acquire \/ intr_end
    BY <2>1, <1>2 DEF tx_acquire, intr_end
  <2>2. CASE intr_take
    BY <2>2, <1>4 DEF intr_take
  <2>3. CASE plic_claim \/ uartgetc \/ consoleintr
    BY <2>3, <1>1 DEF plic_claim, uartgetc, consoleintr
  <2>4. CASE echo_wait \/ echo_put \/ intr_put
    BY <2>4, <1>1 DEF echo_wait, echo_put, intr_put
  <2>5. CASE consoleintr_end
    BY <2>5, <1>1 DEF consoleintr_end
  <2> QED
    BY <1>9, <2>1, <2>2, <2>3, <2>4, <2>5 DEF Handler
<1>10. CASE uart_send \/ \E c \in Typed : uart_receive(c)
  BY <1>10, <1>1, Zenon DEF uart_send, uart_receive
<1> QED
  BY <1>1, <1>5, <1>6, <1>7, <1>8, <1>9, <1>10 DEF ConsoleNext

\* A byte that is accepted goes to a slot that holds none of those on their way.
LEMMA TxWrite ==
  ASSUME TxInv, TxPut, TxType'
  PROVE  TxInv'
<1> USE TxSize
<1> DEFINE N == UART_TX_BUF_SIZE
<1>1. /\ tx.w \in Nat /\ tx.r \in Nat /\ N \in Nat \ {0} /\ tx.w < tx.r + N /\ tx.r <= tx.w
      /\ tx.w = sent /\ tx.buf \in [0 .. N - 1 -> Nat]
      /\ tx.w % N \in 0 .. N - 1
  <2>1. tx.w \in Nat /\ tx.r \in Nat /\ tx.buf \in [0 .. N - 1 -> Nat]
    BY DEF TxInv
  <2>2. tx.w <= tx.r + N /\ tx.w # tx.r + N
    BY DEF TxInv, TxPut
  <2>3. tx.w % N \in 0 .. N - 1
    BY <2>1, DivMod, Zenon
  <2>4. tx.r <= tx.w /\ tx.w = sent
    BY DEF TxInv
  <2>5. N \in Nat \ {0}
    OBVIOUS
  <2> HIDE DEF N
  <2>6. tx.w < tx.r + N
    BY <2>1, <2>2, <2>5, SMTT(30)
  <2> QED
    BY <2>1, <2>3, <2>4, <2>5, <2>6
<1>2. ASSUME NEW k \in Nat, tx.r <= k, k < tx.w + 1
      PROVE  tx'.buf[k % N] = k + 1
  <2>1. k % N \in 0 .. N - 1
    BY <1>1, DivMod, ZenonT(30)
  <2>2. CASE k = tx.w
    BY <2>2, <1>1 DEF TxPut
  <2>3. CASE k < tx.w
    <3>1. k % N # tx.w % N
      <4> HIDE DEF N
      <4>1. tx.w < k + N /\ k <= tx.w /\ k # tx.w /\ N \in Nat \ {0} /\ tx.w \in Nat
        BY <1>1, <1>2, <2>3
      <4> QED
        BY <4>1, ModInjective, Zenon
    <3> QED
      BY <3>1, <2>1, <2>3, <1>1, <1>2 DEF TxInv, TxPut
  <2> QED
    BY <2>2, <2>3, <1>1, <1>2
<1> QED
  BY <1>1, <1>2, SMTT(30) DEF TxInv, TxPut, TxType

\* The byte that is sent is the oldest one.
LEMMA TxRead ==
  ASSUME TxInv, TxTake, TxType'
  PROVE  TxInv' /\ taken' = Append(taken, Len(taken) + 1) /\ Len(taken) < sent
<1>1. /\ tx.w \in Nat /\ tx.r \in Nat /\ tx.r < tx.w
      /\ tx.buf[tx.r % UART_TX_BUF_SIZE] = tx.r + 1
  BY DEF TxInv, TxTake
<1>2. /\ taken' = Append(taken, Len(taken) + 1) /\ taken' \in Seq(Nat)
      /\ Len(taken') = Len(taken) + 1
  BY <1>1 DEF TxInv, TxTake
<1>3. ASSUME NEW k \in Nat, tx'.r <= k, k < tx'.w
      PROVE  tx'.buf[k % UART_TX_BUF_SIZE] = k + 1
  BY <1>1, <1>3 DEF TxInv, TxTake
<1>4. /\ sent' \in Nat /\ tx'.w = sent' /\ tx'.r = Len(taken')
      /\ tx'.r <= tx'.w /\ tx'.w <= tx'.r + UART_TX_BUF_SIZE
  BY <1>1, <1>2, TxSize DEF TxInv, TxTake
<1> QED
  BY <1>1, <1>2, <1>3, <1>4 DEF TxInv, TxType

LEMMA TxNext ==
  ASSUME TxInv, [ConsoleNext]_consoleVars
  PROVE  TxInv'
<1>1. CASE TxSame /\ TxType'
  BY <1>1 DEF TxInv, TxSame, TxType
<1> QED
  BY <1>1, TxSteps, TxWrite, TxRead, SMTT(30)

LEMMA TxInit == ConsoleInit => TxInv
<1> SUFFICES ASSUME ConsoleInit PROVE TxInv
  OBVIOUS
<1>1. tx = [buf |-> [k \in 0 .. UART_TX_BUF_SIZE - 1 |-> 0], w |-> 0, r |-> 0, lock |-> None]
      /\ sent = 0 /\ taken = <<>> /\ UART_TX_BUF_SIZE \in Nat
  BY TxSize DEF ConsoleInit
<1> QED
  BY <1>1 DEF TxInv

\* The bytes in the ring are those from the first that was not sent.
LEMMA TxQueueIs == TxInv => TxQueue = [k \in 1 .. sent - Len(taken) |-> Len(taken) + k]
<1> SUFFICES ASSUME TxInv
             PROVE  TxQueue = [k \in 1 .. sent - Len(taken) |-> Len(taken) + k]
  OBVIOUS
<1>1. /\ tx.w = sent /\ tx.r = Len(taken) /\ sent \in Nat /\ Len(taken) \in Nat
      /\ \A k \in Nat : tx.r <= k /\ k < tx.w => tx.buf[k % UART_TX_BUF_SIZE] = k + 1
  BY DEF TxInv
<1>2. ASSUME NEW k \in 1 .. tx.w - tx.r
      PROVE  tx.buf[(tx.r + k - 1) % UART_TX_BUF_SIZE] = tx.r + k
  <2>1. PICK j \in Nat : j = tx.r + k - 1 /\ tx.r <= j /\ j < tx.w
    <3>1. tx.r \in Nat /\ tx.w \in Nat
      BY <1>1
    <3> QED
      BY <3>1
  <2>2. tx.buf[j % UART_TX_BUF_SIZE] = j + 1
    BY <1>1, <2>1
  <2> QED
    BY <1>1, <2>1, <2>2
<1> QED
  BY <1>1, <1>2 DEF TxQueue

\* uartputc and uartstart implement a bounded FIFO channel for any number of
\* writers and any size of the ring (uart.c:86-161).
THEOREM ConsoleOutputIsFifo == ConsoleSpec => OutputIsFifo
<1> DEFINE Bytes(t, n) == [k \in 1 .. n - Len(t) |-> Len(t) + k]
<1>1. ConsoleInit => Output!Init
  <2> SUFFICES ASSUME ConsoleInit PROVE Output!Init
    OBVIOUS
  <2>1. sent = 0 /\ taken = <<>>
    BY DEF ConsoleInit
  <2>2. TxQueue = Bytes(<<>>, 0)
    BY <2>1, TxInit, TxQueueIs
  <2> QED
    BY <2>1, <2>2 DEF Output!Init
<1>2. TxInv => TxQueue = Bytes(taken, sent)
  BY TxQueueIs
<1>3. TxInv' => TxQueue' = Bytes(taken', sent')
  <2>1. (TxInv => TxQueue = Bytes(taken, sent))'
    BY <1>2, PTL
  <2> QED
    BY <2>1
<1>4. TxInv /\ [ConsoleNext]_consoleVars => [Output!Next]_(Output!vars)
  <2> SUFFICES ASSUME TxInv, [ConsoleNext]_consoleVars PROVE [Output!Next]_(Output!vars)
    OBVIOUS
  <2>0. /\ sent \in Nat /\ Len(taken) \in Nat /\ Len(taken) <= sent
        /\ TxQueue = Bytes(taken, sent)
    BY <1>2 DEF TxInv
  <2>q. TxQueue' = Bytes(taken', sent')
    BY <1>3, TxNext
  <2>1. CASE TxSame
    BY <2>0, <2>1, <2>q DEF TxSame, Output!vars
  <2>2. CASE TxPut
    <3>1. sent' = sent + 1 /\ taken' = taken /\ sent < Len(taken) + UART_TX_BUF_SIZE
      <4>1. /\ tx.w = sent /\ tx.r = Len(taken) /\ tx.w # tx.r + UART_TX_BUF_SIZE
            /\ tx.w <= tx.r + UART_TX_BUF_SIZE
        BY <2>2 DEF TxInv, TxPut
      <4>2. sent < Len(taken) + UART_TX_BUF_SIZE
        <5> HIDE DEF Bytes
        <5> QED
          BY <4>1, <2>0, TxSize
      <4> QED
        BY <4>2, <2>2 DEF TxPut
    <3>2. TxQueue' = Append(TxQueue, sent + 1)
      BY <3>1, <2>0, <2>q
    <3>3. Len(TxQueue) < UART_TX_BUF_SIZE
      BY <3>1, <2>0, TxSize
    <3> QED
      BY <3>1, <3>2, <3>3 DEF Output!Next, Output!Send
  <2>3. CASE TxTake
    <3>1. sent' = sent /\ taken' = Append(taken, Len(taken) + 1) /\ Len(taken) < sent
      BY <2>3, TxSteps, TxRead DEF TxTake
    <3>2. Len(taken') = Len(taken) + 1
      BY <3>1 DEF TxInv
    <3>3. TxQueue # <<>> /\ Head(TxQueue) = Len(taken) + 1
      BY <3>1, <2>0
    <3>4. TxQueue' = Tail(TxQueue)
      <4>1. TxQueue \in Seq(Nat) /\ Len(TxQueue) = sent - Len(taken)
        BY <2>0
      <4>2. /\ Tail(TxQueue) \in Seq(Nat) /\ Len(Tail(TxQueue)) = Len(TxQueue) - 1
            /\ \A k \in 1 .. Len(Tail(TxQueue)) : Tail(TxQueue)[k] = TxQueue[k + 1]
        BY <4>1, <3>3
      <4>3. TxQueue' \in Seq(Nat) /\ Len(TxQueue') = sent' - Len(taken')
        <5>1. Len(taken') \in Nat /\ sent' - Len(taken') \in Nat
          BY <2>0, <3>1, <3>2
        <5> QED
          BY <5>1, <2>q
      <4>4. Len(TxQueue') = Len(Tail(TxQueue))
        <5>1. sent' - Len(taken') = sent - Len(taken) - 1
          <6> HIDE DEF Bytes
          <6> QED
            BY <2>0, <3>1, <3>2
        <5> QED
          BY <4>1, <4>2, <4>3, <5>1
      <4>5. \A k \in 1 .. Len(TxQueue') : TxQueue'[k] = Tail(TxQueue)[k]
        BY <4>1, <4>2, <4>3, <4>4, <2>0, <2>q, <3>1, <3>2, SMTT(30)
      <4> QED
        BY <4>2, <4>3, <4>4, <4>5, SMTT(30)
    <3> QED
      BY <3>1, <3>3, <3>4, SMTT(30) DEF Output!Next, Output!Take
  <2> QED
    BY <2>1, <2>2, <2>3, TxSteps
<1> QED
  BY <1>1, <1>4, TxInit, TxNext, PTL DEF ConsoleSpec, OutputIsFifo, Output!Spec

-----------------------------------------------------------------------------
(* Room in the UART *)

\* The records have their fields.
IsIo(r) == r = [pc |-> r.pc, n |-> r.n, got |-> r.got]
IoOk    == io = [p \in Users |-> io[p]] /\ \A p \in Users : IsIo(io[p])
IntrOk  == intr = [pc |-> intr.pc, c |-> intr.c, echo |-> intr.echo]
UartOk  == uart = [thr |-> uart.thr, rhr |-> uart.rhr, irq |-> uart.irq] /\ uart.thr \in Nat

\* The three that may be about to write to the UART: the handler, a writer, a printf.
Contends(b) == IF b THEN 1 ELSE 0
HandlerPuts == intr.pc \in {"echo_put", "start_put"}
WriterPuts  == \E p \in Writers : io[p].pc = "start_put"
PrinterPuts == \E p \in Printers : io[p].pc = "sync_put"

\* uart_tx_lock is held around uartstart; pr.lock keeps all but one out of printf;
\* the characters in the UART and those about to be written are three at most.
TxLockInv ==
  /\ \A p \in Writers : io[p].pc \in {"start", "start_put"} => tx.lock = p
  /\ intr.pc \in {"start", "start_put"} => tx.lock = Intr
PrintInv == \A p, q \in Printers : io[p].pc # "user" /\ io[q].pc # "user" => p = q
RoomInv  ==
  uart.thr + Contends(HandlerPuts) + Contends(WriterPuts) + Contends(PrinterPuts) <= 3

PutInv == IoOk /\ IntrOk /\ UartOk /\ TxLockInv /\ PrintInv /\ RoomInv

\* A step of process p to place s.
PcMove(p, s) == IoOk' /\ io'[p].pc = s /\ \A q \in Users \ {p} : io'[q].pc = io[q].pc

LEMMA IoMoves ==
  ASSUME IoOk, NEW p \in Users, NEW s, Moves(p, s)
  PROVE  PcMove(p, s)
<1>1. \A q \in Users \ {p} : io'[q] = io[q]
  BY DEF IoOk, Moves
<1>2. io' = [q \in Users |-> io'[q]]
  BY DEF IoOk, Moves
<1>3. io'[p] = [pc |-> s, n |-> io[p].n, got |-> io[p].got]
  BY DEF IoOk, IsIo, Moves
<1>4. IsIo(io'[p]) /\ io'[p].pc = s
  BY <1>3 DEF IsIo
<1> QED
  BY <1>1, <1>2, <1>4 DEF PcMove, IoOk

LEMMA IoSet ==
  ASSUME IoOk, NEW p \in Users, NEW s, NEW n, NEW g,
         io' = [io EXCEPT ![p] = [pc |-> s, n |-> n, got |-> g]]
  PROVE  PcMove(p, s)
<1>1. \A q \in Users \ {p} : io'[q] = io[q]
  BY DEF IoOk
<1>2. io' = [q \in Users |-> io'[q]]
  BY DEF IoOk
<1>3. io'[p] = [pc |-> s, n |-> n, got |-> g]
  BY DEF IoOk
<1>4. IsIo(io'[p]) /\ io'[p].pc = s
  BY <1>3 DEF IsIo
<1> QED
  BY <1>1, <1>2, <1>4 DEF PcMove, IoOk

LEMMA IoReads ==
  ASSUME IoOk, NEW p \in Readers,
         Reading(p) \/ kill_reader(p) \/ \E n \in Asks : consoleread(p, n)
  PROVE  \E s : PcMove(p, s)
<1>0. p \in Users
  BY DEF Users
<1>1. CASE read_acquire(p) \/ read_sleep(p)
  BY <1>0, <1>1, IoMoves DEF read_acquire, read_sleep
<1>2. CASE read_wait(p)
  BY <1>0, <1>2, IoMoves, IoSet DEF read_wait, Returns
<1>3. CASE read_byte(p)
  <2>1. CASE Returns(p)
    BY <1>0, <2>1, IoSet, Zenon DEF Returns
  <2>2. ASSUME NEW g, NEW last,
               io' = [io EXCEPT ![p].got = g, ![p].pc = IF last THEN "read_end" ELSE @]
        PROVE  PcMove(p, io'[p].pc)
    <3>1. \A q \in Users \ {p} : io'[q] = io[q]
      BY <2>2 DEF IoOk
    <3>2. io' = [q \in Users |-> io'[q]]
      BY <2>2, Zenon DEF IoOk
    <3>3. IsIo(io'[p])
      BY <1>0, <2>2, Zenon DEF IoOk, IsIo
    <3> QED
      BY <3>1, <3>2, <3>3 DEF PcMove, IoOk
  <2> QED
    BY <1>3, <2>1, <2>2, ZenonT(30) DEF read_byte
<1>4. CASE read_end(p)
  BY <1>0, <1>4, IoSet, ZenonT(30) DEF read_end, Returns
<1>5. CASE kill_reader(p)
  <2> DEFINE s == IF io[p].pc = "read_sleep" THEN "read" ELSE io[p].pc
  <2>1. Moves(p, s)
    BY <1>5 DEF kill_reader, Moves
  <2> HIDE DEF s
  <2> QED
    BY <1>0, <2>1, IoMoves
<1>6. CASE \E n \in Asks : consoleread(p, n)
  <2>1. PICK n \in Asks : io' = [io EXCEPT ![p] = [pc |-> "read", n |-> n, got |-> <<>>]]
    BY <1>6, ZenonT(30) DEF consoleread
  <2> QED
    BY <1>0, <2>1, IoSet, ZenonT(30)
<1> QED
  BY <1>1, <1>2, <1>3, <1>4, <1>5, <1>6, SMTT(30) DEF Reading

\* wakeup moves the sleepers of one place to another.
LEMMA IoWakes ==
  ASSUME IoOk, NEW a, NEW b, NEW f, f = WakeUsers(io, a, b)
  PROVE  /\ f = [p \in Users |-> f[p]]
         /\ \A p \in Users : IsIo(f[p]) /\ f[p].pc = IF io[p].pc = a THEN b ELSE io[p].pc
<1>1. f = [p \in Users |-> f[p]]
  BY DEF WakeUsers
<1>2. ASSUME NEW p \in Users
      PROVE  IsIo(f[p]) /\ f[p].pc = IF io[p].pc = a THEN b ELSE io[p].pc
  <2>1. CASE io[p].pc = a
    <3>1. f[p] = [io[p] EXCEPT !.pc = b]
      BY <2>1 DEF WakeUsers
    <3>2. f[p] = [pc |-> b, n |-> io[p].n, got |-> io[p].got]
      BY <3>1 DEF IoOk, IsIo
    <3> QED
      BY <2>1, <3>2 DEF IsIo
  <2>2. CASE io[p].pc # a
    BY <2>2 DEF WakeUsers, IoOk
  <2> QED
    BY <2>1, <2>2, SMTT(30)
<1> QED
  BY <1>1, <1>2

\* No process comes to or leaves a place that matters, but a writer may return
\* from uartstart.
SamePlaces ==
  /\ \A q \in Writers : io'[q].pc = io[q].pc \/ io'[q].pc \notin {"start", "start_put"}
  /\ \A q \in Printers : /\ io'[q].pc = "user" <=> io[q].pc = "user"
                         /\ io'[q].pc = "sync_put" <=> io[q].pc = "sync_put"

LEMMA PlacesInv ==
  ASSUME PutInv, IoOk', IntrOk', UartOk', uart'.thr <= uart.thr,
         tx'.lock = tx.lock, intr'.pc = intr.pc, SamePlaces
  PROVE  PutInv'
<1>1. TxLockInv'
  BY DEF PutInv, TxLockInv, SamePlaces
<1>2. PrintInv'
  BY DEF PutInv, PrintInv, SamePlaces
<1>3. (HandlerPuts' => HandlerPuts) /\ (WriterPuts' => WriterPuts) /\ (PrinterPuts' => PrinterPuts)
  BY DEF HandlerPuts, WriterPuts, PrinterPuts, SamePlaces
<1>4. RoomInv'
  BY <1>3 DEF PutInv, RoomInv, Contends, UartOk
<1> QED
  BY <1>1, <1>2, <1>4, SMTT(30) DEF PutInv

\* An idle UART has room for one character of each contender.
LEMMA IdleRoom ==
  ASSUME UartOk', uart'.thr = 0
  PROVE  RoomInv'
BY DEF RoomInv, Contends

LEMMA UsersDisjoint ==
  /\ \A p \in Readers : p \in Users /\ p \notin Writers /\ p \notin Printers
  /\ \A p \in Writers : p \in Users /\ p \notin Printers /\ p # None /\ p # Intr
  /\ \A p \in Printers : p \in Users /\ p \notin Writers
  /\ None # Intr
BY ConsoleAssumption DEF Users

LEMMA ReaderPuts ==
  ASSUME PutInv, NEW p \in Readers,
         Reading(p) \/ kill_reader(p) \/ \E n \in Asks : consoleread(p, n)
  PROVE  PutInv'
<1>1. PICK s : PcMove(p, s)
  BY IoReads DEF PutInv
<1>2. UNCHANGED <<tx, uart, intr>>
  BY ReaderLeaves
<1>3. IoOk' /\ SamePlaces
  BY <1>1, UsersDisjoint DEF PcMove, SamePlaces
<1>4. IntrOk' /\ UartOk' /\ uart'.thr <= uart.thr
  BY <1>2 DEF PutInv, IntrOk, UartOk
<1> QED
  BY <1>2, <1>3, <1>4, PlacesInv, SMTT(30)

LEMMA WriterSteps ==
  ASSUME PutInv, TxType, NEW p \in Writers, Writing(p) \/ kill_writer(p) \/ consolewrite(p)
  PROVE  PutInv'
<1> USE UsersDisjoint
<1>0. IoOk /\ IntrOk /\ UartOk /\ TxLockInv /\ PrintInv /\ RoomInv
  BY DEF PutInv
<1>a. UNCHANGED intr /\ IntrOk'
  BY <1>0, WriterLeaves DEF IntrOk
<1>1. ASSUME NEW s, s \notin {"start", "start_put"}, PcMove(p, s), UNCHANGED <<tx, uart>>
      PROVE  PutInv'
  <2>1. IoOk' /\ SamePlaces
    BY <1>1 DEF PcMove, SamePlaces
  <2>2. UartOk' /\ uart'.thr <= uart.thr
    BY <1>0, <1>1 DEF UartOk
  <2> QED
    BY <1>1, <1>a, <2>1, <2>2, PlacesInv, SMTT(30)
<1>2. CASE uartputc_full(p)
  BY <1>0, <1>1, <1>2, IoMoves, SMTT(30) DEF uartputc_full
<1>3. CASE kill_writer(p)
  BY <1>0, <1>1, <1>3, IoMoves DEF kill_writer
<1>4. CASE consolewrite(p)
  <2>1. PICK n : io' = [io EXCEPT ![p] = [pc |-> "putc", n |-> n, got |-> <<>>]]
    BY <1>4, Zenon DEF consolewrite
  <2> QED
    BY <1>0, <1>1, <1>4, <2>1, IoSet, ZenonT(30) DEF consolewrite
<1>5. CASE uartputc(p)
  <2>1. PcMove(p, "start") /\ uart' = uart /\ tx.lock = None
    BY <1>0, <1>5, IoMoves DEF uartputc
  <2>2. tx'.lock = p
    BY <1>5, ZenonT(30) DEF uartputc, TxType
  <2>3. IoOk' /\ UartOk' /\ PrintInv'
    BY <1>0, <2>1, SMTT(30) DEF PcMove, UartOk, PrintInv
  <2>4. TxLockInv'
    BY <1>0, <1>a, <2>1, <2>2, SMTT(30) DEF PcMove, TxLockInv
  <2>5. /\ (HandlerPuts' <=> HandlerPuts) /\ (WriterPuts' => WriterPuts)
        /\ (PrinterPuts' <=> PrinterPuts)
    BY <1>a, <2>1, SMTT(30) DEF PcMove, HandlerPuts, WriterPuts, PrinterPuts
  <2>6. RoomInv'
    BY <1>0, <2>1, <2>5 DEF RoomInv, Contends, UartOk
  <2> QED
    BY <1>a, <2>3, <2>4, <2>6 DEF PutInv
<1>6. CASE start_take(p)
  <2> DEFINE f == Sent(io)
  <2>1. io' = [f EXCEPT ![p].pc = "start_put"] /\ uart' = uart /\ uart.thr = 0
        /\ io[p].pc = "start" /\ tx' = [tx EXCEPT !.r = tx.r + 1]
    BY <1>0, <1>6, SMTT(30) DEF start_take, TakeByte, Stuck, UartOk, Is
  <2>2. /\ f = [q \in Users |-> f[q]]
        /\ \A q \in Users : /\ IsIo(f[q])
                            /\ f[q].pc = IF io[q].pc = "putc_sleep" THEN "putc" ELSE io[q].pc
    BY <1>0, IoWakes DEF Sent
  <2> HIDE DEF f
  <2>3. \A q \in Users \ {p} : io'[q] = f[q]
    BY <2>1, <2>2
  <2>4. io' = [q \in Users |-> io'[q]]
    BY <2>1, <2>2, ZenonT(30)
  <2>5. io'[p] = [pc |-> "start_put", n |-> f[p].n, got |-> f[p].got]
    BY <2>1, <2>2, SMTT(30) DEF IsIo
  <2>6. IsIo(io'[p]) /\ io'[p].pc = "start_put"
    BY <2>5 DEF IsIo
  <2>7. IoOk'
    BY <2>2, <2>3, <2>4, <2>6 DEF IoOk
  <2>8. tx'.lock = tx.lock
    BY <2>1, ZenonT(30) DEF TxType
  <2>9. TxLockInv'
    BY <1>0, <1>a, <2>1, <2>2, <2>3, <2>6, <2>8, SMTT(30) DEF TxLockInv
  <2>10. PrintInv'
    BY <1>0, <2>2, <2>3, SMTT(30) DEF PrintInv
  <2> QED
    BY <1>0, <1>a, <2>1, <2>7, <2>9, <2>10, IdleRoom, SMTT(30) DEF PutInv, UartOk
<1>7. CASE start_put(p)
  <2>1. PcMove(p, "start") /\ tx' = tx /\ io[p].pc = "start_put"
    BY <1>0, <1>7, IoMoves DEF start_put, Is
  <2>2. uart' = [thr |-> uart.thr + 1, rhr |-> uart.rhr, irq |-> uart.irq]
    BY <1>0, <1>7 DEF start_put, PutByte, UartOk
  <2>3. UartOk' /\ uart'.thr = uart.thr + 1
    BY <1>0, <2>2, SMTT(30) DEF UartOk
  <2>4. IoOk' /\ PrintInv'
    BY <1>0, <2>1, SMTT(30) DEF PcMove, PrintInv
  <2>5. TxLockInv'
    BY <1>0, <1>a, <2>1, SMTT(30) DEF PcMove, TxLockInv
  <2>6. /\ (HandlerPuts' <=> HandlerPuts) /\ WriterPuts /\ ~WriterPuts'
        /\ (PrinterPuts' <=> PrinterPuts)
    BY <1>0, <1>a, <2>1, SMTT(30) DEF PcMove, HandlerPuts, WriterPuts, PrinterPuts, TxLockInv
  <2>7. RoomInv'
    BY <1>0, <2>3, <2>6 DEF RoomInv, Contends, UartOk
  <2> QED
    BY <1>a, <2>3, <2>4, <2>5, <2>7, SMTT(30) DEF PutInv
<1>8. CASE start_end(p)
  <2>1. PICK s \in {"user", "putc"} : PcMove(p, s)
    <3>1. CASE Returns(p)
      BY <1>0, <3>1, IoSet, Zenon DEF Returns
    <3>2. CASE io' = [io EXCEPT ![p] = [pc |-> "putc", n |-> io[p].n - 1, got |-> <<>>]]
      BY <1>0, <3>2, IoSet, Zenon
    <3> QED
      BY <1>8, <3>1, <3>2 DEF start_end
  <2>2. uart' = uart /\ io[p].pc = "start"
    BY <1>8 DEF start_end, Is
  <2>3. IoOk' /\ UartOk' /\ PrintInv'
    BY <1>0, <2>1, <2>2, SMTT(30) DEF PcMove, UartOk, PrintInv
  <2>4. TxLockInv'
    BY <1>0, <1>a, <2>1, <2>2, SMTT(30) DEF PcMove, TxLockInv
  <2>5. /\ (HandlerPuts' <=> HandlerPuts) /\ (WriterPuts' => WriterPuts)
        /\ (PrinterPuts' <=> PrinterPuts)
    BY <1>a, <2>1 DEF PcMove, HandlerPuts, WriterPuts, PrinterPuts
  <2>6. RoomInv'
    BY <1>0, <2>2, <2>5 DEF RoomInv, Contends, UartOk
  <2> QED
    BY <1>a, <2>3, <2>4, <2>6 DEF PutInv
<1> QED
  BY <1>2, <1>3, <1>4, <1>5, <1>6, <1>7, <1>8, SMTT(30) DEF Writing

LEMMA PrinterSteps ==
  ASSUME PutInv, NEW p \in Printers, Printing(p) \/ printf(p)
  PROVE  PutInv'
<1> USE UsersDisjoint
<1>0. IoOk /\ IntrOk /\ UartOk /\ TxLockInv /\ PrintInv /\ RoomInv
  BY DEF PutInv
<1>1. UNCHANGED <<tx, intr>> /\ IntrOk'
  BY <1>0 DEF Printing, sync_wait, sync_put, printf, IntrOk
<1>2. ASSUME NEW s, PcMove(p, s) PROVE IoOk' /\ TxLockInv'
  BY <1>0, <1>1, <1>2 DEF PcMove, TxLockInv
<1>3. ASSUME NEW s, PcMove(p, s), \A q \in Printers \ {p} : io[q].pc = "user" PROVE PrintInv'
  BY <1>3, SMTT(30) DEF PcMove, PrintInv
<1>4. CASE printf(p)
  <2>0. PICK n : io' = [io EXCEPT ![p] = [pc |-> "sync", n |-> n, got |-> <<>>]]
    BY <1>4, ZenonT(30) DEF printf
  <2>1. PcMove(p, "sync") /\ uart' = uart /\ \A q \in Printers : io[q].pc = "user"
    BY <1>0, <1>4, <2>0, IoSet, ZenonT(30) DEF printf, Is
  <2>2. (HandlerPuts' <=> HandlerPuts) /\ (WriterPuts' <=> WriterPuts) /\ ~PrinterPuts'
    BY <1>1, <2>1, SMTT(30) DEF PcMove, HandlerPuts, WriterPuts, PrinterPuts
  <2>3. UartOk' /\ RoomInv'
    BY <1>0, <2>1, <2>2, SMTT(30) DEF RoomInv, Contends, UartOk
  <2> QED
    BY <1>1, <1>2, <1>3, <2>1, <2>3 DEF PutInv
<1>5. CASE sync_wait(p)
  <2>1. PcMove(p, "sync_put") /\ uart' = uart /\ uart.thr = 0 /\ io[p].pc = "sync"
    BY <1>0, <1>5, IoMoves, SMTT(30) DEF sync_wait, Is, UartIdle
  <2>2. \A q \in Printers \ {p} : io[q].pc = "user"
    BY <1>0, <2>1 DEF PrintInv
  <2>3. UartOk'
    BY <1>0, <2>1, SMTT(30) DEF UartOk
  <2> QED
    BY <1>1, <1>2, <1>3, <2>1, <2>2, <2>3, IdleRoom, SMTT(30) DEF PutInv
<1>6. CASE sync_put(p)
  <2>0. PICK s \in {"user", "sync"} : PcMove(p, s)
    <3>1. CASE Returns(p)
      BY <1>0, <3>1, IoSet, Zenon DEF Returns
    <3>2. CASE io' = [io EXCEPT ![p] = [pc |-> "sync", n |-> io[p].n - 1, got |-> <<>>]]
      BY <1>0, <3>2, IoSet, Zenon
    <3> QED
      BY <1>6, <3>1, <3>2 DEF sync_put
  <2>1. PcMove(p, s) /\ s # "sync_put" /\ io[p].pc = "sync_put"
    BY <1>6, <2>0 DEF sync_put, Is
  <2>2. \A q \in Printers \ {p} : io[q].pc = "user"
    BY <1>0, <2>1 DEF PrintInv
  <2>3. uart' = [thr |-> uart.thr + 1, rhr |-> uart.rhr, irq |-> uart.irq]
    BY <1>0, <1>6 DEF sync_put, PutByte, UartOk
  <2>4. UartOk' /\ uart'.thr = uart.thr + 1
    BY <1>0, <2>3, SMTT(30) DEF UartOk
  <2>5. /\ (HandlerPuts' <=> HandlerPuts) /\ (WriterPuts' <=> WriterPuts)
        /\ PrinterPuts /\ ~PrinterPuts'
    BY <1>1, <2>1, <2>2, SMTT(30) DEF PcMove, HandlerPuts, WriterPuts, PrinterPuts
  <2>6. RoomInv'
    BY <1>0, <2>4, <2>5, SMTT(30) DEF RoomInv, Contends, UartOk
  <2> QED
    BY <1>1, <1>2, <1>3, <2>1, <2>2, <2>4, <2>6, SMTT(30) DEF PutInv
<1> QED
  BY <1>4, <1>5, <1>6 DEF Printing

LEMMA HandlerSteps ==
  ASSUME PutInv, TxType, Handler
  PROVE  PutInv'
<1> USE UsersDisjoint
<1>0. IoOk /\ IntrOk /\ UartOk /\ TxLockInv /\ PrintInv /\ RoomInv
  BY DEF PutInv
<1>h. ASSUME NEW s, Handles(s) PROVE IntrOk' /\ intr'.pc = s
  <2>1. intr' = [pc |-> s, c |-> intr.c, echo |-> intr.echo]
    BY <1>0, <1>h DEF Handles, IntrOk
  <2> QED
    BY <2>1 DEF IntrOk
\* A step that does not come to a place where the handler writes to the UART.
<1>q. ASSUME IntrOk', intr'.pc \notin {"echo_put", "start", "start_put"}, UartOk', IoOk',
             uart'.thr <= uart.thr, tx' = tx, SamePlaces
      PROVE  PutInv'
  <2>1. TxLockInv' /\ PrintInv'
    BY <1>0, <1>q DEF TxLockInv, PrintInv, SamePlaces
  <2>2. ~HandlerPuts' /\ (WriterPuts' => WriterPuts) /\ (PrinterPuts' => PrinterPuts)
    BY <1>q DEF HandlerPuts, WriterPuts, PrinterPuts, SamePlaces
  <2>3. RoomInv'
    BY <1>0, <1>q, <2>2, SMTT(30) DEF RoomInv, Contends, UartOk
  <2> QED
    BY <1>q, <2>1, <2>3, SMTT(30) DEF PutInv
<1>i. ASSUME io' = io
      PROVE  /\ IoOk' /\ PrintInv' /\ SamePlaces
             /\ (WriterPuts' <=> WriterPuts) /\ (PrinterPuts' <=> PrinterPuts)
  BY <1>0, <1>i DEF IoOk, PrintInv, WriterPuts, PrinterPuts, SamePlaces
<1>u. ASSUME uart' = uart PROVE UartOk' /\ uart'.thr <= uart.thr
  BY <1>0, <1>u DEF UartOk
<1>p. ASSUME PutByte PROVE UartOk' /\ uart'.thr = uart.thr + 1
  <2>1. uart' = [thr |-> uart.thr + 1, rhr |-> uart.rhr, irq |-> uart.irq]
    BY <1>0, <1>p DEF PutByte, UartOk
  <2> QED
    BY <1>0, <2>1 DEF UartOk
<1>1. CASE plic_claim
  <2>1. uart' = [thr |-> uart.thr, rhr |-> uart.rhr, irq |-> FALSE]
    BY <1>0, <1>1, ZenonT(30) DEF plic_claim, UartOk
  <2>2. UartOk' /\ uart'.thr <= uart.thr
    BY <1>0, <2>1 DEF UartOk
  <2> QED
    BY <1>1, <1>h, <1>i, <1>q, <2>2 DEF plic_claim
<1>2. CASE uartgetc
  <2>1. CASE uart.rhr = None
    BY <1>2, <2>1, <1>h, <1>i, <1>u, <1>q, SMTT(30) DEF uartgetc
  <2>2. CASE uart.rhr # None
    <3>1. uart' = [thr |-> uart.thr, rhr |-> None, irq |-> uart.irq]
      BY <1>0, <1>2, <2>2 DEF uartgetc, UartOk
    <3>2. UartOk' /\ uart'.thr <= uart.thr
      BY <1>0, <3>1 DEF UartOk
    <3>3. intr' = [pc |-> "acquire", c |-> uart.rhr, echo |-> intr.echo]
      BY <1>0, <1>2, <2>2, ZenonT(30) DEF uartgetc, IntrOk
    <3>4. IntrOk' /\ intr'.pc = "acquire"
      BY <3>3 DEF IntrOk
    <3> QED
      BY <1>2, <1>i, <1>q, <3>2, <3>4 DEF uartgetc
  <2> QED
    BY <2>1, <2>2
<1>3. CASE consoleintr
  <2>1. intr' = [pc |-> "echo", c |-> intr.c, echo |-> Echo(intr.c)]
    BY <1>0, <1>3, ZenonT(30) DEF consoleintr, IntrOk
  <2>2. IntrOk' /\ intr'.pc = "echo"
    BY <2>1 DEF IntrOk
  <2> QED
    BY <1>3, <1>i, <1>u, <1>q, <2>2 DEF consoleintr
<1>4. CASE echo_wait
  <2>1. IntrOk' /\ intr'.pc = "echo_put" /\ uart' = uart /\ io' = io /\ tx' = tx /\ uart.thr = 0
    BY <1>4, <1>h, SMTT(30) DEF echo_wait, UartIdle
  <2>2. TxLockInv'
    BY <1>0, <2>1, SMTT(30) DEF TxLockInv
  <2> QED
    BY <1>i, <1>u, <2>1, <2>2, IdleRoom, SMTT(30) DEF PutInv
<1>5. CASE echo_put
  <2>1. intr' = [pc |-> "echo", c |-> intr.c, echo |-> intr.echo - 1]
    BY <1>0, <1>5, Zenon DEF echo_put, IntrOk
  <2>2. IntrOk' /\ intr'.pc = "echo" /\ io' = io /\ tx' = tx /\ intr.pc = "echo_put" /\ PutByte
    BY <1>5, <2>1, ZenonT(30) DEF echo_put, IntrOk
  <2>3. TxLockInv' /\ HandlerPuts /\ ~HandlerPuts'
    BY <1>0, <2>2, SMTT(30) DEF TxLockInv, HandlerPuts
  <2>4. RoomInv'
    BY <1>0, <1>i, <1>p, <2>2, <2>3, SMTT(30) DEF RoomInv, Contends, UartOk
  <2> QED
    BY <1>i, <1>p, <2>2, <2>3, <2>4 DEF PutInv
<1>6. CASE consoleintr_end
  <2>1. intr' = [pc |-> "getc", c |-> None, echo |-> intr.echo]
    BY <1>0, <1>6, Zenon DEF consoleintr_end, IntrOk
  <2>2. IntrOk' /\ intr'.pc = "getc" /\ uart' = uart /\ tx' = tx
    BY <1>6, <2>1, ZenonT(30) DEF consoleintr_end, IntrOk
  <2>3. CASE io' = io
    BY <1>i, <1>u, <1>q, <2>2, <2>3, SMTT(30)
  <2>4. CASE io' = WakeUsers(io, "read_sleep", "read")
    <3>1. /\ io' = [p \in Users |-> io'[p]]
          /\ \A p \in Users : /\ IsIo(io'[p])
                              /\ io'[p].pc = IF io[p].pc = "read_sleep" THEN "read" ELSE io[p].pc
      BY <1>0, <2>4, IoWakes
    <3>2. IoOk'
      BY <3>1 DEF IoOk
    <3>3. SamePlaces
      BY <3>1 DEF SamePlaces
    <3> QED
      BY <1>u, <1>q, <2>2, <3>2, <3>3, SMTT(30)
  <2> QED
    BY <1>6, <2>3, <2>4 DEF consoleintr_end
<1>7. CASE tx_acquire
  <2>1. IntrOk' /\ intr'.pc = "start" /\ uart' = uart /\ io' = io /\ tx.lock = None
    BY <1>7, <1>h DEF tx_acquire
  <2>2. tx'.lock = Intr
    BY <1>7, ZenonT(30) DEF tx_acquire, TxType
  <2>3. TxLockInv' /\ ~HandlerPuts'
    BY <1>0, <2>1, <2>2, SMTT(30) DEF TxLockInv, HandlerPuts
  <2>4. RoomInv'
    BY <1>0, <1>i, <2>1, <2>3 DEF RoomInv, Contends, UartOk
  <2> QED
    BY <1>i, <1>u, <2>1, <2>3, <2>4 DEF PutInv
<1>8. CASE intr_take
  <2>1. /\ IntrOk' /\ intr'.pc = "start_put" /\ uart' = uart /\ uart.thr = 0 /\ intr.pc = "start"
        /\ io' = WakeUsers(io, "putc_sleep", "putc") /\ tx' = [tx EXCEPT !.r = tx.r + 1]
    BY <1>0, <1>8, <1>h DEF intr_take, TakeByte, Stuck, UartOk, Sent
  <2>2. /\ io' = [p \in Users |-> io'[p]]
        /\ \A p \in Users : /\ IsIo(io'[p])
                            /\ io'[p].pc = IF io[p].pc = "putc_sleep" THEN "putc" ELSE io[p].pc
    BY <1>0, <2>1, IoWakes
  <2>3. IoOk' /\ PrintInv'
    BY <1>0, <2>2, Zenon DEF IoOk, PrintInv
  <2>4. tx'.lock = tx.lock
    BY <2>1, Zenon DEF TxType
  <2>5. TxLockInv'
    BY <1>0, <2>1, <2>2, <2>4, SMTT(30) DEF TxLockInv
  <2> QED
    BY <1>u, <2>1, <2>3, <2>5, IdleRoom, SMTT(30) DEF PutInv
<1>9. CASE intr_put
  <2>1. /\ IntrOk' /\ intr'.pc = "start" /\ io' = io /\ tx' = tx /\ intr.pc = "start_put"
        /\ PutByte
    BY <1>9, <1>h, SMTT(30) DEF intr_put
  <2>2. TxLockInv' /\ HandlerPuts /\ ~HandlerPuts'
    BY <1>0, <2>1, SMTT(30) DEF TxLockInv, HandlerPuts
  <2>3. RoomInv'
    BY <1>0, <1>i, <1>p, <2>1, <2>2, SMTT(30) DEF RoomInv, Contends, UartOk
  <2> QED
    BY <1>i, <1>p, <2>1, <2>2, <2>3, SMTT(30) DEF PutInv
<1>10. CASE intr_end
  <2>1. IntrOk' /\ intr'.pc = "idle" /\ uart' = uart /\ io' = io /\ intr.pc = "start"
    BY <1>10, <1>h, SMTT(30) DEF intr_end
  <2>2. TxLockInv' /\ ~HandlerPuts'
    BY <1>0, <2>1, SMTT(30) DEF TxLockInv, HandlerPuts
  <2>3. RoomInv'
    BY <1>0, <1>i, <2>1, <2>2, SMTT(30) DEF RoomInv, Contends, UartOk
  <2> QED
    BY <1>i, <1>u, <2>1, <2>2, <2>3, SMTT(30) DEF PutInv
<1> QED
  BY <1>1, <1>2, <1>3, <1>4, <1>5, <1>6, <1>7, <1>8, <1>9, <1>10, SMTT(30) DEF Handler

LEMMA PutNext ==
  ASSUME PutInv, TxInv, [ConsoleNext]_consoleVars
  PROVE  PutInv'
<1>0. IoOk /\ IntrOk /\ UartOk /\ TxType
  BY DEF PutInv, TxInv, TxType
<1>1. CASE UNCHANGED consoleVars
  <2>1. UNCHANGED <<tx, uart, intr, io>>
    BY <1>1, SMTT(30) DEF consoleVars
  <2>2. IoOk' /\ IntrOk' /\ UartOk' /\ SamePlaces /\ uart'.thr <= uart.thr
    BY <1>0, <2>1 DEF IoOk, IntrOk, UartOk, SamePlaces
  <2> QED
    BY <2>1, <2>2, PlacesInv
<1>2. ASSUME uart'.thr <= uart.thr, UartOk', UNCHANGED <<tx, intr, io>>
      PROVE  PutInv'
  <2>1. IoOk' /\ IntrOk' /\ SamePlaces
    BY <1>0, <1>2 DEF IoOk, IntrOk, SamePlaces
  <2> QED
    BY <1>2, <2>1, PlacesInv
<1>3. CASE uart_send
  <2>1. PICK b : uart' = [thr |-> uart.thr - 1, rhr |-> uart.rhr, irq |-> b]
    BY <1>0, <1>3, Zenon DEF uart_send, UartOk
  <2>2. uart.thr \in Nat /\ uart.thr > 0
    BY <1>0, <1>3 DEF uart_send, UartOk
  <2>3. UartOk' /\ uart'.thr <= uart.thr
    BY <2>1, <2>2 DEF UartOk
  <2> QED
    BY <1>2, <1>3, <2>3 DEF uart_send
<1>4. ASSUME NEW c \in Typed, uart_receive(c) PROVE PutInv'
  <2>1. uart' = [thr |-> uart.thr, rhr |-> c, irq |-> TRUE]
    BY <1>0, <1>4, ZenonT(30) DEF uart_receive, UartOk
  <2>2. UartOk' /\ uart'.thr <= uart.thr
    BY <1>0, <2>1 DEF UartOk
  <2> QED
    BY <1>2, <1>4, <2>2 DEF uart_receive
<1> QED
  BY <1>0, <1>1, <1>3, <1>4, ReaderPuts, WriterSteps, PrinterSteps, HandlerSteps, SMTT(30) DEF ConsoleNext

LEMMA PutInit == ConsoleInit => PutInv
<1> SUFFICES ASSUME ConsoleInit PROVE PutInv
  OBVIOUS
<1>1. /\ uart = [thr |-> 0, rhr |-> None, irq |-> FALSE]
      /\ intr = [pc |-> "idle", c |-> None, echo |-> 0]
      /\ io = [p \in Users |-> [pc |-> "user", n |-> 0, got |-> <<>>]]
  BY DEF ConsoleInit
<1>2. IoOk /\ \A p \in Users : io[p].pc = "user"
  BY <1>1, SMTT(30) DEF IoOk, IsIo
<1>3. IntrOk /\ intr.pc = "idle"
  BY <1>1, SMTT(30) DEF IntrOk
<1>4. UartOk /\ uart.thr = 0
  BY <1>1, SMTT(30) DEF UartOk
<1>5. TxLockInv /\ PrintInv
  BY <1>2, <1>3, UsersDisjoint DEF TxLockInv, PrintInv
<1>6. RoomInv
  BY <1>4 DEF RoomInv, Contends
<1> QED
  BY <1>2, <1>3, <1>4, <1>5, <1>6, SMTT(30) DEF PutInv

\* A UART with room for three characters is never overrun, however many processes
\* write and print (uart.c:86-161, printf.c:63-115): the 16550 has room for 16.
THEOREM ConsoleNoOverrun == FIFO >= 3 => (ConsoleSpec => []NoOverrun)
<1> SUFFICES ASSUME FIFO >= 3 PROVE ConsoleSpec => []NoOverrun
  OBVIOUS
<1>1. PutInv => NoOverrun
  BY ConsoleAssumption DEF PutInv, RoomInv, Contends, UartOk, NoOverrun
<1> QED
  BY <1>1, TxInit, TxNext, PutInit, PutNext, PTL DEF ConsoleSpec
-----------------------------------------------------------------------------
(* The clock *)

\* The last sleep of a process that has returned 0 was as long as it asked; ticks0 is
\* a time that has been.
NapInv ==
  /\ ticks \in Nat
  /\ nap \in [Procs -> [ticks0 : Nat, n : Nat, result : {"none", "sleeps", "slept", "killed"}]]
  /\ \A p \in Procs : nap[p].ticks0 <= ticks
  /\ \A p \in Procs : nap[p].result = "slept" => nap[p].n <= ticks - nap[p].ticks0

\* A difference is at least what is left of it when it wraps.
LEMMA WrapsDown ==
  ASSUME NEW t \in Nat, NEW t0 \in Nat, t0 <= t
  PROVE  (t - t0) % TUINT \in Int /\ (t - t0) % TUINT <= t - t0
<1>1. t - t0 \in Nat /\ TUINT \in Nat \ {0}
  BY TrapsAssumption DEF TrapsAssumption
<1> DEFINE d == t - t0
           q == d \div TUINT
           r == d % TUINT
<1>2. d = TUINT * q + r /\ q \in Nat /\ r \in 0 .. TUINT - 1
  BY <1>1, DivMod, Zenon
<1> HIDE DEF q, r
<1>3. TUINT * q \in Nat
  BY <1>1, <1>2
<1> HIDE DEF d
<1>4. r \in Int /\ r <= d
  BY <1>1, <1>2, <1>3, SMTT(30) DEF d
<1> QED
  BY <1>4 DEF d, r

LEMMA NapInit == TrapsInit => NapInv
BY TrapsAssumption DEF TrapsInit, NapInv, TrapsAssumption

LEMMA NapNext ==
  ASSUME NapInv, [TrapsNext]_trapsVars
  PROVE  NapInv'
<1> DEFINE Nap == [ticks0 : Nat, n : Nat, result : {"none", "sleeps", "slept", "killed"}]
<1>1. CASE UNCHANGED <<ticks, nap>>
  BY <1>1 DEF NapInv
<1>2. ASSUME NEW c \in Hart, clockintr(c) PROVE NapInv'
  BY <1>2, SMTT(30) DEF clockintr, NapInv
<1>3. ASSUME NEW p \in Procs, NEW x \in Nap, nap' = [nap EXCEPT ![p] = x], ticks' = ticks,
             x.ticks0 <= ticks, x.result = "slept" => x.n <= ticks - x.ticks0
      PROVE  NapInv'
  BY <1>3, SMTT(30) DEF NapInv
<1>4. ASSUME NEW c \in Hart, NEW p \in Procs, sys_sleep(c, p) PROVE NapInv'
  <2>1. PICK n \in Naps : /\ nap' = [nap EXCEPT ![p] = [ticks0 |-> 0, n |-> n, result |-> "none"]]
                          /\ ticks' = ticks
    BY <1>4, ZenonT(30) DEF sys_sleep, usertrap
  <2>2. [ticks0 |-> 0, n |-> n, result |-> "none"] \in Nap
    BY TrapsAssumption DEF TrapsAssumption
  <2> QED
    BY <1>3, <2>1, <2>2 DEF NapInv
<1>5. ASSUME NEW c \in Hart, sys_sleep_start(c) PROVE NapInv'
  <2> DEFINE p == cur[c]
             x == [ticks0 |-> ticks, n |-> nap[p].n, result |-> "sleeps"]
  <2>1. ticks' = ticks /\ nap' = [nap EXCEPT ![p] = x]
    BY <1>5 DEF sys_sleep_start
  <2>2. CASE p \notin Procs
    <3>1. nap' = nap
      BY <2>1, <2>2 DEF NapInv
    <3> QED
      BY <1>1, <2>1, <3>1, SMTT(30)
  <2>3. CASE p \in Procs
    <3>1. x \in Nap /\ x.ticks0 <= ticks
      BY <2>3 DEF NapInv
    <3> QED
      BY <1>3, <2>1, <2>3, <3>1, ZenonT(30)
  <2> QED
    BY <2>2, <2>3, SMTT(30)
<1>6. ASSUME NEW c \in Hart, sys_sleep_while(c) PROVE NapInv'
  <2> DEFINE p == cur[c]
             r == IF Early(p) THEN "killed" ELSE "slept"
             x == [ticks0 |-> nap[p].ticks0, n |-> nap[p].n, result |-> r]
  <2>1. ticks' = ticks /\ (nap' = nap \/ nap' = [nap EXCEPT ![p].result = r])
    BY <1>6 DEF sys_sleep_while
  <2>2. CASE p \notin Procs \/ nap' = nap
    <3>1. nap' = nap
      BY <2>1, <2>2 DEF NapInv
    <3> QED
      BY <1>1, <2>1, <3>1, SMTT(30)
  <2>3. CASE p \in Procs /\ nap' = [nap EXCEPT ![p].result = r]
    <3>1. nap[p] \in Nap
      BY <2>3 DEF NapInv
    <3>2. [nap[p] EXCEPT !.result = r] = x
      BY <3>1
    <3>3. nap' = [nap EXCEPT ![p] = x]
      BY <2>3, <3>2, ZenonT(30)
    <3>4. x \in Nap /\ x.ticks0 <= ticks
      BY <2>3, <3>1, SMTT(30) DEF NapInv
    <3>5. x.result = "slept" => x.n <= ticks - x.ticks0
      <4> SUFFICES ASSUME r = "slept" PROVE nap[p].n <= ticks - nap[p].ticks0
        OBVIOUS
      <4>1. ~Early(p)
        OBVIOUS
      <4>2. /\ (ticks - nap[p].ticks0) % TUINT \in Int
            /\ (ticks - nap[p].ticks0) % TUINT <= ticks - nap[p].ticks0
        BY <2>3, <3>1, WrapsDown, SMTT(30) DEF NapInv
      <4>3. ticks \in Nat /\ nap[p].n \in Nat /\ nap[p].ticks0 \in Nat
        BY <2>3, <3>1 DEF NapInv
      <4> QED
        BY <4>1, <4>2, <4>3, SMTT(30) DEF Early
    <3> HIDE DEF x
    <3> QED
      BY <1>3, <2>1, <2>3, <3>3, <3>4, <3>5, ZenonT(30)
  <2> QED
    BY <2>1, <2>2, <2>3, SMTT(30)
<1>7. ASSUME NEW c \in Hart,
             \/ push_off(c) \/ acquire(c) \/ spin(c) \/ release(c)
             \/ scheduler(c) \/ run(c) \/ set_state(c) \/ sched(c) \/ sched_end(c)
             \/ set_runnable(c) \/ preempt(c) \/ kerneltrap_end(c) \/ check_killed(c)
             \/ usertrapret(c) \/ kerneltrap(c)
             \/ \E p \in Procs : sys_exit(c, p) \/ usertrap_timer(c, p)
                                 \/ sys_uptime(c, p) \/ sys_kill(c, p)
      PROVE  UNCHANGED <<ticks, nap>>
  BY <1>7, ZenonT(30)
     DEF push_off, acquire, spin, release, scheduler, run, set_state, sched, sched_end,
         set_runnable, preempt, kerneltrap_end, check_killed, usertrapret, kerneltrap,
         sys_exit, usertrap_timer, sys_uptime, sys_kill, usertrap
<1>8. CASE UNCHANGED trapsVars
  BY <1>1, <1>8 DEF trapsVars
<1> QED
  BY <1>1, <1>2, <1>4, <1>5, <1>6, <1>7, <1>8, ZenonT(30) DEF TrapsNext, HartStep

\* sleep(n) returns 0 only when n ticks have passed (sysproc.c:65-66), for every width
\* of ticks and wherever it wraps.
THEOREM TrapsSleepsLongEnough == TrapsSpec => []SleepsLongEnough
<1>1. NapInv => SleepsLongEnough
  <2> SUFFICES ASSUME NapInv, NEW p \in Procs, nap[p].result = "slept"
               PROVE  ticks - nap[p].ticks0 >= nap[p].n
    BY DEF SleepsLongEnough
  <2> QED
    BY DEF NapInv
<1> QED
  BY <1>1, NapInit, NapNext, PTL DEF TrapsSpec
=============================================================================
