------------------------------ MODULE Console ------------------------------
(***************************************************************************)
(* The console and the UART below it (kernel/console.c, kernel/uart.c):    *)
(* processes that read and write it, kernel code that prints, and the      *)
(* interrupt handler (kernel/trap.c).                                      *)
(*                                                                         *)
(* Atomicity.  cons.lock and uart_tx_lock are explicit.  consoleread takes *)
(* one step per byte; reading the status of the UART and writing to it are *)
(* two steps, because uartputc_sync takes no lock.  consoleread tests      *)
(* p->killed and sleeps in two steps: kill takes p->lock and not           *)
(* cons.lock, and in between it finds nobody asleep.  The other sleep and  *)
(* wakeup are atomic with the step around them (module Proc).              *)
(*                                                                         *)
(* The kernel has not panicked: panic prints without pr.lock and then      *)
(* stops all output (printf.c:117-127, uart.c:91-94, 119-122), and nothing *)
(* is claimed of the console after it.                                     *)
(*                                                                         *)
(* The UART is external: it sends what was written to it, has room for     *)
(* FIFO characters, is idle when it has none, and interrupts when it turns *)
(* idle and when a character arrives.                                      *)
(***************************************************************************)
EXTENDS Integers, Sequences, FiniteSets

CONSTANTS
  Readers, Writers,   \* processes that read or write the console
  Printers,           \* processes in the kernel's printf, one at a time
  None,               \* no process, no character
  Intr,               \* the interrupt handler, as the holder of a lock
  INPUT_BUF,          \* console.c: size of the input ring
  UART_TX_BUF_SIZE,   \* uart.c: size of the output ring
  CUINT,              \* the indices of cons are unsigned: they wrap at 2^32
  FIFO,               \* characters the UART has room for
  Asks,               \* the lengths passed to read
  Typed,              \* the characters that are typed
  Budgets             \* bounds: reads of each reader, kills, and characters typed, written and printed

ASSUME ConsoleAssumption ==
  /\ Readers \cap Writers = {} /\ Readers \cap Printers = {} /\ Writers \cap Printers = {}
  /\ None # Intr /\ {None, Intr} \cap (Readers \cup Writers \cup Printers) = {}
  /\ {INPUT_BUF, UART_TX_BUF_SIZE, FIFO} \subseteq Nat \ {0}
  /\ CUINT \in Nat /\ CUINT > INPUT_BUF /\ CUINT % INPUT_BUF = 0
  /\ Budgets \subseteq [read : [Readers -> Nat], kill : Nat, typed : Nat, written : Nat, printed : Nat]
  /\ Asks \subseteq 1 .. INPUT_BUF
  /\ Typed \subseteq {"a", "newline", "return", "D", "H", "U"}

VARIABLES
  cons,    \* buf, r, w, e and lock of cons
  tx,      \* uart_tx_buf, uart_tx_w, uart_tx_r and uart_tx_lock
  uart,    \* characters to send, the character that has arrived, interrupt pending
  intr,    \* where the interrupt handler is, its character, what it has to echo
  io,      \* where each process is, what it has left to move, what it has read
  iokilled,  \* p->killed, as "no" or where p was when it was set
  left,    \* what is left of the bounds
  sent, taken  \* history: bytes accepted by uartputc, bytes it has sent on

consoleVars == <<cons, tx, uart, intr, io, iokilled, left, sent, taken>>

Users == Readers \cup Writers \cup Printers

\* The console is idle: the indices of its ring are equal.  They are about to wrap,
\* as they do after 2^32 characters; the other states follow from this one.
ConsoleInit ==
  /\ cons = [buf |-> [k \in 0 .. INPUT_BUF - 1 |-> None], r |-> CUINT - 1, w |-> CUINT - 1,
             e |-> CUINT - 1, lock |-> None]
  /\ tx = [buf |-> [k \in 0 .. UART_TX_BUF_SIZE - 1 |-> 0], w |-> 0, r |-> 0, lock |-> None]
  /\ uart = [thr |-> 0, rhr |-> None, irq |-> FALSE]
  /\ intr = [pc |-> "idle", c |-> None, echo |-> 0]
  /\ io = [p \in Users |-> [pc |-> "user", n |-> 0, got |-> <<>>]]
  /\ iokilled = [p \in Readers |-> "no"]
  /\ left \in Budgets /\ sent = 0 /\ taken = <<>>

\* Unsigned sums and differences, and the slot of an index.
U(x)    == (x + CUINT) % CUINT
CSlot(x) == x % INPUT_BUF

Is(p, pc) == io[p].pc = pc
Moves(p, pc) == io' = [io EXCEPT ![p].pc = pc]
Returns(p) == io' = [io EXCEPT ![p] = [pc |-> "user", n |-> 0, got |-> <<>>]]

\* wakeup(&cons.r) and wakeup(&uart_tx_r), on the processes f.
WakeUsers(f, pc, to) == [p \in Users |-> IF f[p].pc = pc THEN [f[p] EXCEPT !.pc = to] ELSE f[p]]

----------------------------------------------------------------------------
\* consoleread (console.c:79-127).
consoleread(p, n) ==
  /\ Is(p, "user") /\ left.read[p] > 0
  /\ io' = [io EXCEPT ![p] = [pc |-> "read", n |-> n, got |-> <<>>]]
  /\ left' = [left EXCEPT !.read[p] = @ - 1]
  /\ UNCHANGED <<cons, tx, uart, intr, iokilled, sent, taken>>

read_acquire(p) ==
  /\ Is(p, "read") /\ cons.lock = None
  /\ cons' = [cons EXCEPT !.lock = p]
  /\ Moves(p, "read_loop")
  /\ UNCHANGED <<tx, uart, intr, iokilled, left, sent, taken>>

\* Nothing to read: return -1 if killed, else go to sleep.
read_wait(p) ==
  /\ Is(p, "read_loop") /\ cons.r = cons.w
  /\ \/ /\ iokilled[p] # "no"
        /\ cons' = [cons EXCEPT !.lock = None]
        /\ Returns(p)
     \/ /\ iokilled[p] = "no"
        /\ Moves(p, "read_empty")
        /\ UNCHANGED cons
  /\ UNCHANGED <<tx, uart, intr, iokilled, left, sent, taken>>

\* sleep takes p->lock, then gives up cons.lock.
read_sleep(p) ==
  /\ Is(p, "read_empty")
  /\ cons' = [cons EXCEPT !.lock = None]
  /\ Moves(p, "read_sleep")
  /\ UNCHANGED <<tx, uart, intr, iokilled, left, sent, taken>>

\* Mutant: the control-d is always consumed.
AfterEof_always(p) == U(cons.r + 1)

\* The read index after a control-d: saved for the next read if this one has bytes.
AfterEof(p) == IF io[p].got # <<>> THEN cons.r ELSE U(cons.r + 1)

\* One byte; copyout may fail.
read_byte(p) ==
  /\ Is(p, "read_loop") /\ cons.r # cons.w
  /\ LET c == cons.buf[CSlot(cons.r)]
         got == Append(io[p].got, c)
         last == c = "newline" \/ Len(got) = io[p].n
     IN  \/ /\ c = "D"
            /\ cons' = [cons EXCEPT !.r = AfterEof(p), !.lock = None]
            /\ Returns(p)
         \/ /\ c # "D"
            /\ cons' = [cons EXCEPT !.r = U(@ + 1)]
            /\ io' = [io EXCEPT ![p].got = got, ![p].pc = IF last THEN "read_end" ELSE @]
         \/ /\ c # "D"
            /\ cons' = [cons EXCEPT !.r = U(@ + 1), !.lock = None]
            /\ Returns(p)
  /\ UNCHANGED <<tx, uart, intr, iokilled, left, sent, taken>>

read_end(p) ==
  /\ Is(p, "read_end")
  /\ cons' = [cons EXCEPT !.lock = None]
  /\ Returns(p)
  /\ UNCHANGED <<tx, uart, intr, iokilled, left, sent, taken>>

----------------------------------------------------------------------------
\* consolewrite (console.c:58-71) and uartputc (uart.c:86-109), byte by byte.
consolewrite(p) ==
  /\ Is(p, "user")
  /\ \E n \in 1 .. left.written :
       /\ io' = [io EXCEPT ![p] = [pc |-> "putc", n |-> n, got |-> <<>>]]
       /\ left' = [left EXCEPT !.written = @ - n]
  /\ UNCHANGED <<cons, tx, uart, intr, iokilled, sent, taken>>

\* Mutant: the ring is full one byte late.
TxFull_late == tx.w > tx.r + UART_TX_BUF_SIZE

TxFull == tx.w = tx.r + UART_TX_BUF_SIZE

\* The buffer is full: sleep on it.
uartputc_full(p) ==
  /\ Is(p, "putc") /\ tx.lock = None /\ TxFull
  /\ Moves(p, "putc_sleep")
  /\ UNCHANGED <<cons, tx, uart, intr, iokilled, left, sent, taken>>

uartputc(p) ==
  /\ Is(p, "putc") /\ tx.lock = None /\ ~TxFull
  /\ tx' = [tx EXCEPT !.buf[tx.w % UART_TX_BUF_SIZE] = sent + 1, !.w = @ + 1, !.lock = p]
  /\ sent' = sent + 1
  /\ Moves(p, "start")
  /\ UNCHANGED <<cons, uart, intr, iokilled, left, taken>>

\* uartstart (uart.c:137-161), by the holder of uart_tx_lock: a byte for an idle UART.
Stuck == tx.w = tx.r \/ uart.thr > 0

\* Mutant: the wakeup is missing.
Sent_no_wakeup(f) == f

Sent(f) == WakeUsers(f, "putc_sleep", "putc")

TakeByte ==
  /\ ~Stuck
  /\ taken' = Append(taken, tx.buf[tx.r % UART_TX_BUF_SIZE])
  /\ tx' = [tx EXCEPT !.r = @ + 1]

\* WriteReg(THR, c).
PutByte == uart' = [uart EXCEPT !.thr = @ + 1]

\* uartstart called by uartputc.
start_take(p) ==
  /\ Is(p, "start") /\ TakeByte
  /\ io' = [Sent(io) EXCEPT ![p].pc = "start_put"]
  /\ UNCHANGED <<cons, uart, intr, iokilled, left, sent>>

start_put(p) ==
  /\ Is(p, "start_put") /\ PutByte
  /\ Moves(p, "start")
  /\ UNCHANGED <<cons, tx, intr, iokilled, left, sent, taken>>

\* uartputc returns; consolewrite goes on with the next byte, unless copyin fails.
start_end(p) ==
  /\ Is(p, "start") /\ Stuck
  /\ tx' = [tx EXCEPT !.lock = None]
  /\ \/ Returns(p)
     \/ /\ io[p].n > 1
        /\ io' = [io EXCEPT ![p] = [pc |-> "putc", n |-> io[p].n - 1, got |-> <<>>]]
  /\ UNCHANGED <<cons, uart, intr, iokilled, left, sent, taken>>

----------------------------------------------------------------------------
\* Mutant: the status is not looked at.
Idle_ignored == TRUE

\* LSR_TX_IDLE, as uartputc_sync (uart.c:115-131) waits for it.
UartIdle == uart.thr = 0

\* printf (printf.c:63-115) under pr.lock: the characters of the format and of the
\* arguments, one after the other.
printf(p) ==
  /\ Is(p, "user") /\ \A q \in Printers : Is(q, "user")
  /\ \E n \in 1 .. left.printed :
       /\ io' = [io EXCEPT ![p] = [pc |-> "sync", n |-> n, got |-> <<>>]]
       /\ left' = [left EXCEPT !.printed = @ - n]
  /\ UNCHANGED <<cons, tx, uart, intr, iokilled, sent, taken>>

sync_wait(p) ==
  /\ Is(p, "sync") /\ UartIdle
  /\ Moves(p, "sync_put")
  /\ UNCHANGED <<cons, tx, uart, intr, iokilled, left, sent, taken>>

sync_put(p) ==
  /\ Is(p, "sync_put") /\ PutByte
  /\ \/ /\ io[p].n = 1
        /\ Returns(p)
     \/ /\ io[p].n > 1
        /\ io' = [io EXCEPT ![p] = [pc |-> "sync", n |-> io[p].n - 1, got |-> <<>>]]
  /\ UNCHANGED <<cons, tx, intr, iokilled, left, sent, taken>>

----------------------------------------------------------------------------
\* devintr, uartintr and consoleintr (trap.c:186-200, uart.c:179-194,
\* console.c:135-179).
Handles(pc) == intr' = [intr EXCEPT !.pc = pc]

plic_claim ==
  /\ intr.pc = "idle" /\ uart.irq
  /\ uart' = [uart EXCEPT !.irq = FALSE]
  /\ Handles("getc")
  /\ UNCHANGED <<cons, tx, io, iokilled, left, sent, taken>>

uartgetc ==
  /\ intr.pc = "getc"
  /\ IF uart.rhr = None THEN Handles("tx_acquire") /\ UNCHANGED uart
     ELSE /\ intr' = [intr EXCEPT !.pc = "acquire", !.c = uart.rhr]
          /\ uart' = [uart EXCEPT !.rhr = None]
  /\ UNCHANGED <<cons, tx, io, iokilled, left, sent, taken>>

HasRoom == U(cons.e - cons.r) < INPUT_BUF

\* How many characters are erased, and how many are sent to the UART for it.
Erased(c) ==
  LET back == CHOOSE k \in 0 .. INPUT_BUF :
                /\ \A j \in 0 .. k - 1 : U(cons.e - j) # cons.w /\ cons.buf[CSlot(U(cons.e - j - 1))] # "newline"
                /\ U(cons.e - k) = cons.w \/ cons.buf[CSlot(U(cons.e - k - 1))] = "newline"
  IN  IF c = "U" THEN back ELSE IF cons.e # cons.w THEN 1 ELSE 0
Echo(c) == IF c \in {"U", "H"} THEN 3 * Erased(c) ELSE IF HasRoom THEN 1 ELSE 0

consoleintr ==
  /\ intr.pc = "acquire" /\ cons.lock = None
  /\ cons' = [cons EXCEPT !.lock = Intr]
  /\ intr' = [intr EXCEPT !.pc = "echo", !.echo = Echo(intr.c)]
  /\ UNCHANGED <<tx, uart, io, iokilled, left, sent, taken>>

\* consputc: uartputc_sync for each character of the echo.
echo_wait ==
  /\ intr.pc = "echo" /\ intr.echo > 0 /\ UartIdle
  /\ Handles("echo_put")
  /\ UNCHANGED <<cons, tx, uart, io, iokilled, left, sent, taken>>

echo_put ==
  /\ intr.pc = "echo_put" /\ PutByte
  /\ intr' = [intr EXCEPT !.pc = "echo", !.echo = @ - 1]
  /\ UNCHANGED <<cons, tx, io, iokilled, left, sent, taken>>

Completes(x, e) == x \in {"newline", "D"} \/ e = U(cons.r + INPUT_BUF)

\* The character is stored or erases others; complete input wakes the readers.
consoleintr_end ==
  /\ intr.pc = "echo" /\ intr.echo = 0
  /\ LET x == IF intr.c = "return" THEN "newline" ELSE intr.c
         e == U(cons.e + 1)
     IN  \/ /\ x \in {"U", "H"}
            /\ cons' = [cons EXCEPT !.e = U(@ - Erased(x)), !.lock = None]
            /\ UNCHANGED io
         \/ /\ x \notin {"U", "H"} /\ ~HasRoom
            /\ cons' = [cons EXCEPT !.lock = None]
            /\ UNCHANGED io
         \/ /\ x \notin {"U", "H"} /\ HasRoom
            /\ cons' = [cons EXCEPT !.buf[CSlot(cons.e)] = x, !.e = e, !.lock = None,
                                    !.w = IF Completes(x, e) THEN e ELSE @]
            /\ io' = IF Completes(x, e) THEN WakeUsers(io, "read_sleep", "read") ELSE io
  /\ intr' = [intr EXCEPT !.pc = "getc", !.c = None]
  /\ UNCHANGED <<tx, uart, iokilled, left, sent, taken>>

tx_acquire ==
  /\ intr.pc = "tx_acquire" /\ tx.lock = None
  /\ tx' = [tx EXCEPT !.lock = Intr]
  /\ Handles("start")
  /\ UNCHANGED <<cons, uart, io, iokilled, left, sent, taken>>

\* uartstart called by uartintr.
intr_take ==
  /\ intr.pc = "start" /\ TakeByte
  /\ io' = Sent(io)
  /\ Handles("start_put")
  /\ UNCHANGED <<cons, uart, iokilled, left, sent>>

intr_put ==
  /\ intr.pc = "start_put" /\ PutByte
  /\ Handles("start")
  /\ UNCHANGED <<cons, tx, io, iokilled, left, sent, taken>>

intr_end ==
  /\ intr.pc = "start" /\ Stuck
  /\ tx' = [tx EXCEPT !.lock = None]
  /\ Handles("idle")
  /\ UNCHANGED <<cons, uart, io, iokilled, left, sent, taken>>

----------------------------------------------------------------------------
\* The UART sends a character; with the last one it turns idle and interrupts.
uart_send ==
  /\ uart.thr > 0
  /\ uart' = [uart EXCEPT !.thr = @ - 1, !.irq = @ \/ uart.thr = 1]
  /\ UNCHANGED <<cons, tx, intr, io, iokilled, left, sent, taken>>

\* A character arrives.
uart_receive(c) ==
  /\ left.typed > 0 /\ uart.rhr = None
  /\ uart' = [uart EXCEPT !.rhr = c, !.irq = TRUE]
  /\ left' = [left EXCEPT !.typed = @ - 1]
  /\ UNCHANGED <<cons, tx, intr, io, iokilled, sent, taken>>

\* kill (proc.c:585-604) makes a sleeper run, not one that is about to sleep;
\* uartputc does not look at p->killed.
kill_reader(p) ==
  /\ iokilled[p] = "no" /\ left.kill > 0
  /\ iokilled' = [iokilled EXCEPT ![p] = io[p].pc]
  /\ io' = [io EXCEPT ![p].pc = IF @ = "read_sleep" THEN "read" ELSE @]
  /\ left' = [left EXCEPT !.kill = @ - 1]
  /\ UNCHANGED <<cons, tx, uart, intr, sent, taken>>

kill_writer(p) ==
  /\ Is(p, "putc_sleep")
  /\ Moves(p, "putc")
  /\ UNCHANGED <<cons, tx, uart, intr, iokilled, left, sent, taken>>

Handler == \/ plic_claim \/ uartgetc \/ consoleintr \/ echo_wait \/ echo_put \/ consoleintr_end
           \/ tx_acquire \/ intr_take \/ intr_put \/ intr_end
Reading(p)  == read_acquire(p) \/ read_wait(p) \/ read_sleep(p) \/ read_byte(p) \/ read_end(p)
Writing(p)  == uartputc_full(p) \/ uartputc(p) \/ start_take(p) \/ start_put(p) \/ start_end(p)
Printing(p) == sync_wait(p) \/ sync_put(p)

ConsoleNext ==
  \/ \E p \in Readers : Reading(p) \/ kill_reader(p) \/ \E n \in Asks : consoleread(p, n)
  \/ \E p \in Writers : Writing(p) \/ kill_writer(p) \/ consolewrite(p)
  \/ \E p \in Printers : Printing(p) \/ printf(p)
  \/ Handler \/ uart_send
  \/ \E c \in Typed : uart_receive(c)

ConsoleSpec == ConsoleInit /\ [][ConsoleNext]_consoleVars

\* A process in a call and the handler go on, and the UART sends what it has.  Weak
\* fairness is enough: every lock and the UART are free again for good, once what
\* is left of the bounds is used up.
ConsoleFairness ==
  /\ \A p \in Readers : WF_consoleVars(Reading(p))
  /\ \A p \in Writers : WF_consoleVars(Writing(p))
  /\ \A p \in Printers : WF_consoleVars(Printing(p))
  /\ WF_consoleVars(Handler) /\ WF_consoleVars(uart_send)

----------------------------------------------------------------------------
\* The characters between two indices of the input ring, and the bytes in the
\* output ring.
Between(a, b) == [k \in 1 .. U(b - a) |-> cons.buf[CSlot(U(a + k - 1))]]
TxQueue == [k \in 1 .. tx.w - tx.r |-> tx.buf[(tx.r + k - 1) % UART_TX_BUF_SIZE]]

Screen == INSTANCE Terminal WITH
  Room <- INPUT_BUF, edit <- Between(cons.w, cons.e), ready <- Between(cons.r, cons.w),
  ask <- [p \in Readers |-> io[p].n], got <- [p \in Readers |-> io[p].got]

\* consoleread and consoleintr implement a terminal (module Terminal): what is
\* typed is edited until the line is complete, and read in order, each byte once,
\* also when the unsigned indices wrap, the ring is full, two processes read and
\* a control-d comes in the middle (console.c:99-108, 144-173).
IsTerminal == Screen!Spec

Output == INSTANCE ByteChannel WITH Capacity <- UART_TX_BUF_SIZE, queue <- TxQueue

\* uartputc and uartstart send the bytes of all writers in the order in which they
\* were accepted, none lost or twice, whether the writer itself or the interrupt
\* handler hands them to the UART (uart.c:97-104, 137-161).
OutputIsFifo == Output!Spec

\* The UART never has more characters than it has room for.  uartputc_sync takes no
\* lock, so the handler's echo, a printf and uartstart can all have found the UART
\* idle when they write to it (uart.c:126-128, 146-159): one character each.
NoOverrun == uart.thr <= FIFO

\* Nobody waits for ever, unless the kernel itself prints without end: a write
\* returns though the ring was full, a printf gets the UART, and a process asleep in a
\* read runs when there is something to read (console.c:91-97, uart.c:97-104, 157).
\* A killed reader returns too, but for one that is killed between its look at p->killed
\* (console.c:92) and its sleep (console.c:96): it sleeps until there is input.
ConsoleCallsReturn ==
  <>[]\A p \in Users :
        Is(p, "user") \/ (Is(p, "read_sleep") /\ cons.r = cons.w /\ iokilled[p] \in {"no", "read_empty"})
=============================================================================
