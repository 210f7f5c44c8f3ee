---------------------------- MODULE MCInterrupts ----------------------------
(***************************************************************************)
(* The console and the traps side by side: a behaviour is one of the       *)
(* console, with no hart in the clock's model, or one of the clock, with   *)
(* nothing typed, read or written.                                         *)
(***************************************************************************)
EXTENDS Console, Traps

CONSTANTS r1, h0, h1, p1, p2

Quiet == [read |-> [p \in Readers |-> 0], kill |-> 0, typed |-> 0, written |-> 0, printed |-> 0]
Timers(n0, n1) == [c \in Hart |-> IF c = h0 THEN n0 ELSE n1]
Off0 == [harts |-> {}, procs |-> {}, timers |-> Timers(0, 0), calls |-> {}, nap |-> 0]

\* Nothing; two reads of what is typed, by one process or by two; a read that is
\* killed; more typed than the ring holds; two writers that fill the output ring; output,
\* with an echo and a printf that compete for the UART.
MCBudgets == {Quiet,
              [Quiet EXCEPT !.read[r1] = 2, !.typed = 3],
              [Quiet EXCEPT !.read = [p \in Readers |-> 1], !.typed = 2],
              [Quiet EXCEPT !.read[r1] = 1, !.typed = 1, !.kill = 1],
              [Quiet EXCEPT !.typed = 4],
              [Quiet EXCEPT !.written = 4],
              [Quiet EXCEPT !.written = 1, !.typed = 1, !.printed = 2]}

\* One process on two harts, with ticks; two processes on one hart, with ticks and a
\* kill; two on two, with a tick or with a kill.
MCSetups == {Off0,
             [harts |-> {h0}, procs |-> {p1}, timers |-> Timers(1, 0), calls |-> {"uptime"}, nap |-> 0],
             [harts |-> {h0, h1}, procs |-> {p1}, timers |-> Timers(2, 1), calls |-> {"sleep"}, nap |-> 2],
             [harts |-> {h0}, procs |-> {p1, p2}, timers |-> Timers(2, 0), calls |-> {"sleep", "kill"}, nap |-> 2],
             [harts |-> {h0, h1}, procs |-> {p1, p2}, timers |-> Timers(1, 0), calls |-> {"sleep"}, nap |-> 1],
             [harts |-> {h0, h1}, procs |-> {p1, p2}, timers |-> Timers(0, 0), calls |-> {"sleep", "kill"}, nap |-> 1]}

Init == ConsoleInit /\ TrapsInit /\ (left = Quiet <=> setup # Off0)

Next == \/ ConsoleNext /\ UNCHANGED trapsVars
        \/ TrapsNext /\ UNCHANGED consoleVars

Spec == Init /\ [][Next]_<<consoleVars, trapsVars>> /\ ConsoleFairness /\ TrapsFairness
=============================================================================
