------------------------------ MODULE MCShell ------------------------------
(* Instances of Shell and of Bcache for TLC, one or the other in a behaviour. *)
EXTENDS Shell, Bcache

CONSTANTS p1, p2, q1, r1, c1, c2, k1, k2, k3

VARIABLE turn

Session(nproc, nfile, nofile, lines) == [nproc |-> nproc, nfile |-> nfile, nofile |-> nofile, lines |-> lines]

Pipe2 == <<"a", "|", "a">>
Pipe3 == <<"a", "|", "a", "|", "a">>

\* A shell with nothing to do, while Bcache runs.
Resting == Session(2, 1, 3, <<>>)

\* The systems: with room for everything; with few processes, open files or
\* descriptors, so that fork, open and pipe fail, pipe after each of its steps.
\* In the first of them the shell is restarted while a command runs, and where there
\* are four processes and an "EOF" the command may take the slot of the shell.
MCSessions ==
  {Resting,
   Session(7, 5, 6, <<<<"a", "&">>, <<"EOF">>, <<"cd">>, <<"a", "<", "a", ">>", "a">>, <<"|", "(">>>>),
   Session(6, 5, 6, <<<<"a", "&", ";", "a">>, <<"a">>>>),
   Session(6, 5, 6, <<Pipe2>>),
   Session(4, 5, 6, <<<<"(", "a", "|", "a", ")", "&">>, <<"EOF">>>>),
   Session(4, 6, 7, <<<<"(", "a", "|", "a", ")", "|", "a">>, <<"EOF">>>>),
   Session(6, 6, 7, <<<<"(", "a", "&", ";", "a", ")", "|", "a">>>>),
   Session(2, 5, 6, <<Pipe2>>), Session(3, 5, 6, <<Pipe2>>), Session(4, 5, 6, <<Pipe2>>),
   Session(5, 1, 6, <<Pipe2, <<"a", "<", "a">>>>), Session(5, 2, 6, <<Pipe2>>),
   Session(6, 5, 7, <<Pipe3>>),
   Session(5, 5, 3, <<Pipe2>>), Session(5, 5, 4, <<Pipe2>>)}

\* A process with two buffers, k1 and within that use k2, and two more processes.
MCOuter == [p \in Proc |-> IF p = p2 THEN p1 ELSE None]
MCReads == [p \in Proc |-> CASE p = p1 -> {k1} [] p = q1 -> {k2, k3} [] OTHER -> {k2}]

----------------------------------------------------------------------------
\* Bcache runs with one of the two other processes and any contents, from buffers whose
\* contents are not the disk's; or with both and the same contents everywhere.
MCInit ==
  /\ ShellInit /\ Init
  /\ turn \in IF limit = Resting THEN {"contents", "waiters"} ELSE {"shell"}
  /\ \A c \in Buf : data[c] = IF turn = "contents" THEN 1 ELSE 0
  /\ \A k \in Block : disk[k] = 0

ShellTurn(p) == Call1(p) /\ UNCHANGED <<vars, turn>>
BcacheTurn ==
  /\ turn # "shell" /\ AtPrompt
  /\ Next
  /\ turn = "contents" => pc'[r1] = "idle"
  /\ turn = "waiters" => latest' = latest
  /\ UNCHANGED <<shellVars, turn>>
MCNext == (\E p \in PSlot : ShellTurn(p)) \/ BcacheTurn

MCSpec ==
  /\ MCInit /\ [][MCNext]_<<vars, shellVars, turn>>
  /\ ShellFairness /\ Fairness
=============================================================================
