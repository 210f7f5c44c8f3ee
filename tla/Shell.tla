------------------------------- MODULE Shell -------------------------------
(***************************************************************************)
(* The shell and init (user/sh.c, user/init.c), on the system calls that   *)
(* they make: fork, exit, wait, exec, open, close, dup and pipe, with the  *)
(* table of open files (kernel/file.c, kernel/sysfile.c, kernel/pipe.c).   *)
(*                                                                         *)
(* A command line is a sequence of tokens, as gettoken cuts it; words and  *)
(* file names are all "a".  A process has the system calls it still has to *)
(* make; each of them is one step.                                         *)
(*                                                                         *)
(* The programs that are run are external: one may read its standard input *)
(* to the end, then write more than a pipe holds, and exits.  There is     *)
(* memory for every process, and the program sh.                           *)
(***************************************************************************)
EXTENDS Integers, Sequences, SequencesExt, FiniteSets, FiniteSetsExt

CONSTANTS
  MAXARGS,   \* sh.c: arguments of a command
  Sessions,  \* NPROC, NFILE and NOFILE of a system, and the lines typed there
  MaxTokens  \* bound: length of the lines that the parser is checked on

ASSUME ShellAssumption ==
  /\ {MAXARGS, MaxTokens} \subseteq Nat
  /\ \A x \in Sessions : x.nproc > 1 /\ x.nfile > 0 /\ x.nofile > 2

----------------------------------------------------------------------------
(* The parser.  A function of sh.c takes the rest of the line and returns a  *)
(* command and the rest after it, or panics: the child that parses exits.    *)

Symbols == {"|", "&", ";", "(", ")", "<", ">", ">>"}
Token   == Symbols \cup {"a"}

peek(s, toks) == s # <<>> /\ Head(s) \in toks
Parsed(cmd, s) == [cmd |-> cmd, s |-> s]
Panic   == Parsed(<<"PANIC">>, <<>>)
Fails(r) == r.cmd = <<"PANIC">>

\* The constructors: a simple command has the number of its arguments, a redirection
\* its token.
execcmd            == <<"EXEC", 0>>
redircmd(cmd, tok) == <<"REDIR", cmd, tok>>
pipecmd(l, r)      == <<"PIPE", l, r>>
listcmd(l, r)      == <<"LIST", l, r>>
backcmd(cmd)       == <<"BACK", cmd>>

RECURSIVE parseredirs(_)
RECURSIVE parseargs(_, _, _)
RECURSIVE parseline(_)
RECURSIVE parsepipe(_)
RECURSIVE parseexec(_)
RECURSIVE parseback(_)

\* The redirections that come next, around the command.
parseredirs(r) ==
  IF ~peek(r.s, {"<", ">", ">>"}) THEN r
  ELSE IF ~peek(Tail(r.s), {"a"}) THEN Panic
  ELSE parseredirs(Parsed(redircmd(r.cmd, Head(r.s)), Tail(Tail(r.s))))

\* The command inside the redirections gets one more argument.
RECURSIVE MoreArgs(_)
MoreArgs(cmd) == IF cmd[1] = "EXEC" THEN <<"EXEC", cmd[2] + 1>> ELSE [cmd EXCEPT ![2] = MoreArgs(@)]

\* Mutant: the words may go on after a block.
StopsArgs_block == {"|", "&", ";"}

StopsArgs == {"|", ")", "&", ";"}

\* The loop of parseexec, for argument number argc.
parseargs(cmd, argc, s) ==
  LET r == parseredirs(Parsed(MoreArgs(cmd), Tail(s)))
  IN  IF s = <<>> \/ peek(s, StopsArgs) THEN Parsed(cmd, s)
      ELSE IF Head(s) # "a" \/ argc + 1 >= MAXARGS \/ Fails(r) THEN Panic
      ELSE parseargs(r.cmd, argc + 1, r.s)

\* parseblock is the first case.
parseexec(s) ==
  LET block == parseline(Tail(s))
      r == parseredirs(Parsed(execcmd, s))
  IN  IF peek(s, {"("})
      THEN IF Fails(block) \/ ~peek(block.s, {")"}) THEN Panic
           ELSE parseredirs(Parsed(block.cmd, Tail(block.s)))
      ELSE IF Fails(r) THEN Panic ELSE parseargs(r.cmd, 0, r.s)

parsepipe(s) ==
  LET r == parseexec(s)
      right == parsepipe(Tail(r.s))
  IN  IF ~peek(r.s, {"|"}) THEN r
      ELSE IF Fails(right) THEN Panic ELSE Parsed(pipecmd(r.cmd, right.cmd), right.s)

parseback(r) == IF peek(r.s, {"&"}) THEN parseback(Parsed(backcmd(r.cmd), Tail(r.s))) ELSE r

parseline(s) ==
  LET r == parseback(parsepipe(s))
      right == parseline(Tail(r.s))
  IN  IF ~peek(r.s, {";"}) THEN r
      ELSE IF Fails(right) THEN Panic ELSE Parsed(listcmd(r.cmd, right.cmd), right.s)

\* Leftovers are a syntax error.
parsecmd(s) == LET r == parseline(s) IN IF r.s # <<>> THEN <<"PANIC">> ELSE r.cmd

----------------------------------------------------------------------------
(* runcmd (sh.c:57-131): the calls that a command makes.  p[0] and p[1] are  *)
(* the first and second descriptor of the last pipe.                         *)

\* Mutant: the parent keeps the write end of the pipe.
CloseBoth_kept == <<<<"closep", 1>>>>

CloseBoth == <<<<"closep", 1>>, <<"closep", 2>>>>

RECURSIVE runcmd(_)
runcmd(cmd) ==
  CASE cmd[1] = "EXEC"  -> IF cmd[2] = 0 THEN <<<<"exit">>>> ELSE <<<<"exec">>>>
    [] cmd[1] = "REDIR" -> <<<<"close", IF cmd[3] = "<" THEN 0 ELSE 1>>, <<"open">>>> \o runcmd(cmd[2])
    [] cmd[1] = "LIST"  -> <<<<"fork", runcmd(cmd[2])>>, <<"wait">>>> \o runcmd(cmd[3])
    [] cmd[1] = "BACK"  -> <<<<"fork", runcmd(cmd[2])>>, <<"exit">>>>
    [] cmd[1] = "PIPE"  ->
         <<<<"pipe">>,
           <<"fork", <<<<"close", 1>>, <<"dup", 2>>, <<"closep", 1>>, <<"closep", 2>>>> \o runcmd(cmd[2])>>,
           <<"fork", <<<<"close", 0>>, <<"dup", 1>>, <<"closep", 1>>, <<"closep", 2>>>> \o runcmd(cmd[3])>>>>
         \o CloseBoth \o <<<<"wait">>, <<"wait">>, <<"exit">>>>
    [] OTHER            -> <<<<"exit">>>>

\* What the child of the shell does for a line.
Program == [line \in UNION {ToSet(x.lines) : x \in Sessions} |-> runcmd(parsecmd(line))]

----------------------------------------------------------------------------
VARIABLES
  limit,   \* this system and what is typed there
  tab,     \* open files, pipes, and the descriptors of each process
  alive,   \* the processes that have not exited; zombies are in "dying"
  dying,
  father,  \* p->parent
  todo,    \* the calls each process still has to make
  ends,    \* p[0] and p[1] of each process
  typedin  \* the command lines to come

shellVars == <<limit, tab, alive, dying, father, todo, ends, typedin>>

\* Slot 1 is init; slot 2 is its first shell.
PSlot == 1 .. limit.nproc
Fd    == 0 .. limit.nofile - 1
NoFile == [ref |-> 0, kind |-> "none", pipe |-> 0]

\* main of sh first makes sure that three descriptors are open.
sh_main == <<<<"console">>, <<"getcmd">>>>

\* init has opened the console as descriptors 0, 1 and 2, and forks the shell.
ShellInit ==
  /\ limit \in Sessions /\ typedin = limit.lines
  /\ tab = [file |-> [f \in 1 .. limit.nfile |-> IF f = 1 THEN [ref |-> 3, kind |-> "inode", pipe |-> 0] ELSE NoFile],
            pipe |-> [k \in 1 .. limit.nfile |-> [readopen |-> FALSE, writeopen |-> FALSE, full |-> FALSE]],
            fd |-> [p \in PSlot |-> [d \in Fd |-> IF p = 1 /\ d < 3 THEN 1 ELSE 0]]]
  /\ alive = {1} /\ dying = {}
  /\ father = [p \in PSlot |-> 1]
  /\ todo = [p \in PSlot |-> IF p = 1 THEN <<<<"init">>>> ELSE <<>>]
  /\ ends = [p \in PSlot |-> <<0, 0>>]

Next1(p, op) == p \in alive /\ todo[p] # <<>> /\ Head(todo[p])[1] = op
ShArg(p) == Head(todo[p])[2]
Continue(p, calls) == todo' = [todo EXCEPT ![p] = calls \o Tail(@)]
Exits(p) == todo' = [todo EXCEPT ![p] = <<<<"exit">>>>]
\* The call fails, after it has closed these files; then the process exits.
Abandon(p, files) ==
  todo' = [todo EXCEPT ![p] = [k \in DOMAIN files |-> <<"fileclose", files[k]>>] \o <<<<"exit">>>>]

----------------------------------------------------------------------------
(* Files, as functions from the tables to the tables after them.             *)

filealloc_fails(t) == \A f \in DOMAIN t.file : t.file[f].ref > 0
NextFile(t) == Min({f \in DOMAIN t.file : t.file[f].ref = 0})
filealloc(t) == [t EXCEPT !.file[NextFile(t)].ref = 1]

fdalloc_fails(t, p) == \A d \in DOMAIN t.fd[p] : t.fd[p][d] > 0
NextFd(t, p) == Min({d \in DOMAIN t.fd[p] : t.fd[p][d] = 0})
fdalloc(t, p, f) == [t EXCEPT !.fd[p][NextFd(t, p)] = f]

filedup(t, f) == [t EXCEPT !.file[f].ref = @ + 1]

\* fileclose, with pipeclose when the last reference is gone.
fileclose(t, f) ==
  LET last == t.file[f].ref = 1
      t1 == [t EXCEPT !.file[f] = IF last THEN NoFile ELSE [@ EXCEPT !.ref = @ - 1]]
      k == t.file[f].pipe
  IN  CASE last /\ t.file[f].kind = "read"  -> [t1 EXCEPT !.pipe[k].readopen = FALSE]
        [] last /\ t.file[f].kind = "write" -> [t1 EXCEPT !.pipe[k].writeopen = FALSE]
        [] OTHER -> t1

sys_close(t, p, d) == IF t.fd[p][d] = 0 THEN t ELSE fileclose([t EXCEPT !.fd[p][d] = 0], t.fd[p][d])

sys_dup(t, p, d) == IF t.fd[p][d] = 0 \/ fdalloc_fails(t, p) THEN t
                    ELSE filedup(fdalloc(t, p, t.fd[p][d]), t.fd[p][d])

\* sys_open of an inode: the tables, and the descriptor or -1.
sys_open(t, p) ==
  LET f == NextFile(t)
      t1 == filealloc(t)
  IN  CASE filealloc_fails(t)   -> [t |-> t, fd |-> -1]
        [] fdalloc_fails(t1, p) -> [t |-> fileclose(t1, f), fd |-> -1]
        [] OTHER -> [t |-> [fdalloc(t1, p, f) EXCEPT !.file[f].kind = "inode"], fd |-> NextFd(t1, p)]

----------------------------------------------------------------------------
(* The calls.                                                                *)

\* pipealloc: a file for each end, then a page for the pipe.  The shell panics when
\* pipe fails.
call_pipe(p) ==
  /\ Next1(p, "pipe")
  /\ IF filealloc_fails(tab) THEN Exits(p) /\ UNCHANGED tab
     ELSE tab' = filealloc(tab) /\ Continue(p, <<<<"pipealloc", NextFile(tab)>>>>)
  /\ UNCHANGED <<limit, alive, dying, father, ends, typedin>>

pipealloc(p) ==
  LET rf == ShArg(p)
      wf == NextFile(tab)
      pi == Min({k \in DOMAIN tab.pipe : ~tab.pipe[k].readopen /\ ~tab.pipe[k].writeopen})
  IN
  /\ Next1(p, "pipealloc")
  /\ \/ /\ filealloc_fails(tab)
        /\ Abandon(p, <<rf>>)
        /\ UNCHANGED tab
     \/ /\ ~filealloc_fails(tab)
        /\ tab' = filealloc(tab)
        /\ Abandon(p, <<rf, wf>>)
     \/ /\ ~filealloc_fails(tab)
        /\ tab' = [tab EXCEPT !.file[rf] = [ref |-> 1, kind |-> "read", pipe |-> pi],
                              !.file[wf] = [ref |-> 1, kind |-> "write", pipe |-> pi],
                              !.pipe[pi] = [readopen |-> TRUE, writeopen |-> TRUE, full |-> FALSE]]
        /\ Continue(p, <<<<"sys_pipe", rf, wf>>>>)
  /\ UNCHANGED <<limit, alive, dying, father, ends, typedin>>

\* Mutant: the descriptors are not taken back.
Undo_missing(t, p, fds) == t

\* The descriptors fds, which fdalloc has just found, are taken back.
Undo(t, p, fds) == [t EXCEPT !.fd[p] = [d \in Fd |-> IF d \in fds THEN 0 ELSE @[d]]]

\* sys_pipe after pipealloc: a descriptor for each file, and copyout of the two.  There
\* may be none for the first file or for the second, and copyout may fail.
sys_pipe(p) ==
  LET rf == Head(todo[p])[2]
      wf == Head(todo[p])[3]
      t1 == fdalloc(tab, p, rf)
      t2 == fdalloc(t1, p, wf)
      fd0 == NextFd(tab, p)
      fd1 == NextFd(t1, p)
  IN
  /\ Next1(p, "sys_pipe")
  /\ \/ /\ fdalloc_fails(tab, p)
        /\ Abandon(p, <<rf, wf>>)
        /\ UNCHANGED <<tab, ends>>
     \/ /\ ~fdalloc_fails(tab, p) /\ fdalloc_fails(t1, p)
        /\ tab' = Undo(t1, p, {fd0})
        /\ Abandon(p, <<rf, wf>>)
        /\ UNCHANGED ends
     \/ /\ ~fdalloc_fails(tab, p) /\ ~fdalloc_fails(t1, p)
        /\ \/ /\ tab' = t2
              /\ ends' = [ends EXCEPT ![p] = <<fd0, fd1>>]
              /\ Continue(p, <<>>)
           \/ /\ tab' = Undo(t2, p, {fd0, fd1})
              /\ Abandon(p, <<rf, wf>>)
              /\ UNCHANGED ends
  /\ UNCHANGED <<limit, alive, dying, father, typedin>>

\* The error paths of pipealloc and sys_pipe close the files.
pipe_bad(p) ==
  /\ Next1(p, "fileclose")
  /\ tab' = fileclose(tab, ShArg(p))
  /\ Continue(p, <<>>)
  /\ UNCHANGED <<limit, alive, dying, father, ends, typedin>>

call_close(p) ==
  /\ \/ Next1(p, "close") /\ tab' = sys_close(tab, p, ShArg(p))
     \/ Next1(p, "closep") /\ tab' = sys_close(tab, p, ends[p][ShArg(p)])
  /\ Continue(p, <<>>)
  /\ UNCHANGED <<limit, alive, dying, father, ends, typedin>>

call_dup(p) ==
  /\ Next1(p, "dup")
  /\ tab' = sys_dup(tab, p, ends[p][ShArg(p)])
  /\ Continue(p, <<>>)
  /\ UNCHANGED <<limit, alive, dying, father, ends, typedin>>

\* open, for a redirection: a file that cannot be opened ends the command.
call_open(p) ==
  /\ Next1(p, "open")
  /\ \/ Exits(p) /\ UNCHANGED tab
     \/ /\ tab' = sys_open(tab, p).t
        /\ IF sys_open(tab, p).fd = -1 THEN Exits(p) ELSE Continue(p, <<>>)
  /\ UNCHANGED <<limit, alive, dying, father, ends, typedin>>

\* The shell opens the console until it gets a descriptor above 2, which it closes:
\* init has opened 0, 1 and 2, so it is the first one.
call_console(p) ==
  LET r == sys_open(tab, p) IN
  /\ Next1(p, "console")
  /\ tab' = r.t
  /\ Continue(p, IF r.fd = -1 THEN <<>> ELSE <<<<"close", r.fd>>>>)
  /\ UNCHANGED <<limit, alive, dying, father, ends, typedin>>

\* The descriptors of p for file f.
Uses(p, f) == {d \in Fd : tab.fd[p][d] = f}

\* fork: the child q has the descriptors and the memory of p.
ForkInto(p, q, calls, next) ==
  /\ alive' = alive \cup {q}
  /\ father' = [father EXCEPT ![q] = p]
  /\ ends' = [ends EXCEPT ![q] = ends[p]]
  /\ todo' = [todo EXCEPT ![p] = next \o Tail(@), ![q] = calls]
  /\ tab' = [tab EXCEPT !.fd[q] = tab.fd[p],
                        !.file = [f \in DOMAIN @ |-> [@[f] EXCEPT !.ref = @ + Cardinality(Uses(p, f))]]]

NoSlot == alive \cup dying = PSlot
Unused == Min(PSlot \ (alive \cup dying))

call_fork(p) ==
  /\ Next1(p, "fork")
  /\ IF NoSlot THEN Exits(p) /\ UNCHANGED <<tab, alive, father, ends>>
     ELSE ForkInto(p, Unused, ShArg(p), <<>>)
  /\ UNCHANGED <<limit, dying, typedin>>

\* exit closes the descriptors, and then leaves the children to init.
call_exit(p) ==
  LET open == {d \in Fd : tab.fd[p][d] # 0} IN
  /\ Next1(p, "exit")
  /\ \/ /\ open # {}
        /\ tab' = sys_close(tab, p, Min(open))
        /\ UNCHANGED <<alive, dying, father, todo>>
     \/ /\ open = {}
        /\ alive' = alive \ {p} /\ dying' = dying \cup {p}
        /\ father' = [q \in PSlot |-> IF father[q] = p THEN 1 ELSE father[q]]
        /\ todo' = [todo EXCEPT ![p] = <<>>]
        /\ UNCHANGED tab
  /\ UNCHANGED <<limit, ends, typedin>>

Sons(p) == {q \in (alive \cup dying) \ {1} : father[q] = p}

\* The shell waits only for children that it has forked: there is one.
call_wait(p) ==
  /\ Next1(p, "wait")
  /\ \E q \in Sons(p) \cap dying : dying' = dying \ {q}
  /\ Continue(p, <<>>)
  /\ UNCHANGED <<limit, tab, alive, father, ends, typedin>>

\* exec fails, or starts a program that reads or not, and writes or not.
call_exec(p) ==
  /\ Next1(p, "exec")
  /\ \/ Exits(p)
     \/ \E prog \in SUBSET {"in", "out"} :
          todo' = [todo EXCEPT ![p] = (IF "in" \in prog THEN <<<<"in">>>> ELSE <<>>)
                                      \o (IF "out" \in prog THEN <<<<"out">>, <<"out">>>> ELSE <<>>)
                                      \o <<<<"exit">>>>]
  /\ UNCHANGED <<limit, tab, alive, dying, father, ends, typedin>>

\* The file that is descriptor d of p.
FileOf(p, d) == IF tab.fd[p][d] = 0 THEN NoFile ELSE tab.file[tab.fd[p][d]]

\* A program reads its standard input: to the end of a pipe; other input has ended.
prog_in(p) ==
  LET f == FileOf(p, 0) IN
  /\ Next1(p, "in")
  /\ \/ /\ f.kind = "read" /\ tab.pipe[f.pipe].full
        /\ tab' = [tab EXCEPT !.pipe[f.pipe].full = FALSE]
        /\ UNCHANGED todo
     \/ /\ f.kind = "read" => ~tab.pipe[f.pipe].full /\ ~tab.pipe[f.pipe].writeopen
        /\ Continue(p, <<>>)
        /\ UNCHANGED tab
  /\ UNCHANGED <<limit, alive, dying, father, ends, typedin>>

\* A program fills the pipe that is its standard output, or finds that nobody reads.
prog_out(p) ==
  LET f == FileOf(p, 1) IN
  /\ Next1(p, "out")
  /\ \/ /\ f.kind = "write" /\ tab.pipe[f.pipe].readopen /\ ~tab.pipe[f.pipe].full
        /\ tab' = [tab EXCEPT !.pipe[f.pipe].full = TRUE]
        /\ Continue(p, <<>>)
     \/ /\ f.kind = "write" => ~tab.pipe[f.pipe].readopen
        /\ Exits(p)
        /\ UNCHANGED tab
  /\ UNCHANGED <<limit, alive, dying, father, ends, typedin>>

\* The loop of sh's main: the next line, or exit at the end of the input; cd is
\* done by the shell itself.
getcmd(p) ==
  /\ Next1(p, "getcmd")
  /\ typedin # <<>>
  /\ typedin' = Tail(typedin)
  /\ CASE Head(typedin) = <<"EOF">> -> Exits(p)
       [] Head(typedin) = <<"cd">>  -> UNCHANGED todo
       [] OTHER -> todo' = [todo EXCEPT ![p] = <<<<"fork", <<<<"runcmd", Head(typedin)>>>>>>, <<"wait">>, <<"getcmd">>>>]
  /\ UNCHANGED <<limit, tab, alive, dying, father, ends>>

\* The child parses the line and runs it.
child_runcmd(p) ==
  /\ Next1(p, "runcmd")
  /\ Continue(p, Program[ShArg(p)])
  /\ UNCHANGED <<limit, tab, alive, dying, father, ends, typedin>>

\* init forks a shell and waits: for the shell, to start it again, or for others.
\* Without a process slot it exits, and exit panics: init makes no other call.
init_fork(p) ==
  /\ Next1(p, "init")
  /\ IF NoSlot THEN Continue(p, <<<<"panic">>>>) /\ UNCHANGED <<tab, alive, father, ends>>
     ELSE ForkInto(p, Unused, sh_main, <<<<"initwait", Unused>>>>)
  /\ UNCHANGED <<limit, dying, typedin>>

init_wait(p) ==
  /\ Next1(p, "initwait")
  /\ \E q \in Sons(p) \cap dying :
       /\ dying' = dying \ {q}
       /\ todo' = IF q = ShArg(p) THEN [todo EXCEPT ![p] = <<<<"init">>>>] ELSE todo
  /\ UNCHANGED <<limit, tab, alive, father, ends, typedin>>

Call1(p) == \/ call_pipe(p) \/ pipealloc(p) \/ sys_pipe(p) \/ pipe_bad(p) \/ call_close(p)
            \/ call_dup(p) \/ call_open(p) \/ call_console(p) \/ call_fork(p) \/ call_exit(p)
            \/ call_wait(p) \/ call_exec(p) \/ prog_in(p) \/ prog_out(p)
            \/ getcmd(p) \/ child_runcmd(p) \/ init_fork(p) \/ init_wait(p)

ShellNext == \E p \in PSlot : Call1(p)
ShellSpec == ShellInit /\ [][ShellNext]_shellVars
\* The scheduler runs every process; the programs that are run are not stopped.
ShellFairness == \A p \in 1 .. Max({x.nproc : x \in Sessions}) : WF_shellVars(Call1(p))

----------------------------------------------------------------------------
(* The grammar, by the productions: the lines of n tokens, with the command  *)
(* that each of them stands for, from those of fewer tokens.                 *)

\* A member is a pair <<tokens, command>>.
Wrap(cmd, redirs) == FoldLeft(LAMBDA c, r : <<"REDIR", c, r>>, cmd, redirs)
Files1(redirs) == FlattenSeq([k \in DOMAIN redirs |-> <<redirs[k], "a">>])
Redirs(n) == IF n % 2 = 0 THEN [1 .. n \div 2 -> {"<", ">", ">>"}] ELSE {}

\* Words and redirections in any order: w is the sequence of both.
Simple(n) ==
  LET Items == UNION {[1 .. k -> {"a", "<", ">", ">>"}] : k \in 0 .. n}
      Words(w) == SelectSeq(w, LAMBDA x : x = "a")
      Redir(w) == SelectSeq(w, LAMBDA x : x # "a")
      Spelt(w) == FlattenSeq([k \in DOMAIN w |-> IF w[k] = "a" THEN <<"a">> ELSE <<w[k], "a">>])
  IN  {<<Spelt(w), Wrap(<<"EXEC", Len(Words(w))>>, Redir(w))>> :
         w \in {w \in Items : Len(Spelt(w)) = n /\ Len(Words(w)) < MAXARGS}}

\* exec ::= simple | "(" line ")" redirection*;  pipe ::= exec | exec "|" pipe;
\* line ::= pipe "&"* | pipe "&"* ";" line.
Productions(g, n) ==
  LET At0(k) == g[k + 1]
      block == UNION {{<<<<"(">> \o x[1] \o <<")">> \o Files1(r), Wrap(x[2], r)>> :
                         x \in At0(m).line, r \in Redirs(n - 2 - m)} : m \in 0 .. n - 2}
      exec == Simple(n) \cup block
      pipe == exec \cup UNION {{<<x[1] \o <<"|">> \o y[1], <<"PIPE", x[2], y[2]>>>> :
                                  x \in At0(m).exec, y \in At0(n - 1 - m).pipe} : m \in 0 .. n - 1}
      back == pipe \cup IF n = 0 THEN {} ELSE {<<Append(x[1], "&"), <<"BACK", x[2]>>>> : x \in At0(n - 1).back}
      line == back \cup UNION {{<<x[1] \o <<";">> \o y[1], <<"LIST", x[2], y[2]>>>> :
                                  x \in At0(m).back, y \in At0(n - 1 - m).line} : m \in 0 .. n - 1}
  IN  Append(g, [exec |-> exec, pipe |-> pipe, back |-> back, line |-> line])

Grammar == FoldLeft(Productions, <<>>, [k \in 1 .. MaxTokens + 1 |-> k - 1])

\* parsecmd accepts exactly the lines of the grammar, and each of them has one
\* parse, the command that parsecmd builds: a pipe binds tighter than "&", "&"
\* tighter than ";", and a later redirection goes around an earlier one.  (Looked at
\* before a first shell starts: it does not depend on the state.)
ParsesGrammar ==
  alive = {1} /\ typedin = <<>> =>
  \A n \in 0 .. MaxTokens :
    {x \in {<<s, parsecmd(s)>> : s \in [1 .. n -> Token]} : x[2] # <<"PANIC">>} = Grammar[n + 1].line

----------------------------------------------------------------------------
\* A pipe call of p under way has allocated f, and has still to pass it on or close it.
Holds(p, f) == \E op \in ToSet(todo[p]) : op[1] \in {"pipealloc", "sys_pipe", "fileclose"} /\ f \in ToSet(Tail(op))

\* The reference count of an open file is the number of descriptors for it, and of
\* pipe calls under way that have just allocated it; an end of a pipe is open exactly
\* while there is a file for it.  So fork, exit, dup and close count right, and pipe
\* and open leave nothing behind when they fail half way (sysfile.c:466-484).
FilesExact ==
  /\ \A f \in DOMAIN tab.file :
       tab.file[f].ref = Cardinality({x \in PSlot \X Fd : tab.fd[x[1]][x[2]] = f})
                         + Cardinality({p \in PSlot : Holds(p, f)})
  /\ \A k \in DOMAIN tab.pipe :
       LET Open(kind) == {f \in DOMAIN tab.file : tab.file[f].kind = kind /\ tab.file[f].pipe = k}
       IN  /\ Cardinality(Open("read")) = IF tab.pipe[k].readopen THEN 1 ELSE 0
           /\ Cardinality(Open("write")) = IF tab.pipe[k].writeopen THEN 1 ELSE 0

\* The shell waits for a line, and there is nothing else: no other process but init,
\* and no open file but the console.
AtPrompt ==
  /\ typedin = <<>> /\ dying = {}
  /\ \E p \in PSlot : alive = {1, p} /\ todo[p] = <<<<"getcmd">>>>
  /\ \A f \in DOMAIN tab.file \ {1} : tab.file[f].ref = 0

\* init has found no slot for the next shell.
InitExits == Next1(1, "panic")

\* A line with a command that may still fork when the shell is told of its end.
LeavesForks(line) == ToSet(line) \cap {"&", "("} # {}

\* Every command ends and the prompt comes back: no process waits for ever for the
\* end of a pipe whose write end someone forgot to close, or for a child that is not
\* there; zombies and orphans are reaped and files closed, whatever failed on the way
\* (sh.c:100-122, init.c:39-52).  The exception is that init exits and the kernel
\* panics, because a command that was left running forks into the slot of the shell
\* that init has just reaped (init.c:28-32, proc.c:351-352): only a line with "&" or a
\* block leaves such a command, not the pipes, lists and redirections of programs.
PromptReturns ==
  /\ <>[](AtPrompt \/ InitExits)
  /\ [](InitExits => \E line \in ToSet(limit.lines) : LeavesForks(line))
=============================================================================
