------------------------------- MODULE Traps -------------------------------
(***************************************************************************)
(* Spin locks, interrupts and the clock on several harts: push_off,        *)
(* pop_off, acquire and release (kernel/spinlock.c), scheduler, sched,     *)
(* yield, sleep, wakeup and kill (kernel/proc.c) on top of them, usertrap, *)
(* kerneltrap and clockintr (kernel/trap.c), and the system calls that use *)
(* the clock (kernel/sysproc.c).                                           *)
(*                                                                         *)
(* Every context, a process in the kernel or the scheduler of a hart, has  *)
(* the operations it still has to do, as a stack: a call or a trap puts    *)
(* its own on top.  A hart does one at a time, and takes a timer interrupt *)
(* between any two of them while its interrupts are on.  Reading whether   *)
(* interrupts are on and turning them off (push_off) are two operations.   *)
(***************************************************************************)
EXTENDS Integers, Sequences, FiniteSets

CONSTANTS
  Hart, Boot,    \* harts; the one that counts the ticks, cpuid() = 0
  Procs,         \* the process table
  Nobody,        \* no hart, no process
  TicksLock,     \* tickslock; the other locks are the p->lock of each process
  TUINT,         \* ticks is unsigned: it wraps at 2^32
  Naps,          \* arguments of sleep
  FirstTick,     \* ticks at the start
  Setups         \* harts and processes to begin with; bounds: timer interrupts of each
                 \* hart, system calls, the longest sleep

ASSUME TrapsAssumption ==
  /\ Boot \in Hart /\ IsFiniteSet(Procs)
  /\ TUINT \in Nat \ {0} /\ Naps \subseteq 1 .. TUINT - 1
  /\ FirstTick \in Nat
  /\ \A s \in Setups : s.harts \subseteq Hart /\ s.procs \subseteq Procs /\ s.timers \in [Hart -> Nat] /\ s.nap \in Nat

VARIABLES
  sie,      \* interrupts are on (sstatus), of each hart
  noff, intena,  \* struct cpu
  cur,      \* c->proc
  holder,   \* the hart that holds a lock: locked and cpu of struct spinlock
  code,     \* what each context has to do
  state,    \* p->state
  dead,     \* p->killed: "no", "yes", or "late" if it was set when p was about to sleep
  ticks,    \* the number of ticks; the variable of the code is ticks % TUINT
  nap,      \* the last sleep of each process: ticks0, n and its result
  setup     \* the harts, the processes, and what is left of the bounds

trapsVars == <<sie, noff, intena, cur, holder, code, state, dead, ticks, nap, setup>>

Locks == Procs \cup {TicksLock}

\* The processes in the order of proc[].
Order == CHOOSE s \in [1 .. Cardinality(setup.procs) -> setup.procs] :
           \A p \in setup.procs : \E k \in DOMAIN s : s[k] = p

\* A loop over some of the processes: body(p) for each, one after the other.
ForEach(s, body(_)) ==
  LET upto[k \in 0 .. Len(s)] == IF k = 0 THEN <<>> ELSE upto[k - 1] \o body(s[k])
  IN  upto[Len(s)]

\* forkret: a process starts in the scheduler's hands, which holds its lock.
TrapsInit ==
  /\ sie = [c \in Hart |-> FALSE]
  /\ noff = [c \in Hart |-> 0]
  /\ intena = [c \in Hart |-> FALSE]
  /\ cur = [c \in Hart |-> Nobody]
  /\ holder = [l \in Locks |-> Nobody]
  /\ code = [x \in Hart \cup Procs |-> IF x \in Hart THEN <<>> ELSE <<<<"release", x>>, <<"usertrapret", "fork">>>>]
  /\ state = [p \in Procs |-> "RUNNABLE"]
  /\ dead = [p \in Procs |-> "no"]
  /\ ticks = FirstTick
  /\ nap = [p \in Procs |-> [ticks0 |-> 0, n |-> 0, result |-> "none"]]
  /\ setup \in Setups

\* The context that hart c runs, its next operation, and the rest.
Context(c) == IF cur[c] = Nobody THEN c ELSE cur[c]
Does(c, op) == code[Context(c)] # <<>> /\ Head(code[Context(c)])[1] = op
Arg(c) == Head(code[Context(c)])[2]
Then(c, ops) == code' = [code EXCEPT ![Context(c)] = ops \o Tail(@)]

----------------------------------------------------------------------------
\* acquire (spinlock.c:21-43).  push_off reads sstatus; if interrupts are on, one
\* can come before they are off.
push_off(c) ==
  /\ Does(c, "acquire") /\ sie[c]
  /\ Then(c, <<<<"off", Arg(c)>>>>)
  /\ UNCHANGED <<sie, noff, intena, cur, holder, state, dead, ticks, nap, setup>>

\* Interrupts are turned off and counted (spinlock.c:93-96).  The atomic swap takes
\* the lock if it is free; if not, the hart spins.
acquire(c) ==
  /\ Does(c, "off") \/ (Does(c, "acquire") /\ ~sie[c])
  /\ sie' = [sie EXCEPT ![c] = FALSE]
  /\ intena' = IF noff[c] = 0 THEN [intena EXCEPT ![c] = Does(c, "off")] ELSE intena
  /\ noff' = [noff EXCEPT ![c] = @ + 1]
  /\ IF holder[Arg(c)] = Nobody THEN holder' = [holder EXCEPT ![Arg(c)] = c] /\ Then(c, <<>>)
                                ELSE Then(c, <<<<"spin", Arg(c)>>>>) /\ UNCHANGED holder
  /\ UNCHANGED <<cur, state, dead, ticks, nap, setup>>

spin(c) ==
  /\ Does(c, "spin") /\ holder[Arg(c)] = Nobody
  /\ holder' = [holder EXCEPT ![Arg(c)] = c]
  /\ Then(c, <<>>)
  /\ UNCHANGED <<sie, noff, intena, cur, state, dead, ticks, nap, setup>>

\* Mutant: pop_off does not count.
PopsLast_always(c) == TRUE

PopsLast(c) == noff[c] = 1

\* release with pop_off (spinlock.c:46-72, 99-110).
release(c) ==
  /\ Does(c, "release")
  /\ holder' = [holder EXCEPT ![Arg(c)] = Nobody]
  /\ noff' = [noff EXCEPT ![c] = @ - 1]
  /\ sie' = IF PopsLast(c) /\ intena[c] THEN [sie EXCEPT ![c] = TRUE] ELSE sie
  /\ Then(c, <<>>)
  /\ UNCHANGED <<intena, cur, state, dead, ticks, nap, setup>>

----------------------------------------------------------------------------
\* Processes (proc.c:444-604).
Locked(p, op) == <<<<"acquire", p>>, <<op, p>>, <<"release", p>>>>

\* A round of the scheduler: interrupts on, then each process in turn.
scheduler(c) ==
  /\ cur[c] = Nobody /\ code[c] = <<>> /\ c \in setup.harts
  /\ sie' = [sie EXCEPT ![c] = TRUE]
  /\ code' = [code EXCEPT ![c] = ForEach(Order, LAMBDA p : Locked(p, "run"))]
  /\ UNCHANGED <<noff, intena, cur, holder, state, dead, ticks, nap, setup>>

\* swtch to a RUNNABLE process; the scheduler goes on with the release.
run(c) ==
  /\ Does(c, "run")
  /\ Then(c, <<>>)
  /\ IF state[Arg(c)] = "RUNNABLE"
     THEN /\ state' = [state EXCEPT ![Arg(c)] = "RUNNING"]
          /\ cur' = [cur EXCEPT ![c] = Arg(c)]
     ELSE UNCHANGED <<state, cur>>
  /\ UNCHANGED <<sie, noff, intena, holder, dead, ticks, nap, setup>>

\* Under p->lock: yield, sleep and exit set p->state, and call sched.
Off(p, s) == <<<<"acquire", p>>>> \o (IF s = "SLEEPING" THEN <<<<"release", TicksLock>>>> ELSE <<>>)
             \o <<<<s, p>>, <<"sched", p>>, <<"release", p>>>>

set_state(c) ==
  /\ \E s \in {"RUNNABLE", "SLEEPING", "ZOMBIE"} :
       Does(c, s) /\ state' = [state EXCEPT ![Arg(c)] = s]
  /\ Then(c, <<>>)
  /\ UNCHANGED <<sie, noff, intena, cur, holder, dead, ticks, nap, setup>>

\* Mutant: intena is taken to be a property of the hart.
Resumed_kept(c, e) == intena[c]

Resumed(c, e) == e

\* sched: intena is saved, and put back when the process runs again, on any hart.
sched(c) ==
  /\ Does(c, "sched")
  /\ Then(c, <<<<"resume", intena[c]>>>>)
  /\ cur' = [cur EXCEPT ![c] = Nobody]
  /\ UNCHANGED <<sie, noff, intena, holder, state, dead, ticks, nap, setup>>

sched_end(c) ==
  /\ Does(c, "resume")
  /\ intena' = [intena EXCEPT ![c] = Resumed(c, Arg(c))]
  /\ Then(c, <<>>)
  /\ UNCHANGED <<sie, noff, cur, holder, state, dead, ticks, nap, setup>>

\* p has looked at p->killed and has yet to set p->state to SLEEPING.
AboutToSleep(p) == \E k \in 1 .. Len(code[p]) : code[p][k] = <<"SLEEPING", p>>

\* What wakeup(&ticks) and kill do to a process, under its lock.
set_runnable(c) ==
  /\ Does(c, "wakeup") \/ Does(c, "kill")
  /\ LET p == Arg(c)
     IN  /\ state' = IF state[p] = "SLEEPING" THEN [state EXCEPT ![p] = "RUNNABLE"] ELSE state
         /\ dead' = IF Does(c, "kill") THEN [dead EXCEPT ![p] = IF AboutToSleep(p) THEN "late" ELSE "yes"]
                    ELSE dead
  /\ Then(c, <<>>)
  /\ UNCHANGED <<sie, noff, intena, cur, holder, ticks, nap, setup>>

----------------------------------------------------------------------------
\* Traps (trap.c:36-219).  A timer interrupt turns interrupts off; on hart Boot
\* it counts a tick; then the process, if there is one, yields.
Timer(c) ==
  (IF c = Boot THEN <<<<"acquire", TicksLock>>, <<"tick">>, <<"release", TicksLock>>>> ELSE <<>>)

kerneltrap(c) ==
  /\ sie[c] /\ setup.timers[c] > 0
  /\ ~(cur[c] # Nobody /\ code[cur[c]] = <<>>)
  /\ sie' = [sie EXCEPT ![c] = FALSE]
  /\ code' = [code EXCEPT ![Context(c)] = Timer(c) \o <<<<"preempt">>, <<"sret">>>> \o @]
  /\ setup' = [setup EXCEPT !.timers[c] = @ - 1]
  /\ UNCHANGED <<noff, intena, cur, holder, state, dead, ticks, nap>>

\* clockintr: ticks++ and wakeup(&ticks), under tickslock.
clockintr(c) ==
  /\ Does(c, "tick")
  /\ ticks' = ticks + 1
  /\ LET others == SelectSeq(Order, LAMBDA p : p # cur[c])
     IN  Then(c, ForEach(others, LAMBDA p : Locked(p, "wakeup")))
  /\ UNCHANGED <<sie, noff, intena, cur, holder, state, dead, nap, setup>>

\* yield, if a process was running.
preempt(c) ==
  /\ Does(c, "preempt")
  /\ Then(c, IF cur[c] # Nobody /\ state[cur[c]] = "RUNNING" THEN Off(cur[c], "RUNNABLE") ELSE <<>>)
  /\ UNCHANGED <<sie, noff, intena, cur, holder, state, dead, ticks, nap, setup>>

\* w_sstatus(sstatus): interrupts are on again where kerneltrap returns to.
kerneltrap_end(c) ==
  /\ Does(c, "sret")
  /\ sie' = [sie EXCEPT ![c] = TRUE]
  /\ Then(c, <<>>)
  /\ UNCHANGED <<noff, intena, cur, holder, state, dead, ticks, nap, setup>>

\* A process in user space has nothing to do in the kernel.
InUser(c, p) == cur[c] = p /\ code[p] = <<>>

\* usertrap for the timer; a killed process exits.
Exit(p) == Off(p, "ZOMBIE")

usertrap_timer(c, p) ==
  /\ InUser(c, p) /\ setup.timers[c] > 0
  /\ sie' = [sie EXCEPT ![c] = FALSE]
  /\ code' = [code EXCEPT ![p] = Timer(c) \o <<<<"check">>, <<"preempt">>, <<"usertrapret", "timer">>>>]
  /\ setup' = [setup EXCEPT !.timers[c] = @ - 1]
  /\ UNCHANGED <<noff, intena, cur, holder, state, dead, ticks, nap>>

check_killed(c) ==
  /\ Does(c, "check")
  /\ Then(c, IF dead[cur[c]] # "no" THEN Exit(cur[c]) ELSE <<>>)
  /\ UNCHANGED <<sie, noff, intena, cur, holder, state, dead, ticks, nap, setup>>

\* usertrap for a system call, unless the process has been killed: interrupts on.
usertrap(c, p, name, call) ==
  /\ InUser(c, p) /\ name \in setup.calls
  /\ sie' = [sie EXCEPT ![c] = (dead[p] = "no")]
  /\ code' = [code EXCEPT ![p] = IF dead[p] # "no" THEN Exit(p) ELSE call \o <<<<"check">>, <<"usertrapret", "call">>>>]
  /\ setup' = [setup EXCEPT !.calls = @ \ {name}]
  /\ UNCHANGED <<noff, intena, cur, holder, state, dead, ticks>>

\* usertrapret: interrupts off, and on with the sret to user space.
usertrapret(c) ==
  /\ Does(c, "usertrapret")
  /\ sie' = [sie EXCEPT ![c] = TRUE]
  /\ Then(c, <<>>)
  /\ UNCHANGED <<noff, intena, cur, holder, state, dead, ticks, nap, setup>>

----------------------------------------------------------------------------
\* The system calls (sysproc.c:56-98).
sys_sleep(c, p) ==
  \E n \in Naps :
    /\ n <= setup.nap
    /\ usertrap(c, p, "sleep", <<<<"acquire", TicksLock>>, <<"sleep">>>>)
    /\ nap' = [nap EXCEPT ![p] = [ticks0 |-> 0, n |-> n, result |-> "none"]]

\* ticks0 = ticks.
sys_sleep_start(c) ==
  /\ Does(c, "sleep")
  /\ nap' = [nap EXCEPT ![cur[c]] = [ticks0 |-> ticks, n |-> @.n, result |-> "sleeps"]]
  /\ Then(c, <<<<"while">>>>)
  /\ UNCHANGED <<sie, noff, intena, cur, holder, state, dead, ticks, setup>>

\* Mutant: the sum is computed instead of the difference, and wraps.
Early_sum(p) == ticks % TUINT < (nap[p].ticks0 + nap[p].n) % TUINT

\* ticks - ticks0 < n, unsigned.
Early(p) == (ticks - nap[p].ticks0) % TUINT < nap[p].n

\* Mutant: the lock is given up before p->lock is taken.
SleepOps_unlocked(p) == <<<<"release", TicksLock>>, <<"acquire", p>>, <<"SLEEPING", p>>, <<"sched", p>>,
                          <<"release", p>>, <<"acquire", TicksLock>>, <<"while">>>>

SleepOps(p) == Off(p, "SLEEPING") \o <<<<"acquire", TicksLock>>, <<"while">>>>

\* The condition of the loop: sleep, return -1 if killed, or return 0.
sys_sleep_while(c) ==
  /\ Does(c, "while")
  /\ LET p == cur[c]
     IN  \/ /\ Early(p) /\ dead[p] = "no"
            /\ Then(c, SleepOps(p))
            /\ UNCHANGED nap
         \/ /\ ~Early(p) \/ dead[p] # "no"
            /\ Then(c, <<<<"release", TicksLock>>>>)
            /\ nap' = [nap EXCEPT ![p].result = IF Early(p) THEN "killed" ELSE "slept"]
  /\ UNCHANGED <<sie, noff, intena, cur, holder, state, dead, ticks, setup>>

sys_uptime(c, p) ==
  /\ usertrap(c, p, "uptime", <<<<"acquire", TicksLock>>, <<"release", TicksLock>>>>)
  /\ UNCHANGED nap

\* kill looks at the processes in turn, each under its lock, until it finds the one.
Passes(q) == <<<<"acquire", q>>, <<"release", q>>>>

sys_kill(c, p) ==
  /\ \E k \in 1 .. Len(Order) :
       usertrap(c, p, "kill", ForEach(SubSeq(Order, 1, k - 1), Passes) \o Locked(Order[k], "kill"))
  /\ UNCHANGED nap

\* exit, by a process that has no more to do; it is not bounded.
sys_exit(c, p) ==
  /\ InUser(c, p)
  /\ sie' = [sie EXCEPT ![c] = (dead[p] = "no")]
  /\ code' = [code EXCEPT ![p] = Exit(p)]
  /\ UNCHANGED <<noff, intena, cur, holder, state, dead, ticks, nap, setup>>

----------------------------------------------------------------------------
HartStep(c) ==
  \/ push_off(c) \/ acquire(c) \/ spin(c) \/ release(c)
  \/ scheduler(c) \/ run(c) \/ set_state(c) \/ sched(c) \/ sched_end(c) \/ set_runnable(c)
  \/ clockintr(c) \/ preempt(c) \/ kerneltrap_end(c) \/ check_killed(c) \/ usertrapret(c)
  \/ sys_sleep_start(c) \/ sys_sleep_while(c)
  \/ \E p \in Procs : sys_exit(c, p)

TrapsNext ==
  \E c \in Hart :
    \/ HartStep(c) \/ kerneltrap(c)
    \/ \E p \in Procs : usertrap_timer(c, p) \/ sys_sleep(c, p) \/ sys_uptime(c, p) \/ sys_kill(c, p)

TrapsSpec == TrapsInit /\ [][TrapsNext]_trapsVars

\* Every hart goes on, a hart that spins gets a lock that is free again and again, and
\* a process that makes no more calls exits.
TrapsFairness == \A c \in Hart : WF_trapsVars(HartStep(c)) /\ SF_trapsVars(spin(c))

----------------------------------------------------------------------------
Held(c) == {l \in Locks : holder[l] = c}
Outermost(p) == code[p][Len(code[p])]
Handling(p) == Outermost(p)[2] = "timer" \/ \E k \in 1 .. Len(code[p]) : code[p][k] = <<"sret">>

\* None of the panics of acquire, release, pop_off, sched and kerneltrap can happen:
\* no hart spins for a lock it holds itself, a lock is released by the hart that took
\* it, though a process changes harts in between, interrupts are off while
\* a lock is held, and a process gives up its hart with its p->lock and no other
\* (spinlock.c:25, 49, 103-106, proc.c:487-494).
LocksSound ==
  \A c \in Hart :
    /\ Does(c, "spin") => holder[Arg(c)] # c
    /\ Does(c, "release") => holder[Arg(c)] = c
    /\ sie[c] => noff[c] = 0
    /\ noff[c] = Cardinality(Held(c)) + (IF Does(c, "spin") THEN 1 ELSE 0)
    /\ Does(c, "sched") => Held(c) = {cur[c]} /\ state[cur[c]] # "RUNNING"

\* push_off and pop_off leave interrupts as they found them: whenever a process that
\* runs in the kernel is outside all locks, its hart has interrupts on in a system
\* call and off in a trap, though other processes and the scheduler have used the same
\* hart's intena and noff in between, and the process may have moved
\* (spinlock.c:91-95, 108, proc.c:496-498).
InterruptsRestored ==
  \A c \in Hart :
    LET p == cur[c]
    IN  p # Nobody /\ noff[c] = 0 /\ code[p] # <<>>
          /\ Outermost(p) \in {<<"usertrapret", "call">>, <<"usertrapret", "timer">>}
        => (sie[c] <=> ~Handling(p))

\* sleep(n) returns 0 only when n ticks have passed, also when ticks wraps in between
\* (sysproc.c:65-66).
SleepsLongEnough == \A p \in Procs : nap[p].result = "slept" => ticks - nap[p].ticks0 >= nap[p].n

\* A process whose n ticks have passed returns from sleep: the tick that comes while it
\* is about to sleep is not lost (proc.c:547-548, sysproc.c:66-71).  So does a killed
\* one; only a kill that comes between the test of p->killed (sysproc.c:67) and the
\* sleep finds nobody asleep, and the process waits for the next tick.
SleepersReturn ==
  <>[]\A p \in Procs :
        nap[p].result = "sleeps" => ticks - nap[p].ticks0 < nap[p].n /\ dead[p] \in {"no", "late"}
=============================================================================
