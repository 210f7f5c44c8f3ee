-------------------------------- MODULE Proc --------------------------------
(***************************************************************************)
(* The process table of xv6 (kernel/proc.c): allocation and freeing of     *)
(* slots, fork, exit, wait, kill, the per-CPU scheduler, and the sleep and *)
(* wakeup that wait and exit are built on.                                 *)
(*                                                                         *)
(* Atomicity.  The spinlocks wait_lock and p->lock are explicit wherever a *)
(* second lock is taken or control leaves the process while one is held;   *)
(* a section that takes one free lock and releases it again is one action. *)
(* The scheduler takes p->lock, switches to p, and p releases the lock, in *)
(* one action.                                                             *)
(*                                                                         *)
(* Abstraction.  Slots are unordered: where the code scans the table and   *)
(* takes the first match, the model takes any match.  The only processes   *)
(* that sleep on the address of a process are that process itself, in wait *)
(* (proc.c:433), so wakeup(q) examines q alone.  Memory, files and exit    *)
(* statuses are left out; a memory allocation may fail at any time.        *)
(***************************************************************************)
EXTENDS Naturals, FiniteSets

CONSTANTS
  Slot,      \* the entries of proc[NPROC]
  initproc,  \* the slot of the first process
  CPU,       \* the hardware threads
  None,      \* a null pointer
  KillPids,  \* the pids that processes pass to kill
  MaxPid     \* bound: the last pid the model allocates

ASSUME ProcAssumption ==
  /\ initproc \in Slot
  /\ None \notin Slot
  /\ KillPids \subseteq Nat
  /\ MaxPid \in Nat

VARIABLES
  state,      \* p->state
  parent,     \* p->parent, protected by wait_lock
  chan,       \* p->chan
  pid,        \* p->pid
  killed,     \* p->killed
  plock,      \* the process that holds p->lock, or None
  wait_lock,  \* the process that holds wait_lock, or None
  cpu,        \* c->proc
  pc,         \* where a process is in the kernel
  np,         \* fork's local variable np
  nextpid,    \* nextpid
  asked       \* history: the pids that kill has been called with

vars == <<state, parent, chan, pid, killed, plock, wait_lock, cpu, pc, np,
          nextpid, asked>>

\* After userinit: init is runnable and every CPU is in its scheduler.
Init ==
  /\ state = [s \in Slot |-> IF s = initproc THEN "RUNNABLE" ELSE "UNUSED"]
  /\ parent = [s \in Slot |-> None]
  /\ chan = [s \in Slot |-> None]
  /\ pid = [s \in Slot |-> IF s = initproc THEN 1 ELSE 0]
  /\ killed = [s \in Slot |-> FALSE]
  /\ plock = [s \in Slot |-> None]
  /\ wait_lock = None
  /\ cpu = [c \in CPU |-> None]
  /\ pc = [s \in Slot |-> "user"]
  /\ np = [s \in Slot |-> None]
  /\ nextpid = 2
  /\ asked = {}

Running(p) == \E c \in CPU : cpu[c] = p

\* p executes kernel or user code at location l.
At(p, l) == Running(p) /\ pc[p] = l

Goto(p, l) == pc' = [pc EXCEPT ![p] = l]

Children(p) == {s \in Slot : parent[s] = p}

Zombies(p) == {s \in Children(p) : state[s] = "ZOMBIE"}

-----------------------------------------------------------------------------
(* The scheduler *)

\* scheduler picks p, and p leaves sched(): in sleep it clears p->chan.
scheduler(c, p) ==
  /\ cpu[c] = None
  /\ plock[p] = None
  /\ state[p] = "RUNNABLE"
  /\ state' = [state EXCEPT ![p] = "RUNNING"]
  /\ cpu' = [cpu EXCEPT ![c] = p]
  /\ chan' = [chan EXCEPT ![p] = None]
  /\ UNCHANGED <<parent, pid, killed, plock, wait_lock, pc, np, nextpid, asked>>

\* p calls sched(), and the scheduler of its CPU releases p->lock.
LeaveCPU(p) == cpu' = [c \in CPU |-> IF cpu[c] = p THEN None ELSE cpu[c]]

\* A timer interrupt; none is taken while the process holds a spinlock or, with
\* interrupts off in acquire(), spins on one that is taken.
Preemptible(p) ==
  \/ At(p, "user") \/ At(p, "syscall")
  \/ (At(p, "fork_parent") \/ At(p, "wait_acquire")) /\ wait_lock = None
  \/ At(p, "fork_runnable") /\ plock[np[p]] = None

yield(p) ==
  /\ Preemptible(p)
  /\ plock[p] = None
  /\ state' = [state EXCEPT ![p] = "RUNNABLE"]
  /\ LeaveCPU(p)
  /\ UNCHANGED <<parent, chan, pid, killed, plock, wait_lock, pc, np, nextpid,
                 asked>>

\* usertrap lets a process into the kernel unless it has been killed; a kill may
\* still arrive before the system call does its work.
usertrap(p) ==
  /\ At(p, "user") /\ ~killed[p]
  /\ Goto(p, "syscall")
  /\ UNCHANGED <<state, parent, chan, pid, killed, plock, wait_lock, cpu, np,
                 nextpid, asked>>

-----------------------------------------------------------------------------
(* fork *)

allocproc(s) ==
  /\ state[s] = "UNUSED" /\ plock[s] = None
  /\ pid' = [pid EXCEPT ![s] = nextpid]        \* allocpid
  /\ nextpid' = nextpid + 1
  /\ state' = [state EXCEPT ![s] = "USED"]

\* allocproc succeeds: up to the release of np->lock in fork.
fork(p, s) ==
  /\ At(p, "syscall")
  /\ nextpid <= MaxPid
  /\ allocproc(s)
  /\ np' = [np EXCEPT ![p] = s]
  /\ Goto(p, "fork_parent")
  /\ UNCHANGED <<parent, chan, killed, plock, wait_lock, cpu, asked>>

\* No memory for the child: allocproc or fork undoes everything with freeproc.
fork_fail(p, s) ==
  /\ At(p, "syscall")
  /\ nextpid <= MaxPid
  /\ state[s] = "UNUSED" /\ plock[s] = None
  /\ nextpid' = nextpid + 1
  /\ killed' = [killed EXCEPT ![s] = FALSE]
  /\ Goto(p, "user")
  /\ UNCHANGED <<state, parent, chan, pid, plock, wait_lock, cpu, np, asked>>

fork_parent(p) ==
  /\ At(p, "fork_parent")
  /\ wait_lock = None
  /\ parent' = [parent EXCEPT ![np[p]] = p]
  /\ Goto(p, "fork_runnable")
  /\ UNCHANGED <<state, chan, pid, killed, plock, wait_lock, cpu, np, nextpid,
                 asked>>

fork_runnable(p) ==
  /\ At(p, "fork_runnable")
  /\ plock[np[p]] = None
  /\ state' = [state EXCEPT ![np[p]] = "RUNNABLE"]
  /\ np' = [np EXCEPT ![p] = None]
  /\ Goto(p, "user")
  /\ UNCHANGED <<parent, chan, pid, killed, plock, wait_lock, cpu, nextpid, asked>>

-----------------------------------------------------------------------------
(* exit *)

\* wakeup(q) for the address of process q; the caller is not q.
wakeup(f, q) ==
  [s \in Slot |-> IF s = q /\ f[s] = "SLEEPING" /\ chan[s] = q THEN "RUNNABLE"
                                                             ELSE f[s]]

\* Mutant: exit does not give its children to init.
reparent_missing(p) == parent

\* Pass p's abandoned children to init.
reparent(p) == [s \in Slot |-> IF s \in Children(p) THEN initproc ELSE parent[s]]

\* exit(), from sys_exit or from usertrap for a killed process, takes wait_lock
\* and calls reparent, which wakes init.
exit_reparent(p) ==
  /\ At(p, "syscall") \/ (At(p, "user") /\ killed[p])
  /\ p # initproc
  /\ wait_lock = None
  /\ wait_lock' = p
  /\ parent' = reparent(p)
  /\ IF Children(p) = {} THEN UNCHANGED state
                         ELSE /\ plock[initproc] = None
                              /\ state' = wakeup(state, initproc)
  /\ Goto(p, "exit_wakeup")
  /\ UNCHANGED <<chan, pid, killed, plock, cpu, np, nextpid, asked>>

\* wakeup(p->parent).
exit_wakeup(p) ==
  /\ At(p, "exit_wakeup")
  /\ plock[parent[p]] = None
  /\ state' = wakeup(state, parent[p])
  /\ Goto(p, "exit_zombie")
  /\ UNCHANGED <<parent, chan, pid, killed, plock, wait_lock, cpu, np, nextpid,
                 asked>>

\* From here until the switch p still runs on its kernel stack.
exit_zombie(p) ==
  /\ At(p, "exit_zombie")
  /\ plock[p] = None
  /\ plock' = [plock EXCEPT ![p] = p]
  /\ state' = [state EXCEPT ![p] = "ZOMBIE"]
  /\ wait_lock' = None
  /\ Goto(p, "exit_sched")
  /\ UNCHANGED <<parent, chan, pid, killed, cpu, np, nextpid, asked>>

exit_sched(p) ==
  /\ At(p, "exit_sched")
  /\ LeaveCPU(p)
  /\ plock' = [plock EXCEPT ![p] = None]
  /\ Goto(p, "user")
  /\ UNCHANGED <<state, parent, chan, pid, killed, wait_lock, np, nextpid, asked>>

-----------------------------------------------------------------------------
(* wait and sleep *)

wait(p) ==
  /\ At(p, "syscall")
  /\ Goto(p, "wait_acquire")
  /\ UNCHANGED <<state, parent, chan, pid, killed, plock, wait_lock, cpu, np,
                 nextpid, asked>>

\* acquire(&wait_lock), at the start of wait and at the end of sleep.
wait_acquire(p) ==
  /\ At(p, "wait_acquire")
  /\ wait_lock = None
  /\ wait_lock' = p
  /\ Goto(p, "wait")
  /\ UNCHANGED <<state, parent, chan, pid, killed, plock, cpu, np, nextpid, asked>>

\* Mutant: wait does not take the child's lock.
Reapable_unlocked(p) == Zombies(p)

\* The zombie children whose p->lock is free.
Reapable(p) == {s \in Zombies(p) : plock[s] = None}

freeproc(s) ==
  /\ state' = [state EXCEPT ![s] = "UNUSED"]
  /\ parent' = [parent EXCEPT ![s] = None]
  /\ chan' = [chan EXCEPT ![s] = None]
  /\ pid' = [pid EXCEPT ![s] = 0]
  /\ killed' = [killed EXCEPT ![s] = FALSE]

\* wait finds a zombie child and frees it.
wait_reap(p, s) ==
  /\ At(p, "wait")
  /\ s \in Reapable(p)
  /\ freeproc(s)
  /\ wait_lock' = None
  /\ Goto(p, "user")
  /\ UNCHANGED <<plock, cpu, np, nextpid, asked>>

\* wait returns -1: the status cannot be copied out (init passes addr 0, so it
\* never asks for one), or there is nothing to wait for, or p has been killed.
wait_fail(p) ==
  /\ At(p, "wait")
  /\ \/ p # initproc /\ Reapable(p) # {}
     \/ Zombies(p) = {} /\ (Children(p) = {} \/ killed[p])
  /\ wait_lock' = None
  /\ Goto(p, "user")
  /\ UNCHANGED <<state, parent, chan, pid, killed, plock, cpu, np, nextpid, asked>>

\* Mutant: sleep gives up the condition lock before it takes p->lock.
wait_sleep_unlocked(p) ==
  /\ At(p, "wait")
  /\ Zombies(p) = {} /\ Children(p) # {} /\ ~killed[p]
  /\ wait_lock' = None
  /\ Goto(p, "sleep")
  /\ UNCHANGED <<state, parent, chan, pid, killed, plock, cpu, np, nextpid, asked>>

\* wait decides to call sleep(p, &wait_lock).
wait_sleep(p) ==
  /\ At(p, "wait")
  /\ Zombies(p) = {} /\ Children(p) # {} /\ ~killed[p]
  /\ Goto(p, "sleep")
  /\ UNCHANGED <<state, parent, chan, pid, killed, plock, wait_lock, cpu, np,
                 nextpid, asked>>

\* sleep takes p->lock before it gives up the condition lock.
sleep_acquire(p) ==
  /\ At(p, "sleep")
  /\ plock[p] = None
  /\ plock' = [plock EXCEPT ![p] = p]
  /\ Goto(p, "sleep_locked")
  /\ UNCHANGED <<state, parent, chan, pid, killed, wait_lock, cpu, np, nextpid,
                 asked>>

sleep_sched(p) ==
  /\ At(p, "sleep_locked")
  /\ wait_lock' = None
  /\ chan' = [chan EXCEPT ![p] = p]
  /\ state' = [state EXCEPT ![p] = "SLEEPING"]
  /\ LeaveCPU(p)
  /\ plock' = [plock EXCEPT ![p] = None]
  /\ Goto(p, "wait_acquire")
  /\ UNCHANGED <<parent, pid, killed, np, nextpid, asked>>

-----------------------------------------------------------------------------

\* kill(n), which marks the slot s that it finds.
kill(p, n, s) ==
  /\ At(p, "syscall")
  /\ pid[s] = n /\ plock[s] = None
  /\ killed' = [killed EXCEPT ![s] = TRUE]
  /\ state' = [state EXCEPT ![s] = IF @ = "SLEEPING" THEN "RUNNABLE" ELSE @]
  /\ asked' = asked \cup {n}
  /\ Goto(p, "user")
  /\ UNCHANGED <<parent, chan, pid, plock, wait_lock, cpu, np, nextpid>>

\* The steps of p that only depend on p being run.
Kernel(p) ==
  \/ fork_parent(p) \/ fork_runnable(p)
  \/ exit_wakeup(p) \/ exit_zombie(p) \/ exit_sched(p)
  \/ wait_acquire(p)
  \/ \E s \in Slot : wait_reap(p, s)
  \/ wait_fail(p) \/ wait_sleep(p)
  \/ sleep_acquire(p) \/ sleep_sched(p)

Syscall(p) ==
  \/ usertrap(p)
  \/ \E s \in Slot : fork(p, s) \/ fork_fail(p, s)
  \/ exit_reparent(p)
  \/ wait(p)
  \/ \E n \in KillPids, s \in Slot : kill(p, n, s)

Next ==
  \/ \E c \in CPU, p \in Slot : scheduler(c, p)
  \/ \E p \in Slot : yield(p) \/ Kernel(p) \/ Syscall(p)

Spec == Init /\ [][Next]_vars

\* The timer preempts, the scheduler's round over the table reaches every
\* runnable process again and again, a CPU that spins on a lock gets it
\* eventually, and init calls wait() in a loop (user/init.c:39-53).
Fairness ==
  \A p \in Slot :
    /\ SF_vars(\E c \in CPU : scheduler(c, p))
    /\ WF_vars(yield(p))
    /\ SF_vars(Kernel(p) \/ (p = initproc /\ usertrap(p)))
    /\ SF_vars(p = initproc /\ wait(p))

FairSpec == Spec /\ Fairness

-----------------------------------------------------------------------------
(* Properties *)

\* No wakeup is lost between wait's scan and sleep (proc.c:402-433, 547-552)
\* against exit's wakeup and ZOMBIE (374-379), also when the child changes
\* hands in reparent: a process asleep in wait has no zombie child, and it has
\* a child that will wake it.
NoLostWakeup ==
  \A p \in Slot : state[p] = "SLEEPING" => Zombies(p) = {} /\ Children(p) # {}

\* A kernel stack is used by one CPU at most, and a slot is freed, allocated or
\* run again only after its last owner has left the CPU for good
\* (proc.c:404 "make sure the child isn't still in exit() or swtch()").
StackNotShared ==
  /\ \A c, d \in CPU : cpu[c] = cpu[d] /\ cpu[c] # None => c = d
  /\ \A p \in Slot :
       Running(p) <=> state[p] = "RUNNING" \/ (state[p] = "ZOMBIE" /\ pc[p] = "exit_sched")

\* The process tree has no holes (fork, reparent, exit, wait): every process
\* that has been started has a parent that has neither exited nor been freed,
\* so every zombie has somebody who can wait for it.
ParentAlive ==
  \A s \in Slot \ {initproc} :
    state[s] \notin {"UNUSED", "USED"} =>
      /\ parent[s] \in Slot
      /\ state[parent[s]] \in {"RUNNABLE", "RUNNING", "SLEEPING"}

\* "Kill the process with the given pid" (proc.c:582): only a process whose pid
\* was given to kill is marked killed.
KilledByName ==
  \A s \in Slot : state[s] # "UNUSED" /\ killed[s] => pid[s] \in asked

\* An abandoned zombie (reparent, proc.c:330-341) is reaped by init.
OrphansReaped ==
  \A s \in Slot : state[s] = "ZOMBIE" /\ parent[s] = initproc ~> state[s] = "UNUSED"
=============================================================================
