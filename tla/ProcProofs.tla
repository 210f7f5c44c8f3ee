----------------------------- MODULE ProcProofs -----------------------------
(***************************************************************************)
(* Proofs about module Proc, for any table of processes and any CPUs: no   *)
(* wakeup of wait is lost, no two CPUs use one kernel stack and no slot is *)
(* reused too early, and the tree of processes has no holes.               *)
(***************************************************************************)
EXTENDS Proc, TLAPS

Live    == {"RUNNABLE", "RUNNING", "SLEEPING"}
State   == {"UNUSED", "USED", "ZOMBIE"} \cup Live
InFork  == {"fork_parent", "fork_runnable"}
Exiting == {"exit_wakeup", "exit_zombie", "exit_sched"}
Waiting == {"wait", "sleep", "sleep_locked"}
Label   == {"user", "syscall", "wait_acquire"} \cup InFork \cup Exiting \cup Waiting

TypeInv ==
  /\ state \in [Slot -> State]
  /\ parent \in [Slot -> Slot \cup {None}]
  /\ chan \in [Slot -> Slot \cup {None}]
  /\ plock \in [Slot -> Slot \cup {None}]
  /\ wait_lock \in Slot \cup {None}
  /\ cpu \in [CPU -> Slot \cup {None}]
  /\ pc \in [Slot -> Label]
  /\ np \in [Slot -> Slot \cup {None}]

\* Who holds the locks.
LockInv ==
  \A p \in Slot :
    /\ wait_lock = p <=> pc[p] \in Waiting \cup {"exit_wakeup", "exit_zombie"}
    /\ plock[p] = IF pc[p] \in {"exit_sched", "sleep_locked"} THEN p ELSE None

\* Which state a process is in where it is.
StateInv ==
  \A p \in Slot :
    /\ state[p] \in {"UNUSED", "USED"} => pc[p] = "user"
    /\ state[p] = "RUNNABLE" => pc[p] \in {"user", "syscall", "wait_acquire"} \cup InFork
    /\ state[p] = "SLEEPING" => pc[p] = "wait_acquire" /\ chan[p] = p
    /\ state[p] = "ZOMBIE" => pc[p] \in {"user", "exit_sched"}
    /\ pc[p] = "exit_sched" => state[p] = "ZOMBIE"

\* The child of a fork that is under way belongs to that fork.
ForkInv ==
  /\ \A p \in Slot : pc[p] \in InFork =>
       /\ np[p] \in Slot /\ state[np[p]] = "USED"
       /\ parent[np[p]] = IF pc[p] = "fork_parent" THEN None ELSE p
  /\ \A p, q \in Slot : pc[p] \in InFork /\ pc[q] \in InFork /\ np[p] = np[q] => p = q
  /\ \A s \in Slot : state[s] = "UNUSED" => parent[s] = None

\* A parent is alive and not on its way out; init always is.
TreeInv ==
  /\ state[initproc] \in Live /\ pc[initproc] \notin Exiting /\ parent[initproc] = None
  /\ \A s \in Slot : parent[s] # None => state[parent[s]] \in Live /\ pc[parent[s]] \notin Exiting
  /\ \A s \in Slot \ {initproc} : state[s] \notin {"UNUSED", "USED"} => parent[s] # None

\* What wait has seen stays true until it sleeps and while it sleeps; an exiting
\* child has woken its parent before it becomes a zombie.
WaitInv ==
  /\ \A p \in Slot : state[p] = "SLEEPING" \/ pc[p] \in {"sleep", "sleep_locked"} =>
       Zombies(p) = {} /\ Children(p) # {}
  /\ \A q \in Slot : pc[q] = "exit_zombie" => state[parent[q]] # "SLEEPING"

IInv == TypeInv /\ LockInv /\ StateInv /\ StackNotShared /\ ForkInv /\ TreeInv /\ WaitInv

-----------------------------------------------------------------------------
\* After userinit there is one process, and every lock is free.
LEMMA IInvInit == Init => IInv
<1> SUFFICES ASSUME Init PROVE IInv
  OBVIOUS
<1> USE ProcAssumption DEF Init
<1>1. TypeInv
  BY DEF TypeInv, Live, State, InFork, Exiting, Waiting, Label
<1>2. LockInv /\ StateInv
  BY DEF LockInv, StateInv, InFork, Waiting
<1>3. StackNotShared
  BY DEF StackNotShared, Running
<1>4. ForkInv /\ TreeInv /\ WaitInv
  BY DEF ForkInv, TreeInv, WaitInv, InFork, Exiting, Live
<1> QED
  BY <1>1, <1>2, <1>3, <1>4 DEF IInv

\* Every action preserves the types.
LEMMA TypeNext ==
  TypeInv /\ [Next]_vars
    => TypeInv'
<1> SUFFICES ASSUME TypeInv, [Next]_vars PROVE TypeInv'
  OBVIOUS
<1> USE ProcAssumption DEF TypeInv, Live, State, InFork, Exiting, Waiting, Label
<1>1. ASSUME NEW c \in CPU, NEW p \in Slot, scheduler(c, p) PROVE TypeInv'
  BY <1>1 DEF scheduler, At, Goto
<1>2. ASSUME NEW p \in Slot, yield(p) PROVE TypeInv'
  BY <1>2 DEF yield, At, Goto, LeaveCPU, Preemptible
<1>3. ASSUME NEW p \in Slot, usertrap(p) PROVE TypeInv'
  BY <1>3 DEF usertrap, At, Goto
<1>4. ASSUME NEW p \in Slot, NEW s \in Slot, fork(p, s) PROVE TypeInv'
  BY <1>4 DEF fork, At, Goto, allocproc
<1>5. ASSUME NEW p \in Slot, NEW s \in Slot, fork_fail(p, s) PROVE TypeInv'
  BY <1>5 DEF fork_fail, At, Goto
<1>6. ASSUME NEW p \in Slot, fork_parent(p) PROVE TypeInv'
  BY <1>6, Zenon DEF fork_parent, At, Goto
<1>7. ASSUME NEW p \in Slot, fork_runnable(p) PROVE TypeInv'
  BY <1>7, Zenon DEF fork_runnable, At, Goto
<1>8. ASSUME NEW p \in Slot, exit_reparent(p) PROVE TypeInv'
  BY <1>8 DEF exit_reparent, At, Goto, reparent, wakeup, Children
<1>9. ASSUME NEW p \in Slot, exit_wakeup(p) PROVE TypeInv'
  BY <1>9 DEF exit_wakeup, At, Goto, wakeup
<1>10. ASSUME NEW p \in Slot, exit_zombie(p) PROVE TypeInv'
  BY <1>10 DEF exit_zombie, At, Goto
<1>11. ASSUME NEW p \in Slot, exit_sched(p) PROVE TypeInv'
  BY <1>11 DEF exit_sched, At, Goto, LeaveCPU
<1>12. ASSUME NEW p \in Slot, wait(p) PROVE TypeInv'
  BY <1>12 DEF wait, At, Goto
<1>13. ASSUME NEW p \in Slot, wait_acquire(p) PROVE TypeInv'
  BY <1>13 DEF wait_acquire, At, Goto
<1>14. ASSUME NEW p \in Slot, NEW s \in Slot, wait_reap(p, s) PROVE TypeInv'
  BY <1>14 DEF wait_reap, At, Goto, Reapable, Zombies, Children, freeproc
<1>15. ASSUME NEW p \in Slot, wait_fail(p) PROVE TypeInv'
  BY <1>15 DEF wait_fail, At, Goto
<1>16. ASSUME NEW p \in Slot, wait_sleep(p) PROVE TypeInv'
  BY <1>16 DEF wait_sleep, At, Goto
<1>17. ASSUME NEW p \in Slot, sleep_acquire(p) PROVE TypeInv'
  BY <1>17 DEF sleep_acquire, At, Goto
<1>18. ASSUME NEW p \in Slot, sleep_sched(p) PROVE TypeInv'
  BY <1>18 DEF sleep_sched, At, Goto, LeaveCPU
<1>19. ASSUME NEW p \in Slot, NEW n \in KillPids, NEW s \in Slot, kill(p, n, s) PROVE TypeInv'
  BY <1>19 DEF kill, At, Goto
<1>20. CASE UNCHANGED vars
  BY <1>20 DEF vars
<1> HIDE DEF TypeInv, Live, State, InFork, Exiting, Waiting, Label
<1> QED
  BY <1>1, <1>2, <1>3, <1>4, <1>5, <1>6, <1>7, <1>8, <1>9, <1>10, <1>11, <1>12, <1>13, <1>14,
     <1>15, <1>16, <1>17, <1>18, <1>19, <1>20 DEF Next, Kernel, Syscall

\* wait_lock and the p->lock are taken and released where pc says so.
LEMMA LockNext ==
  TypeInv /\ LockInv /\ [Next]_vars
    => LockInv'
<1> SUFFICES ASSUME TypeInv, LockInv, [Next]_vars PROVE LockInv'
  OBVIOUS
<1> USE ProcAssumption DEF TypeInv, LockInv, Live, State, InFork, Exiting, Waiting, Label
<1>1. ASSUME NEW c \in CPU, NEW p \in Slot, scheduler(c, p) PROVE LockInv'
  BY <1>1 DEF scheduler, At, Goto
<1>2. ASSUME NEW p \in Slot, yield(p) PROVE LockInv'
  BY <1>2 DEF yield, At, Goto, LeaveCPU, Preemptible
<1>3. ASSUME NEW p \in Slot, usertrap(p) PROVE LockInv'
  BY <1>3 DEF usertrap, At, Goto
<1>4. ASSUME NEW p \in Slot, NEW s \in Slot, fork(p, s) PROVE LockInv'
  BY <1>4 DEF fork, At, Goto, allocproc
<1>5. ASSUME NEW p \in Slot, NEW s \in Slot, fork_fail(p, s) PROVE LockInv'
  BY <1>5 DEF fork_fail, At, Goto
<1>6. ASSUME NEW p \in Slot, fork_parent(p) PROVE LockInv'
  BY <1>6 DEF fork_parent, At, Goto
<1>7. ASSUME NEW p \in Slot, fork_runnable(p) PROVE LockInv'
  BY <1>7 DEF fork_runnable, At, Goto
<1>8. ASSUME NEW p \in Slot, exit_reparent(p) PROVE LockInv'
  BY <1>8 DEF exit_reparent, At, Goto, reparent, wakeup, Children
<1>9. ASSUME NEW p \in Slot, exit_wakeup(p) PROVE LockInv'
  BY <1>9 DEF exit_wakeup, At, Goto, wakeup
<1>10. ASSUME NEW p \in Slot, exit_zombie(p) PROVE LockInv'
  BY <1>10 DEF exit_zombie, At, Goto
<1>11. ASSUME NEW p \in Slot, exit_sched(p) PROVE LockInv'
  BY <1>11 DEF exit_sched, At, Goto, LeaveCPU
<1>12. ASSUME NEW p \in Slot, wait(p) PROVE LockInv'
  BY <1>12 DEF wait, At, Goto
<1>13. ASSUME NEW p \in Slot, wait_acquire(p) PROVE LockInv'
  BY <1>13 DEF wait_acquire, At, Goto
<1>14. ASSUME NEW p \in Slot, NEW s \in Slot, wait_reap(p, s) PROVE LockInv'
  BY <1>14 DEF wait_reap, At, Goto, Reapable, Zombies, Children, freeproc
<1>15. ASSUME NEW p \in Slot, wait_fail(p) PROVE LockInv'
  BY <1>15 DEF wait_fail, At, Goto
<1>16. ASSUME NEW p \in Slot, wait_sleep(p) PROVE LockInv'
  BY <1>16 DEF wait_sleep, At, Goto
<1>17. ASSUME NEW p \in Slot, sleep_acquire(p) PROVE LockInv'
  BY <1>17 DEF sleep_acquire, At, Goto
<1>18. ASSUME NEW p \in Slot, sleep_sched(p) PROVE LockInv'
  BY <1>18 DEF sleep_sched, At, Goto, LeaveCPU
<1>19. ASSUME NEW p \in Slot, NEW n \in KillPids, NEW s \in Slot, kill(p, n, s) PROVE LockInv'
  BY <1>19 DEF kill, At, Goto
<1>20. CASE UNCHANGED vars
  BY <1>20 DEF vars
<1> HIDE DEF TypeInv, LockInv, Live, State, InFork, Exiting, Waiting, Label
<1> QED
  BY <1>1, <1>2, <1>3, <1>4, <1>5, <1>6, <1>7, <1>8, <1>9, <1>10, <1>11, <1>12, <1>13, <1>14,
     <1>15, <1>16, <1>17, <1>18, <1>19, <1>20 DEF Next, Kernel, Syscall

\* The state of a process changes with its place: only its own steps, wakeup, kill, fork
\* and wait change it, each in the states it looks for.
LEMMA StateNext ==
  TypeInv /\ LockInv /\ StackNotShared /\ ForkInv /\ StateInv /\ [Next]_vars
    => StateInv'
<1> SUFFICES ASSUME TypeInv, LockInv, StackNotShared, ForkInv, StateInv, [Next]_vars PROVE StateInv'
  OBVIOUS
<1> USE ProcAssumption DEF TypeInv, LockInv, StackNotShared, ForkInv, StateInv, Live, State, InFork, Exiting, Waiting, Label
<1>1. ASSUME NEW c \in CPU, NEW p \in Slot, scheduler(c, p) PROVE StateInv'
  BY <1>1 DEF scheduler, At, Goto
<1>2. ASSUME NEW p \in Slot, yield(p) PROVE StateInv'
  BY <1>2 DEF yield, At, Goto, LeaveCPU, Preemptible
<1>3. ASSUME NEW p \in Slot, usertrap(p) PROVE StateInv'
  BY <1>3 DEF usertrap, At, Goto
<1>4. ASSUME NEW p \in Slot, NEW s \in Slot, fork(p, s) PROVE StateInv'
  BY <1>4 DEF fork, At, Goto, allocproc
<1>5. ASSUME NEW p \in Slot, NEW s \in Slot, fork_fail(p, s) PROVE StateInv'
  BY <1>5 DEF fork_fail, At, Goto
<1>6. ASSUME NEW p \in Slot, fork_parent(p) PROVE StateInv'
  BY <1>6 DEF fork_parent, At, Goto
<1>7. ASSUME NEW p \in Slot, fork_runnable(p) PROVE StateInv'
  BY <1>7 DEF fork_runnable, At, Goto
<1>8. ASSUME NEW p \in Slot, exit_reparent(p) PROVE StateInv'
  BY <1>8 DEF exit_reparent, At, Goto, reparent, wakeup, Children
<1>9. ASSUME NEW p \in Slot, exit_wakeup(p) PROVE StateInv'
  BY <1>9 DEF exit_wakeup, At, Goto, wakeup
<1>10. ASSUME NEW p \in Slot, exit_zombie(p) PROVE StateInv'
  BY <1>10 DEF exit_zombie, At, Goto
<1>11. ASSUME NEW p \in Slot, exit_sched(p) PROVE StateInv'
  BY <1>11 DEF exit_sched, At, Goto, LeaveCPU
<1>12. ASSUME NEW p \in Slot, wait(p) PROVE StateInv'
  BY <1>12 DEF wait, At, Goto
<1>13. ASSUME NEW p \in Slot, wait_acquire(p) PROVE StateInv'
  BY <1>13 DEF wait_acquire, At, Goto
<1>14. ASSUME NEW p \in Slot, NEW s \in Slot, wait_reap(p, s) PROVE StateInv'
  BY <1>14, SMTT(30) DEF wait_reap, At, Goto, Reapable, Zombies, Children, freeproc
<1>15. ASSUME NEW p \in Slot, wait_fail(p) PROVE StateInv'
  BY <1>15 DEF wait_fail, At, Goto
<1>16. ASSUME NEW p \in Slot, wait_sleep(p) PROVE StateInv'
  BY <1>16 DEF wait_sleep, At, Goto
<1>17. ASSUME NEW p \in Slot, sleep_acquire(p) PROVE StateInv'
  BY <1>17 DEF sleep_acquire, At, Goto
<1>18. ASSUME NEW p \in Slot, sleep_sched(p) PROVE StateInv'
  BY <1>18 DEF sleep_sched, At, Goto, LeaveCPU
<1>19. ASSUME NEW p \in Slot, NEW n \in KillPids, NEW s \in Slot, kill(p, n, s) PROVE StateInv'
  BY <1>19 DEF kill, At, Goto
<1>20. CASE UNCHANGED vars
  BY <1>20 DEF vars
<1> HIDE DEF TypeInv, LockInv, StackNotShared, ForkInv, StateInv, Live, State, InFork, Exiting, Waiting, Label
<1> QED
  BY <1>1, <1>2, <1>3, <1>4, <1>5, <1>6, <1>7, <1>8, <1>9, <1>10, <1>11, <1>12, <1>13, <1>14,
     <1>15, <1>16, <1>17, <1>18, <1>19, <1>20 DEF Next, Kernel, Syscall

\* A zombie is on its stack until exit_sched, and p->lock keeps wait and allocproc away
\* until then.
LEMMA StackNext ==
  TypeInv /\ LockInv /\ StateInv /\ ForkInv /\ StackNotShared /\ [Next]_vars
    => StackNotShared'
<1> SUFFICES ASSUME TypeInv, LockInv, StateInv, ForkInv, StackNotShared, [Next]_vars PROVE StackNotShared'
  OBVIOUS
<1> USE ProcAssumption DEF TypeInv, LockInv, StateInv, ForkInv, StackNotShared, Running, Live, State, InFork, Exiting, Waiting, Label
<1>1. ASSUME NEW c \in CPU, NEW p \in Slot, scheduler(c, p) PROVE StackNotShared'
  BY <1>1 DEF scheduler, At, Goto
<1>2. ASSUME NEW p \in Slot, yield(p) PROVE StackNotShared'
  BY <1>2 DEF yield, At, Goto, LeaveCPU, Preemptible
<1>3. ASSUME NEW p \in Slot, usertrap(p) PROVE StackNotShared'
  BY <1>3 DEF usertrap, At, Goto
<1>4. ASSUME NEW p \in Slot, NEW s \in Slot, fork(p, s) PROVE StackNotShared'
  BY <1>4 DEF fork, At, Goto, allocproc
<1>5. ASSUME NEW p \in Slot, NEW s \in Slot, fork_fail(p, s) PROVE StackNotShared'
  BY <1>5 DEF fork_fail, At, Goto
<1>6. ASSUME NEW p \in Slot, fork_parent(p) PROVE StackNotShared'
  BY <1>6 DEF fork_parent, At, Goto
<1>7. ASSUME NEW p \in Slot, fork_runnable(p) PROVE StackNotShared'
  BY <1>7 DEF fork_runnable, At, Goto
<1>8. ASSUME NEW p \in Slot, exit_reparent(p) PROVE StackNotShared'
  BY <1>8 DEF exit_reparent, At, Goto, reparent, wakeup, Children
<1>9. ASSUME NEW p \in Slot, exit_wakeup(p) PROVE StackNotShared'
  BY <1>9 DEF exit_wakeup, At, Goto, wakeup
<1>10. ASSUME NEW p \in Slot, exit_zombie(p) PROVE StackNotShared'
  BY <1>10 DEF exit_zombie, At, Goto
<1>11. ASSUME NEW p \in Slot, exit_sched(p) PROVE StackNotShared'
  BY <1>11 DEF exit_sched, At, Goto, LeaveCPU
<1>12. ASSUME NEW p \in Slot, wait(p) PROVE StackNotShared'
  BY <1>12 DEF wait, At, Goto
<1>13. ASSUME NEW p \in Slot, wait_acquire(p) PROVE StackNotShared'
  BY <1>13 DEF wait_acquire, At, Goto
<1>14. ASSUME NEW p \in Slot, NEW s \in Slot, wait_reap(p, s) PROVE StackNotShared'
  BY <1>14 DEF wait_reap, At, Goto, Reapable, Zombies, Children, freeproc
<1>15. ASSUME NEW p \in Slot, wait_fail(p) PROVE StackNotShared'
  BY <1>15 DEF wait_fail, At, Goto
<1>16. ASSUME NEW p \in Slot, wait_sleep(p) PROVE StackNotShared'
  BY <1>16 DEF wait_sleep, At, Goto
<1>17. ASSUME NEW p \in Slot, sleep_acquire(p) PROVE StackNotShared'
  BY <1>17 DEF sleep_acquire, At, Goto
<1>18. ASSUME NEW p \in Slot, sleep_sched(p) PROVE StackNotShared'
  BY <1>18 DEF sleep_sched, At, Goto, LeaveCPU
<1>19. ASSUME NEW p \in Slot, NEW n \in KillPids, NEW s \in Slot, kill(p, n, s) PROVE StackNotShared'
  BY <1>19 DEF kill, At, Goto
<1>20. CASE UNCHANGED vars
  BY <1>20 DEF vars
<1> HIDE DEF TypeInv, LockInv, StateInv, ForkInv, StackNotShared, Running, Live, State, InFork, Exiting, Waiting, Label
<1> QED
  BY <1>1, <1>2, <1>3, <1>4, <1>5, <1>6, <1>7, <1>8, <1>9, <1>10, <1>11, <1>12, <1>13, <1>14,
     <1>15, <1>16, <1>17, <1>18, <1>19, <1>20 DEF Next, Kernel, Syscall

\* allocproc gives a slot to one fork.
LEMMA ForkNext ==
  TypeInv /\ StackNotShared /\ ForkInv /\ [Next]_vars
    => ForkInv'
<1> SUFFICES ASSUME TypeInv, StackNotShared, ForkInv, [Next]_vars PROVE ForkInv'
  OBVIOUS
<1> USE ProcAssumption DEF TypeInv, StackNotShared, ForkInv, Live, State, InFork, Exiting, Waiting, Label
<1>1. ASSUME NEW c \in CPU, NEW p \in Slot, scheduler(c, p) PROVE ForkInv'
  BY <1>1 DEF scheduler, At, Goto
<1>2. ASSUME NEW p \in Slot, yield(p) PROVE ForkInv'
  BY <1>2 DEF yield, At, Goto, LeaveCPU, Preemptible
<1>3. ASSUME NEW p \in Slot, usertrap(p) PROVE ForkInv'
  BY <1>3 DEF usertrap, At, Goto
<1>4. ASSUME NEW p \in Slot, NEW s \in Slot, fork(p, s) PROVE ForkInv'
  BY <1>4 DEF fork, At, Goto, allocproc
<1>5. ASSUME NEW p \in Slot, NEW s \in Slot, fork_fail(p, s) PROVE ForkInv'
  BY <1>5 DEF fork_fail, At, Goto
<1>6. ASSUME NEW p \in Slot, fork_parent(p) PROVE ForkInv'
  BY <1>6 DEF fork_parent, At, Goto
<1>7. ASSUME NEW p \in Slot, fork_runnable(p) PROVE ForkInv'
  BY <1>7 DEF fork_runnable, At, Goto
<1>8. ASSUME NEW p \in Slot, exit_reparent(p) PROVE ForkInv'
  BY <1>8 DEF exit_reparent, At, Goto, reparent, wakeup, Children
<1>9. ASSUME NEW p \in Slot, exit_wakeup(p) PROVE ForkInv'
  BY <1>9 DEF exit_wakeup, At, Goto, wakeup
<1>10. ASSUME NEW p \in Slot, exit_zombie(p) PROVE ForkInv'
  BY <1>10 DEF exit_zombie, At, Goto
<1>11. ASSUME NEW p \in Slot, exit_sched(p) PROVE ForkInv'
  BY <1>11 DEF exit_sched, At, Goto, LeaveCPU
<1>12. ASSUME NEW p \in Slot, wait(p) PROVE ForkInv'
  BY <1>12 DEF wait, At, Goto
<1>13. ASSUME NEW p \in Slot, wait_acquire(p) PROVE ForkInv'
  BY <1>13 DEF wait_acquire, At, Goto
<1>14. ASSUME NEW p \in Slot, NEW s \in Slot, wait_reap(p, s) PROVE ForkInv'
  BY <1>14, SMTT(30) DEF wait_reap, At, Goto, Reapable, Zombies, Children, freeproc
<1>15. ASSUME NEW p \in Slot, wait_fail(p) PROVE ForkInv'
  BY <1>15, SMTT(30) DEF wait_fail, At, Goto
<1>16. ASSUME NEW p \in Slot, wait_sleep(p) PROVE ForkInv'
  BY <1>16 DEF wait_sleep, At, Goto
<1>17. ASSUME NEW p \in Slot, sleep_acquire(p) PROVE ForkInv'
  BY <1>17 DEF sleep_acquire, At, Goto
<1>18. ASSUME NEW p \in Slot, sleep_sched(p) PROVE ForkInv'
  BY <1>18, SMTT(30) DEF sleep_sched, At, Goto, LeaveCPU
<1>19. ASSUME NEW p \in Slot, NEW n \in KillPids, NEW s \in Slot, kill(p, n, s) PROVE ForkInv'
  BY <1>19 DEF kill, At, Goto
<1>20. CASE UNCHANGED vars
  BY <1>20 DEF vars
<1> HIDE DEF TypeInv, StackNotShared, ForkInv, Live, State, InFork, Exiting, Waiting, Label
<1> QED
  BY <1>1, <1>2, <1>3, <1>4, <1>5, <1>6, <1>7, <1>8, <1>9, <1>10, <1>11, <1>12, <1>13, <1>14,
     <1>15, <1>16, <1>17, <1>18, <1>19, <1>20 DEF Next, Kernel, Syscall

\* An exiting process has given its children to init before it is a zombie.
LEMMA TreeNext ==
  TypeInv /\ StackNotShared /\ ForkInv /\ TreeInv /\ [Next]_vars
    => TreeInv'
<1> SUFFICES ASSUME TypeInv, StackNotShared, ForkInv, TreeInv, [Next]_vars PROVE TreeInv'
  OBVIOUS
<1> USE ProcAssumption DEF TypeInv, StackNotShared, ForkInv, TreeInv, Live, State, InFork, Exiting, Waiting, Label
<1>1. ASSUME NEW c \in CPU, NEW p \in Slot, scheduler(c, p) PROVE TreeInv'
  BY <1>1 DEF scheduler, At, Goto
<1>2. ASSUME NEW p \in Slot, yield(p) PROVE TreeInv'
  BY <1>2, SMTT(30) DEF yield, At, Goto, LeaveCPU, Preemptible
<1>3. ASSUME NEW p \in Slot, usertrap(p) PROVE TreeInv'
  BY <1>3 DEF usertrap, At, Goto
<1>4. ASSUME NEW p \in Slot, NEW s \in Slot, fork(p, s) PROVE TreeInv'
  BY <1>4 DEF fork, At, Goto, allocproc
<1>5. ASSUME NEW p \in Slot, NEW s \in Slot, fork_fail(p, s) PROVE TreeInv'
  BY <1>5, SMTT(30) DEF fork_fail, At, Goto
<1>6. ASSUME NEW p \in Slot, fork_parent(p) PROVE TreeInv'
  BY <1>6 DEF fork_parent, At, Goto
<1>7. ASSUME NEW p \in Slot, fork_runnable(p) PROVE TreeInv'
  BY <1>7, SMTT(30) DEF fork_runnable, At, Goto
<1>8. ASSUME NEW p \in Slot, exit_reparent(p) PROVE TreeInv'
  BY <1>8, SMTT(30) DEF exit_reparent, At, Goto, reparent, wakeup, Children
<1>9. ASSUME NEW p \in Slot, exit_wakeup(p) PROVE TreeInv'
  BY <1>9, SMTT(30) DEF exit_wakeup, At, Goto, wakeup
<1>10. ASSUME NEW p \in Slot, exit_zombie(p) PROVE TreeInv'
  BY <1>10, SMTT(30) DEF exit_zombie, At, Goto
<1>11. ASSUME NEW p \in Slot, exit_sched(p) PROVE TreeInv'
  BY <1>11, SMTT(30) DEF exit_sched, At, Goto, LeaveCPU
<1>12. ASSUME NEW p \in Slot, wait(p) PROVE TreeInv'
  BY <1>12 DEF wait, At, Goto
<1>13. ASSUME NEW p \in Slot, wait_acquire(p) PROVE TreeInv'
  BY <1>13, SMTT(30) DEF wait_acquire, At, Goto
<1>14. ASSUME NEW p \in Slot, NEW s \in Slot, wait_reap(p, s) PROVE TreeInv'
  BY <1>14, SMTT(30) DEF wait_reap, At, Goto, Reapable, Zombies, Children, freeproc
<1>15. ASSUME NEW p \in Slot, wait_fail(p) PROVE TreeInv'
  BY <1>15, SMTT(30) DEF wait_fail, At, Goto
<1>16. ASSUME NEW p \in Slot, wait_sleep(p) PROVE TreeInv'
  BY <1>16, SMTT(30) DEF wait_sleep, At, Goto
<1>17. ASSUME NEW p \in Slot, sleep_acquire(p) PROVE TreeInv'
  BY <1>17, SMTT(30) DEF sleep_acquire, At, Goto
<1>18. ASSUME NEW p \in Slot, sleep_sched(p) PROVE TreeInv'
  BY <1>18, SMTT(30) DEF sleep_sched, At, Goto, LeaveCPU
<1>19. ASSUME NEW p \in Slot, NEW n \in KillPids, NEW s \in Slot, kill(p, n, s) PROVE TreeInv'
  BY <1>19, SMTT(30) DEF kill, At, Goto
<1>20. CASE UNCHANGED vars
  BY <1>20 DEF vars
<1> HIDE DEF TypeInv, StackNotShared, ForkInv, TreeInv, Live, State, InFork, Exiting, Waiting, Label
<1> QED
  BY <1>1, <1>2, <1>3, <1>4, <1>5, <1>6, <1>7, <1>8, <1>9, <1>10, <1>11, <1>12, <1>13, <1>14,
     <1>15, <1>16, <1>17, <1>18, <1>19, <1>20 DEF Next, Kernel, Syscall

\* While wait holds wait_lock no child becomes a zombie and none changes hands; later the
\* child's exit, or reparent, wakes the sleeper first.
LEMMA WaitNext ==
  TypeInv /\ LockInv /\ StateInv /\ ForkInv /\ TreeInv /\ WaitInv /\ [Next]_vars
    => WaitInv'
<1> SUFFICES ASSUME TypeInv, LockInv, StateInv, ForkInv, TreeInv, WaitInv, [Next]_vars PROVE WaitInv'
  BY SMTT(30)
<1> USE ProcAssumption DEF TypeInv, LockInv, StateInv, ForkInv, TreeInv, WaitInv, Zombies, Children, Live, State, InFork, Exiting, Waiting, Label
<1>1. ASSUME NEW c \in CPU, NEW p \in Slot, scheduler(c, p) PROVE WaitInv'
  BY <1>1, SMTT(30) DEF scheduler, At, Goto
<1>2. ASSUME NEW p \in Slot, yield(p) PROVE WaitInv'
  BY <1>2, SMTT(30) DEF yield, At, Goto, LeaveCPU, Preemptible
<1>3. ASSUME NEW p \in Slot, usertrap(p) PROVE WaitInv'
  BY <1>3, SMTT(30) DEF usertrap, At, Goto
<1>4. ASSUME NEW p \in Slot, NEW s \in Slot, fork(p, s) PROVE WaitInv'
  BY <1>4, SMTT(30) DEF fork, At, Goto, allocproc
<1>5. ASSUME NEW p \in Slot, NEW s \in Slot, fork_fail(p, s) PROVE WaitInv'
  BY <1>5, SMTT(30) DEF fork_fail, At, Goto
<1>6. ASSUME NEW p \in Slot, fork_parent(p) PROVE WaitInv'
  BY <1>6, SMTT(30) DEF fork_parent, At, Goto
<1>7. ASSUME NEW p \in Slot, fork_runnable(p) PROVE WaitInv'
  BY <1>7, SMTT(30) DEF fork_runnable, At, Goto
<1>8. ASSUME NEW p \in Slot, exit_reparent(p) PROVE WaitInv'
  BY <1>8, SMTT(30) DEF exit_reparent, At, Goto, reparent, wakeup, Children
<1>9. ASSUME NEW p \in Slot, exit_wakeup(p) PROVE WaitInv'
  BY <1>9, SMTT(30) DEF exit_wakeup, At, Goto, wakeup
<1>10. ASSUME NEW p \in Slot, exit_zombie(p) PROVE WaitInv'
  BY <1>10, SMTT(30) DEF exit_zombie, At, Goto
<1>11. ASSUME NEW p \in Slot, exit_sched(p) PROVE WaitInv'
  BY <1>11, SMTT(30) DEF exit_sched, At, Goto, LeaveCPU
<1>12. ASSUME NEW p \in Slot, wait(p) PROVE WaitInv'
  BY <1>12, SMTT(30) DEF wait, At, Goto
<1>13. ASSUME NEW p \in Slot, wait_acquire(p) PROVE WaitInv'
  BY <1>13, SMTT(30) DEF wait_acquire, At, Goto
<1>14. ASSUME NEW p \in Slot, NEW s \in Slot, wait_reap(p, s) PROVE WaitInv'
  BY <1>14, SMTT(30) DEF wait_reap, At, Goto, Reapable, Zombies, Children, freeproc
<1>15. ASSUME NEW p \in Slot, wait_fail(p) PROVE WaitInv'
  BY <1>15, SMTT(30) DEF wait_fail, At, Goto
<1>16. ASSUME NEW p \in Slot, wait_sleep(p) PROVE WaitInv'
  BY <1>16, SMTT(30) DEF wait_sleep, At, Goto
<1>17. ASSUME NEW p \in Slot, sleep_acquire(p) PROVE WaitInv'
  BY <1>17, SMTT(30) DEF sleep_acquire, At, Goto
<1>18. ASSUME NEW p \in Slot, sleep_sched(p) PROVE WaitInv'
  BY <1>18, SMTT(30) DEF sleep_sched, At, Goto, LeaveCPU
<1>19. ASSUME NEW p \in Slot, NEW n \in KillPids, NEW s \in Slot, kill(p, n, s) PROVE WaitInv'
  BY <1>19, SMTT(30) DEF kill, At, Goto
<1>20. CASE UNCHANGED vars
  BY <1>20 DEF vars
<1> HIDE DEF TypeInv, LockInv, StateInv, ForkInv, TreeInv, WaitInv, Zombies, Children, Live, State, InFork, Exiting, Waiting, Label
<1> QED
  BY <1>1, <1>2, <1>3, <1>4, <1>5, <1>6, <1>7, <1>8, <1>9, <1>10, <1>11, <1>12, <1>13, <1>14,
     <1>15, <1>16, <1>17, <1>18, <1>19, <1>20 DEF Next, Kernel, Syscall

-----------------------------------------------------------------------------
(* The theorems *)

\* The conjuncts of IInv hold in every reachable state of proc.c: each action
\* preserves them together.
THEOREM ProcInvariant == Spec => []IInv
<1>1. IInv /\ [Next]_vars => IInv'
  BY TypeNext, LockNext, StateNext, StackNext, ForkNext, TreeNext, WaitNext DEF IInv
<1> QED
  BY <1>1, IInvInit, PTL DEF Spec

\* A kernel stack is used by one CPU at most, and a slot is not reused before its
\* last owner has left the CPU (proc.c:404), for any number of CPUs and processes.
THEOREM ProcStackNotShared == Spec => []StackNotShared
<1>1. IInv => StackNotShared
  BY DEF IInv
<1> QED
  BY <1>1, ProcInvariant, PTL

\* Every process that has been started has a parent that can wait for it (fork,
\* reparent, exit and wait of proc.c).
THEOREM ProcParentAlive == Spec => []ParentAlive
<1>1. IInv => ParentAlive
  BY DEF IInv, TypeInv, TreeInv, ParentAlive, Live
<1> QED
  BY <1>1, ProcInvariant, PTL

\* A process asleep in wait has missed no zombie and has a child that will wake it
\* (proc.c:402-433 against 374-379 and 330-341).
THEOREM ProcNoLostWakeup == Spec => []NoLostWakeup
<1>1. IInv => NoLostWakeup
  BY DEF IInv, WaitInv, NoLostWakeup
<1> QED
  BY <1>1, ProcInvariant, PTL
=============================================================================
