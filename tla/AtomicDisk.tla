----------------------------- MODULE AtomicDisk -----------------------------
(***************************************************************************)
(* What the logging layer of xv6 (kernel/log.c) promises to the rest of    *)
(* the file system: a disk on which the block writes of the system calls   *)
(* that run together become durable in one indivisible step, taken only    *)
(* when no system call is in progress, and on which a crash falls back to  *)
(* the state of the last such step.                                        *)
(***************************************************************************)

CONSTANTS Proc, Block, Value

VARIABLES
  durable,  \* durable[b]: what a reboot would find in block b
  view,     \* view[b]: what a system call reads from block b now
  active    \* the processes inside a file-system call

vars == <<durable, view, active>>

Init ==
  /\ durable \in [Block -> Value]
  /\ view = durable
  /\ active = {}

Begin(p) ==
  /\ p \notin active
  /\ active' = active \cup {p}
  /\ UNCHANGED <<durable, view>>

Write(p, b, v) ==
  /\ p \in active
  /\ view' = [view EXCEPT ![b] = v]
  /\ UNCHANGED <<durable, active>>

End(p) ==
  /\ p \in active
  /\ active' = active \ {p}
  /\ UNCHANGED <<durable, view>>

\* All the writes since the last commit become durable together.
Commit ==
  /\ active = {}
  /\ durable' = view
  /\ UNCHANGED <<view, active>>

Crash ==
  /\ view' = durable
  /\ active' = {}
  /\ UNCHANGED durable

Next ==
  \/ \E p \in Proc : Begin(p) \/ End(p)
  \/ \E p \in Proc, b \in Block, v \in Value : Write(p, b, v)
  \/ Commit
  \/ Crash

Spec == Init /\ [][Next]_vars
=============================================================================
