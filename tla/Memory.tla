------------------------------- MODULE Memory -------------------------------
(***************************************************************************)
(* Physical pages and user page tables: kernel/kalloc.c, kernel/vm.c, the  *)
(* page-table part of kernel/proc.c (allocproc, freeproc, growproc, fork)  *)
(* and kernel/exec.c, with memory running out at any allocation.           *)
(*                                                                         *)
(* Pages are alike, so the free list is its length and a page in use is    *)
(* counted where it is used: as a trapframe, as a page-table page, mapped  *)
(* at a user address, or held by a local variable.  The user part of a     *)
(* page table fits below one level-0 table "l0", and "h0" holds the        *)
(* entries for the trampoline and the trapframe.                           *)
(*                                                                         *)
(* A step is one kalloc or one kfree, each a section under kmem.lock, with *)
(* what the process does to its own page table around it.                  *)
(***************************************************************************)
EXTENDS Integers, FiniteSets, Sequences, TLC

CONSTANTS
  Slot,      \* entries of the process table
  InitSlot,  \* the process that is not reaped
  NPAGES,    \* pages that kinit frees
  PGSIZE,
  UINT,      \* growproc computes sizes in 32 bits
  Incs,      \* arguments of sbrk
  Images     \* programs: for each segment, the address where it ends

ASSUME MemoryAssumption ==
  /\ InitSlot \in Slot
  /\ {NPAGES, PGSIZE, UINT} \subseteq Nat \ {0}
  /\ Incs \subseteq Int
  /\ \A s \in Images : s \in Seq(Nat \ {0})

VARIABLES
  nfree,     \* length of kmem.freelist
  live,      \* the processes that are neither UNUSED nor being made
  trapframe, \* the entries with a trapframe page
  sz,        \* p->sz
  pt,        \* the page tables: p->pagetable, and the local variable of exec
  frame      \* where each process is, and its local variables

memVars == <<nfree, live, trapframe, sz, pt, frame>>

\* A page table: its page-table pages, the user pages mapped (by number), and
\* whether TRAMPOLINE and TRAPFRAME are mapped.
NoTable == [tbl |-> {}, leaf |-> {}, top |-> FALSE]

\* The locals: the table pt[k] that is worked on, the address a that uvmalloc or
\* uvmcopy has reached, where it began (low) and ends (to), whether it holds a
\* page in mem, the size and segments of the program that exec loads, and the
\* number of pages still to be passed to kfree.
NoLocals == [pc |-> "idle", op |-> "none", k |-> <<>>, a |-> 0, low |-> 0, to |-> 0,
             mem |-> FALSE, size |-> 0, segs |-> <<>>, todo |-> 0]

PGROUNDUP(x) == ((x + PGSIZE - 1) \div PGSIZE) * PGSIZE
Pages(lo, hi) == (lo \div PGSIZE) .. (hi \div PGSIZE - 1)

\* After userinit: the first process has one page.
MemInit ==
  /\ nfree = NPAGES - 7
  /\ live = {InitSlot}
  /\ trapframe = {InitSlot}
  /\ sz = [p \in Slot |-> IF p = InitSlot THEN PGSIZE ELSE 0]
  /\ pt = [k \in Slot \X {"cur", "new"} |->
             IF k = <<InitSlot, "cur">>
             THEN [tbl |-> {"root", "h1", "h0", "l1", "l0"}, leaf |-> {0}, top |-> TRUE]
             ELSE NoTable]
  /\ frame = [p \in Slot |-> NoLocals]

Where(p, pc) == frame[p].pc = pc
Goes(p, r) == frame' = [frame EXCEPT ![p] = r @@ @]
Table(p)  == pt[frame[p].k]

\* kalloc succeeds, kalloc returns 0.
Alloc   == nfree > 0 /\ nfree' = nfree - 1
NoAlloc == nfree = 0 /\ UNCHANGED nfree

\* p goes on to free n pages that were in table k or beside it, and has nothing
\* else to do, unless it panics.
KfreeAll(p, k, n, ok) == frame' = [frame EXCEPT ![p] =
  IF ok /\ n = 0 THEN NoLocals
  ELSE [NoLocals EXCEPT !.pc = IF ok THEN "kfree" ELSE "panic", !.k = k, !.todo = n]]

kfree(p) ==
  /\ Where(p, "kfree")
  /\ nfree' = nfree + 1
  /\ KfreeAll(p, frame[p].k, frame[p].todo - 1, TRUE)
  /\ UNCHANGED <<live, trapframe, sz, pt>>

\* The pages of table t, and whether proc_freepagetable(t, size) frees them all
\* without a panic: uvmunmap wants them mapped, and freewalk no leaf left.
Owned(t)          == Cardinality(t.tbl) + Cardinality(t.leaf)
Freeable(t, size) == t.top /\ t.leaf = Pages(0, PGROUNDUP(size))

----------------------------------------------------------------------------
\* fork: allocproc takes an entry q, and makes a trapframe and a page table.
Child(p) == frame[p].k[1]

fork_memory(p) ==
  /\ Where(p, "idle") /\ p \in live
  /\ \E q \in Slot \ live :
       /\ \A r \in Slot : frame[r].k # <<q, "cur">>
       /\ Goes(p, [pc |-> "trapframe", op |-> "fork", k |-> <<q, "cur">>])
  /\ UNCHANGED <<nfree, live, trapframe, sz, pt>>

alloc_trapframe(p) ==
  /\ Where(p, "trapframe")
  /\ \/ /\ Alloc
        /\ trapframe' = trapframe \cup {Child(p)}
        /\ Goes(p, [pc |-> "uvmcreate"])
     \/ /\ NoAlloc
        /\ Goes(p, NoLocals)
        /\ UNCHANGED trapframe
  /\ UNCHANGED <<live, sz, pt>>

\* The call of p fails: table k is emptied, freeproc of the child of fork frees
\* its trapframe too, and n pages in all go to kfree.
Abandon(p, n, ok) ==
  LET forked == frame[p].op = "fork" IN
  /\ pt' = [pt EXCEPT ![frame[p].k] = NoTable]
  /\ trapframe' = IF forked THEN trapframe \ {Child(p)} ELSE trapframe
  /\ KfreeAll(p, frame[p].k, n + (IF forked THEN 1 ELSE 0), ok)

\* proc_pagetable: the root, then the tables above TRAMPOLINE.
uvmcreate(p) ==
  /\ Where(p, "uvmcreate")
  /\ \/ /\ Alloc
        /\ pt' = [pt EXCEPT ![frame[p].k].tbl = {"root"}]
        /\ Goes(p, [pc |-> "proc_pagetable"])
        /\ UNCHANGED trapframe
     \/ /\ NoAlloc
        /\ Abandon(p, 0, TRUE)
  /\ UNCHANGED <<live, sz>>

\* walk, one level: the table that is missing on the way to t0, if any.
Missing(t, t1, t0) == IF t1 \notin t.tbl THEN {t1} ELSE {t0} \ t.tbl

\* Where the call goes on when the page table is there.
WithTable(p) == IF frame[p].op = "fork" THEN [pc |-> "grow", to |-> sz[p]] ELSE [pc |-> "exec"]

proc_pagetable(p) ==
  /\ Where(p, "proc_pagetable")
  /\ LET need == Missing(Table(p), "h1", "h0") IN
     \/ /\ need # {} /\ Alloc
        /\ pt' = [pt EXCEPT ![frame[p].k].tbl = @ \cup need]
        /\ UNCHANGED <<frame, trapframe>>
     \/ /\ need # {} /\ NoAlloc
        /\ Abandon(p, Owned(Table(p)), TRUE)
     \/ /\ need = {}
        /\ pt' = [pt EXCEPT ![frame[p].k].top = TRUE]
        /\ Goes(p, WithTable(p))
        /\ UNCHANGED <<nfree, trapframe>>
  /\ UNCHANGED <<live, sz>>

----------------------------------------------------------------------------
\* The loops of uvmalloc and uvmcopy: a page, then a mapping for it.

\* Out of memory at address a with n pages in hand.  uvmalloc unmaps what it
\* has mapped, and exec gives up the table; uvmcopy unmaps everything, and
\* freeproc frees the table of a child whose size is still 0.
OutOfMemory(p, n) ==
  LET t    == Table(p)
      done == Pages(frame[p].low, frame[p].a)
      rest == t.leaf \ done
  IN  IF frame[p].op = "sbrk"
      THEN /\ pt' = [pt EXCEPT ![frame[p].k].leaf = rest]
           /\ KfreeAll(p, frame[p].k, n + Cardinality(done), done \subseteq t.leaf)
           /\ UNCHANGED trapframe
      ELSE Abandon(p, n + Owned(t),
                   done \subseteq t.leaf /\ Freeable([t EXCEPT !.leaf = rest], frame[p].size))

\* The size that was asked for is reached.
Grown(p) ==
  CASE frame[p].op = "fork" ->
         /\ sz' = [sz EXCEPT ![Child(p)] = sz[p]]
         /\ live' = live \cup {Child(p)}
         /\ Goes(p, NoLocals)
    [] frame[p].op = "sbrk" ->
         /\ sz' = [sz EXCEPT ![p] = frame[p].to]
         /\ Goes(p, NoLocals)
         /\ UNCHANGED live
    [] frame[p].op = "exec" ->
         /\ Goes(p, [pc |-> "exec", size |-> frame[p].to])
         /\ UNCHANGED <<sz, live>>
    [] frame[p].op = "stack" ->
         /\ Goes(p, [pc |-> "args", size |-> frame[p].to])
         /\ UNCHANGED <<sz, live>>

grow(p) ==
  /\ Where(p, "grow")
  /\ \/ /\ frame[p].a < frame[p].to /\ Alloc
        /\ Goes(p, [pc |-> "mappages", mem |-> TRUE])
        /\ UNCHANGED <<live, trapframe, sz, pt>>
     \/ /\ frame[p].a < frame[p].to /\ NoAlloc
        /\ OutOfMemory(p, 0)
        /\ UNCHANGED <<live, sz>>
     \/ /\ frame[p].a >= frame[p].to
        /\ Grown(p)
        /\ UNCHANGED <<nfree, trapframe, pt>>

mappages(p) ==
  /\ Where(p, "mappages")
  /\ LET need  == Missing(Table(p), "l1", "l0")
         page  == frame[p].a \div PGSIZE
         remap == page \in Table(p).leaf
     IN
     \/ /\ need # {} /\ Alloc
        /\ pt' = [pt EXCEPT ![frame[p].k].tbl = @ \cup need]
        /\ UNCHANGED <<frame, trapframe>>
     \/ /\ need # {} /\ NoAlloc
        /\ OutOfMemory(p, 1)
     \/ /\ need = {}
        /\ pt' = [pt EXCEPT ![frame[p].k].leaf = @ \cup {page}]
        /\ Goes(p, [pc |-> IF remap THEN "panic" ELSE "grow",
                  a |-> frame[p].a + PGSIZE, mem |-> remap])
        /\ UNCHANGED <<nfree, trapframe>>
  /\ UNCHANGED <<live, sz>>

\* uvmalloc from oldsz to newsz starts, for operation op on table k.
uvmalloc(op, k, oldsz, newsz) ==
  [pc |-> "grow", op |-> op, k |-> k, low |-> PGROUNDUP(oldsz), a |-> PGROUNDUP(oldsz),
   to |-> newsz]

----------------------------------------------------------------------------
\* growproc.  The new size is a uint: it wraps.
NewSize(p, n) == (sz[p] + n) % UINT

sbrk_grow(p) ==
  /\ Where(p, "idle") /\ p \in live
  /\ \E n \in Incs :
       /\ n > 0 /\ NewSize(p, n) >= sz[p]
       /\ Goes(p, uvmalloc("sbrk", <<p, "cur">>, sz[p], NewSize(p, n)))
  /\ UNCHANGED <<nfree, live, trapframe, sz, pt>>

\* Mutant: a page that is still in use is unmapped.
sbrk_shrink_unrounded(p) ==
  /\ Where(p, "idle") /\ p \in live
  /\ \E n \in Incs :
       LET gone == Pages(NewSize(p, n), PGROUNDUP(sz[p])) IN
       /\ n < 0 /\ NewSize(p, n) < sz[p]
       /\ sz' = [sz EXCEPT ![p] = NewSize(p, n)]
       /\ pt' = [pt EXCEPT ![<<p, "cur">>].leaf = @ \ gone]
       /\ KfreeAll(p, <<p, "cur">>, Cardinality(gone), gone \subseteq pt[<<p, "cur">>].leaf)
  /\ UNCHANGED <<nfree, live, trapframe>>

\* uvmdealloc; nothing happens if the new size is not smaller.
sbrk_shrink(p) ==
  /\ Where(p, "idle") /\ p \in live
  /\ \E n \in Incs :
       LET gone == Pages(PGROUNDUP(NewSize(p, n)), PGROUNDUP(sz[p])) IN
       /\ n < 0 /\ NewSize(p, n) < sz[p]
       /\ sz' = [sz EXCEPT ![p] = NewSize(p, n)]
       /\ pt' = [pt EXCEPT ![<<p, "cur">>].leaf = @ \ gone]
       /\ KfreeAll(p, <<p, "cur">>, Cardinality(gone), gone \subseteq pt[<<p, "cur">>].leaf)
  /\ UNCHANGED <<nfree, live, trapframe>>

----------------------------------------------------------------------------
\* exec.  The file and the argument strings are left out: what they can make
\* fail may fail.
exec(p) ==
  /\ Where(p, "idle") /\ p \in live
  /\ \E s \in Images :
       Goes(p, [pc |-> "uvmcreate", op |-> "exec", k |-> <<p, "new">>, segs |-> s])
  /\ UNCHANGED <<nfree, live, trapframe, sz, pt>>

\* The next segment, which may lie below the last one, or the stack.
exec_load(p) ==
  /\ Where(p, "exec")
  /\ LET size == frame[p].size
         segs == frame[p].segs
         base == PGROUNDUP(size)
     IN  \/ /\ segs # <<>> /\ Head(segs) >= size
            /\ Goes(p, [segs |-> Tail(segs)] @@ uvmalloc("exec", frame[p].k, size, Head(segs)))
         \/ /\ segs # <<>> /\ Head(segs) < size
            /\ Goes(p, [pc |-> "exec", segs |-> Tail(segs)])
         \/ /\ segs = <<>>
            /\ Goes(p, [size |-> base] @@ uvmalloc("stack", frame[p].k, base, base + 2 * PGSIZE))
  /\ UNCHANGED <<nfree, live, trapframe, sz, pt>>

\* bad: the file is not a program, a segment cannot be read, or the arguments
\* do not fit on the stack.
exec_bad(p) ==
  /\ frame[p].pc \in {"exec", "args"}
  /\ Abandon(p, Owned(Table(p)), Freeable(Table(p), frame[p].size))
  /\ UNCHANGED <<nfree, live, sz>>

\* Mutant: the old image is not freed.
exec_commit_leak(p) ==
  /\ Where(p, "args")
  /\ pt' = [pt EXCEPT ![<<p, "cur">>] = Table(p), ![<<p, "new">>] = NoTable]
  /\ sz' = [sz EXCEPT ![p] = frame[p].size]
  /\ Goes(p, NoLocals)
  /\ UNCHANGED <<nfree, live, trapframe>>

\* "Commit to the user image": the old one is freed.
exec_commit(p) ==
  /\ Where(p, "args")
  /\ LET old == pt[<<p, "cur">>] IN
       /\ pt' = [pt EXCEPT ![<<p, "cur">>] = Table(p), ![<<p, "new">>] = NoTable]
       /\ KfreeAll(p, frame[p].k, Owned(old), Freeable(old, sz[p]))
  /\ sz' = [sz EXCEPT ![p] = frame[p].size]
  /\ UNCHANGED <<nfree, live, trapframe>>

----------------------------------------------------------------------------
\* q has exited, and p finds it in wait: freeproc(q).
wait(p, q) ==
  /\ Where(p, "idle") /\ p \in live
  /\ Where(q, "idle") /\ q \in live \ {p, InitSlot}
  /\ live' = live \ {q}
  /\ trapframe' = trapframe \ {q}
  /\ sz' = [sz EXCEPT ![q] = 0]
  /\ pt' = [pt EXCEPT ![<<q, "cur">>] = NoTable]
  /\ KfreeAll(p, <<q, "cur">>, 1 + Owned(pt[<<q, "cur">>]), Freeable(pt[<<q, "cur">>], sz[q]))
  /\ UNCHANGED nfree

MemNext == \E p \in Slot :
  \/ fork_memory(p) \/ alloc_trapframe(p) \/ uvmcreate(p) \/ proc_pagetable(p)
  \/ grow(p) \/ mappages(p) \/ kfree(p)
  \/ sbrk_grow(p) \/ sbrk_shrink(p)
  \/ exec(p) \/ exec_load(p) \/ exec_bad(p) \/ exec_commit(p)
  \/ \E q \in Slot : wait(p, q)

MemSpec == MemInit /\ [][MemNext]_memVars

----------------------------------------------------------------------------
Sum(f) == LET S[D \in SUBSET DOMAIN f] ==
                IF D = {} THEN 0 ELSE LET x == CHOOSE x \in D : TRUE IN f[x] + S[D \ {x}]
          IN  S[DOMAIN f]

\* No page is lost or freed twice, wherever an allocation fails in fork, exec or
\* sbrk ("frees any allocated pages on failure", vm.c:299): the pages in use and
\* the free list are all the pages there are.
PagesConserved ==
  nfree + Cardinality(trapframe)
    + Sum([k \in DOMAIN pt |-> Owned(pt[k])])
    + Sum([p \in Slot |-> frame[p].todo + (IF frame[p].mem THEN 1 ELSE 0)]) = NPAGES

\* No panic of vm.c: a page is not mapped twice ("remap"), not unmapped when it
\* is not mapped, and a page table is not freed with a page in it ("freewalk:
\* leaf"); and uvmcopy finds each page below p->sz ("page not present").
NoVmPanic ==
  \A p \in Slot :
    /\ ~Where(p, "panic")
    /\ Where(p, "grow") /\ frame[p].op = "fork" /\ frame[p].a < frame[p].to
         => frame[p].a \div PGSIZE \in pt[<<p, "cur">>].leaf

\* The pages mapped in a process that is not in sbrk are those below p->sz: a call
\* that fails leaves the image as it was, and no size leaves a hole or a page that
\* freeproc would miss (growproc, uvmalloc, uvmdealloc, exec), so that vm.c does not
\* panic when the image is copied or freed.
ImageMapped ==
  /\ NoVmPanic
  /\ \A p \in live : frame[p].op # "sbrk" => Freeable(pt[<<p, "cur">>], sz[p])
=============================================================================
