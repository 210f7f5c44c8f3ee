------------------------------- MODULE FileSys -------------------------------
(***************************************************************************)
(* Inodes, directories, open files and the calls on them: kernel/fs.c,     *)
(* kernel/file.c and kernel/sysfile.c, with what fork and exit do to files *)
(* (kernel/proc.c).                                                        *)
(*                                                                         *)
(* A path is the sequence of the elements that skipelem cuts it into, "/"  *)
(* first when it is absolute.  The table entry of an inode is named by the *)
(* inode number that iget looks for.  File data and the blocks it takes    *)
(* are left out, and so are begin_op and end_op (module Log).              *)
(*                                                                         *)
(* A step ends where the code releases a lock that another process can     *)
(* wait for, or next takes one.  Code that runs under the sleep-lock of an *)
(* inode and takes it and gives it back is one step, with at most one use  *)
(* of itable.lock in it: the rest of what it reads and writes is guarded   *)
(* by the sleep-lock.                                                      *)
(***************************************************************************)
EXTENDS Integers, FiniteSets, Sequences, FiniteSetsExt, TLC

CONSTANTS Proc,     \* processes
          Initproc, \* the process that does not exit
          Name,     \* names of directory entries other than "." and ".."
          Inum,     \* inodes on the disk
          Root,     \* ROOTINO
          None,     \* no inode, no file, no process
          NINODE,   \* entries of the inode table
          NFILE,    \* open files in the system
          NOFILE,   \* descriptors of a process
          Calls     \* the system calls with the arguments that are tried

ASSUME FileSysAssumption ==
  /\ Initproc \in Proc
  /\ {"/", ".", ".."} \cap Name = {}
  /\ Root \in Inum /\ None \notin Inum \cup Proc \cup Nat
  /\ {NINODE, NFILE, NOFILE} \subseteq Nat \ {0}

T_NONE  == 0
T_DIR   == 1
T_FILE  == 2
T_DEVICE == 3
Elem    == Name \cup {".", ".."}
Empty   == [n \in Elem |-> None]

VARIABLES
  disk,    \* type and nlink of each struct dinode
  ent,     \* the entries of each directory
  itable,  \* the in-memory copy, ref, valid and sleep-lock of each inode
  ftable,  \* the open files: ref and inode
  ofile,   \* the descriptors of each process
  cwd,     \* the current directory of each process; None: no such process
  loc      \* where each process is in its call, and its local variables

vars == <<disk, ent, itable, ftable, ofile, cwd, loc>>

\* The locals of a call.  cur is the ip of namex; aux an inode that is only
\* put; inum the inode that ialloc found; put names the local that iput puts.
Idle == [pc |-> "idle", call |-> [op |-> "none"], path |-> <<>>, parent |-> FALSE,
         cur |-> None, ip |-> None, dp |-> None, aux |-> None, inum |-> None,
         put |-> "aux", cont |-> "idle"]

Init ==
  /\ disk = [i \in Inum |-> IF i = Root THEN [type |-> T_DIR, nlink |-> 1]
                                        ELSE [type |-> T_NONE, nlink |-> 0]]
  /\ ent = [i \in Inum |-> IF i = Root THEN [Empty EXCEPT !["."] = Root, ![".."] = Root]
                                       ELSE Empty]
  /\ itable = [i \in Inum |-> [ref |-> IF i = Root THEN 1 ELSE 0, valid |-> FALSE,
                               type |-> T_NONE, nlink |-> 0, lock |-> None]]
  /\ ftable = [f \in 1 .. NFILE |-> [ref |-> 0, ip |-> None]]
  /\ ofile = [p \in Proc |-> [fd \in 1 .. NOFILE |-> None]]
  /\ cwd = [p \in Proc |-> IF p = Initproc THEN Root ELSE None]
  /\ loc = [p \in Proc |-> Idle]

----------------------------------------------------------------------------
At(p, pc) == loc[p].pc = pc

\* p goes on with the locals in r changed.  A call that is over forgets them.
Go(p, r) == loc' = [loc EXCEPT ![p] = IF r.pc = "idle" THEN Idle ELSE r @@ @]

\* iput of the inode in local v, then on at cont.
Put(v, cont) == [pc |-> "iput", put |-> v, cont |-> cont]

\* iput of inode i, the last thing the call does.
PutLast(i) == [Idle EXCEPT !.pc = "iput", !.aux = i]

\* iget of inode i in table t, and on with r.  A full table is a panic, which
\* stops the process for good.
TableFull(t, i) == t[i].ref = 0 /\ Cardinality({j \in Inum : t[j].ref > 0}) = NINODE
iget(p, t, i, r) ==
  /\ ~TableFull(t, i)
  /\ itable' = [t EXCEPT ![i].ref = @ + 1, ![i].valid = @ /\ t[i].ref > 0]
  /\ Go(p, r)

\* ilock of inode i: the entry of the table, read from the disk if need be.
\* A process that finds the inode free panics.
NoType(i)   == ~itable[i].valid /\ disk[i].type = T_NONE
Lockable(i) == itable[i].lock = None /\ itable[i].ref > 0 /\ ~NoType(i)
ilock(i)    == IF itable[i].valid THEN itable[i]
               ELSE disk[i] @@ [itable[i] EXCEPT !.valid = TRUE]

\* The table after ilock(i), and after ilock(i) by p that goes on.
Locked(i)    == [itable EXCEPT ![i] = ilock(i)]
LockedBy(p, i) == [itable EXCEPT ![i] = [ilock(i) EXCEPT !.lock = p]]

\* nlink of inode n, an entry of the table, changed by d; what iupdate writes.
Linked(n, d) == [n EXCEPT !.nlink = @ + d]
Dinode(n)    == [type |-> n.type, nlink |-> n.nlink]

----------------------------------------------------------------------------
\* iput (fs.c:332-358).
LastUnlinked(i) == itable[i].ref = 1 /\ itable[i].valid /\ itable[i].nlink = 0
Putting(p) == loc[p][loc[p].put]

\* The end of iput: the reference is gone, and so is the local.
Drop(p) ==
  /\ itable' = [itable EXCEPT ![Putting(p)].ref = @ - 1]
  /\ Go(p, [pc |-> loc[p].cont] @@ (loc[p].put :> None))

iput(p) ==
  /\ At(p, "iput") /\ ~LastUnlinked(Putting(p))
  /\ Drop(p)
  /\ UNCHANGED <<disk, ent, ftable, ofile, cwd>>

\* The inode has no links and no other user: it is locked while itable.lock is
\* held, so a process that had to wait here would panic.
iput_lock(p) ==
  /\ At(p, "iput") /\ LastUnlinked(Putting(p))
  /\ itable[Putting(p)].lock = None
  /\ itable' = [itable EXCEPT ![Putting(p)].lock = p]
  /\ Go(p, [pc |-> "iput_free"])
  /\ UNCHANGED <<disk, ent, ftable, ofile, cwd>>

\* itrunc, type = 0, iupdate: from here on ialloc may take the inode.
iput_free(p) ==
  /\ At(p, "iput_free")
  /\ LET i == Putting(p) IN
       /\ ent' = [ent EXCEPT ![i] = Empty]
       /\ itable' = [itable EXCEPT ![i].type = T_NONE]
       /\ disk' = [disk EXCEPT ![i] = Dinode(itable'[i])]
  /\ Go(p, [pc |-> "iput_invalid"])
  /\ UNCHANGED <<ftable, ofile, cwd>>

\* Mutant: the entry stays valid.
iput_invalid_missing(p) ==
  /\ At(p, "iput_invalid")
  /\ itable' = [itable EXCEPT ![Putting(p)].lock = None]
  /\ Go(p, [pc |-> "iput_ref"])
  /\ UNCHANGED <<disk, ent, ftable, ofile, cwd>>

iput_invalid(p) ==
  /\ At(p, "iput_invalid")
  /\ itable' = [itable EXCEPT ![Putting(p)].valid = FALSE, ![Putting(p)].lock = None]
  /\ Go(p, [pc |-> "iput_ref"])
  /\ UNCHANGED <<disk, ent, ftable, ofile, cwd>>

iput_ref(p) ==
  /\ At(p, "iput_ref")
  /\ Drop(p)
  /\ UNCHANGED <<disk, ent, ftable, ofile, cwd>>

----------------------------------------------------------------------------
\* namex (fs.c:628-661), one element of the path at a time.
Creates(p) == loc[p].call.op \in {"creat", "mkdir", "mknod"}

namex_start(p, path, parent, r) ==
  LET i == IF Head(path) = "/" THEN Root ELSE cwd[p]
      rest == IF Head(path) = "/" THEN Tail(path) ELSE path
  IN  iget(p, itable, i, r @@ [pc |-> "namex", cur |-> i, path |-> rest, parent |-> parent])

\* Where the call goes on with the inode that was found.
Found(p) == CASE loc[p].call.op = "open"   -> "open"
              [] loc[p].call.op = "chdir"  -> "chdir"
              [] loc[p].call.op = "unlink" -> "unlink_dp"
              [] loc[p].call.op = "link"   -> IF loc[p].parent THEN "link_dp" ELSE "link_ip"
              [] Creates(p)                -> "create_dp"

\* Mutant: the last directory that was reached is not put.
NotFound_leak(p) == IF loc[p].call.op = "link" /\ loc[p].parent THEN Put("cur", "link_bad")
                    ELSE [pc |-> "idle"]

\* There is no such inode: only sys_link has something to take back.
NotFound(p) == IF loc[p].call.op = "link" /\ loc[p].parent THEN Put("cur", "link_bad")
               ELSE PutLast(loc[p].cur)

\* Mutant: the type is not tested.
IsDir_always(i) == TRUE

IsDir(i) == ilock(i).type = T_DIR

namex(p) ==
  /\ At(p, "namex") /\ loc[p].path # <<>> /\ Lockable(loc[p].cur)
  /\ LET i    == loc[p].cur
         dir  == IsDir(i)
         last == loc[p].parent /\ Len(loc[p].path) = 1
         next == ent[i][Head(loc[p].path)]
     IN  \/ /\ ~dir \/ (~last /\ next = None)
            /\ itable' = Locked(i)
            /\ Go(p, NotFound(p))
         \/ /\ dir /\ last
            /\ itable' = Locked(i)
            /\ Go(p, [pc |-> Found(p), dp |-> i, cur |-> None])
         \/ /\ dir /\ ~last /\ next # None
            /\ iget(p, Locked(i), next,
                    Put("aux", "namex") @@ [aux |-> i, cur |-> next, path |-> Tail(loc[p].path)])
  /\ UNCHANGED <<disk, ent, ftable, ofile, cwd>>

namex_end(p) ==
  /\ At(p, "namex") /\ loc[p].path = <<>>
  /\ Go(p, IF loc[p].parent THEN NotFound(p)
           ELSE [pc |-> Found(p), ip |-> loc[p].cur, cur |-> None])
  /\ UNCHANGED <<disk, ent, itable, ftable, ofile, cwd>>

\* A call with a path starts.
start(p) ==
  /\ At(p, "idle") /\ cwd[p] # None
  /\ \E c \in Calls :
       /\ "path" \in DOMAIN c
       /\ namex_start(p, c.path, c.op \in {"creat", "mkdir", "mknod", "unlink"}, [call |-> c])
  /\ UNCHANGED <<disk, ent, ftable, ofile, cwd>>

----------------------------------------------------------------------------
\* create (sysfile.c:241-284), for sys_open with O_CREATE, sys_mkdir, sys_mknod.
LastName(p) == Head(loc[p].path)
NewType(p)  == CASE loc[p].call.op = "creat" -> T_FILE
                 [] loc[p].call.op = "mkdir" -> T_DIR
                 [] loc[p].call.op = "mknod" -> T_DEVICE

create_dp(p) ==
  /\ At(p, "create_dp") /\ Lockable(loc[p].dp)
  /\ LET dp == loc[p].dp
         ip == ent[dp][LastName(p)]
     IN  \/ /\ ip # None
            /\ iget(p, Locked(dp), ip, Put("dp", "create_old") @@ [ip |-> ip])
         \/ /\ ip = None
            /\ itable' = LockedBy(p, dp)
            /\ Go(p, [pc |-> "ialloc"])
  /\ UNCHANGED <<disk, ent, ftable, ofile, cwd>>

\* ialloc reads the inodes one by one: any that is free when it is read can be
\* the one.  If there is none, ialloc panics.
ialloc(p) ==
  /\ At(p, "ialloc")
  /\ \E i \in Inum :
       /\ disk[i].type = T_NONE
       /\ disk' = [disk EXCEPT ![i] = [type |-> NewType(p), nlink |-> 0]]
       /\ Go(p, [pc |-> "ialloc_iget", inum |-> i])
  /\ UNCHANGED <<ent, itable, ftable, ofile, cwd>>

ialloc_iget(p) ==
  /\ At(p, "ialloc_iget")
  /\ iget(p, itable, loc[p].inum, [pc |-> "create_new", ip |-> loc[p].inum, inum |-> None])
  /\ UNCHANGED <<disk, ent, ftable, ofile, cwd>>

\* The new inode, and the entries for it, under both locks.
create_new(p) ==
  /\ At(p, "create_new") /\ Lockable(loc[p].ip)
  /\ LET ip == loc[p].ip
         dp == loc[p].dp
         sub == IF NewType(p) = T_DIR THEN 1 ELSE 0
         new == [ilock(ip) EXCEPT !.nlink = 1, !.lock = p]
         dir == [Linked(itable[dp], sub) EXCEPT !.lock = None]
         dots == IF sub = 1 THEN [Empty EXCEPT !["."] = ip, ![".."] = dp] ELSE Empty
     IN  /\ itable' = [itable EXCEPT ![ip] = new, ![dp] = dir]
         /\ disk' = [disk EXCEPT ![ip] = Dinode(new), ![dp] = Dinode(dir)]
         /\ ent' = [ent EXCEPT ![ip] = dots, ![dp][LastName(p)] = ip]
  /\ Go(p, Put("dp", "created"))
  /\ UNCHANGED <<ftable, ofile, cwd>>

\* The rest of sys_open, with ip locked in table t: a file, a descriptor, iunlock.
FreeFiles  == {f \in 1 .. NFILE : ftable[f].ref = 0}
FreeFds(p) == {fd \in 1 .. NOFILE : ofile[p][fd] = None}
open_file(p, t) ==
  /\ itable' = [t EXCEPT ![loc[p].ip].lock = None]
  /\ \/ /\ FreeFiles = {} \/ FreeFds(p) = {}
        /\ Go(p, PutLast(loc[p].ip))
        /\ UNCHANGED <<ftable, ofile>>
     \/ /\ FreeFiles # {} /\ FreeFds(p) # {}
        /\ ftable' = [ftable EXCEPT ![Min(FreeFiles)] = [ref |-> 1, ip |-> loc[p].ip]]
        /\ ofile' = [ofile EXCEPT ![p][Min(FreeFds(p))] = Min(FreeFiles)]
        /\ Go(p, [pc |-> "idle"])

\* iunlockput of ip in table t, and the call is over.
GiveUp(p, t) ==
  /\ itable' = [t EXCEPT ![loc[p].ip].lock = None]
  /\ Go(p, PutLast(loc[p].ip))
  /\ UNCHANGED <<ftable, ofile>>

\* The name exists.
create_old(p) ==
  /\ At(p, "create_old") /\ Lockable(loc[p].ip)
  /\ LET ip == loc[p].ip IN
       IF NewType(p) = T_FILE /\ ilock(ip).type \in {T_FILE, T_DEVICE}
       THEN open_file(p, Locked(ip))
       ELSE GiveUp(p, Locked(ip))
  /\ UNCHANGED <<disk, ent, cwd>>

created(p) ==
  /\ At(p, "created")
  /\ IF NewType(p) = T_FILE THEN open_file(p, itable) ELSE GiveUp(p, itable)
  /\ UNCHANGED <<disk, ent, cwd>>

\* sys_open without O_CREATE (sysfile.c:286-352).
open(p) ==
  /\ At(p, "open") /\ Lockable(loc[p].ip)
  /\ LET ip == loc[p].ip IN
       IF ilock(ip).type = T_DIR /\ loc[p].call.omode # "O_RDONLY"
       THEN GiveUp(p, Locked(ip))
       ELSE open_file(p, Locked(ip))
  /\ UNCHANGED <<disk, ent, cwd>>

\* sys_chdir (sysfile.c:391-413).  No other process reads p->cwd, so it can
\* change before the old one is put.
chdir(p) ==
  /\ At(p, "chdir") /\ Lockable(loc[p].ip)
  /\ itable' = Locked(loc[p].ip)
  /\ IF ilock(loc[p].ip).type = T_DIR
     THEN /\ cwd' = [cwd EXCEPT ![p] = loc[p].ip]
          /\ Go(p, PutLast(cwd[p]))
     ELSE /\ Go(p, PutLast(loc[p].ip))
          /\ UNCHANGED cwd
  /\ UNCHANGED <<disk, ent, ftable, ofile>>

----------------------------------------------------------------------------
\* sys_link (sysfile.c:119-166).
\* Mutant: the new link is not counted.
AddLink_missing(n) == n

AddLink(n) == Linked(n, 1)

link_ip(p) ==
  /\ At(p, "link_ip") /\ Lockable(loc[p].ip)
  /\ LET ip == loc[p].ip
         new == AddLink(ilock(ip))
     IN  IF new.type = T_DIR
         THEN /\ itable' = Locked(ip)
              /\ Go(p, PutLast(loc[p].ip))
              /\ UNCHANGED disk
         ELSE /\ itable' = [itable EXCEPT ![ip] = new]
              /\ disk' = [disk EXCEPT ![ip] = Dinode(new)]
              /\ Go(p, [pc |-> "link_new"])
  /\ UNCHANGED <<ent, ftable, ofile, cwd>>

link_new(p) ==
  /\ At(p, "link_new")
  /\ namex_start(p, loc[p].call.new, TRUE, <<>>)
  /\ UNCHANGED <<disk, ent, ftable, ofile, cwd>>

\* dirlink: a name that is there is looked up and put with dp locked.
link_dp(p) ==
  /\ At(p, "link_dp") /\ Lockable(loc[p].dp)
  /\ LET dp == loc[p].dp
         old == ent[dp][LastName(p)]
     IN  \/ /\ old # None
            /\ iget(p, LockedBy(p, dp), old, Put("aux", "link_exists") @@ [aux |-> old])
            /\ UNCHANGED ent
         \/ /\ old = None
            /\ itable' = Locked(dp)
            /\ ent' = [ent EXCEPT ![dp][LastName(p)] = loc[p].ip]
            /\ Go(p, Put("dp", "link_done"))
  /\ UNCHANGED <<disk, ftable, ofile, cwd>>

link_exists(p) ==
  /\ At(p, "link_exists")
  /\ itable' = [itable EXCEPT ![loc[p].dp].lock = None]
  /\ Go(p, Put("dp", "link_bad"))
  /\ UNCHANGED <<disk, ent, ftable, ofile, cwd>>

link_done(p) ==
  /\ At(p, "link_done")
  /\ Go(p, PutLast(loc[p].ip))
  /\ UNCHANGED <<disk, ent, itable, ftable, ofile, cwd>>

RemoveLink(n) == Linked(n, -1)

\* One link fewer for ip, whose entry in the table is n.
Unlink(p, n) ==
  /\ itable' = [itable EXCEPT ![loc[p].ip] = [RemoveLink(n) EXCEPT !.lock = None]]
  /\ disk' = [disk EXCEPT ![loc[p].ip] = Dinode(RemoveLink(n))]
  /\ Go(p, PutLast(loc[p].ip))
  /\ UNCHANGED <<ent, ftable, ofile, cwd>>

link_bad(p) ==
  /\ At(p, "link_bad") /\ Lockable(loc[p].ip)
  /\ Unlink(p, ilock(loc[p].ip))

----------------------------------------------------------------------------
\* sys_unlink (sysfile.c:184-239).
\* Mutant: "." and ".." can be unlinked.
Dots_unlinked(n) == FALSE

Dots(n) == n \in {".", ".."}

unlink_dp(p) ==
  /\ At(p, "unlink_dp") /\ Lockable(loc[p].dp)
  /\ LET dp == loc[p].dp
         ip == ent[dp][LastName(p)]
     IN  \/ /\ Dots(LastName(p)) \/ ip = None
            /\ itable' = Locked(dp)
            /\ Go(p, PutLast(loc[p].dp))
         \/ /\ ~Dots(LastName(p)) /\ ip # None
            /\ iget(p, LockedBy(p, dp), ip, [pc |-> "unlink_ip", ip |-> ip])
  /\ UNCHANGED <<disk, ent, ftable, ofile, cwd>>

isdirempty(i) == \A n \in Name : ent[i][n] = None

unlink_ip(p) ==
  /\ At(p, "unlink_ip") /\ Lockable(loc[p].ip) /\ ilock(loc[p].ip).nlink > 0
  /\ LET ip == loc[p].ip
         dp == loc[p].dp
         sub == IF ilock(ip).type = T_DIR THEN 1 ELSE 0
         dir == [Linked(itable[dp], -sub) EXCEPT !.lock = None]
     IN  \/ /\ sub = 1 /\ ~isdirempty(ip)
            /\ itable' = Locked(ip)
            /\ Go(p, Put("ip", "unlink_bad"))
            /\ UNCHANGED <<disk, ent>>
         \/ /\ sub = 0 \/ isdirempty(ip)
            /\ ent' = [ent EXCEPT ![dp][LastName(p)] = None]
            /\ itable' = [LockedBy(p, ip) EXCEPT ![dp] = dir]
            /\ disk' = [disk EXCEPT ![dp] = Dinode(dir)]
            /\ Go(p, Put("dp", "unlink_dec"))
  /\ UNCHANGED <<ftable, ofile, cwd>>

unlink_bad(p) ==
  /\ At(p, "unlink_bad")
  /\ itable' = [itable EXCEPT ![loc[p].dp].lock = None]
  /\ Go(p, PutLast(loc[p].dp))
  /\ UNCHANGED <<disk, ent, ftable, ofile, cwd>>

unlink_dec(p) ==
  /\ At(p, "unlink_dec")
  /\ Unlink(p, itable[loc[p].ip])

----------------------------------------------------------------------------
\* Open files: sys_close, fork and exit.
Starts(p, op) == At(p, "idle") /\ cwd[p] # None /\ \E c \in Calls : c.op = op

\* fileclose of descriptor fd, and on at cont: the last reference frees the
\* file first and puts its inode after that.
fileclose(p, fd, cont) ==
  LET f == ofile[p][fd] IN
    /\ ofile' = [ofile EXCEPT ![p][fd] = None]
    /\ \/ /\ ftable[f].ref > 1
          /\ ftable' = [ftable EXCEPT ![f].ref = @ - 1]
          /\ Go(p, [pc |-> cont])
       \/ /\ ftable[f].ref = 1
          /\ ftable' = [ftable EXCEPT ![f] = [ref |-> 0, ip |-> None]]
          /\ Go(p, Put("aux", cont) @@ [aux |-> ftable[f].ip])

close(p) ==
  /\ Starts(p, "close")
  /\ \E fd \in (1 .. NOFILE) \ FreeFds(p) : fileclose(p, fd, "idle")
  /\ UNCHANGED <<disk, ent, itable, cwd>>

\* fork (proc.c:302-306): the child q shares the open files and the directory.
fork(p, q) ==
  /\ Starts(p, "fork") /\ At(q, "idle") /\ cwd[q] = None
  /\ ofile' = [ofile EXCEPT ![q] = ofile[p]]
  /\ ftable' = [f \in DOMAIN ftable |->
                  [ftable[f] EXCEPT !.ref = @ + Cardinality({fd \in 1 .. NOFILE : ofile[p][fd] = f})]]
  /\ itable' = [itable EXCEPT ![cwd[p]].ref = @ + 1]
  /\ cwd' = [cwd EXCEPT ![q] = cwd[p]]
  /\ UNCHANGED <<disk, ent, loc>>

\* exit (proc.c:353-365).
exit(p) ==
  /\ Starts(p, "exit") /\ p # Initproc
  /\ Go(p, [pc |-> "exit"])
  /\ UNCHANGED <<disk, ent, itable, ftable, ofile, cwd>>

exit_close(p) ==
  /\ At(p, "exit")
  /\ LET fds == (1 .. NOFILE) \ FreeFds(p) IN
       \/ /\ fds # {}
          /\ fileclose(p, Min(fds), "exit")
          /\ UNCHANGED cwd
       \/ /\ fds = {}
          /\ cwd' = [cwd EXCEPT ![p] = None]
          /\ Go(p, PutLast(cwd[p]))
          /\ UNCHANGED <<ofile, ftable>>
  /\ UNCHANGED <<disk, ent, itable>>

----------------------------------------------------------------------------
\* What a process does inside a call.
Step(p) ==
  \/ iput(p) \/ iput_lock(p) \/ iput_free(p) \/ iput_invalid(p) \/ iput_ref(p)
  \/ namex(p) \/ namex_end(p)
  \/ create_dp(p) \/ ialloc(p) \/ ialloc_iget(p) \/ create_new(p)
  \/ create_old(p) \/ created(p) \/ open(p) \/ chdir(p)
  \/ link_ip(p) \/ link_new(p) \/ link_dp(p) \/ link_exists(p) \/ link_done(p) \/ link_bad(p)
  \/ unlink_dp(p) \/ unlink_ip(p) \/ unlink_bad(p) \/ unlink_dec(p)
  \/ exit_close(p)

Next == \E p \in Proc :
  \/ Step(p)
  \/ start(p) \/ close(p) \/ exit(p) \/ \E q \in Proc : fork(p, q)

Spec == Init /\ [][Next]_vars

----------------------------------------------------------------------------
\* References to inode i from open files, current directories and locals.
Refs(i) ==
  Cardinality({f \in 1 .. NFILE : ftable[f].ref > 0 /\ ftable[f].ip = i})
    + Cardinality({p \in Proc : cwd[p] = i})
    + Cardinality({<<p, v>> \in Proc \X {"cur", "ip", "dp", "aux"} : loc[p][v] = i})

\* "ip->ref tracks the number of in-memory pointers to the entry" (fs.c:131) and
\* the ref of an open file the descriptors for it: no path through the calls,
\* the failing ones included, leaks a reference or drops one twice.
RefExact ==
  /\ \A i \in Inum : itable[i].ref = Refs(i)
  /\ \A f \in 1 .. NFILE :
       ftable[f].ref = Cardinality({<<p, fd>> \in Proc \X (1 .. NOFILE) : ofile[p][fd] = f})

\* An inode stays allocated while a file is open on it or it is a current directory,
\* whoever unlinks it (iput, fs.c:337), so nobody reads an inode that now belongs to
\* another file; and a valid entry of the table that nobody has locked is what the
\* disk says, also when ialloc takes an inode that iput has freed and not yet let go
\* of (fs.c:345-351).
CacheCoherent ==
  /\ \A f \in 1 .. NFILE : ftable[f].ref > 0 => disk[ftable[f].ip].type # T_NONE
  /\ \A p \in Proc : cwd[p] # None => disk[cwd[p]].type = T_DIR
  /\ \A i \in Inum :
       itable[i].ref > 0 /\ itable[i].valid /\ itable[i].lock = None
         => Dinode(itable[i]) = disk[i]

\* The link count of an inode is never below the entries that name it (for a
\* directory, with its subdirectories), whatever link, unlink and create are in
\* the middle of: a named inode is not freed.
Names(i) == {<<d, n>> \in Inum \X Name : ent[d][n] = i}
Subdirs(i) == {n \in Name : ent[i][n] # None /\ disk[ent[i][n]].type = T_DIR}
NlinkCovers ==
  \A i \in Inum \ {Root} : disk[i].nlink >= Cardinality(Names(i)) + Cardinality(Subdirs(i))

\* The inode that p is about to lock.
LockTarget(p) ==
  CASE At(p, "namex") /\ loc[p].path # <<>> -> loc[p].cur
    [] loc[p].pc \in {"create_dp", "link_dp", "unlink_dp"} -> loc[p].dp
    [] loc[p].pc \in {"create_new", "create_old", "open", "chdir", "link_ip", "link_bad",
                      "unlink_ip"} -> loc[p].ip
    [] OTHER -> None

\* No process meets a panic other than for want of inodes: ilock of an inode
\* without references or without a type (fs.c:295, 311), dirlookup in a
\* directory that was let go of after its type was tested (fs.c:536), unlink of
\* an inode without links (sysfile.c:212), iput that has to wait for the lock
\* with itable.lock held (fs.c:342).
NoPanic ==
  \A p \in Proc :
    LET i == LockTarget(p) IN
    /\ i # None => itable[i].ref > 0
    /\ i # None /\ itable[i].lock = None =>
         /\ ~NoType(i)
         /\ loc[p].pc \in {"create_dp", "link_dp", "unlink_dp"} => ilock(i).type = T_DIR
         /\ At(p, "unlink_ip") => ilock(i).nlink > 0
    /\ At(p, "iput") /\ LastUnlinked(Putting(p)) => itable[Putting(p)].lock = None

\* Processes do not wait for inodes in a circle: while calls are in progress some
\* process is not waiting.  The calls that hold two
\* inodes lock the directory first and then what is in it, and "." and ".." are
\* refused (sysfile.c:204) because they would lock upwards.
NoCircularWait ==
  LET InCall == {p \in Proc : loc[p].pc # "idle"}
      Waits(p) == LockTarget(p) # None /\ itable[LockTarget(p)].lock # None
  IN  InCall # {} => \E p \in InCall : ~Waits(p)
=============================================================================
