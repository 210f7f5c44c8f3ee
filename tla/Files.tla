------------------------------- MODULE Files -------------------------------
(***************************************************************************)
(* The contents of files: the blocks that hold them and the calls that     *)
(* read and write them (kernel/fs.c, kernel/file.c, kernel/sysfile.c), on  *)
(* a disk that mkfs has made.                                              *)
(*                                                                         *)
(* Atomicity.  The sleep-lock of an inode is explicit.  Under it writei    *)
(* and itrunc take one step per block, because their balloc and bfree meet *)
(* those of the processes that work on other inodes; a bitmap block is     *)
(* locked while a bit of it is looked for and set.  readi allocates        *)
(* nothing and is one step with ilock and iunlock around it.               *)
(*                                                                         *)
(* The on-disk copy of an inode is left out (module FileSys), and how      *)
(* begin_op, log_write and end_op work is in module Log: here a            *)
(* transaction is the set of blocks that it has logged, and the end_op     *)
(* that leaves no call in a transaction commits what all of them logged.   *)
(***************************************************************************)
EXTENDS Mkfs, FiniteSets, TLC

CONSTANTS Proc,         \* processes
          File,         \* entries of the file table, open for reading and writing
          None,         \* no process, no file
          MAXOPBLOCKS,  \* param.h: the blocks a transaction may log
          UINT,         \* unsigned values wrap at 2^32
          Mem,          \* the bytes that each process writes
          Contents,     \* the contents of the file that mkfs is given
          Opens,        \* the inodes that the files are open on
          Reads,        \* the lengths passed to read
          Writes,       \* the lengths passed to write, and how much of it is mapped
          MaxCalls      \* bound: calls in a behaviour

ASSUME FilesAssumption ==
  /\ None \notin Proc \cup File
  /\ MAXOPBLOCKS \in Nat /\ MAXOPBLOCKS >= 6
  /\ UINT \in Nat /\ UINT > MAXFILE * BSIZE
  /\ \A s \in Contents : Fits(<<s>>)
  /\ Opens \subseteq [File -> Inum]
  /\ Reads \subseteq Int
  /\ \A w \in Writes : w.n \in Int /\ w.good \in 0 .. w.n
  /\ MaxCalls \in Nat

VARIABLES
  bitmap,  \* the blocks whose bit is set
  data,    \* the blocks as they are on the disk
  cache,   \* the blocks as bread returns them
  lh,      \* log.lh.block: the blocks that the next commit writes
  inode,   \* size, addrs and sleep-lock of the inodes
  file,    \* inode and offset of the open files
  loc,     \* where each process is in its call, and its local variables
  calls    \* history: the calls that were made

vars == <<bitmap, data, cache, lh, inode, file, loc, calls>>

Idle == [pc |-> "idle", f |-> None, n |-> 0, i |-> 0, good |-> 0, n1 |-> 0, tot |-> 0,
         ip |-> 0, k |-> 0, op |-> {}, old |-> <<>>, val |-> <<>>]

\* Inode 2 is the file of mkfs; inodes without contents are files created since.
Init ==
  \E s \in Contents : LET im == Image(<<s>>) IN
    /\ bitmap = im.bitmap
    /\ data = im.data /\ cache = im.data /\ lh = {}
    /\ inode = [i \in Inum |-> [size |-> im.inode[i].size, addrs |-> im.inode[i].addrs,
                                lock |-> None]]
    /\ \E ip \in Opens : file = [f \in File |-> [ip |-> ip[f], off |-> 0]]
    /\ loc = [p \in Proc |-> Idle]
    /\ calls = 0

At(p, pc) == loc[p].pc = pc
Go(p, r)  == loc' = [loc EXCEPT ![p] = IF r.pc = "idle" THEN Idle ELSE r @@ @]

----------------------------------------------------------------------------
\* Blocks: balloc, bfree and bmap (fs.c:63-103, 377-405) on a file system that
\* is a record of the bitmap, the inode, and the blocks logged so far.
Fs(i, op) == [bitmap |-> bitmap, cache |-> cache, lh |-> lh, addrs |-> inode[i].addrs,
              op |-> op, at |-> 0]

\* log_write only notes the block: the commit copies it from its buffer.
log_write(fs, b) == [fs EXCEPT !.lh = @ \cup {b}, !.op = @ \cup {b}]

\* The first block whose bit is clear, zeroed.  A full disk is a panic.
balloc(fs) ==
  LET b == Min(Block \ fs.bitmap)
      marked == [fs EXCEPT !.bitmap = @ \cup {b}, !.op = @ \cup {BBLOCK(b)}, !.at = b]
  IN  log_write([marked EXCEPT !.cache[b] = Zeroes], b)

bfree(fs, b) == [fs EXCEPT !.bitmap = @ \ {b}, !.op = @ \cup {BBLOCK(b)}]

\* The block for index bn goes to "at".
bmap_direct(fs, k) ==
  IF fs.addrs[k] # 0 THEN [fs EXCEPT !.at = fs.addrs[k]]
  ELSE LET new == balloc(fs) IN [new EXCEPT !.addrs[k] = new.at]

bmap_indirect(fs, j) ==
  LET ind == fs.at
      new == balloc(fs)
  IN  IF fs.cache[ind][j] # 0 THEN [fs EXCEPT !.at = fs.cache[ind][j]]
      ELSE log_write([new EXCEPT !.cache[ind][j] = new.at], ind)

bmap(fs, bn) == IF bn < NDIRECT THEN bmap_direct(fs, bn)
                ELSE bmap_indirect(bmap_direct(fs, NDIRECT), bn - NDIRECT)

\* The file system after p's work on inode i, and p goes on with r.
Store(p, i, fs, r) ==
  /\ bitmap' = fs.bitmap /\ cache' = fs.cache /\ lh' = fs.lh
  /\ UNCHANGED data
  /\ inode' = [inode EXCEPT ![i].addrs = fs.addrs]
  /\ Go(p, [op |-> fs.op] @@ r)

\* Block bn of inode i, 0 if there is none.
BlockAt(i, bn) ==
  IF bn < NDIRECT THEN inode[i].addrs[bn]
  ELSE IF inode[i].addrs[NDIRECT] = 0 THEN 0
  ELSE cache[inode[i].addrs[NDIRECT]][bn - NDIRECT]

\* The contents of inode i in blocks d (history: what the calls promise).
Bytes(d, i) == [o \in 1 .. inode[i].size |-> d[BlockAt(i, (o - 1) \div BSIZE)][(o - 1) % BSIZE]]
\* The disk after a commit of what is logged now.
Committed == [b \in DOMAIN data |-> IF b \in lh THEN cache[b] ELSE data[b]]
Holding(i) == [seen |-> Bytes(cache, i), kept |-> Bytes(Committed, i)]

----------------------------------------------------------------------------
\* A call of p on file f starts.
Call(p) == At(p, "idle") /\ calls < MaxCalls /\ calls' = calls + 1

\* end_op: p was the last one in a transaction, and commits, or it was not.
InOp(p) == loc[p].pc \in {"begun", "writei", "iupdate", "open", "itrunc"}
end_op(p) ==
  IF \E q \in Proc \ {p} : InOp(q) THEN UNCHANGED <<data, lh>> ELSE data' = Committed /\ lh' = {}

\* sys_write and filewrite (file.c:134-181).  Of the n bytes of the argument the
\* first "good" are in the memory of the process: either_copyin fails after them.
\* With begin_op for the first piece: nothing before it depends on others.
sys_write(p, f, n, good) ==
  /\ Call(p)
  /\ Go(p, [pc |-> IF n > 0 THEN "begun" ELSE "filewrite", f |-> f, n |-> n, good |-> good])
  /\ UNCHANGED <<bitmap, data, cache, lh, inode, file>>

\* Mutant: one more block in a transaction.
max_large == ((MAXOPBLOCKS - 1 - 1 - 2) \div 2 + 1) * BSIZE

max == ((MAXOPBLOCKS - 1 - 1 - 2) \div 2) * BSIZE

\* The tests of writei (fs.c:492-495).
Rejects(i, o, n) ==
  o > inode[i].size \/ (o + n) % UINT < o \/ (o + n) % UINT > MAXFILE * BSIZE

\* The next piece: begin_op.
begin_op(p) ==
  /\ At(p, "filewrite") /\ loc[p].i < loc[p].n
  /\ Go(p, [pc |-> "begun"])
  /\ UNCHANGED <<bitmap, data, cache, lh, inode, file, calls>>

\* ilock, and the tests at the head of writei.
filewrite(p) ==
  LET l  == loc[p]
      i  == file[l.f].ip
      n1 == Min({l.n - l.i, max})
      o  == file[l.f].off
  IN  /\ At(p, "begun") /\ inode[i].lock = None
      /\ IF Rejects(i, o, n1)
         THEN /\ Go(p, [pc |-> "ret"])
              /\ end_op(p)
              /\ UNCHANGED inode
         ELSE /\ Go(p, [pc |-> "writei", ip |-> i, n1 |-> n1, tot |-> 0, op |-> {},
                        old |-> Holding(i)])
              /\ inode' = [inode EXCEPT ![i].lock = p]
              /\ UNCHANGED <<data, lh>>
      /\ UNCHANGED <<bitmap, cache, file, calls>>

\* All is written, or n is not positive.
filewrite_end(p) ==
  /\ At(p, "filewrite") /\ loc[p].i >= loc[p].n
  /\ Go(p, [pc |-> "ret"])
  /\ UNCHANGED <<bitmap, data, cache, lh, inode, file, calls>>

\* Mutant: writing starts at the head of each block.
InBlock_head(a, o, s) == Copied(a, 0, s)

\* Block a with s at file offset o.
InBlock(a, o, s) == Copied(a, o % BSIZE, s)

\* writei (fs.c:486-517), one block of the loop.  A block that could not be copied
\* as a whole is not logged, but what was copied stays in its buffer.
writei(p) ==
  LET l == loc[p]
      o == file[l.f].off + l.tot
      m == Min({l.n1 - l.tot, BSIZE - (o % BSIZE)})
      here == Max({0, Min({m, l.good - l.i - l.tot})})
      fs == bmap(Fs(l.ip, l.op), o \div BSIZE)
      new == [fs EXCEPT !.cache[fs.at] =
                InBlock(@, o, SubSeq(Mem[p], l.i + l.tot + 1, l.i + l.tot + here))]
  IN  /\ At(p, "writei") /\ l.tot < l.n1
      /\ IF here = m THEN Store(p, l.ip, log_write(new, fs.at), [pc |-> "writei", tot |-> l.tot + m])
                     ELSE Store(p, l.ip, new, [pc |-> "iupdate"])
      /\ UNCHANGED <<file, calls>>

\* The end of writei, iunlock and end_op.
writei_end(p) ==
  LET l == loc[p]
      o == file[l.f].off + l.tot
  IN  /\ At(p, "iupdate") \/ (At(p, "writei") /\ l.tot = l.n1)
      /\ inode' = [inode EXCEPT ![l.ip].size = Max({@, o}), ![l.ip].lock = None]
      /\ file' = [file EXCEPT ![l.f].off = o]
      /\ Go(p, [pc |-> IF l.tot = l.n1 THEN "filewrite" ELSE "ret", i |-> l.i + l.tot,
                op |-> l.op \cup {IBLOCK(l.ip)}, old |-> <<>>, ip |-> 0])
      /\ end_op(p)
      /\ UNCHANGED <<bitmap, cache, calls>>

----------------------------------------------------------------------------
\* How many bytes readi returns (fs.c:461-464), n unsigned.
Readable(i, o, n) == IF o > inode[i].size \/ (o + n) % UINT < o THEN 0
                     ELSE IF (o + n) % UINT > inode[i].size THEN inode[i].size - o ELSE n

\* fileread and readi (file.c:120-124, fs.c:455-477).  When either_copyout fails
\* the call changes nothing.
sys_read(p, f, n) ==
  LET i == file[f].ip
      o == file[f].off
      r == Readable(i, o, n % UINT)
  IN  /\ Call(p) /\ inode[i].lock = None
      /\ file' = [file EXCEPT ![f].off = @ + r]
      /\ Go(p, [pc |-> "got", n |-> n, val |-> SubSeq(Bytes(cache, i), o + 1, o + r)])
      /\ UNCHANGED <<bitmap, data, cache, lh, inode>>

\* filestat and stati (file.c:87-102, fs.c:441-449): the size.
sys_fstat(p, f) ==
  /\ Call(p) /\ inode[file[f].ip].lock = None
  /\ Go(p, [pc |-> "got", val |-> <<inode[file[f].ip].size>>])
  /\ UNCHANGED <<bitmap, data, cache, lh, inode, file>>

\* The call returns to user space.
Return(p) ==
  /\ loc[p].pc \in {"ret", "got"}
  /\ Go(p, [pc |-> "idle"])
  /\ UNCHANGED <<bitmap, data, cache, lh, inode, file, calls>>

----------------------------------------------------------------------------
\* sys_open of inode i with O_TRUNC (sysfile.c:298-346): begin_op; ilock.
open_trunc(p, i) ==
  /\ Call(p)
  /\ Go(p, [pc |-> "open", ip |-> i])
  /\ UNCHANGED <<bitmap, data, cache, lh, inode, file>>

open_lock(p) ==
  LET i == loc[p].ip IN
  /\ At(p, "open") /\ inode[i].lock = None
  /\ inode' = [inode EXCEPT ![i].lock = p]
  /\ Go(p, [pc |-> "itrunc", k |-> 0, op |-> {}, old |-> Holding(i)])
  /\ UNCHANGED <<bitmap, data, cache, lh, file, calls>>

\* itrunc (fs.c:409-437): the direct blocks, then those of the indirect block.
itrunc(p) ==
  LET l == loc[p]
      b == BlockAt(l.ip, l.k)
      fs == IF b = 0 THEN Fs(l.ip, l.op) ELSE bfree(Fs(l.ip, l.op), b)
  IN  /\ At(p, "itrunc") /\ l.k < MAXFILE
      /\ Store(p, l.ip, IF l.k < NDIRECT THEN [fs EXCEPT !.addrs[l.k] = 0] ELSE fs,
               [pc |-> "itrunc", k |-> l.k + 1])
      /\ UNCHANGED <<file, calls>>

\* Mutant: the indirect block itself is not freed.
itrunc_indirect_kept(fs) == [fs EXCEPT !.addrs[NDIRECT] = 0]

itrunc_indirect(fs) ==
  IF fs.addrs[NDIRECT] = 0 THEN fs
  ELSE [bfree(fs, fs.addrs[NDIRECT]) EXCEPT !.addrs[NDIRECT] = 0]

\* Mutant: the size stays.
NoBlocks_size(i, addrs) == [size |-> inode[i].size, addrs |-> addrs, lock |-> None]

NoBlocks(i, addrs) == [size |-> 0, addrs |-> addrs, lock |-> None]

\* The indirect block, size 0, iupdate, and the end of the call.
itrunc_end(p) ==
  LET l == loc[p]
      fs == itrunc_indirect(Fs(l.ip, l.op))
  IN  /\ At(p, "itrunc") /\ l.k = MAXFILE
      /\ bitmap' = fs.bitmap
      /\ inode' = [inode EXCEPT ![l.ip] = NoBlocks(l.ip, fs.addrs)]
      /\ Go(p, [pc |-> "ret", op |-> fs.op \cup {IBLOCK(l.ip)}, old |-> <<>>, ip |-> 0])
      /\ end_op(p)
      /\ UNCHANGED <<cache, file, calls>>

\* bget takes the buffer of a block that is not logged: what a failing write left in
\* it is gone (bio.c:73-85).  A logged one is pinned, and what is in it is committed.
evict(b) ==
  /\ b \notin lh /\ cache[b] # data[b]
  /\ cache' = [cache EXCEPT ![b] = data[b]]
  /\ UNCHANGED <<bitmap, data, lh, inode, file, loc, calls>>

----------------------------------------------------------------------------
Step(p) == \/ begin_op(p) \/ filewrite(p) \/ filewrite_end(p) \/ writei(p) \/ writei_end(p)
           \/ open_lock(p) \/ itrunc(p) \/ itrunc_end(p) \/ Return(p)

Next ==
  \/ \E p \in Proc : Step(p)
  \/ \E p \in Proc, f \in File :
       \/ \E n \in Reads : sys_read(p, f, n)
       \/ \E w \in Writes : sys_write(p, f, w.n, w.good)
       \/ sys_fstat(p, f)
       \/ open_trunc(p, file[f].ip)
  \/ \E b \in Block : evict(b)

Spec == Init /\ [][Next]_vars

----------------------------------------------------------------------------
\* While an inode is locked its contents are those before the call.
Content(i) == IF inode[i].lock = None THEN Holding(i) ELSE loc[inode[i].lock].old

Promise == INSTANCE ByteFile WITH
  Piece <- max, MaxLen <- MAXFILE * BSIZE,
  ip <- [f \in File |-> file[f].ip], off <- [f \in File |-> file[f].off],
  seen <- [i \in Inum |-> Content(i).seen], kept <- [i \in Inum |-> Content(i).kept],
  todo <- [p \in Proc |-> IF loc[p].pc \in {"filewrite", "begun", "writei", "iupdate"}
                          THEN [f |-> loc[p].f, bytes |-> SubSeq(Mem[p], loc[p].i + 1, loc[p].n)]
                          ELSE [f |-> 0, bytes |-> <<>>]],
  got <- [p \in Proc |-> IF At(p, "got") THEN [n |-> loc[p].n, bytes |-> loc[p].val]
                                         ELSE [n |-> 0, bytes |-> <<>>]]

\* Files are sequences of bytes (module ByteFile): what is written to a file is
\* what reads of it return, at the offsets that the open files share, whatever
\* is written and truncated meanwhile in this file and in others; nothing of a
\* block's former contents shows (bzero, fs.c:79).
FilesAreBytes == Promise!Spec

\* The places that name a block: the blocks of each inode and, last, its indirect
\* block.  A truncation has freed those before k.
Slot(i, bn) == IF bn = MAXFILE THEN inode[i].addrs[NDIRECT] ELSE BlockAt(i, bn)
Freed(i, bn) == \E p \in Proc : At(p, "itrunc") /\ loc[p].ip = i /\ bn < loc[p].k
Users(b) == {<<i, bn>> \in Inum \X (0 .. MAXFILE) : Slot(i, bn) = b /\ ~Freed(i, bn)}

\* A data block is in exactly one place of one file when its bit is set, and in
\* none when it is clear: in the image that mkfs writes, and after any mix of
\* balloc and bfree.  No block is lost, none is shared, and bfree never meets a
\* free block (fs.c:98).
BlocksPartitioned ==
  /\ 0 .. nmeta - 1 \subseteq bitmap
  /\ \A b \in nmeta .. FSSIZE - 1 : Cardinality(Users(b)) = IF b \in bitmap THEN 1 ELSE 0

\* Below its size a file has all its blocks, so the bmap in readi does not
\* allocate: fileread is not in a transaction, and log_write would panic
\* (log.c:221).  Holds also of the root directory that mkfs makes, for files that meet
\* Fits: rounding up the size of a root whose last block is full gives it a hole
\* (mkfs.c:160-166).
NoHoles ==
  \A i \in Inum : inode[i].lock = None =>
    /\ inode[i].size <= MAXFILE * BSIZE
    /\ \A o \in 0 .. inode[i].size - 1 : BlockAt(i, o \div BSIZE) # 0

\* No transaction logs more than the MAXOPBLOCKS blocks that begin_op has reserved
\* for it (log.c:135): filewrite cuts its argument small enough (file.c:149-155),
\* also for a piece that is not aligned, needs the indirect block and takes its
\* blocks from different bitmap blocks.
TransactionFits == \A p \in Proc : Cardinality(loc[p].op) <= MAXOPBLOCKS
=============================================================================
