-------------------------------- MODULE Mkfs --------------------------------
(***************************************************************************)
(* The layout of the disk (kernel/fs.h) and the program that builds the    *)
(* first file system on it (mkfs/mkfs.c).  mkfs is sequential: each of its *)
(* functions is a function from the image so far to the next one.          *)
(*                                                                         *)
(* A block is a function on cells.  A cell is a byte of a file, a block    *)
(* number in an indirect block or an entry of a directory (its inode       *)
(* number: the names are left out), so that NINDIRECT is BSIZE here.       *)
(***************************************************************************)
EXTENDS Integers, Sequences, FiniteSetsExt, SequencesExt

CONSTANTS BSIZE,     \* cells of a block
          NDIRECT,   \* block numbers in an inode, without the indirect block
          FSSIZE,    \* blocks of the disk
          BPB,       \* bits of a bitmap block
          IPB,       \* inodes of an inode block
          NINODES,   \* inodes of the disk
          nlog       \* blocks of the log

ASSUME MkfsAssumption ==
  {BSIZE, NDIRECT, FSSIZE, BPB, IPB, NINODES, nlog} \subseteq Nat \ {0}

NINDIRECT == BSIZE
MAXFILE   == NDIRECT + NINDIRECT
ROOTINO   == 1
T_DIR     == 1
T_FILE    == 2

\* The super block that main writes, and where the data blocks start.
nbitmap      == FSSIZE \div BPB + 1
ninodeblocks == NINODES \div IPB + 1
nmeta        == 2 + nlog + ninodeblocks + nbitmap
sb == [size |-> FSSIZE, nblocks |-> FSSIZE - nmeta, ninodes |-> NINODES, nlog |-> nlog,
       logstart |-> 2, inodestart |-> 2 + nlog, bmapstart |-> 2 + nlog + ninodeblocks]

IBLOCK(i) == i \div IPB + sb.inodestart
BBLOCK(b) == b \div BPB + sb.bmapstart

Inum   == 1 .. NINODES - 1
Block  == 0 .. FSSIZE - 1
Zeroes == [c \in 0 .. BSIZE - 1 |-> 0]
NoAddrs == [k \in 0 .. NDIRECT |-> 0]
Free    == [type |-> 0, nlink |-> 0, size |-> 0, addrs |-> NoAddrs]

\* Block a with the cells of s from cell c on.
Copied(a, c, s) == [k \in DOMAIN a |-> IF k >= c /\ k < c + Len(s) THEN s[k - c + 1] ELSE a[k]]

----------------------------------------------------------------------------
\* The image after main has zeroed the disk.
Blank == [data |-> [b \in Block |-> Zeroes], inode |-> [i \in Inum |-> Free],
          freeblock |-> nmeta, freeinode |-> ROOTINO, bitmap |-> {}]

\* ialloc and winode: the next inode, with no contents.
mk_ialloc(im, type) ==
  [im EXCEPT !.inode[im.freeinode] = [Free EXCEPT !.type = type, !.nlink = 1],
             !.freeinode = @ + 1]

\* iappend finds the block for index fbn of an inode, or takes the next free one.
mk_block(im, inum, fbn) ==
  LET k    == IF fbn < NDIRECT THEN fbn ELSE NDIRECT
      new  == im.inode[inum].addrs[k] = 0
      at   == IF new THEN im.freeblock ELSE im.inode[inum].addrs[k]
      im1  == [im EXCEPT !.inode[inum].addrs[k] = at, !.freeblock = IF new THEN @ + 1 ELSE @]
      new1 == im1.data[at][fbn - NDIRECT] = 0
  IN  IF fbn < NDIRECT THEN [im |-> im1, at |-> at]
      ELSE [im |-> [im1 EXCEPT !.data[at][fbn - NDIRECT] = IF new1 THEN im1.freeblock ELSE @,
                               !.freeblock = IF new1 THEN @ + 1 ELSE @],
            at |-> IF new1 THEN im1.freeblock ELSE im1.data[at][fbn - NDIRECT]]

\* One cell through the loop of iappend.
mk_append(im, inum, x) ==
  LET off == im.inode[inum].size
      r   == mk_block(im, inum, off \div BSIZE)
  IN  [r.im EXCEPT !.data[r.at][off % BSIZE] = x, !.inode[inum].size = off + 1]

iappend(im, inum, s) == FoldLeft(LAMBDA i, x : mk_append(i, inum, x), im, s)

\* A file of the command line: an inode, an entry of the root, the contents.
mk_file(im, s) ==
  LET inum == im.freeinode
  IN  iappend(iappend(mk_ialloc(im, T_FILE), ROOTINO, <<inum>>), inum, s)

\* The size of the root is rounded up to whole blocks.
mk_fixroot(im) == [im EXCEPT !.inode[ROOTINO].size = (@ \div BSIZE + 1) * BSIZE]

\* balloc: the blocks below freeblock are in use.  All their bits are in the
\* first bitmap block.
mk_balloc(im) == [im EXCEPT !.bitmap = 0 .. im.freeblock - 1]

\* main, for files with these contents.
Image(files) ==
  LET root == iappend(mk_ialloc(Blank, T_DIR), ROOTINO, <<ROOTINO, ROOTINO>>)
  IN  mk_balloc(mk_fixroot(FoldLeft(mk_file, root, files)))

\* What the asserts of iappend and balloc ask of the files, and what rounding up
\* the size of the root takes for granted: its last block is not full.
Fits(files) ==
  /\ \A k \in DOMAIN files : Len(files[k]) <= MAXFILE * BSIZE
  /\ Len(files) + 2 < MAXFILE * BSIZE /\ (Len(files) + 2) % BSIZE # 0
  /\ Image(files).freeblock < BPB
=============================================================================
