------------------------------ MODULE MCFileSys ------------------------------
(* Instances of FileSys and of Memory for TLC, one or the other in a behaviour. *)
EXTENDS FileSys, Memory

VARIABLE turn

CONSTANTS i1, i2, i3

\* ialloc may take any free inode, so all but the root are alike.
\* So are the processes of Memory but the first.
Symmetry == Permutations(Inum \ {Root}) \cup Permutations(Slot \ {InitSlot})

Op(op, path) == [op |-> op, path |-> path]

\* b is a file or a directory, of the root or of the current directory.
MCCalls ==
  {Op("mkdir", <<"b">>), Op("creat", <<"b">>), Op("chdir", <<"b">>),
   Op("unlink", <<"b">>), Op("unlink", <<"/", "b", "a">>), Op("unlink", <<".">>),
   [op |-> "link", path |-> <<"b">>, new |-> <<"/", "b", "a">>],
   [op |-> "open", path |-> <<"/", "b">>, omode |-> "O_RDWR"],
   [op |-> "close"], [op |-> "fork"], [op |-> "exit"]}

\* A current directory that is removed, and its parent with it.
DotDotCalls ==
  {Op("mkdir", <<"/", "a">>), Op("mkdir", <<"/", "a", "b">>), Op("chdir", <<"a", "b">>),
   Op("unlink", <<"/", "a", "b">>), Op("unlink", <<"/", "a">>), Op("chdir", <<"..">>)}

\* The fields of an inode that nobody refers to, or that is not valid, are not
\* read before iget and ilock write them: states that differ only there are one.
View ==
  <<turn, memVars, disk, ent, ftable, ofile, cwd, loc,
    [i \in Inum |-> IF itable[i].ref = 0 THEN None
                    ELSE IF ~itable[i].valid THEN <<itable[i].ref, itable[i].lock>>
                    ELSE itable[i]]>>

\* Programs and sizes for Memory.
MCIncs   == {3, -2}
MCImages == {<<3, 1>>, <<2, 4>>}

----------------------------------------------------------------------------
FileSysTurn == turn = "filesys" /\ Next /\ UNCHANGED <<memVars, turn>>
MemoryTurn  == turn = "memory" /\ MemNext /\ UNCHANGED <<vars, turn>>

MCInit == Init /\ MemInit /\ turn \in {"filesys", "memory"}
MCSpec == MCInit /\ [][FileSysTurn \/ MemoryTurn]_<<vars, memVars, turn>>

\* FileSys alone.
DotDotInit == Init /\ MemInit /\ turn = "filesys"
DotDotSpec == DotDotInit /\ [][FileSysTurn]_<<vars, memVars, turn>>
=============================================================================
