------------------------------ MODULE MCFiles ------------------------------
(* Instances of Files for TLC. *)
EXTENDS Files

\* Neighbouring bytes differ, and so do those of the two processes.
MCMem == [p \in Proc |-> IF p = 1 THEN <<1, 2, 1, 2>> ELSE <<3, 4, 3, 4>>]

\* Two open files on one inode, or on two.
MCReads == {3, -1}
MCOpens == {<<2, 2>>, <<2, 3>>}

\* The second write fails after its first byte.
MCWrites == {[n |-> 1, good |-> 1], [n |-> 4, good |-> 1], [n |-> 4, good |-> 4]}

MCContents == {<<>>, <<4>>}

\* Two open files share an inode that is empty, or one of their inodes has a byte.
MCInit == Init /\ (file[1].ip = file[2].ip <=> inode[2].size = 0)
MCSpec == MCInit /\ [][Next]_vars
=============================================================================
