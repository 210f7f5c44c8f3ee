------------------------------ MODULE ByteFile ------------------------------
(***************************************************************************)
(* What read, write and fstat promise of files (kernel/file.c,             *)
(* kernel/fs.c): a file is a sequence of bytes, an open file has an offset *)
(* into it, and write moves pieces of at most Piece bytes, each of them at *)
(* once.                                                                   *)
(*                                                                         *)
(* A write that fails half-way may leave bytes that it does not count, and *)
(* such bytes may be gone again later: "kept" is what stays.               *)
(***************************************************************************)
EXTENDS Integers, Sequences

CONSTANTS Inum, File, Proc, Piece, MaxLen

VARIABLES ip,    \* the inode of an open file
          off,   \* the offset of an open file
          seen,  \* the bytes that a read of the file returns
          kept,  \* the bytes of the file without what failed writes left
          todo,  \* what a process has still to write
          got    \* what the last read or fstat of a process returned

vars == <<ip, off, seen, kept, todo, got>>

Idle    == [f |-> 0, bytes |-> <<>>]
Nothing == [n |-> 0, bytes |-> <<>>]

Init ==
  /\ ip \in [File -> Inum]
  /\ off = [f \in File |-> 0]
  /\ kept = seen
  /\ todo = [p \in Proc |-> Idle]
  /\ got = [p \in Proc |-> Nothing]

\* p calls write, or its write is over.
Call(p) ==
  /\ \A q \in Proc \ {p} : todo'[q] = todo[q]
  /\ todo[p] = Idle \/ todo'[p] = Idle
  /\ UNCHANGED <<ip, off, seen, kept, got>>

\* The next piece of what p writes, of which the first n bytes count.
Write(p, n) ==
  LET f == todo[p].f
      i == ip[f]
      o == off[f]
      d == SubSeq(todo[p].bytes, 1, IF Len(todo[p].bytes) < Piece THEN Len(todo[p].bytes) ELSE Piece)
      Counted(k)   == k > o /\ k <= o + n
      Attempted(k) == k > o /\ k <= o + Len(d)
  IN  /\ todo[p] # Idle /\ n <= Len(d)
      /\ off' = [off EXCEPT ![f] = o + n]
      /\ todo' = [todo EXCEPT ![p] = IF n < Len(d) THEN Idle
                                     ELSE [@ EXCEPT !.bytes = SubSeq(@, n + 1, Len(@))]]
      /\ o <= Len(seen[i]) /\ o + Len(d) <= MaxLen
      /\ Len(seen'[i]) = IF o + n > Len(seen[i]) THEN o + n ELSE Len(seen[i])
      /\ Len(kept'[i]) = Len(seen'[i])
      /\ \A k \in DOMAIN seen'[i] :
           IF Counted(k) THEN seen'[i][k] = d[k - o] /\ kept'[i][k] = d[k - o]
           ELSE /\ \/ seen'[i][k] \in {seen[i][k], kept[i][k]}
                   \/ Attempted(k) /\ seen'[i][k] = d[k - o]
                /\ kept'[i][k] \in {kept[i][k], seen'[i][k]}
      /\ \A j \in Inum \ {i} : seen'[j] = seen[j] /\ kept'[j] = kept[j]
      /\ UNCHANGED <<ip, got>>

\* Bytes that failed writes left in a file are gone.
Forget(i) ==
  /\ Len(seen'[i]) = Len(seen[i])
  /\ \A k \in DOMAIN seen[i] : seen'[i][k] \in {seen[i][k], kept[i][k]}
  /\ \A j \in Inum \ {i} : seen'[j] = seen[j]
  /\ UNCHANGED <<ip, off, kept, todo, got>>

Truncate(i) ==
  /\ seen' = [seen EXCEPT ![i] = <<>>]
  /\ kept' = [kept EXCEPT ![i] = <<>>]
  /\ UNCHANGED <<ip, off, todo, got>>

\* p asks for n bytes of f and gets them, or what there is up to the end of the
\* file.  A negative n is a large one: it gets all there is or nothing.
Read(p, f, n) ==
  LET s    == seen[ip[f]]
      rest == SubSeq(s, off[f] + 1, Len(s))
      some == IF n < 0 THEN {rest, <<>>}
              ELSE {SubSeq(rest, 1, IF n > Len(rest) THEN Len(rest) ELSE n)}
  IN  /\ \E d \in some : got' = [got EXCEPT ![p] = [n |-> n, bytes |-> d]]
      /\ off' = [off EXCEPT ![f] = @ + Len(got'[p].bytes)]
      /\ UNCHANGED <<ip, seen, kept, todo>>

Stat(p, f) ==
  /\ got' = [got EXCEPT ![p] = [n |-> 0, bytes |-> <<Len(seen[ip[f]])>>]]
  /\ UNCHANGED <<ip, off, seen, kept, todo>>

Return(p) ==
  /\ got' = [got EXCEPT ![p] = Nothing]
  /\ UNCHANGED <<ip, off, seen, kept, todo>>

Next ==
  \/ \E p \in Proc : Call(p) \/ Return(p) \/ \E n \in 0 .. Piece : Write(p, n)
  \/ \E i \in Inum : Forget(i) \/ Truncate(i)
  \/ \E p \in Proc, f \in File : Stat(p, f) \/ \E n \in -1 .. MaxLen : Read(p, f, n)

Spec == Init /\ [][Next]_vars
=============================================================================
