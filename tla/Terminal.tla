------------------------------ MODULE Terminal ------------------------------
(***************************************************************************)
(* What the console promises to those who read it (kernel/console.c): the  *)
(* line being typed can be edited until it is complete; complete input is  *)
(* read in order, by one reader each byte, a line or less at a time; a     *)
(* control-d ends one read, which returns nothing if it found nothing.     *)
(***************************************************************************)
EXTENDS Integers, Sequences

CONSTANTS Readers, Room

VARIABLES edit,   \* the line being typed
          ready,  \* the complete input that nobody has read
          ask,    \* how many bytes a reader has asked for, 0 if it does not read
          got     \* the bytes it has so far

vars == <<edit, ready, ask, got>>

Init == /\ edit = <<>> /\ ready = <<>>
        /\ ask = [p \in Readers |-> 0]
        /\ got = [p \in Readers |-> <<>>]

\* A character goes to the line while there is room.  The line is complete with a
\* newline, a control-d, or no room for more.
Type(c) ==
  /\ Len(edit) + Len(ready) < Room
  /\ IF c \in {"newline", "D"} \/ Len(edit) + Len(ready) = Room - 1
     THEN ready' = ready \o Append(edit, c) /\ edit' = <<>>
     ELSE edit' = Append(edit, c) /\ UNCHANGED ready
  /\ UNCHANGED <<ask, got>>

Erase ==
  /\ edit # <<>>
  /\ edit' \in {SubSeq(edit, 1, Len(edit) - 1), <<>>}
  /\ UNCHANGED <<ready, ask, got>>

Call(p) ==
  /\ ask[p] = 0
  /\ \E n \in 1 .. Room : ask' = [ask EXCEPT ![p] = n]
  /\ UNCHANGED <<edit, ready, got>>

\* The read of p is over: it has what it asked for, or a whole line.
Full(p) == Len(got[p]) = ask[p] \/ (got[p] # <<>> /\ got[p][Len(got[p])] = "newline")

Take(p) ==
  /\ ready # <<>> /\ Head(ready) # "D"
  /\ ask[p] > 0 /\ ~Full(p)
  /\ got' = [got EXCEPT ![p] = Append(@, Head(ready))]
  /\ ready' = Tail(ready)
  /\ UNCHANGED <<edit, ask>>

\* A byte that cannot be copied to the reader is lost, and ends the read.
Return(p, lost) ==
  /\ ask' = [ask EXCEPT ![p] = 0]
  /\ got' = [got EXCEPT ![p] = <<>>]
  /\ ready' = IF lost THEN Tail(ready) ELSE ready
  /\ UNCHANGED edit

\* The control-d goes with the read that finds it first.
EndOfFile(p) ==
  /\ ready # <<>> /\ Head(ready) = "D"
  /\ Return(p, got[p] = <<>>)

Next ==
  \/ \E c \in {"a", "newline", "D"} : Type(c)
  \/ Erase
  \/ \E p \in Readers :
       \/ Call(p) \/ Take(p) \/ EndOfFile(p)
       \/ Full(p) /\ Return(p, FALSE)
       \/ ready # <<>> /\ Head(ready) # "D" /\ Return(p, TRUE)
       \/ ready = <<>> /\ Return(p, FALSE)   \* the reader was killed

Spec == Init /\ [][Next]_vars
=============================================================================
