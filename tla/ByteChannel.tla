---------------------------- MODULE ByteChannel ----------------------------
(***************************************************************************)
(* What a pipe (kernel/pipe.c), and the output of the console              *)
(* (kernel/uart.c), promise: a bounded first-in first-out channel.  Every  *)
(* byte that is sent is taken once, in the order of sending, and at most   *)
(* Capacity bytes are in the channel.                                      *)
(***************************************************************************)
EXTENDS Naturals, Sequences

CONSTANT Capacity

VARIABLES
  sent,   \* how many bytes have been sent; byte k is the k-th one
  queue,  \* the bytes in the channel
  taken   \* the bytes that have left the channel

vars == <<sent, queue, taken>>

Init == sent = 0 /\ queue = << >> /\ taken = << >>

Send ==
  /\ Len(queue) < Capacity
  /\ sent' = sent + 1
  /\ queue' = Append(queue, sent + 1)
  /\ UNCHANGED taken

Take ==
  /\ queue # << >>
  /\ taken' = Append(taken, Head(queue))
  /\ queue' = Tail(queue)
  /\ UNCHANGED sent

Next == Send \/ Take

Spec == Init /\ [][Next]_vars
=============================================================================
