---------------------------- MODULE MCVirtioDisk ----------------------------
(* Instances of VirtioDisk for TLC. *)
EXTENDS VirtioDisk

CONSTANTS p1, p2, p3

\* States that differ only in ring entries that have been read and not yet
\* written again are one state: every reader stays between the indices.
Live(ring, from, to) == [i \in Desc |-> IF i \in Span(from, to) THEN ring[i] ELSE 0]

View == <<free, next, addr, info, status, Live(avail, seen, availidx), availidx,
          Live(used, used_idx, usedidx), usedidx, used_idx, busy, handler, line,
          seen, working, pc, idx0, done>>
=============================================================================
