---------------------------- MODULE LogTheorems ----------------------------
(***************************************************************************)
(* Theorems about module Log: its invariant, that the log implements the   *)
(* atomic disk, the write-ahead rule and that the last end_op of a group   *)
(* returns with everything installed; that a call that stays below what    *)
(* begin_op reserves for it never makes log_write panic; and that a buffer *)
(* is pinned exactly while its block is logged and not yet installed.      *)
(***************************************************************************)
EXTENDS LogProofs

\* A call writes fewer blocks than begin_op reserves for it, by enough to make up
\* for an on-disk log that is shorter than LOGSIZE (mkfs makes it one short).
Fits == OPBLOCKS < MAXOPBLOCKS /\ LOGSIZE + OPBLOCKS + 2 <= NLOG + MAXOPBLOCKS

\* What is left of the reservations of the calls in progress, block by block.
Spare ==
  {x \in Proc \X (1..MAXOPBLOCKS) : pc[x[1]] = "op" /\ Cardinality(wrote[x[1]]) < x[2]}

\* The header and what is left of the reservations fit the log together.
ReserveInv ==
  /\ NoPanic
  /\ boot = "up" => Len(lh) + Cardinality(Spare) <= LOGSIZE
  /\ \A p \in Proc :
       /\ IsFiniteSet(wrote[p]) /\ Cardinality(wrote[p]) <= OPBLOCKS
       /\ pc[p] = "op" => wrote[p] \subseteq Logged(lh)
       /\ pc[p] # "op" => wrote[p] = {}

Installed == IF \E p \in Proc : pc[p] = "install" THEN tail ELSE 0

\* The blocks of the header that have not been installed.
Uninstalled == {lh[i] : i \in (Installed + 1)..Len(lh)}

\* One reference for each of them, and none for another block.
PinExact ==
  /\ boot # "up" => \A b \in Block : pins[b] = 0
  /\ boot = "up" => \A b \in Block : pins[b] = IF b \in Uninstalled THEN 1 ELSE 0

\* Counting what is left of the reservations.
LEMMA SpareFinite ==
  ASSUME FiniteFacts, NEW S \in SUBSET (Proc \X (1..MAXOPBLOCKS))
  PROVE  /\ IsFiniteSet(S) /\ Cardinality(S) \in Nat
         /\ \A T \in SUBSET S : IsFiniteSet(T) /\ Cardinality(T) \in Nat
                                /\ Cardinality(T) <= Cardinality(S)
<1>1. IsFiniteSet(1..MAXOPBLOCKS)
  BY LogAssumption DEF FiniteFacts, FiniteInterval, LogAssumption
<1>2. IsFiniteSet(Proc \X (1..MAXOPBLOCKS))
  BY <1>1, LogAssumption, Zenon DEF FiniteFacts, FiniteProduct, LogAssumption
<1>3. IsFiniteSet(S)
  BY <1>2 DEF FiniteFacts, FiniteSubset
<1> QED
  BY <1>3 DEF FiniteFacts, FiniteSubset, FiniteCount

\* The calls that begin_op has admitted have reserved no more than it counts.
LEMMA SpareBound ==
  ASSUME FiniteFacts, NEW C \in SUBSET Proc, NEW S \in SUBSET (C \X (1..MAXOPBLOCKS))
  PROVE  Cardinality(S) <= Cardinality(C) * MAXOPBLOCKS
<1>1. IsFiniteSet(1..MAXOPBLOCKS) /\ Cardinality(1..MAXOPBLOCKS) = MAXOPBLOCKS
  BY LogAssumption DEF FiniteFacts, FiniteInterval, LogAssumption
<1>2. IsFiniteSet(C)
  BY LogAssumption DEF FiniteFacts, FiniteSubset, LogAssumption
<1>3. /\ IsFiniteSet(C \X (1..MAXOPBLOCKS))
      /\ Cardinality(C \X (1..MAXOPBLOCKS)) = Cardinality(C) * Cardinality(1..MAXOPBLOCKS)
  BY <1>1, <1>2, Zenon DEF FiniteFacts, FiniteProduct
<1> QED
  BY <1>1, <1>3 DEF FiniteFacts, FiniteSubset

\* While a call that may still write is in progress the log has room for it:
\* log_write does not panic.
LEMMA RoomToWrite ==
  ASSUME FiniteFacts, Fits, IInv, ReserveInv, NEW p \in Proc, pc[p] = "op"
  PROVE  ~TooBig /\ outstanding >= 1 /\ boot = "up"
<1> USE LogAssumption DEF LogAssumption
<1>1. boot = "up"
  BY DEF IInv, CallInv
<1>2. outstanding >= 1
  <2>1. p \in InCall /\ InCall \in SUBSET Proc
    BY DEF InCall
  <2>2. Cardinality(InCall) \in Nat \ {0}
    BY <2>1, CallsShrink, Zenon
  <2> QED
    BY <2>2 DEF IInv, CallInv
<1> DEFINE T == {p} \X ((OPBLOCKS + 1)..MAXOPBLOCKS)
<1>3. Cardinality(wrote[p]) <= OPBLOCKS /\ Cardinality(wrote[p]) \in Nat
  BY DEF FiniteFacts, FiniteCount, ReserveInv
<1>4. T \in SUBSET Spare
  BY <1>3 DEF Spare, Fits
<1>5. Cardinality(T) = MAXOPBLOCKS - OPBLOCKS
  <2>1. /\ IsFiniteSet((OPBLOCKS + 1)..MAXOPBLOCKS)
        /\ Cardinality((OPBLOCKS + 1)..MAXOPBLOCKS) = MAXOPBLOCKS - OPBLOCKS
    BY DEF FiniteFacts, FiniteInterval, Fits
  <2>2. IsFiniteSet({p}) /\ Cardinality({p}) = 1
    BY Zenon DEF FiniteFacts, FiniteSingleton
  <2>3. Cardinality(T) = Cardinality({p}) * Cardinality((OPBLOCKS + 1)..MAXOPBLOCKS)
    BY <2>1, <2>2, Zenon DEF FiniteFacts, FiniteProduct
  <2> HIDE DEF T
  <2> QED
    BY <2>1, <2>2, <2>3 DEF Fits
<1>6. Cardinality(T) <= Cardinality(Spare) /\ Cardinality(Spare) \in Nat
  BY <1>4, SpareFinite DEF Spare
<1>7. Len(lh) \in Nat /\ Len(lh) + (MAXOPBLOCKS - OPBLOCKS) <= LOGSIZE
  <2>1. Len(lh) \in Nat
    BY DEF IInv, TypeOK
  <2> HIDE DEF T
  <2> QED
    BY <1>1, <1>5, <1>6, <2>1 DEF ReserveInv
<1> QED
  BY <1>1, <1>2, <1>7 DEF TooBig, Fits

\* A step that leaves the calls in progress and what they wrote alone.
LEMMA SpareSame ==
  ASSUME FiniteFacts, IInv, ReserveInv, wrote' = wrote, Len(lh') \in Nat,
         Len(lh') <= Len(lh) \/ Len(lh') = 0,
         boot' = "up" => boot = "up" \/ Len(lh') = 0,
         \A p \in Proc : /\ pc'[p] = "op" <=> pc[p] = "op"
                         /\ pc'[p] # "panic"
                         /\ pc[p] = "op" => lh' = lh
  PROVE  ReserveInv'
<1> USE LogAssumption DEF LogAssumption
<1>1. Spare' = Spare
  BY DEF Spare
<1>2. NoPanic'
  BY DEF NoPanic
<1>3. \A p \in Proc :
        /\ IsFiniteSet(wrote'[p]) /\ Cardinality(wrote'[p]) <= OPBLOCKS
        /\ pc'[p] = "op" => wrote'[p] \subseteq Logged(lh')
        /\ pc'[p] # "op" => wrote'[p] = {}
  BY DEF ReserveInv
<1>4. ASSUME boot' = "up"
      PROVE  Len(lh') + Cardinality(Spare') <= LOGSIZE
  <2>1. Cardinality(Spare) \in Nat /\ Len(lh) \in Nat
    BY SpareFinite DEF Spare, IInv, TypeOK
  <2>2. CASE boot = "up" /\ Len(lh') <= Len(lh)
    BY <1>1, <2>1, <2>2 DEF ReserveInv
  <2>3. CASE Len(lh') = 0 /\ ~(boot = "up" /\ Len(lh') <= Len(lh))
    <3>1. boot # "up"
      BY <2>1, <2>3
    <3>2. \A p \in Proc : pc[p] = "idle"
      BY <3>1 DEF IInv, CallInv
    <3>3. Spare = {}
      BY <3>2 DEF Spare
    <3> QED
      BY <1>1, <2>3, <3>3 DEF FiniteFacts, FiniteEmpty
  <2> QED
    BY <1>4, <2>1, <2>2, <2>3
<1> QED
  BY <1>2, <1>3, <1>4 DEF ReserveInv

\* A call ends: what it had reserved and not used is given up.
LEMMA SpareEnds ==
  ASSUME FiniteFacts, IInv, ReserveInv, NEW p \in Proc, pc[p] = "op",
         wrote' = [wrote EXCEPT ![p] = {}], lh' = lh, boot' = boot,
         pc'[p] # "op", \A q \in Proc : pc'[q] # "panic",
         \A q \in Proc : q # p => (pc'[q] = "op" <=> pc[q] = "op")
  PROVE  ReserveInv'
<1> USE LogAssumption DEF LogAssumption
<1>1. wrote'[p] = {} /\ \A q \in Proc : q # p => wrote'[q] = wrote[q]
  BY DEF IInv, TypeOK
<1>2. Spare' \subseteq Spare
  BY <1>1 DEF Spare
<1>3. Cardinality(Spare') <= Cardinality(Spare) /\ Cardinality(Spare) \in Nat
      /\ Cardinality(Spare') \in Nat
  BY <1>2, SpareFinite DEF Spare
<1>4. \A q \in Proc :
        /\ IsFiniteSet(wrote'[q]) /\ Cardinality(wrote'[q]) <= OPBLOCKS
        /\ pc'[q] = "op" => wrote'[q] \subseteq Logged(lh')
        /\ pc'[q] # "op" => wrote'[q] = {}
  BY <1>1 DEF FiniteFacts, FiniteEmpty, ReserveInv
<1>5. boot' = "up" => Len(lh') + Cardinality(Spare') <= LOGSIZE
  BY <1>3 DEF ReserveInv, IInv, TypeOK
<1> QED
  BY <1>4, <1>5 DEF ReserveInv, NoPanic

\* begin_op admits a call only when the log has room for the whole of it.
LEMMA SpareBegins ==
  ASSUME FiniteFacts, IInv, IInv', ReserveInv, NEW p \in Proc, begin_op(p)
  PROVE  ReserveInv'
<1> USE LogAssumption DEF LogAssumption
<1>1. UNCHANGED <<lh, wrote, boot>> /\ outstanding' = outstanding + 1 /\ ~NoSpace
      /\ wrote[p] = {}
  BY DEF begin_op, ReserveInv, disk
<1>2. pc'[p] = "op" /\ \A q \in Proc : q # p => pc'[q] = pc[q]
  BY DEF begin_op, IInv, TypeOK
<1>3. Spare' \in SUBSET (InCall' \X (1..MAXOPBLOCKS)) /\ InCall' \in SUBSET Proc
  BY DEF Spare, InCall
<1>4. Cardinality(Spare') <= Cardinality(InCall') * MAXOPBLOCKS
  BY <1>3, SpareBound
<1>5. Cardinality(InCall') = outstanding + 1
  BY <1>1 DEF IInv, CallInv
<1>6. Len(lh') + Cardinality(Spare') <= LOGSIZE
  <2>1. Cardinality(Spare') \in Nat
    BY SpareFinite DEF Spare
  <2>2. Len(lh) \in Nat /\ outstanding \in Nat
    BY DEF IInv, TypeOK
  <2>3. Len(lh) + (outstanding + 1) * MAXOPBLOCKS <= LOGSIZE
    BY <1>1, <2>2 DEF NoSpace
  <2> QED
    BY <1>1, <1>4, <1>5, <2>1, <2>2, <2>3
<1>7. \A q \in Proc :
        /\ IsFiniteSet(wrote'[q]) /\ Cardinality(wrote'[q]) <= OPBLOCKS
        /\ pc'[q] = "op" => wrote'[q] \subseteq Logged(lh')
        /\ pc'[q] # "op" => wrote'[q] = {}
  BY <1>1, <1>2 DEF ReserveInv
<1>8. NoPanic'
  BY <1>2 DEF NoPanic, ReserveInv
<1> QED
  BY <1>6, <1>7, <1>8 DEF ReserveInv

\* log_write uses up one block of the reservation when it extends the header.
LEMMA SpareWrites ==
  ASSUME FiniteFacts, Fits, IInv, ReserveInv, NEW p \in Proc, NEW b \in Block, NEW v \in Value,
         log_write(p, b, v)
  PROVE  ReserveInv'
<1> USE LogAssumption DEF LogAssumption
<1>1. pc[p] = "op" /\ ~TooBig /\ outstanding >= 1 /\ boot = "up"
  BY RoomToWrite DEF log_write
<1>2. ~(TooBig \/ outstanding < 1)
  BY <1>1 DEF IInv, TypeOK
<1>3. /\ lh' = IF b \in Logged(lh) THEN lh ELSE Append(lh, b)
      /\ wrote' = [wrote EXCEPT ![p] = @ \cup {b}]
      /\ pc' = pc /\ boot' = boot
      /\ Cardinality(wrote[p] \cup {b}) <= OPBLOCKS
  BY <1>2 DEF log_write
<1>4. wrote'[p] = wrote[p] \cup {b} /\ \A q \in Proc : q # p => wrote'[q] = wrote[q]
  BY <1>3 DEF IInv, TypeOK
<1>5. Logged(lh') = Logged(lh) \cup {b} /\ lh \in Seq(Block)
  BY <1>3, LoggedAppend DEF IInv, TypeOK
<1>6. IsFiniteSet(wrote[p]) /\ wrote[p] \subseteq Logged(lh)
  BY <1>1 DEF ReserveInv
<1>7. /\ IsFiniteSet(wrote'[p]) /\ Cardinality(wrote[p]) \in Nat
      /\ Cardinality(wrote'[p]) = IF b \in wrote[p] THEN Cardinality(wrote[p])
                                  ELSE Cardinality(wrote[p]) + 1
  BY <1>4, <1>6 DEF FiniteFacts, FiniteAdd, FiniteCount
<1>8. \A q \in Proc :
        /\ IsFiniteSet(wrote'[q]) /\ Cardinality(wrote'[q]) <= OPBLOCKS
        /\ pc'[q] = "op" => wrote'[q] \subseteq Logged(lh')
        /\ pc'[q] # "op" => wrote'[q] = {}
  <2> TAKE q \in Proc
  <2>1. CASE q = p
    BY <1>1, <1>3, <1>4, <1>5, <1>6, <1>7, <2>1, ZenonT(30)
  <2>2. CASE q # p
    BY <1>3, <1>4, <1>5, <2>2 DEF ReserveInv
  <2> QED
    BY <2>1, <2>2
<1>9. Cardinality(Spare) \in Nat /\ Cardinality(Spare') \in Nat /\ Len(lh) \in Nat
      /\ IsFiniteSet(Spare)
  BY <1>5, SpareFinite DEF Spare
<1>10. Len(lh') + Cardinality(Spare') <= LOGSIZE
  <2>0. Len(lh) + Cardinality(Spare) <= LOGSIZE
    BY <1>1 DEF ReserveInv
  <2>1. CASE b \in wrote[p]
    <3>1. wrote' = wrote /\ lh' = lh
      BY <1>3, <1>6, <2>1 DEF IInv, TypeOK
    <3>2. Spare' = Spare
      BY <1>3, <3>1, Zenon DEF Spare
    <3> QED
      BY <2>0, <3>1, <3>2
  <2>2. CASE b \notin wrote[p]
    <3> DEFINE x == <<p, Cardinality(wrote[p]) + 1>>
    <3>1. Cardinality(wrote[p]) + 1 \in 1..MAXOPBLOCKS
      <4>1. Cardinality(wrote'[p]) <= OPBLOCKS
        BY <1>3, <1>4, Zenon
      <4> QED
        BY <1>7, <2>2, <4>1 DEF Fits
    <3>2. x \in Spare
      BY <1>1, <1>7, <3>1 DEF Spare
    <3>3. Spare' \subseteq Spare \ {x}
      <4> SUFFICES ASSUME NEW y \in Spare' PROVE y \in Spare \ {x}
        OBVIOUS
      <4>1. y \in Proc \X (1..MAXOPBLOCKS) /\ pc[y[1]] = "op"
            /\ Cardinality(wrote'[y[1]]) < y[2]
        BY <1>3 DEF Spare
      <4>2. CASE y[1] = p
        BY <1>7, <2>2, <4>1, <4>2 DEF Spare
      <4>3. CASE y[1] # p
        BY <1>4, <4>1, <4>3 DEF Spare
      <4> QED
        BY <4>2, <4>3
    <3>4. Cardinality(Spare \ {x}) = Cardinality(Spare) - 1
          /\ IsFiniteSet(Spare \ {x})
      BY <1>9, <3>2, SMTT(30) DEF FiniteFacts, FiniteRemove, FiniteSubset
    <3>5. Cardinality(Spare') <= Cardinality(Spare \ {x})
      BY <3>3, <3>4 DEF FiniteFacts, FiniteSubset
    <3>6. Len(lh') <= Len(lh) + 1 /\ Len(lh') \in Nat
      BY <1>3, <1>5
    <3> HIDE DEF x
    <3> QED
      BY <1>9, <2>0, <3>4, <3>5, <3>6
  <2> QED
    BY <2>1, <2>2
<1>11. NoPanic'
  BY <1>3 DEF NoPanic, ReserveInv
<1> QED
  BY <1>8, <1>10, <1>11 DEF ReserveInv

\* A call that has written nothing.
LEMMA NoneWritten == ASSUME FiniteFacts PROVE IsFiniteSet({}) /\ Cardinality({}) <= OPBLOCKS
<1>1. IsFiniteSet({}) /\ Cardinality({}) = 0
  BY DEF FiniteFacts, FiniteEmpty
<1> QED
  BY <1>1, LogAssumption DEF LogAssumption

\* A block that a call may write always finds room: the space that begin_op
\* reserves is enough.
LEMMA ReserveNext ==
  ASSUME FiniteFacts, Fits, IInv, IInv', ReserveInv, [Next]_vars
  PROVE  ReserveInv'
<1> USE LogAssumption DEF LogAssumption
<1>0. /\ pc \in [Proc -> PCs] /\ wrote \in [Proc -> SUBSET Block]
      /\ Len(lh) \in Nat /\ Len(lh') \in Nat
      /\ \A p \in Proc : pc[p] # "panic"
  BY DEF IInv, TypeOK, ReserveInv, NoPanic
<1>1. ASSUME UNCHANGED vars PROVE ReserveInv'
  <2>1. UNCHANGED <<pc, wrote, lh, boot>>
    BY <1>1 DEF vars
  <2> QED
    BY <1>0, <2>1, SpareSame
<1>2. ASSUME NEW p \in Proc, begin_op_sleep(p) PROVE ReserveInv'
  <2>1. /\ UNCHANGED <<wrote, lh, boot>> /\ pc[p] \in {"idle", "woken"}
        /\ pc'[p] = "asleep" /\ \A q \in Proc : q # p => pc'[q] = pc[q]
    BY <1>0, <1>2 DEF begin_op_sleep, disk
  <2> QED
    BY <1>0, <2>1, SpareSame
<1>3. ASSUME NEW p \in Proc, begin_op(p) PROVE ReserveInv'
  BY <1>3, SpareBegins
<1>4. ASSUME NEW p \in Proc, NEW b \in Block, NEW v \in Value, log_write(p, b, v)
      PROVE  ReserveInv'
  BY <1>4, SpareWrites
<1>5. ASSUME NEW p \in Proc, end_op(p) PROVE ReserveInv'
  <2>1. ~committing
    BY <1>5 DEF IInv, CallInv, InCall, end_op
  <2>2. /\ pc'[p] = "idle"
        /\ \A q \in Proc : q # p =>
             pc'[q] = IF pc[q] = "asleep" THEN "woken" ELSE pc[q]
    BY <1>0, <1>5, <2>1 DEF end_op, Wake
  <2> QED
    BY <1>0, <1>5, <2>2, SpareEnds, ZenonT(30) DEF end_op, disk
<1>6. ASSUME NEW p \in Proc, end_op_last(p) PROVE ReserveInv'
  <2>1. ~committing
    BY <1>6 DEF IInv, CallInv, InCall, end_op_last
  <2>2. pc'[p] \in {"write_log", "committed"} /\ \A q \in Proc : q # p => pc'[q] = pc[q]
    BY <1>0, <1>6, <2>1 DEF end_op_last, CommitStart
  <2> QED
    BY <1>0, <1>6, <2>2, SpareEnds, ZenonT(30) DEF end_op_last, disk
<1>7. ASSUME NEW p \in Proc, write_log(p) \/ commit_point(p) \/ install_trans(p)
      PROVE  ReserveInv'
  <2>1. UNCHANGED <<wrote, lh, boot>>
    BY <1>7 DEF write_log, commit_point, install_trans
  <2>2. \A q \in Proc : \/ pc'[q] = pc[q]
                        \/ pc[q] = "write_log" /\ pc'[q] = "install"
    BY <1>0, <1>7 DEF write_log, commit_point, install_trans
  <2> QED
    BY <1>0, <2>1, <2>2, SpareSame, SMTT(30)
<1>8. ASSUME NEW p \in Proc, erase_log(p) PROVE ReserveInv'
  <2>1. pc[p] = "install" /\ lh' = << >> /\ wrote' = wrote /\ boot' = boot
        /\ pc' = [pc EXCEPT ![p] = "committed"]
    BY <1>8 DEF erase_log, EraseLog
  <2>2. \A q \in Proc : pc[q] # "op"
    BY <2>1 DEF IInv, CallInv, InCall, InCommit
  <2>3. Len(lh') = 0
    BY <2>1
  <2> QED
    BY <1>0, <2>1, <2>2, <2>3, SpareSame
<1>9. ASSUME NEW p \in Proc, end_commit(p) PROVE ReserveInv'
  <2>1. \A q \in Proc : pc'[q] = IF q = p THEN "idle"
                                 ELSE IF pc[q] = "asleep" THEN "woken" ELSE pc[q]
    BY <1>0, <1>9 DEF end_commit, Wake
  <2>2. pc[p] = "committed" /\ UNCHANGED <<lh, wrote, boot>>
    BY <1>9 DEF end_commit, disk
  <2>3. \A q \in Proc : /\ pc'[q] = "op" <=> pc[q] = "op"
                        /\ pc'[q] # "panic"
    BY <1>0, <2>1, <2>2
  <2> QED
    BY <1>0, <2>2, <2>3, SpareSame
<1>10. ASSUME NEW b \in Block, evict(b) PROVE ReserveInv'
  BY <1>1, <1>10, EvictStep
<1>11. CASE crash
  <2>1. boot' # "up" /\ \A p \in Proc : pc'[p] = "idle" /\ wrote'[p] = {}
    BY <1>11, SMTT(30) DEF crash
  <2>2. NoPanic'
    BY <2>1 DEF NoPanic
  <2> QED
    BY <2>1, <2>2, NoneWritten, Zenon DEF ReserveInv
<1>12. CASE recover_from_log
  <2>1. boot # "up" /\ pc' = pc /\ wrote' = wrote
    BY <1>12 DEF recover_from_log, read_head, recover_install, recover_erase
  <2>2. \A p \in Proc : pc[p] = "idle"
    BY <2>1 DEF IInv, CallInv
  <2>3. boot' = "up" => Len(lh') = 0
    BY <1>12 DEF recover_from_log, read_head, recover_install, recover_erase, EraseLog
  <2>4. Spare' = {}
    BY <2>1, <2>2 DEF Spare
  <2>5. boot' = "up" => Len(lh') + Cardinality(Spare') <= LOGSIZE
    <3>1. Cardinality(Spare') = 0
      BY <2>4 DEF FiniteFacts, FiniteEmpty
    <3> QED
      BY <2>3, <3>1
  <2>6. \A p \in Proc : pc'[p] = "idle" /\ wrote'[p] = {}
    BY <2>1, <2>2 DEF ReserveInv
  <2>7. NoPanic'
    BY <2>6 DEF NoPanic
  <2> QED
    BY <2>5, <2>6, <2>7, NoneWritten, ZenonT(30) DEF ReserveInv
<1> QED
  BY <1>1, <1>2, <1>3, <1>4, <1>5, <1>6, <1>7, <1>8, <1>9, <1>10, <1>11, <1>12, SMTT(30)
     DEF Next, ProcNext, commit

\* A reference is taken when a block enters the header, given back when its home
\* copy is written, and lost in a crash.
LEMMA PinNext ==
  ASSUME FiniteFacts, Fits, IInv, IInv', ReserveInv, PinExact, [Next]_vars
  PROVE  PinExact'
<1> USE LogAssumption DEF LogAssumption
<1>0. /\ pc \in [Proc -> PCs] /\ pins \in [Block -> Nat] /\ tail \in Nat
      /\ lh \in Seq(Block) /\ Len(lh) \in Nat /\ Distinct(lh)
      /\ \A p \in Proc : pc[p] # "panic"
      /\ Installed \in Nat
  BY SMTT(30) DEF IInv, TypeOK, HeaderInv, ReserveInv, NoPanic, Installed
<1>1. ASSUME UNCHANGED <<pins, lh, boot>>, Installed' = Installed PROVE PinExact'
  BY <1>1 DEF PinExact, Uninstalled
<1>2. ASSUME UNCHANGED tail, \A p \in Proc : pc'[p] = "install" <=> pc[p] = "install"
      PROVE  Installed' = Installed
  BY <1>2 DEF Installed
<1>3. CASE UNCHANGED vars
  BY <1>1, <1>2, <1>3 DEF vars
<1>4. ASSUME NEW p \in Proc, begin_op_sleep(p) \/ begin_op(p) PROVE PinExact'
  BY <1>0, <1>1, <1>2, <1>4 DEF begin_op_sleep, begin_op, disk
<1>5. ASSUME NEW p \in Proc, NEW b \in Block, NEW v \in Value, log_write(p, b, v)
      PROVE  PinExact'
  <2>1. pc[p] = "op" /\ ~TooBig /\ outstanding >= 1 /\ boot = "up"
    BY <1>5, RoomToWrite DEF log_write
  <2>2. ~(TooBig \/ outstanding < 1)
    BY <2>1 DEF IInv, TypeOK
  <2>3. /\ b \in Logged(lh) => UNCHANGED <<pins, lh>>
        /\ b \notin Logged(lh) => pins' = bpin(b) /\ lh' = Append(lh, b)
        /\ pc' = pc /\ UNCHANGED <<tail, boot>>
    BY <1>5, <2>2 DEF log_write
  <2>4. Installed' = Installed
    BY <1>2, <2>3
  <2>5. CASE b \in Logged(lh)
    BY <1>1, <2>3, <2>4, <2>5
  <2>6. CASE b \notin Logged(lh)
    <3>1. \A q \in Proc : pc[q] # "install"
      BY <2>1 DEF IInv, CallInv, InCall, InCommit
    <3>2. Installed = 0
      BY <3>1 DEF Installed
    <3>3. Uninstalled = Logged(lh) /\ Uninstalled' = Logged(lh')
      BY <2>4, <3>2 DEF Uninstalled, Logged
    <3>4. Uninstalled' = Uninstalled \cup {b} /\ b \notin Uninstalled
      BY <1>0, <2>3, <2>6, <3>3, LoggedAppend, ZenonT(30)
    <3>5. pins'[b] = pins[b] + 1 /\ \A c \in Block : c # b => pins'[c] = pins[c]
      BY <1>0, <2>3, <2>6 DEF bpin
    <3> QED
      BY <2>1, <2>3, <3>4, <3>5, SMTT(30) DEF PinExact
  <2> QED
    BY <2>5, <2>6
<1>6. ASSUME NEW p \in Proc, end_op(p) PROVE PinExact'
  <2>1. \A q \in Proc : pc'[q] = "install" <=> pc[q] = "install"
    <3>1. CASE committing
      BY <1>0, <1>6, <3>1 DEF end_op
    <3>2. CASE ~committing
      BY <1>0, <1>6, <3>2 DEF end_op, Wake
    <3> QED
      BY <3>1, <3>2
  <2> QED
    BY <1>1, <1>2, <1>6, <2>1, ZenonT(30) DEF end_op, disk
<1>7. ASSUME NEW p \in Proc, end_op_last(p) PROVE PinExact'
  <2>1. \A q \in Proc : pc[q] # "install" /\ pc'[q] # "install"
    BY <1>0, <1>7 DEF IInv, CallInv, InCall, InCommit, end_op_last, CommitStart
  <2>2. Installed = 0 /\ Installed' = 0
    BY <2>1, SMTT(30) DEF Installed
  <2> QED
    BY <1>1, <1>7, <2>2, SMTT(30) DEF end_op_last, disk
<1>8. ASSUME NEW p \in Proc, write_log(p) \/ commit_point(p) PROVE PinExact'
  <2>1. \A q \in Proc : pc[q] # "install"
    BY <1>8 DEF IInv, CallInv, InCommit, write_log, commit_point
  <2>2. Installed = 0
    BY <2>1, SMTT(30) DEF Installed
  <2>3. Installed' = 0
    BY <1>8, <2>1 DEF Installed, write_log, commit_point
  <2> QED
    BY <1>1, <1>8, <2>2, <2>3, SMTT(30) DEF write_log, commit_point
<1>9. ASSUME NEW p \in Proc, install_trans(p) PROVE PinExact'
  <2> DEFINE b == lh[tail + 1]
  <2>1. /\ pc[p] = "install" /\ pc' = pc /\ lh' = lh /\ boot' = boot
        /\ tail < Len(lh) /\ tail' = tail + 1 /\ pins' = [pins EXCEPT ![b] = @ - 1]
    BY <1>9 DEF install_trans, InstallOne, bunpin
  <2>2. Installed = tail /\ Installed' = tail + 1
    BY <2>1 DEF Installed
  <2>3. boot = "up"
    BY <2>1 DEF IInv, CallInv
  <2>4. b \in Block
    BY <1>0, <2>1, SMTT(30)
  <2>5. Uninstalled = Uninstalled' \cup {b} /\ b \notin Uninstalled'
    BY <1>0, <2>1, <2>2, SMTT(30) DEF Uninstalled, Distinct
  <2>6. pins'[b] = pins[b] - 1 /\ \A c \in Block : c # b => pins'[c] = pins[c]
    BY <1>0, <2>1, <2>4
  <2> HIDE DEF b
  <2> QED
    BY <1>0, <2>1, <2>3, <2>4, <2>5, <2>6, SMTT(30) DEF PinExact
<1>10. ASSUME NEW p \in Proc, erase_log(p) PROVE PinExact'
  <2>1. /\ pc[p] = "install" /\ boot' = boot /\ tail = Len(lh) /\ pins' = pins
        /\ lh' = << >> /\ tail' = 0
    BY <1>10 DEF erase_log, EraseLog
  <2>2. Installed = Len(lh)
    BY <2>1 DEF Installed
  <2>3. Uninstalled = {}
    BY <1>0, <2>2 DEF Uninstalled
  <2>4. Installed' = 0 /\ Len(lh') = 0
    BY <2>1 DEF Installed
  <2>5. Uninstalled' = {}
    BY <2>4 DEF Uninstalled
  <2> QED
    BY <2>1, <2>3, <2>5 DEF PinExact
<1>11. ASSUME NEW p \in Proc, end_commit(p) PROVE PinExact'
  <2>1. \A q \in Proc : pc'[q] = "install" <=> pc[q] = "install"
    BY <1>0, <1>11, SMTT(30) DEF end_commit, Wake
  <2> QED
    BY <1>1, <1>2, <1>11, <2>1, ZenonT(30) DEF end_commit, disk
<1>12. ASSUME NEW b \in Block, evict(b) PROVE PinExact'
  BY <1>1, <1>2, <1>12 DEF evict, disk
<1>13. CASE crash
  BY <1>13 DEF PinExact, crash
<1>14. CASE recover_from_log
  <2>1. boot # "up" /\ pc' = pc /\ pins' = pins /\ \A b \in Block : pins[b] = 0
    BY <1>14 DEF recover_from_log, read_head, recover_install, recover_erase, PinExact
  <2>2. \A p \in Proc : pc[p] = "idle"
    BY <2>1 DEF IInv, CallInv
  <2>3. Installed' = 0
    BY <2>1, <2>2 DEF Installed
  <2>4. boot' = "up" => Len(lh') = 0
    BY <1>14 DEF recover_from_log, read_head, recover_install, recover_erase, EraseLog
  <2>5. boot' = "up" => Uninstalled' = {}
    BY <2>3, <2>4 DEF Uninstalled
  <2> QED
    BY <2>1, <2>5 DEF PinExact
<1> QED
  BY <1>3, <1>4, <1>5, <1>6, <1>7, <1>8, <1>9, <1>10, <1>11, <1>12, <1>13, <1>14, SMTT(30)
     DEF Next, ProcNext, commit

\* Both hold of a machine that boots.
LEMMA ReserveInit == ASSUME FiniteFacts PROVE Init => ReserveInv /\ PinExact
<1> SUFFICES ASSUME Init PROVE ReserveInv /\ PinExact
  OBVIOUS
<1> USE LogAssumption DEF LogAssumption
<1>1. PinExact
  BY DEF Init, PinExact
<1>2. boot # "up" /\ \A p \in Proc : pc[p] = "idle" /\ wrote[p] = {}
  BY DEF Init
<1>3. ReserveInv
  BY <1>2, NoneWritten, Zenon DEF ReserveInv, NoPanic
<1> QED
  BY <1>1, <1>3

\* The blocks of a header are distinct, so it holds a block once or not at all.
LEMMA CountOnce ==
  ASSUME FiniteFacts, NEW s \in Seq(Block), Distinct(s), NEW n \in Nat, NEW b \in Block
  PROVE  Cardinality({i \in (n + 1)..Len(s) : s[i] = b})
           = IF b \in {s[i] : i \in (n + 1)..Len(s)} THEN 1 ELSE 0
<1> DEFINE I == {i \in (n + 1)..Len(s) : s[i] = b}
<1>1. CASE b \in {s[i] : i \in (n + 1)..Len(s)}
  <2>1. PICK i \in (n + 1)..Len(s) : s[i] = b
    BY <1>1
  <2>2. I = {i}
    BY <2>1 DEF Distinct
  <2>3. Cardinality({i}) = 1
    BY Zenon DEF FiniteFacts, FiniteSingleton
  <2> QED
    BY <1>1, <2>2, <2>3, Zenon
<1>2. CASE b \notin {s[i] : i \in (n + 1)..Len(s)}
  <2>1. I = {}
    BY <1>2
  <2> QED
    BY <1>2, <2>1, Zenon DEF FiniteFacts, FiniteEmpty
<1> QED
  BY <1>1, <1>2

\* The pins the invariant counts are the ones the property counts.
LEMMA PinnedFromInv == ASSUME FiniteFacts PROVE IInv /\ PinExact => PinnedWhileLogged
<1> SUFFICES ASSUME IInv, PinExact, boot = "up", NEW b \in Block
             PROVE  pins[b] = Cardinality({i \in (Installed + 1)..Len(lh) : lh[i] = b})
  BY Zenon DEF PinnedWhileLogged, Installed
<1>1. lh \in Seq(Block) /\ Distinct(lh) /\ Installed \in Nat
  BY DEF IInv, TypeOK, HeaderInv, Installed
<1> QED
  BY <1>1, CountOnce, SMTT(30) DEF PinExact, Uninstalled

-----------------------------------------------------------------------------
(* The facts about finite sets, from the library *)

Library == INSTANCE FiniteSetTheorems

LEMMA SameFinite == ASSUME NEW S PROVE IsFiniteSet(S) <=> Library!IsFiniteSet(S)
  BY DEF IsFiniteSet, Library!IsFiniteSet

LEMMA SameCount == ASSUME NEW S PROVE Cardinality(S) = Library!Cardinality(S)
  BY DEF Cardinality, Library!Cardinality

LEMMA FiniteFactsHold == FiniteFacts
<1>1. FiniteCount
  BY SameFinite, SameCount, Library!FS_CardinalityType DEF FiniteCount
<1>2. FiniteEmpty
  BY SameFinite, SameCount, Library!FS_EmptySet, ZenonT(30) DEF FiniteEmpty
<1>3. FiniteSingleton
  BY SameFinite, SameCount, Library!FS_Singleton, ZenonT(30) DEF FiniteSingleton
<1>4. FiniteAdd
  BY SameFinite, SameCount, Library!FS_AddElement, SMTT(30) DEF FiniteAdd
<1>5. FiniteRemove
  BY SameFinite, SameCount, Library!FS_RemoveElement, SMTT(30) DEF FiniteRemove
<1>6. FiniteSubset
  BY SameFinite, SameCount, Library!FS_Subset, SMTT(30) DEF FiniteSubset
<1>7. FiniteUnion
  BY SameFinite, SameCount, Library!FS_Union, SMTT(30) DEF FiniteUnion
<1>8. FiniteMinus
  BY SameFinite, SameCount, Library!FS_Difference, SMTT(30) DEF FiniteMinus
<1>9. FiniteInterval
  BY SameFinite, SameCount, Library!FS_Interval, SMTT(30) DEF FiniteInterval
<1>10. FiniteProduct
  BY SameFinite, SameCount, Library!FS_Product, SMTT(30) DEF FiniteProduct
<1>11. FiniteImage
  BY SameFinite, SameCount, Library!FS_Surjection, ZenonT(30) DEF FiniteImage, Library!Surjection
<1>12. FiniteInjection
  BY SameFinite, SameCount, Library!FS_Injection, ZenonT(30)
  DEF FiniteInjection, Library!Injection, Library!IsInjective
<1>13. NatSmallest
  <2> SUFFICES ASSUME NEW S \in SUBSET Nat, S # {}
               PROVE  \E x \in S : \A y \in S : x <= y
    BY DEF NatSmallest
  <2> DEFINE R == Library!OpToRel(<, Nat)
  <2>1. Library!IsWellFoundedOn(R, Nat)
    BY Library!NatLessThanWellFounded, ZenonT(30)
  <2>2. \A x, y \in Nat : x < y => <<x, y>> \in R
    BY DEF Library!OpToRel
  <2> HIDE DEF R
  <2>3. PICK x \in S : \A y \in S : ~(<<y, x>> \in R)
    BY <2>1, Library!WFMin, ZenonT(30)
  <2>4. \A y \in S : ~(y < x)
    BY <2>2, <2>3, ZenonT(30)
  <2>5. \A y \in S : x <= y
    BY <2>4
  <2> QED
    BY <2>5
<1>14. FiniteCount /\ FiniteEmpty /\ FiniteSingleton /\ FiniteAdd /\ FiniteRemove /\ FiniteSubset
  BY <1>1, <1>2, <1>3, <1>4, <1>5, <1>6, SMTT(30)
<1>15. FiniteUnion /\ FiniteMinus /\ FiniteInterval /\ FiniteProduct /\ FiniteImage
  BY <1>7, <1>8, <1>9, <1>10, <1>11, SMTT(30)
<1> QED
  BY <1>12, <1>13, <1>14, <1>15, SMTT(30) DEF FiniteFacts

-----------------------------------------------------------------------------
(* The theorems *)

\* The inductive invariant of the log holds in every reachable state.
THEOREM LogInvariant == Spec => []IInv
<1>1. Init => IInv
  BY FiniteFactsHold, IInvInit
<1>2. IInv /\ [Next]_vars => IInv'
  BY FiniteFactsHold, IInvNext
<1> QED
  BY <1>1, <1>2, PTL DEF Spec

\* The variables of log.c keep their types: in particular bunpin never takes a
\* reference count below zero (log.c:79) and end_op never takes
\* log.outstanding below zero (log.c:152).
THEOREM LogTypeOK == Spec => []TypeOK
<1>1. IInv => TypeOK
  BY DEF IInv
<1> QED
  BY <1>1, LogInvariant, PTL

\* When the last end_op of a group returns (log.c:166-173), everything that any
\* finished call wrote is on disk at its home location and the log is empty.
THEOREM LogDurable == Spec => []DurableOnReturn
<1>1. IInv => DurableOnReturn
  BY FiniteFactsHold, DurableFromInv
<1> QED
  BY <1>1, LogInvariant, PTL

\* The write-ahead rule (commit, log.c:196-201): a home block changes only while a valid
\* header on disk names it, whatever the interleaving and wherever it crashes.
THEOREM LogWriteAhead == Spec => WriteAhead
<1>1. IInv /\ [Next]_vars
        => [\A b \in Block : home'[b] # home[b] => b \in Logged(dhead)]_vars
  BY FiniteFactsHold, WriteAheadStep
<1> QED
  BY <1>1, LogInvariant, PTL DEF Spec, WriteAhead

\* Crash safety (log.c:10-31, commit, recover_from_log): the log implements the
\* disk on which the writes of a group of complete calls become durable in one
\* step, for any number of processes and blocks and any sizes.
THEOREM LogCrashAtomic == Spec => CrashAtomic
<1>1. Init => Abs!Init
  BY FiniteFactsHold, AtomicInit, SMTT(30)
<1>2. IInv /\ IInv' /\ [Next]_vars => [Abs!Next]_(Abs!vars)
  BY FiniteFactsHold, AtomicStep
<1> QED
  BY <1>1, <1>2, LogInvariant, PTL DEF Spec, CrashAtomic, Abs!Spec

\* A call that leaves two blocks of its reservation unused never panics, although
\* mkfs makes the log one block shorter than begin_op assumes (log.c:133, 220;
\* mkfs.c:25), however the calls interleave and absorb each other's writes.
THEOREM LogNoPanic == Fits => (Spec => []NoPanic)
<1> SUFFICES ASSUME Fits PROVE Spec => []NoPanic
  OBVIOUS
<1>1. IInv /\ IInv' /\ ReserveInv /\ [Next]_vars => ReserveInv'
  BY FiniteFactsHold, ReserveNext
<1>0. Init => ReserveInv /\ PinExact
  BY FiniteFactsHold, ReserveInit
<1>2. ReserveInv => NoPanic
  BY DEF ReserveInv
<1> QED
  BY <1>1, <1>0, <1>2, LogInvariant, PTL DEF Spec

\* A buffer holds exactly one reference of the log while its block is in the
\* header and not installed, and none otherwise (log_write's bpin, log.c:231;
\* install_trans's bunpin, log.c:79): bget cannot recycle the only copy of a
\* logged block, and no buffer stays pinned after the commit.
THEOREM LogPinned == Fits => (Spec => []PinnedWhileLogged)
<1> SUFFICES ASSUME Fits PROVE Spec => []PinnedWhileLogged
  OBVIOUS
<1>1. /\ IInv /\ IInv' /\ ReserveInv /\ [Next]_vars => ReserveInv'
      /\ IInv /\ IInv' /\ ReserveInv /\ PinExact /\ [Next]_vars => PinExact'
  BY FiniteFactsHold, ReserveNext, PinNext
<1>2. IInv /\ PinExact => PinnedWhileLogged
  BY FiniteFactsHold, PinnedFromInv
<1>3. Init => ReserveInv /\ PinExact
  BY FiniteFactsHold, ReserveInit
<1> QED
  BY <1>1, <1>2, <1>3, LogInvariant, PTL DEF Spec
=============================================================================
